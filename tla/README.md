# ProtoForge in TLA+

ProtoForge simulates industrial devices (PLCs, cameras, sensors): it keeps a
catalogue of devices, generates their point values in a tick loop, serves them
through sixteen protocol servers, groups them into scenarios, injects faults, and
forwards what happens to other systems. This directory holds the TLA+ modules
that model the parts of it where the order of events matters, the TLC runs that
check them on small instances, and the TLAPS proofs that hold for all instances.

All paths below are under `src/protoforge/` unless they say otherwise.

## 1. Running it

    tlc -config LifecycleManaged.cfg MCDeviceLifecycle     # a run: cfg and module
    tlapm DeviceCatalogueProofs.tla                        # the proofs of a module

`PROJECT.json` lists the runs with their modules, which lines of the source each
definition stands for (`map`), which small change of which definition makes each
property fail (`mutants`; the changed forms stand in the modules under a comment
that begins with *Broken:* and are used by nothing else), and the theorems.
Runs whose names the table in section 5 marks *violated* are meant to fail.

## 2. The system

One Python process with one asyncio event loop. All REST and gRPC handlers, the
tick loop, the forward loop and the integration tasks are coroutines of that
loop, so code between two `await`s that really suspend is atomic, and everything
that can go wrong between coroutines goes wrong at a suspension. What really
suspends: the database (`aiosqlite`, one connection, statements in the order they
were issued), outgoing HTTP and WebSocket traffic, sleeps, and the `create_device` /
`remove_device` of the servers for OPC UA, GB28181 and (removal) MQTT. The other
servers only take a lock nobody holds across a suspension. `publish_safe` of the
event bus does not suspend: it runs plain callbacks at once and turns coroutine
callbacks into tasks, which may overtake each other.

| Component | Source | State it keeps | Operations | What makes it correct |
|---|---|---|---|---|
| Device state machine | `engine/state_machine.py` | `_state`, `_state_enter_time`, `_fault_cleared` | `trigger`, `fault`, `reset`, conditions of rules | RUN only through a full startup; ERROR left only when the fault was cleared |
| Device instance | `engine/device.py` | state machine, `_stopping_enter_time`, values, write freezes, fault injector | `start`, `stop`, `fault`, `reset`, `tick`, `read_point`, `write_point` | startups and stopping sequences take their time and end |
| Fault injector | `simulation/fault/injector.py` | list of active faults | add, activate, deactivate, remove, clear, `apply` (drops expired ones) | an active DEVICE_FAILURE is an ERROR; lifting it resets |
| Engine: catalogue | `engine/engine.py`, `api/v1/device_routes.py` | `_devices`; rows of `devices`; events published | create, delete, update; restore at start-up | memory, database and subscribers agree |
| Engine: serving | `engine/engine.py`, `protocols/*/server.py` | server status, devices registered with the server | `start_protocol`, `stop_protocol`, `start_device`, `stop_device` | a started device can be reached; a stopped one stops |
| Engine: scenarios | `engine/engine.py`, `api/v1/scenario_routes.py` | `_scenarios`, `_scenario_status`, `_scenario_instances` | create, update, start, stop, delete | shown as running = evaluated by the tick loop; failed starts leave nothing |
| Scenario and collaboration rules | `simulation/scenario.py`, `simulation/collaboration.py` | cooldowns, previous values, timers | one evaluation per tick | each rule sees each change once; a tick ends |
| Fault propagation | `simulation/fault/propagation.py` | triggered marks | one check per device and tick | one fault per crossing |
| Log bus and forward engine | `observability/log_bus.py`, `integrations/forward.py` | bounded queue, targets, batch in hand | `emit`; `start`, `stop`, `add_target`, `remove_target`; the loop | newest entries kept, batches in order, rounds end |
| Event bus | `engine/event_bus.py` | subscribers, bounded queues | `publish`, `publish_safe` | no event lost but the oldest of a full queue |
| Integration manager | `integrations/integration/*.py` | connection, retry queue, push and collect tasks | push, reconnect, flush, alarm reactions | EdgeLite mirrors the catalogue; nothing is retried for ever or lost silently |
| Webhooks | `integrations/webhook.py` | queue, last triggers, error counts | trigger, deliver, disable | limits count what they say |
| Rate limiter | `api/v1/rate_limit.py` | times of recent requests per client and path | admit, refuse, clean up | at most the limit per window; Retry-After is long enough |
| Failover | `engine/failover.py` | role, failure counter | check, promote | one primary |
| Database | `db/session.py` | one connection | statements | order of issue |

How they interact. A route calls the engine; the engine changes its dictionaries
at once, then talks to the protocol server, publishes an event, and returns to the
route, which writes the database; `remove_device` writes the database itself. The tick
loop (`engine.py` 1034-1093) visits devices, then copies values to the servers, then
evaluates scenarios, then propagates faults. Faults reach back into the device by
callbacks (`_on_fault_activated`, `_on_fault_deactivated`). The log bus hands entries
to the forward engine through a bounded queue. At start-up `main.py` restores devices
from their rows before it serves a request.

Hard to test, and the reason for the models: calls about one device that overlap at a
suspension; a crash between a change in memory and its row; a change of protocol, which
is a removal and a creation; retries of a server's start while devices come and go; a
scenario start that fails half way while another scenario uses the same devices; stale
flags and timers of the state machine; a full queue, failing targets and a target set
that changes while it is iterated; pushes of one device to EdgeLite that meet each
other, its removal and restarts of its server; commands that wait for a socket to come
back while the manager is restarted; a tick that is suspended in a write while its
scenario is stopped and started; statements of several callers in one transaction. `PROJECT.json` lists these as hazards, line by line,
with the properties that watch them, and those no property watches yet.

## 3. Modules

| Module | Models | Checked in | Proofs |
|---|---|---|---|
| `DeviceStateMachine` | the transition table as two functions of the event, `From` and `To`; what a state means for status, data and reads | with `DeviceLifecycle`, `ProtocolServing` | |
| `DeviceStatus` | *abstract*: what a client may rely on of a device's status | refined by `DeviceLifecycle` | |
| `DeviceLifecycle` | one device: commands, raw events, DEVICE_FAILURE faults, tick, time | `MCDeviceLifecycle` | `DeviceLifecycleProofs` |
| `DeviceCatalogue` | devices in memory, in the database, and as announced | `MCDeviceCatalogue`, `MCCatalogueMirror` | `DeviceCatalogueProofs`, `CatalogueMirrorProofs` |
| `ProtocolServing` | devices of one protocol against its server's starts, stops, breaks | `MCProtocolServing`, `MCCatalogueMirror` | `ProtocolServingProofs` |
| `SharedConnection` | statements, commits and rollbacks of several callers over the one SQLite connection | `MCCatalogueMirror` | `CatalogueMirrorProofs` |
| `RequestLimit` | the sliding window of requests per key, its cleanup, Retry-After | `MCCatalogueMirror` | `CatalogueMirrorProofs` |
| `EdgeLitePush` | the registrations EdgeLite keeps of the devices of one protocol: pushes, conflicts, removals | `MCCatalogueMirror`, itself | `EdgeLitePushProofs` |
| `EdgeLiteLink` | commands and messages of clients on their way to EdgeLite: socket, heartbeat, reconnect loop, retry queue | `MCOutbound` | `EdgeLiteLinkProofs` |
| `Webhook` | webhooks, their file, the event queue, the loop that delivers, the test route | `MCOutbound` | `OutboundProofs` |
| `BatchStream` | *abstract*: what a forward target may count on | refined by `LogForward` | |
| `LogForward` | log bus queue and forward loop | `MCOutbound` | `OutboundProofs` |
| `ScenarioLifecycle` | scenarios, their instances, and the devices their starts make | `MCScenarioLifecycle`, `MCScenarios` | `ScenarioProofs` |
| `ScenarioRules` | the rules and collaborations of a scenario in the tick loop | `MCScenarios` | `ScenarioProofs` |
| `FaultSpread` | propagation rules, their marks and the faults they inject | `MCFaultSpread`, `MCScenarios` | `ScenarioProofs` |

*Parts.* `MCCatalogueMirror`, `MCOutbound` and `MCScenarios` each check several modules in
one run. A variable `part`, chosen in the initial state and never changed, says which
module a behaviour belongs to; the variables of the others keep their initial values. The
parts share no state, so the states are the sum and not the product of the parts', and
fairness is stated of each part's own actions. The modules interact through
the program, not in these runs: each models the others by what they may do to it
(`EngineCreates`, `EngineStartsServer` in `EdgeLitePush`, `OtherDevices` in
`ScenarioLifecycle`, `ValueChanges` in the rules).

**DeviceLifecycle.** `state`, `stateAge` and `faultCleared` are the fields of
`DeviceStateMachine`; `stopTimer` is the time since `_stopping_enter_time` (`NoTimer`
while it is `None`); `faults` and `expired` are the fault injector's list. `Trigger`
is `trigger()` with the two conditions, `RaiseFault` and `ClearAndReset` are `fault()` and
`set_fault_cleared(True)` followed by the reset event. Every method is one action because
none of them suspends: `stop()` has four (`StopBySequence`, `StopAtOnce`, `StopFromError`,
`StopFromMode`), one per branch. `Tick` has the three branches of `tick()` that touch
the state. Time is `Advance`, by one unit, saturating at `MaxAge`.
`RawEvents` are the events operators post to the transition route, past the methods.

**DeviceCatalogue.** `devices` is `_devices` (id to configuration), `rows` the table,
`announced` what a subscriber of DeviceCreated and DeviceRemoved believes, `calls` the API
calls in flight with their program counters, `dbQueue` the order of statements, and
`owed` the confirmed ids nobody has asked to delete (history). A step runs
from one suspension to the next: `AddTo`, `TakeOut` and `Recreate` are the pieces of
`create_device`, `remove_device` and `update_device`, and the database executes the head of
the queue (`SaveCreated`, `SaveUpdated`, `Erase`, `EraseAgain`), a statement and its
commit being one step (`SharedConnection` takes them apart). A failing statement
takes the path of the route's `except`. `Restart` loses everything but the rows.
Configurations are model values with a protocol, since only equality and protocol matter.

**ProtocolServing.** `served` is the server's device table, `starts` the `start_protocol`
calls in flight (starting, settling for two seconds, registering, waiting to retry),
`creates` the `create_device` calls that wait for a slow server, `asked` the last
command (history). A server keeps its devices over a stop, and registering suspends
between devices when `Suspends`. A server's `create_device` may raise: a new device then
stays unstarted (`engine.py` 484-490), one that was started or comes to be registered again goes
on without its server (674-678, 422-426) and is remembered in `refused` (history).

**ScenarioLifecycle.** `configs`, `status`, `instances` are the three dictionaries;
`calls` are starts and deletions in flight with the devices they have still to do, have
created and have failed to create; `maker` says whose start made a device (history).
`Go` runs `start_scenario` from one suspension to the next, visiting each member once
(`passed`), `Finish` ends it, also with the exception that `Scenario(...)` may raise, and
`Undo` removes what a failed start created. `OtherDevices` is the rest of the device API, including the batch
route and gRPC, which delete devices of running scenarios.

**LogForward.** `queue` is the subscriber's bounded queue, `batch` the records in hand,
`current`, `todo`, `size`, `attempt` the round over the dictionary of targets.
`NextTarget` includes the `RuntimeError` Python raises when the dictionary
changed size during the iteration, which ends the task. `last` is, per target, the
batch whose sending began last. When a send takes effect that failed by its timeout, or was
cancelled by `stop()` (a request on its way, the executor thread of `FileTarget`, line 241), is
not modelled: the property is about beginnings.

**SharedConnection.** `at` says where each call is in `_execute`, in a deletion from the
audit log (which does not roll back, 1031-1075) or in `import_all`; `jobs` is the queue of the
connection's thread and `answers` the results on their way back, both in order.
`inTransaction`, `unsaved` and `file` are the connection's: whoever commits, commits for
everyone. `Resume` runs the coroutine of the first answer to its next job, and
`BeginTransaction`, `Write`, `Commit`, `Rollback` are what the thread does with the first
job; a write or commit may fail. `disturbed` records the calls that were under way
between a failure and its rollback. PostgreSQL, and callers that are
cancelled inside a statement, are left out.

**RequestLimit.** `requests` is `_requests`, a key without an entry having the empty list.
`Admit` and `Refuse` are the middleware up to its first suspension: `_cleanup`, which drops
the keys that are all stale (`Kept`), the window (`Recent`), and for a refusal
the header; `AnswerRequest` is its end. The clock counts parts of a second and `RetryAfter` rounds as
`int(...) + 1` does. `admitted` and `retryAt` are history.

**EdgeLitePush.** `edge` holds, per device, the port EdgeLite's driver connects to. A task
(a slot of `tasks`) is a handler of DeviceCreatedEvent or ProtocolStatusEvent or a route; it has
devices still to push and, while it pushes one, a program counter per HTTP request of
`_push_device_impl` and `_handle_push_conflict` (POST; on a conflict PUT, then DELETE
and POST, then the clean-up). The payload, with the port, is fixed when the push begins
(`Begin`), and a device whose push is under way is passed over (`Locked`). With
`lossy` a request may fail, or time out and take effect later (`late`). `orderly` says that clients
remove a device only between its pushes. `report` is history.

**EdgeLiteLink.** `Messages` are the commands the program makes itself (`Commands`) and those
messages of clients (`POST /integration/message`) that carry an id (`Asking`), so that `send()` waits for a reply; a
client's message without an id is sent as a command is. `Unanswered` is a reply that is
not ok or is late: the consumer and the flushes put the message back, the handler does not look.
`stage` is where the coroutine that issued a command is; `waiting` is
`_retry_queue`, `inHand` the item of its consumer, `flushing` the items of each flush.
`link` tells an open socket from a *stale* one: the peer closed with code 1000,
`_receive_loop` ended, `_connected` is still set, and the next send or heartbeat finds
out. `SendEnds` is the end of any of the four kinds of send, `ConsumerTurns` the consumer's
steps between sends, `LoopTurns` the reconnect loop with its delay. Code between suspensions is one action:
with the socket known to be down, the consumer's whole round of taking out, counting a try and
putting back is `ConsumerPutsBack`. `stop()` cancels the tasks with what they have in
hand and keeps the queue.

**Webhook.** `hooks` maps ids to objects and `object` has their fields, because the loop goes on
with the objects it listed before a suspension, whatever became of the webhooks. `pending` is
the queue, of time stamps only; `callers` are the `trigger()` calls that wait for a
place in it. `Disable`, `PostSucceeds`, `PostFails`, `PostRefused` and
`PostFailsUncounted` are the branches of `_dispatch` and `_send_single`; `Test` and the actions
after it are the test route (`webhook_routes.py` 91-103), which calls `_send_single` beside the loop
and past its checks (`testing` counts its POSTs under way, `tested` its calls). `UpdateRefused` is an
update whose url is refused after the name was set (227-235). `LoopDies` is the TypeError of a webhook whose `events`
are null (294), which the loop does not catch; `alive` says that its task goes on. `saved` is
`webhooks.json`; a write of it may fail, and so may its reading (`RestoreFails`), which `_persist` and `_restore`
swallow. Of an object's configuration only what its properties tell apart is kept: its name, whether
`events` are a list, and `enabled`; the url, the headers and the secret are set and saved with the events.
`sentAt`, `unsaved` and `misnamed` are history.

**ScenarioRules.** Each start makes a new `Scenario` object with its own `memory`. `turn` is the
object whose tick is under way, `at` and `step` its place in the rules and in a
chain of collaboration actions; it suspends in writes and waits, and goes on though the
scenario may have been stopped and started again. A point is hot or cold. `fires` and `late` are history.

**FaultSpread.** `rules` is a list, since a mark of `_triggered` names the position of the rule
(and its points) and removals shift the positions. `SpreadFaults` is one pass of the tick loop over all
devices, which does not suspend. `effect` is the type of a rule's fault: *common* to the two enumerations named
`FaultType`, *foreign* to the one the engine converts to (`fault_injection.py` 75-97), or
*unknown* to both. `check_propagation` raises for an unknown one, the engine for a foreign one
(`engine.py` 1075-1077), behind the faults it has injected before; both end the pass over the devices. `injected` counts what was
put into a device; when such a fault ends (its duration, `DELETE /faults`) is not modelled.

## 4. Properties

| Property | Module | Says |
|---|---|---|
| `ErrorIsUncleared` | DeviceLifecycle | no clearance survives into a later ERROR |
| `TimerIsOfThisSequence` | DeviceLifecycle | the stopping timer is never left over from an earlier sequence |
| `SequenceRunsToItsEnd` | DeviceLifecycle | a stopping sequence is not cut short |
| `RunOnlyAfterStartup` | DeviceLifecycle | every way to RUN is a full startup |
| `KeepsStatusPromise` | DeviceLifecycle | refines `DeviceStatus`: ERROR never turns to ONLINE without OFFLINE |
| `StartupEnds`, `StoppingEnds` | DeviceLifecycle | liveness of the two transient states |
| `RowsMatch` | DeviceCatalogue | between calls, memory is what is on disk |
| `UpdatesMatch` | MCCatalogueMirror | the same when updates of one device overlap and its server answers at once; on one that makes them wait, memory and disk have the same devices, with the same protocols |
| `AnnouncedMatch` | DeviceCatalogue | between calls, subscribers know exactly the devices that exist |
| `AcknowledgedSurvives` | DeviceCatalogue | a confirmed device survives failed writes and crashes |
| `AnswersAreTrue` | SharedConnection | of the writes that overlapped no failure of a statement, one answered as done is on disk, one answered as failed is not and is not about to be |
| `WindowKept` | RequestLimit | no window holds more admitted requests of a key than the limit |
| `RetrySuffices` | RequestLimit | who waits as long as Retry-After says is not refused again |
| `StartedIsServed` | ProtocolServing | once starts are done, every started device is registered, unless the server refused it when last given it |
| `RegisteredStays` | EdgeLitePush | what a push reported as registered stays so until the device is pushed again or removed |
| `MirrorAgrees` | EdgeLitePush | once nothing is under way EdgeLite has the devices the engine has |
| `EachCommandOnce` | EdgeLiteLink | a command of the program is in one place, or sent without an error, or given up: never two of these, never mislaid |
| `GivenUpForAReason` | EdgeLiteLink | a command of the program is given up only without a connection or with a full queue |
| `LinkRecovers` | EdgeLiteLink | if EdgeLite stays up, the socket is open for good in the end |
| `EveryCommandEnds` | EdgeLiteLink | no command, and no message of a client, is retried or kept for ever |
| `RateLimited` | Webhook | two deliveries of events by a webhook are at least the rate limit apart, while the test route delivers beside them without a limit |
| `SavedAgrees` | Webhook | unless its last write or reading failed, the file is what memory is, but for the names of refused updates |
| `EventsDrain` | Webhook | until null events end the loop, it comes to the end of the events, and no caller waits for ever |
| `RunningIsTicked` | ScenarioLifecycle | shown as running = evaluated by the tick loop |
| `FailureLeavesNoDevice` | ScenarioLifecycle | a failed start leaves no device |
| `StartEnds` | ScenarioLifecycle | no scenario stays in STARTING |
| `PausesKept` | ScenarioRules | a rule fires at most once in its pause, however long other rules hold up the tick |
| `AtMostOneLateWrite` | ScenarioRules | a tick that outlives its scenario writes at most once more while no device is ONLINE |
| `OncePerRecovery` | FaultSpread | a rule raises its fault again only after the value has recovered |
| `MarkedHasFault` | FaultSpread | until a rule is removed or a pass fails, no mark holds back a rule that has not put its fault into the device |
| `KeepsNewest` | LogForward | the queue loses only the oldest |
| `InOrder` | LogForward | refines `BatchStream`: sends begin in the order of the entries, and a batch is repeated only until the next begins |
| `RoundEnds` | LogForward | a round over the targets ends |

The type invariants (`TypeOK`, `MirrorTypeOK`, `OutTypeOK`, `TickedTypeOK`)
also say how the program counters go with the other variables. The properties of the
runs that are meant to fail state what a comment or docstring says:
`FailureReachesError`, `StopIsHonoured`, `RefusedDeletionIsHarmless`, `PortFollows`.

## 5. Runs

| Run | Instance | Result and meaning |
|---|---|---|
| `LifecycleManaged` | 2 faults, startup 2, stopping sequence 2, clock up to 3; no raw fault, device_failure, stop, stop_complete | flags and timers are never stale; startups and sequences end |
| `LifecycleOpen` | 2 faults, no stopping sequence, all raw events | RUN only after a startup; the status promise |
| `LifecycleFailure` | as `LifecycleManaged` | **violated**: DEVICE_FAILURE injected in STOP, MAINTENANCE or PROGRAM does not lead to ERROR |
| `CatalogueSequential` | 2 ids, 4 configurations of 2 protocols, one slow, 3 calls, restarts, one call per id | memory, rows and announcements agree |
| `CatalogueDurable`, part *durable* | 2 ids, configurations of a slow protocol, 2 calls, failing statements, restarts | confirmed devices survive |
| ... *updates* | 2 ids, 2 configurations of one protocol, whose server is slow or not, 2 calls about any id, no deletions | overlapping creations and updates leave the row that memory has, or on a slow server one of the same protocol |
| ... *servers* | 2 devices, 1 creation, 2 overlapping starts of 2 attempts, slow server, stopping sequence | started devices are reachable |
| ... *mirror* | 1 device, 2 tasks, 2 ports, 1 late request, with and without `orderly` and `lossy` | registrations stay, the mirror agrees |
| ... *statements* | 2 writers, 1 deletion from the audit log, 1 import of 2 rows | answers of the database are true |
| ... *requests* | 2 keys, 2 requests in a window of 1 s, cleanup after 1.5 s, clock up to 2 s in halves | the limit holds, Retry-After suffices |
| `CatalogueProtocolChange` | 1 id, all configurations, failing statements, restarts | **violated**: a change of protocol can lose a confirmed device |
| `ServingStop` | 1 device, 1 start | **violated**: a stop in STARTING is ignored |
| `EdgeLitePort` | 1 device, 2 tasks, 2 ports | **violated**: a push under way while the server restarts leaves the old port |
| `ScenarioOrderly`, part *scenarios* | 2 scenarios, 2 devices, configurations with one and both devices, 2 calls | status, instances and devices agree; starts end |
| ... *rules* | 2 devices, a change rule, a timer and a chain of two actions with a wait; 2 starts, clock up to 2 | pauses are kept, a stopped scenario changes little |
| ... *faults* | 1 device, 2 points, 2 rules, 2 faults of each | one fault for each time the condition is met |
| `ScenarioDelete` | 1 scenario, 2 devices, 2 calls | **violated**: a refused deletion has removed the devices |
| `FaultRepeated` | 2 devices, 1 point, 1 rule | **violated**: a device below the threshold resets the mark of the one above it |
| `ForwardLossy`, part *logs* | 2 targets, queue 2, batch 2, 2 attempts, 4 entries | order, loss of the oldest only, rounds end |
| ... *commands*, *messages* | 2 commands; 1 command and 1 message that asks for a reply; queue 1, 2 tries, delay 1 to 2, 2 outages, 1 stop | no command twice or mislaid; link and messages come to an end |
| ... *events* | 1 webhook id, 2 objects, queue 1, rate limit 1, 3 events, clock up to 1, 1 restart | deliveries keep their distance, file and memory agree, the queue drains |
| ... *tests* | the same, 1 object, 2 events, 1 call of the test route | the same beside a delivery by the test route; a loop that dies |
| ... *registry* | the same, 2 names, no events | file and memory agree over all updates, refused ones too |

*Why the bounds are enough.* Two faults: one can be lifted while another is active; a
third adds nothing, since the device only knows that some fault came or went. The clock
needs to pass both durations (2) and tell apart "just reached" and "over" (3). Two ids
show that calls about different devices, which share the database queue, do not disturb
each other; calls about one id with three slots give an update that overtakes two
others. The configurations are the least with an update within and one across protocols, each
between a fast and a slow server in both directions. Two starts of a protocol
are the least that overlap; two attempts the least that retry. Two scenarios with `{d1}` and
`{d1, d2}` share a device and have a start with more than one step. A queue of 2 with 4 entries
overflows twice; a batch of 2 can be full, partial, and cut by a stop.
Two tasks are the least in which pushes of one device meet; what a third could do to it is
the subject of the theorems. Two ports tell an old registration from a new one. Two
commands and a queue of 1 give a full queue while another command is in hand; two tries and
two outages let a command be put back and given up in the second outage. One command beside one message
that asks for a reply shows what the repetitions of the latter do to the former, as the queue holds one. Two webhook
objects give a webhook that is removed and added again during its POST; what the test route
does to the loop's object needs one object and one test. Two starts of a scenario give a
tick of the old object under the new one, and a chain whose first action waits keeps the
tick over that time. Two rules of faults let the removal of the first shift the second.
Two writers, a deletion and an import of two rows give each kind of failure between another
call's statement and commit; the import goes on after a row that failed. Half seconds show
the rounding of Retry-After, and a cleanup longer than the window finds stale, fresh and mixed
lists. The theorems
(section 7) remove these bounds for the properties they cover. Symmetry is used only in
runs without liveness.

*What the client assumptions mean.* `OneCallPerId` and `Orderly` say that clients wait
for the answer about a device or scenario before they name it again (and, for scenarios,
create new ones and start those that do not run). The REST layer does not enforce this;
without it the properties fail, in the ways section 8 lists. So the runs show that
slow servers, crashes and calls about *other* devices are harmless, and section 8
says what is not. The part *updates* needs no such assumption, and of *mirror* only
`MirrorAgrees` does (its `orderly`).

## 6. Fairness

* `LifecycleManaged`: `WF(Tick)` and `WF(Advance)`. The tick loop visits every
  device it holds each interval and catches exceptions per device; the clock runs.
* `ScenarioOrderly`: `WF(Resume(c))` for each call in flight. Servers and the
  database answer, and the event loop resumes the coroutine. Nothing is assumed of
  clients: a scenario that is never stopped stays as it is.
* `ForwardLossy`, *logs*: `WF(Loop)`. Sends have timeouts, sleeps end, the event loop runs the
  task. `RoundEnds` makes its exception explicit: while operators take targets out and
  put them back for ever, the iterator always finds one more target.
* ... *commands*, *messages*: `WF` of `SendEnds`, `ConsumerTurns`, `LoopTurns`, `HeartbeatFails`: a send ends,
  the tasks of the manager are resumed, timers fire. Nothing is assumed of EdgeLite or the
  network: `LinkRecovers` has them in its premise.
* ... *events*, *tests*, *registry*: `WF(HookLoop)`, since a POST has a timeout, and `WF(CallerPuts)`, since
  `asyncio.Queue` wakes a waiting `put` when there is room.
* The other runs check safety and assume no fairness.

## 7. Proofs

Each theorem holds for every value of the constants that satisfies the named
assumptions in the module (`DurationAssumption`, `RawEventsAssumption`,
`ConfigAssumption`, `ServingAssumption`, `ScenarioAssumption`, `ForwardAssumption`,
`PushAssumption`, `LinkAssumption`, `WebhookAssumption`, `ConnectionAssumption`, `LimitAssumption`,
`RulesAssumption`, `SpreadAssumption`: types of the constants, durations within the clock, sizes at least 1, `None`
not an id). Where a theorem needs more, its statement says so.

| Theorem | Assumes | Establishes |
|---|---|---|
| `DeviceLifecycleProofs!TypeCorrect` | | `TypeOK` |
| `...!ResetIsAlwaysCleared` | `Managed` | `ErrorIsUncleared` |
| `...!TimerIsFresh` | `Managed` | `TimerIsOfThisSequence` |
| `...!SequenceIsComplete` | `Managed` | `SequenceRunsToItsEnd` |
| `...!StartupIsNotSkipped` | | `RunOnlyAfterStartup` |
| `...!StatusPromise` | | `DeviceLifecycle` implements `DeviceStatus` |
| `DeviceCatalogueProofs!TypeCorrect` | | `TypeOK` |
| `...!MemoryIsDatabase` | `OneCallPerId`, no failing statement | `RowsMatch` |
| `...!SubscribersKnow` | the same | `AnnouncedMatch` |
| `...!ConfirmedSurvive` | `OneCallPerId`, one protocol | `AcknowledgedSurvives`, with failing statements |
| `ProtocolServingProofs!TypeCorrect` | | `ServingTypeOK` |
| `...!StartedDevicesAreServed` | `CallsTakeTurns` | `StartedIsServed` |
| `CatalogueMirrorProofs!OverlappingUpdates` | | `UpdatesMatch` |
| `...!ConnectionTypes` | | `ConnectionTypeOK` |
| `...!WritesAnsweredTruly` | | `AnswersAreTrue` |
| `...!LimitTypes` | | `LimitTypeOK` |
| `...!WindowIsKept` | | `WindowKept` |
| `...!WaitingSuffices` | | `RetrySuffices` |
| `...!MirrorTypes` | | `MirrorTypeOK`: the types of all parts of one instance |
| `ScenarioProofs!TypeCorrect` | | `TypeOK` of `ScenarioLifecycle` |
| `...!ShownIsTicked` | `Orderly` | `RunningIsTicked` |
| `...!FailedStartsAreUndone` | `Orderly` | `FailureLeavesNoDevice` |
| `...!RuleTypes` | | `RulesTypeOK` |
| `...!PausesAreKept` | | `PausesKept` |
| `...!OneLateWrite` | | `AtMostOneLateWrite` |
| `...!SpreadTypes` | | `SpreadTypeOK` |
| `...!RecoveryBetweenFaults` | no two devices have a point of the same name (`OwnPoints`) | `OncePerRecovery` |
| `...!MarksHaveFaults` | one device | `MarkedHasFault` |
| `...!TickedTypes` | | `TickedTypeOK`: the types of all parts of one instance |
| `OutboundProofs!TypeCorrect` | | `TypeOK` of `LogForward` |
| `...!QueueKeepsNewest` | | `KeepsNewest` |
| `...!SentInOrder` | | `LogForward` implements `BatchStream` |
| `EdgeLitePushProofs!PushTypeCorrect` | | `PushTypeOK` |
| `...!ReportsHold` | | `RegisteredStays` |
| `...!MirrorIsTrue` | | `MirrorAgrees` (which has `orderly` and not `lossy` in its premise) |
| `EdgeLiteLinkProofs!LinkTypeCorrect` | | `LinkTypeOK` |
| `...!CommandsAreAccountedFor` | | `EachCommandOnce` |
| `...!GivenUpWithoutConnection` | | `GivenUpForAReason` |
| `OutboundProofs!WebhookTypeCorrect` | | `WebhookTypeOK` |
| `...!DeliveriesKeepTheirDistance` | | `RateLimited` |
| `...!FileIsTheRegistry` | | `SavedAgrees` |
| `...!OutTypes` | | `OutTypeOK`: the types of the link and the webhooks in one instance |

The arguments, in short:

* *DeviceLifecycle.* `ErrorIsUncleared` and `TimerIsOfThisSequence` are inductive with
  `TypeOK`. `Managed` excludes the raw events that reach ERROR past `fault()` and
  STOPPING past `stop()`. The action properties follow step by step from them.
* *DeviceCatalogue.* `RowsMatch` speaks of quiet devices only, so it is not inductive. `AgreementInv`
  adds that a device has at most one call (`OneCall`), and for each stage of a call
  what memory and announcements hold of its device (`StageOK`): registering means in
  memory and not announced, saving means both, unregistering and erasing mean not in memory.
  Lemma `AgreementKept` reduces every step to its own device. `DurableInv`
  is the counterpart for failing statements: whatever call is not a mild update is about
  a device nobody is owed (`MildOK`), so losing its row harms no promise.
* *ProtocolServing.* `ServedInv`: while the server runs, a started device is served, was refused, or some
  start has still to come to it (`WillRegister`); a device being created was
  registered before the call suspended and nobody may take it off.
* *ScenarioLifecycle.* `OrderlyInv`: one call per scenario, `Ticked` for every scenario and not
  only the quiet ones, a start in flight is about a scenario that does not run, and every device
  with a maker is in `created` of a call that will keep or undo it (`MakersAnswer`).
* *LogForward.* `OrderInv` says that the entries of the sends begun last, the batch in hand and
  the queue follow each other: what a send to a target began with lies before the batch, unless the
  round has already come to it, in which case it is the batch.

* *EdgeLitePush.* `ReportInv`: no two tasks push one device, and while one pushes it no
  report counts. `MirrorInv` adds, for orderly clients and a network that loses nothing,
  `CalmInv`: only devices that exist are pushed, waited for or announced, and a device
  that is posted again is absent. With it each answer of EdgeLite keeps `MirrorAgrees`.
* *EdgeLiteLink.* `OnceInv` counts: for each command the places that hold it, the
  queue, the flushes, the hand of the consumer and the sends, together with being sent
  or given up, add up (`Whole`) to one if it was issued and to nothing before (`Issued`). Lemmas say what
  each queue operation does to the sum. `FlushInv` says which flush may be under way, so that
  the items of one are not overwritten by the next; it needs that the reconnect loop
  sleeps while the manager is stopped.
* *Webhook.* The limit compares time stamps of events, the property times of delivery.
  `StampInv` relates them: no event is from the future, and an object's last success is no
  earlier than the loop's last delivery to it (the test route may have made it later). `PostInv` says that the distance
  the loop has tested before the POST still holds at the answer, whatever the API and the test route did meanwhile.

* *Overlapping updates.* `UpdatesMatch` speaks of devices no call is about. `UpdatesInv` says what is true of the
  others (`RowFollows`): if statements about a device wait, the last of them carries what the
  engine has; if none waits, the row is that. With a server that answers at once (`Fast`), each call adds its
  statement behind the others in the step that changes the engine, so neither the number of calls nor their order
  matters. On a server that makes a call wait between the two, only `Recorded` is left: the rows and the calls under way are
  about a device the engine has, with its protocol, and each call saves in the end.
* *SharedConnection.* `AnswersAreTrue` excepts writes that a failure overlapped with. The
  invariant has a part for the queues, `JobsFit` (a call under way has one job or one answer, of the kind its
  place asks for; the order of the queues does not matter), `FailuresNoticed` (while a call deals
  with a failure, all calls under way are in `disturbed`), and `WriterInv`, which says for each place
  of an undisturbed writer where its row is. The case that makes the latter hard: another caller's commit may
  save the row early, and then a failing commit of its own must not have found it in the file; the invariant
  says that whoever has a transaction open at that time is someone else, so that the overlap is noticed.
* *RequestLimit.* The list of a key may be cut by any clean-up. `KeyInv` says it is an end of all
  requests ever admitted, and that whatever was cut is outside the window (`EndOf`); that of the admitted ones any
  two that are `MaxRequests` apart are a window apart (`Spread`); and that a client who was refused has
  `MaxRequests` requests before it whose first is outside the window when it may come back. What
  `Recent` returns is shown by the least index within the window.
* *ScenarioRules.* `FiresOK`: the firings of each rule are its pause apart, and the last of them is the one
  the object of the run remembers, even when that object is an old one whose tick has outlived it. `MemoryOK` and
  `PlaceOK` say what the objects hold and where the tick can be. `LateOK`: a run that has made a late write
  is not at an action any more.
* *FaultSpread.* `Check` and `Pass` are recursive functions over the rules and the devices. That they
  are defined follows from a least counterexample (`VisitsExist`, `GoingExists`), and what they return from the
  same argument over the visits (`Visited`, `Passed`). `MarksOK`: unless a rule was removed, every fault whose
  recovery no pass has seen has its mark, and unless anything failed, every mark has such a fault. Two devices that have
  points of the same name share the marks; `RecoveryBetweenFaults` excludes them, and run `FaultRepeated` shows what
  they do (section 8). `MarksHaveFaults` is about one device because of the same sharing.
* *One instance.* `MirrorTypes`, `TickedTypes` and `OutTypes` combine the types of the parts: a step of one part
  leaves the variables of the others unchanged, whatever `part` is.

Every invariant and every action property that a passing run checks is stated by a theorem, under
the assumptions of the table. Only model-checked: the liveness properties (`StartupEnds`, `StoppingEnds`, `StartEnds`,
`RoundEnds`, `LinkRecovers`, `EveryCommandEnds`, `EventsDrain`), as fairness is outside what the
prover supports. Section 8 says what happens where the assumptions of the table do not hold.

## 8. What the models showed

Six places where the code does not do what it, or its documentation, says; each has a
run that ends in the counterexample (`findings` in `PROJECT.json`): `LifecycleFailure`,
`CatalogueProtocolChange`, `ServingStop`, `ScenarioDelete`, `EdgeLitePort`, `FaultRepeated`.

Seen while modelling, and reproducible with other constants where noted:

* A raw `stop` posted to the transition route leaves a device in STOPPING for ever when it
  has a stopping sequence: the timer was never set (`device_routes.py` 831, `device.py` 236;
  `RawEvents <- AllEvents` with `StopDuration = 2`).
* A raw `fault` enters ERROR without withdrawing an old clearance, so a raw `reset`
  is accepted at once (`state_machine.py` 255; `RawEvents <- AllEvents`).
* Lifting one of two DEVICE_FAILUREs resets the device (`device.py` 168), and adding a
  fault that is not to be active stops it (`device_routes.py` 713).
* With two calls about one id (`OneCallPerId = FALSE`): a device recreated while its
  deletion is in flight loses its row to the second delete (`device_routes.py` 405), and
  DeviceRemoved of the old can follow DeviceCreated of the new (`engine.py` 544).
* With commands for a device that is still being created (`CallsTakeTurns = FALSE` in
  `ProtocolServing`): started, failed and stopped meanwhile, the device ends up started by
  the creation but not registered.
* Starting a scenario that runs, in a start that then fails, shows ERROR while the old instance
  goes on; creating a scenario over one that runs shows STOPPED likewise (`Orderly = FALSE`).
* With an OPC UA device (`SlowProtocols`) overlapping updates may leave the older one on disk: the update waits in
  `write_point` after it has changed memory and before the route saves (`engine.py` 576-578, 607-609;
  `opcua/server.py` 513-521), so the saves may come in the other order. `UpdatesMatch` excepts it.
* A server may refuse a device that is started or registered again; the refusal is logged and the device
  goes on without it (`engine.py` 674-678, 422-426).
* The forward loop dies when a target is added or removed during a send; `start()` then returns
  early because `_running` is still set. A send that was cancelled by `stop()`, or has timed out, may still take effect,
  after later batches: the executor thread of `FileTarget` (`forward.py` 241) is not stopped. Records are thrown away when there are no
  targets, and the file and InfluxDB targets swallow their errors, which then count as sent.
* *Database.* A failure of one caller's statement rolls back the write another has executed and not
  committed: the rollback is queued after that write, whose caller then commits nothing and
  is answered that all is well (`session.py` 571; `AnswersAreTrue` without `disturbed`). The
  transaction of `import_all` (1167: imported rows are rolled back on failure) does not hold anything
  together: each row goes through `_execute`, which commits it (568), and errors of
  rows are caught inside, so the rollback (1208) finds nothing to undo; its BEGIN fails when another caller
  has a transaction open. A deletion from the audit log that failed in its commit leaves its
  transaction to the next caller.
* *EdgeLite, pushes.* A device removed during its push stays registered, and a late DELETE may
  take away one that was created again (`orderly` false). `test_connection` and the loops that push
  values over HTTP are not modelled; reading them: such a loop is started after a first
  POST and not after a PUT, so after a restart a passive device has none (manager.py 640);
  and a cancelled loop removes the entry of the one that replaced it (1486).
* *EdgeLite, commands.* A reconnect attempt that failed flushes the whole queue into nothing, for
  `_connect_websocket` swallows its exceptions; the delay never grows, contrary to the docstring (1701-1705). While the
  socket is down the consumer puts items back without a pause and spends their tries at once. Start and stop
  of collection of one device can overtake each other, in the queue and as tasks. A REST request that timed out may
  have been executed, and is sent again over the socket (manager.py 1552-1559, 1836-1837). A client's message with an id is sent
  again when its reply is not ok or late (1637-1638, 1665-1666), up to the limit of the tries; its `_retry_count` goes with it.
* *Webhooks.* The test route (`webhook_routes.py` 91-103) asks neither for the rate limit (`webhook.py` 298) nor for
  the threshold (303), counts its errors on the same webhook, and sets the time of its last success, so that a test can hold up events. An
  update with a refused url has set the name in memory and not in the file (227-235). Null for `events`, which
  the routes accept, raises TypeError at 294, outside the `try`: `_send_loop` (247-255) ends, is not started
  again, and the queue fills up; after a restart it is restored from the file and does so again. Events that waited during a long POST are dropped by the rate limit, which looks at
  their time stamps. A webhook that is added again, and a restart, forget the rate limit.
  `error_count` is never reset, so that errors over any time disable a webhook (303). With the manager stopped and
  the queue full, `trigger()` waits. The rollback in `add_webhook` (197-202) cannot happen:
  `_persist` swallows errors.
* *Scenario rules.* A collaboration's cooldown runs from the beginning of the tick and not
  from its actions, so that after a chain with waits its next trigger may come early
  (`collaboration.py` 206). Of two change rules on one point the second never fires, since
  they share the previous value (`scenario.py` 291). A cooldown is spent though the target is
  offline. Waits in chains hold up the ticks of all devices.
* *Spreading faults.* The removal of a rule shifts the marks of those after it; an unknown effect type aborts the pass
  after its mark is set, and the fault is then never raised; so does one that `check_propagation` knows and the engine
  does not (`engine.py` 1075-1077: `sensor_failure`, `actuator_stuck`), which loses the faults behind it too. `FaultSpread` has all three, and the
  properties except them (`mishaps`).
* *Failover* (read, not modelled). Only a primary enters the branch that promotes (`failover.py` 77), so a
  standby never takes over, and failures are counted without being reset by a success.

## 9. Not modelled, and why

* Protocol encoders, decoders and the servers' own sessions (`protocols/`): the engine
  only sees registration, start, stop and failure, which `ProtocolServing` has.
* Value generation, behaviour models, noise, PID loops (`engine/generator.py`,
  `simulation/behavior_models.py`, `control_loop.py`, `quality.py`): floating point.
* Authentication, users, templates, configuration, recorder, audit, metrics, test runner:
  table look-ups, library calls and append-only records.
* Scenario rows: the routes write them after the engine, in the way device
  rows are written; `DeviceCatalogue` shows the pattern.
* PostgreSQL: a pool of connections with a transaction per statement.
* The rest of the integration manager: the loops that push values over HTTP, the cache of
  statuses, alarm reactions, data that comes back; the mapping of protocols.
* Fault templates and the other effects of faults on values; time series and replay.
* The failover manager: a model would restate the one branch that keeps it from working.
* gRPC is a second front end to the same calls; its deletion of devices is in `OtherDevices`.

## 10. Plan

1. `DeviceLifecycle`, `DeviceCatalogue`, `ProtocolServing`, `ScenarioLifecycle`, `LogForward`,
   their abstract specifications, runs and proofs: done.
2. Integration manager: `EdgeLitePush`, `EdgeLiteLink`, with proofs: done. The loops
   that push values over HTTP: open.
3. Fault propagation, `FaultSpread`: done. `FaultList`, the order and expiry of the fault list
   with the generator that all devices share: open.
4. Scenario and collaboration rules, `ScenarioRules`: done.
5. Webhooks, `Webhook`, with proofs; the database connection, `SharedConnection`; the rate
   limiter, `RequestLimit`: done.
6. Write of a point: truncation to the width of its type and the 30 s write freeze, as
   operators checked against a reference definition: open.
7. Proofs: `UpdatesMatch`, the invariants of `SharedConnection`, `RequestLimit`, `ScenarioRules` and
   `FaultSpread`, the types of the instances that combine modules: done. An abstract catalogue that
   `DeviceCatalogue` implements: open.
