-------------------------- MODULE ScenarioLifecycle --------------------------
(***************************************************************************)
(* The scenarios of the engine: _scenarios, _scenario_status and           *)
(* _scenario_instances, which the tick loop visits, and the devices that   *)
(* starting a scenario creates and deleting it removes (engine/engine.py   *)
(* 828-966, api/v1/scenario_routes.py).                                    *)
(*                                                                         *)
(* start_scenario and the deletion route suspend between devices.  Devices *)
(* whose server does not suspend the engine only shorten a call to fewer   *)
(* steps, taken here one after the other.                                  *)
(***************************************************************************)
EXTENDS FiniteSets

CONSTANTS
  Scenarios,           \* scenario identifiers
  Devices,             \* device identifiers
  Configs,             \* scenario configurations clients send
  Members,             \* the devices of each configuration
  Calls,               \* slots for calls in flight
  Orderly,             \* clients wait for the answer before the next call about a
                       \* scenario, create what is new, start what does not run
  None

ASSUME ScenarioAssumption ==
  /\ Members \in [Configs -> SUBSET Devices]
  /\ Orderly \in BOOLEAN
  /\ None \notin Configs \cup Scenarios

VARIABLES
  configs,    \* _scenarios
  status,     \* _scenario_status
  instances,  \* the scenarios that have an instance the tick loop visits
  held,       \* the devices of the engine
  calls,      \* start_scenario calls and deletions in flight
  maker       \* the scenario whose start made a device, until that start succeeds

vars == <<configs, status, instances, held, calls, maker>>

CallTypes ==
  [pc : {"creating", "launching", "undoing", "deleting"}, s : Scenarios,
   config : Configs, todo : SUBSET Devices,
   created : SUBSET Devices, failed : SUBSET Devices]

Idle == [pc |-> "idle", s |-> None, config |-> None, todo |-> {},
         created |-> {}, failed |-> {}]

\* A call about s as it begins.
Call(s) == [pc |-> "idle", s |-> s, config |-> configs[s], todo |-> Members[configs[s]],
            created |-> {}, failed |-> {}]

TypeOK ==
  /\ configs \in [Scenarios -> Configs \cup {None}]
  /\ status \in [Scenarios -> {"absent", "stopped", "starting", "running", "error"}]
  /\ instances \subseteq Scenarios
  /\ held \subseteq Devices
  /\ calls \in [Calls -> CallTypes \cup {Idle}]
  /\ maker \in [Devices -> Scenarios \cup {None}]

Init ==
  /\ configs = [s \in Scenarios |-> None]
  /\ status = [s \in Scenarios |-> "absent"]
  /\ instances = {}
  /\ held = {}
  /\ calls = [c \in Calls |-> Idle]
  /\ maker = [d \in Devices |-> None]

Quiet(s) == \A c \in Calls : calls[c].s # s

MayCall(s) == Orderly => Quiet(s)

Waits(c, call) == calls' = [calls EXCEPT ![c] = call]
Returns(c) == calls' = [calls EXCEPT ![c] = Idle]

Shows(s, st) == status' = [status EXCEPT ![s] = st]

-----------------------------------------------------------------------------
(* Calls without a suspension that matters *)

\* create_scenario asks nothing: it also replaces a scenario that exists.
CreateScenario(s, config) ==
  /\ MayCall(s) /\ (Orderly => configs[s] = None)
  /\ configs' = [configs EXCEPT ![s] = config]
  /\ Shows(s, "stopped")
  /\ UNCHANGED <<instances, held, calls, maker>>

UpdateScenario(s, config) ==
  /\ MayCall(s) /\ configs[s] # None
  /\ status[s] \notin {"running", "starting"}
  /\ configs' = [configs EXCEPT ![s] = config]
  /\ UNCHANGED <<status, instances, held, calls, maker>>

\* Broken: the instance is stopped but stays with the tick loop.
StopScenarioKeepingInstance(s) ==
  /\ MayCall(s) /\ configs[s] # None
  /\ Shows(s, "stopped")
  /\ UNCHANGED <<configs, instances, held, calls, maker>>

StopScenario(s) ==
  /\ MayCall(s) /\ configs[s] # None
  /\ instances' = instances \ {s}
  /\ Shows(s, "stopped")
  /\ UNCHANGED <<configs, held, calls, maker>>

-----------------------------------------------------------------------------
(* start_scenario *)

\* The status and the instance are set together, whatever the status is by now.
Launch(c, s) ==
  /\ instances' = instances \cup {s}
  /\ Shows(s, "running")
  /\ maker' = [d \in Devices |-> IF maker[d] = s THEN None ELSE maker[d]]
  /\ Returns(c)

\* Broken: the failure is raised to the client and not recorded.
FailSilently(c, call) ==
  /\ status' = [status EXCEPT ![call.s] = "starting"]
  /\ IF call.created = {} THEN Returns(c)
     ELSE Waits(c, [call EXCEPT !.pc = "undoing"])

\* Whatever is raised: ERROR, and the devices created so far are removed again.
Fail(c, call) ==
  /\ Shows(call.s, "error")
  /\ IF call.created = {} THEN Returns(c)
     ELSE Waits(c, [call EXCEPT !.pc = "undoing"])

\* The scenario does not run if all its devices failed, which those that could be
\* created may still do when they are started, or if it cannot be built. A device
\* that somebody else removed does not count as failed.
Finish(c, call) ==
  \/ /\ Members[call.config] # {} => call.failed # Members[call.config]
     /\ Launch(c, call.s)
     /\ UNCHANGED held
  \/ Fail(c, call) /\ UNCHANGED <<instances, held, maker>>

\* From one suspension of start_scenario to the next: devices that exist are passed
\* over, for good, until a missing one is created, which may fail; after the last
\* device the scenario is built and its devices are started, which suspends for a
\* device that was neither in RUN nor in STARTING.
Go(c, call) ==
  LET missing == call.todo \ held IN
  \/ \E d \in missing, passed \in SUBSET (call.todo \cap held), made \in BOOLEAN :
       /\ held' = IF made THEN held \cup {d} ELSE held
       /\ maker' = IF made THEN [maker EXCEPT ![d] = call.s] ELSE maker
       /\ Shows(call.s, IF call.pc = "idle" THEN "starting" ELSE status[call.s])
       /\ LET next == [call EXCEPT !.pc = "creating", !.todo = @ \ (passed \cup {d})] IN
          Waits(c, IF made THEN [next EXCEPT !.created = @ \cup {d}]
                           ELSE [next EXCEPT !.failed = @ \cup {d}])
       /\ UNCHANGED instances
  \/ missing = {} /\ Finish(c, call)
  \/ /\ missing = {}
     /\ (Members[call.config] \ call.failed) \cap held # {}
     /\ Shows(call.s, IF call.pc = "idle" THEN "starting" ELSE status[call.s])
     /\ Waits(c, [call EXCEPT !.pc = "launching"])
     /\ UNCHANGED <<instances, held, maker>>

\* The status of the scenario is not looked at.
StartScenario(c, s) ==
  /\ MayCall(s) /\ calls[c] = Idle /\ configs[s] # None
  /\ Orderly => status[s] # "running"
  /\ Go(c, Call(s))
  /\ UNCHANGED configs

CreateMembers(c) ==
  /\ calls[c].pc = "creating"
  /\ Go(c, calls[c])
  /\ UNCHANGED configs

Launched(c) ==
  /\ calls[c].pc = "launching"
  /\ Finish(c, calls[c])
  /\ UNCHANGED configs

\* Broken: the devices created by the failed call are forgotten.
UndoForgetting(c) ==
  /\ calls[c].pc = "undoing"
  /\ Returns(c)
  /\ UNCHANGED <<configs, status, instances, held, maker>>

\* remove_device of one of them, which suspends in the database.
Undo(c) ==
  /\ calls[c].pc = "undoing"
  /\ \E d \in calls[c].created :
       /\ held' = held \ {d}
       /\ maker' = [maker EXCEPT ![d] = None]
       /\ IF calls[c].created = {d} THEN Returns(c)
          ELSE Waits(c, [calls[c] EXCEPT !.created = @ \ {d}])
  /\ UNCHANGED <<configs, status, instances>>

-----------------------------------------------------------------------------
(* DELETE /scenarios/{id} *)

\* remove_scenario refuses a scenario that is running or starting, and one that
\* is gone.
RemoveScenario(c, s) ==
  /\ IF configs[s] # None /\ status[s] \notin {"running", "starting"}
     THEN configs' = [configs EXCEPT ![s] = None] /\ Shows(s, "absent")
     ELSE UNCHANGED <<configs, status>>
  /\ Returns(c)

\* The route removes the devices of the scenario, each looked up once, and only
\* then asks.
DeleteMembers(c, call) ==
  \/ \E d \in call.todo \cap held, passed \in SUBSET (call.todo \ held) :
       /\ held' = held \ {d}
       /\ maker' = [maker EXCEPT ![d] = None]
       /\ Waits(c, [call EXCEPT !.pc = "deleting", !.todo = @ \ (passed \cup {d})])
       /\ UNCHANGED <<configs, status>>
  \/ call.todo \cap held = {} /\ RemoveScenario(c, call.s) /\ UNCHANGED <<held, maker>>

DeleteScenario(c, s) ==
  /\ MayCall(s) /\ calls[c] = Idle /\ configs[s] # None
  /\ DeleteMembers(c, Call(s))
  /\ UNCHANGED instances

Deleting(c) ==
  /\ calls[c].pc = "deleting"
  /\ DeleteMembers(c, calls[c])
  /\ UNCHANGED instances

-----------------------------------------------------------------------------
(* The device API goes on beside the scenarios *)

\* The batch route and gRPC delete devices without asking which scenarios use
\* them; only DELETE /devices/{id} asks.
OtherDevices ==
  /\ \E d \in Devices : /\ held' \in {held \cup {d}, held \ {d}}
                        /\ maker' = [maker EXCEPT ![d] = None]
  /\ UNCHANGED <<configs, status, instances, calls>>

Resume(c) == CreateMembers(c) \/ Launched(c) \/ Undo(c) \/ Deleting(c)

Next ==
  \/ \E s \in Scenarios : \/ StopScenario(s)
                          \/ \E config \in Configs : \/ CreateScenario(s, config)
                                                     \/ UpdateScenario(s, config)
                          \/ \E c \in Calls : StartScenario(c, s) \/ DeleteScenario(c, s)
  \/ \E c \in Calls : Resume(c)
  \/ OtherDevices

Spec == Init /\ [][Next]_vars

\* Servers and the database answer, and the event loop resumes the call.
FairSpec == Spec /\ \A c \in Calls : WF_vars(Resume(c))

-----------------------------------------------------------------------------
(* Properties *)

\* Between calls about it, a scenario is shown as running exactly when the tick
\* loop evaluates its rules, and then it still exists and can be stopped.
RunningIsTicked ==
  \A s \in Scenarios :
    Quiet(s) => /\ status[s] = "running" <=> s \in instances
                /\ s \in instances => configs[s] # None

\* A device made by the start of a scenario outlives that call only if the start
\* succeeded, whatever starts and deletions of other scenarios with the same
\* device went on meanwhile.
FailureLeavesNoDevice ==
  \A d \in held : maker[d] # None => ~Quiet(maker[d])

\* A scenario does not stay in STARTING.
StartEnds == \A s \in Scenarios : status[s] = "starting" ~> status[s] # "starting"

\* A deletion that will be refused because the scenario is running or starting
\* removes no device on its way to the refusal.
RefusedDeletionIsHarmless ==
  [][\A c \in Calls :
       /\ calls'[c] # calls[c] /\ calls'[c].pc = "deleting"
       /\ status[calls'[c].s] \in {"running", "starting"}
       => held \subseteq held']_vars
=============================================================================
