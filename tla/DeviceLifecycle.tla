-------------------------- MODULE DeviceLifecycle --------------------------
(***************************************************************************)
(* One simulated device: the state machine of engine/state_machine.py as   *)
(* engine/device.py drives it (start, stop, tick, fault, reset), with the  *)
(* DEVICE_FAILURE faults of simulation/fault/injector.py that reach back   *)
(* into it through _on_fault_activated and _on_fault_deactivated.          *)
(*                                                                         *)
(* Every handler here is synchronous code on the one event loop (tick only *)
(* awaits a lock nobody holds across an await), so each is one action.     *)
(* Time is a clock that Advance moves by one unit: stateAge is the time    *)
(* since the last transition, stopTimer the time since                     *)
(* _stopping_enter_time; both saturate at MaxAge.                          *)
(***************************************************************************)
EXTENDS DeviceStateMachine, Integers

CONSTANTS
  Faults,        \* ids of the DEVICE_FAILURE faults injected into the device
  MinStartup,    \* protocol_config min_startup_time
  StopDuration,  \* protocol_config stopping_sequence_duration, 0 when absent
  MaxAge,        \* bound on the clock: ages above it are not told apart
  RawEvents      \* events operators post to .../state/transition

ASSUME DurationAssumption ==
  /\ MaxAge \in Nat
  /\ MinStartup \in 0..MaxAge
  /\ StopDuration \in 0..MaxAge

ASSUME RawEventsAssumption == RawEvents \subseteq Events

VARIABLES
  state,         \* DeviceStateMachine._state
  stateAge,      \* time.time() - _state_enter_time
  faultCleared,  \* _fault_cleared, FALSE while the attribute does not exist
  stopTimer,     \* time since DeviceInstance._stopping_enter_time, or NoTimer
  faults,        \* FaultInjector.active_faults: absent, or listed with Fault.active
  expired        \* listed faults whose duration is over: is_expired(now)

sm == <<state, stateAge, faultCleared>>
injector == <<faults, expired>>
vars == <<state, stateAge, faultCleared, stopTimer, faults, expired>>

NoTimer == -1
Ages == 0..MaxAge

Listed == {f \in Faults : faults[f] # "absent"}
Failing == {f \in Faults : faults[f] = "active"}
Status == StatusOf(state)

TypeOK ==
  /\ state \in States
  /\ stateAge \in Ages
  /\ faultCleared \in BOOLEAN
  /\ stopTimer \in Ages \cup {NoTimer}
  /\ faults \in [Faults -> {"absent", "active", "inactive"}]
  /\ expired \subseteq Faults

Init ==
  /\ state = "STOP"
  /\ stateAge = 0
  /\ faultCleared = FALSE
  /\ stopTimer = NoTimer
  /\ faults = [f \in Faults |-> "absent"]
  /\ expired = {}

-----------------------------------------------------------------------------
(* DeviceStateMachine.trigger *)

\* Broken: the minimum startup time is not asked for.
AcceptsAnyAge(e, cleared) ==
  /\ state \in From[e]
  /\ e = "reset" => cleared

\* The rule matches, and the condition of the rule, if it has one, is true:
\* _check_startup_time, and _check_fault_cleared with the clearance it is given.
Accepts(e, cleared) ==
  /\ state \in From[e]
  /\ e = "startup_complete" => stateAge >= MinStartup
  /\ e = "reset" => cleared

Move(s) == state' = s /\ stateAge' = 0

Trigger(e, cleared) ==
  IF Accepts(e, cleared) THEN Move(To[e]) ELSE UNCHANGED <<state, stateAge>>

\* Broken: a clearance given earlier survives the fault.
RaiseFaultKeepingFlag == UNCHANGED faultCleared /\ Trigger("fault", FALSE)

\* DeviceStateMachine.fault: the clearance is withdrawn before the event is
\* tried, whether or not the state accepts it.
RaiseFault == faultCleared' = FALSE /\ Trigger("fault", FALSE)

\* set_fault_cleared(True) and the reset event, in that order.
ClearAndReset == faultCleared' = TRUE /\ Trigger("reset", TRUE)

-----------------------------------------------------------------------------
(* DeviceInstance: commands *)

Start == Trigger("start", FALSE) /\ UNCHANGED <<faultCleared, stopTimer, injector>>

\* Broken: the timer is set only if it is not set, or not at all.
StopBySequenceKeepingTimer ==
  /\ state \in {"RUN", "STARTING"} /\ StopDuration > 0
  /\ Move("STOPPING")
  /\ stopTimer' = IF stopTimer = NoTimer THEN 0 ELSE stopTimer
  /\ UNCHANGED <<faultCleared, injector>>

StopBySequenceUntimed ==
  /\ state \in {"RUN", "STARTING"} /\ StopDuration > 0
  /\ Move("STOPPING")
  /\ UNCHANGED <<faultCleared, stopTimer, injector>>

\* stop() in RUN or STARTING with a stopping sequence: tick() will end it.
StopBySequence ==
  /\ state \in {"RUN", "STARTING"} /\ StopDuration > 0
  /\ Move("STOPPING")
  /\ stopTimer' = 0
  /\ UNCHANGED <<faultCleared, injector>>

\* stop() without a stopping sequence: "stop" then "stop_complete" at once, or
\* only the latter for a device some raw event has left in STOPPING.
StopAtOnce ==
  /\ state \in {"RUN", "STARTING", "STOPPING"} /\ StopDuration = 0
  /\ Move("STOP")
  /\ UNCHANGED <<faultCleared, stopTimer, injector>>

StopFromError ==
  /\ state = "ERROR"
  /\ ClearAndReset
  /\ UNCHANGED <<stopTimer, injector>>

StopFromMode ==
  /\ state \in {"MAINTENANCE", "PROGRAM"}
  /\ Move("STOP")
  /\ UNCHANGED <<faultCleared, stopTimer, injector>>

\* In STOP, and in STOPPING while a sequence runs, stop() changes nothing here.
Stop == StopBySequence \/ StopAtOnce \/ StopFromError \/ StopFromMode

\* fault(reason), for a cause other than an injected fault.
Fault == RaiseFault /\ UNCHANGED <<stopTimer, injector>>

\* reset(reason): DeviceStateMachine.reset(fault_cleared=True).
Reset == ClearAndReset /\ UNCHANGED <<stopTimer, injector>>

\* POST /devices/{id}/state/transition hands the event to trigger() as it is,
\* past the methods of DeviceInstance; enter_maintenance and the three methods
\* beside it are the same call.
RawEvent(e) ==
  /\ e \in RawEvents
  /\ Accepts(e, faultCleared)
  /\ Move(To[e])
  /\ UNCHANGED <<faultCleared, stopTimer, injector>>

-----------------------------------------------------------------------------
(* FaultInjector, with the callbacks of DeviceInstance *)

\* _on_fault_activated calls fault(), not device_failure(): the event is
\* accepted in RUN, STARTING and STOPPING only.
InjectFault(f) ==
  /\ faults[f] = "absent"
  /\ faults' = [faults EXCEPT ![f] = "active"]
  /\ RaiseFault
  /\ UNCHANGED <<stopTimer, expired>>

ActivateFault(f) ==
  /\ faults[f] = "inactive"
  /\ faults' = [faults EXCEPT ![f] = "active"]
  /\ RaiseFault
  /\ UNCHANGED <<stopTimer, expired>>

\* deactivate_fault does not look at Fault.active: the callback always runs.
DeactivateFault(f) ==
  /\ f \in Listed
  /\ faults' = [faults EXCEPT ![f] = "inactive"]
  /\ ClearAndReset
  /\ UNCHANGED <<stopTimer, expired>>

\* The API adds a fault with auto_activate=False by adding it, which activates
\* it, and deactivating it at once.
InjectInactiveFault(f) ==
  /\ faults[f] = "absent"
  /\ faults' = [faults EXCEPT ![f] = "inactive"]
  /\ IF state \in From["fault"] \cup From["reset"] THEN Move("STOP")
     ELSE UNCHANGED <<state, stateAge>>
  /\ faultCleared' = TRUE
  /\ UNCHANGED <<stopTimer, expired>>

\* Taking the faults of S off the list, with _on_fault_deactivated for each.
Drop(S) ==
  /\ faults' = [f \in Faults |-> IF f \in S THEN "absent" ELSE faults[f]]
  /\ expired' = expired \ S
  /\ IF S = {} THEN UNCHANGED sm ELSE ClearAndReset

RemoveFault(f) == f \in Listed /\ Drop({f}) /\ UNCHANGED stopTimer

ClearFaults == Listed # {} /\ Drop(Listed) /\ UNCHANGED stopTimer

\* The clock passes start_time + duration of a fault with a duration.
FaultExpires(f) ==
  /\ f \in Listed \ expired
  /\ expired' = expired \cup {f}
  /\ UNCHANGED <<sm, stopTimer, faults>>

\* read_point and read_all_points run apply(), which drops expired faults. Which
\* ones depends on their targets and on the order of the list (FaultList).
ReadPoints ==
  /\ AnswersReads(state)
  /\ \E S \in (SUBSET (Listed \cap expired)) \ {{}} : Drop(S)
  /\ UNCHANGED stopTimer

-----------------------------------------------------------------------------
(* DeviceInstance.tick *)

\* A device that is, or just came, in RUN generates its points, and the
\* generator runs apply() of the fault injector it holds, this device's or not.
GenerateIn(s, cleared) ==
  \E S \in SUBSET (IF Generates(s) THEN Listed \cap expired ELSE {}) :
    /\ faults' = [f \in Faults |-> IF f \in S THEN "absent" ELSE faults[f]]
    /\ expired' = expired \ S
    /\ faultCleared' = (cleared \/ S # {})

\* Broken: nobody ends the startup.
TickWithoutStartup ==
  \/ /\ state = "STOPPING" /\ stopTimer # NoTimer /\ stopTimer >= StopDuration
     /\ Move("STOP")
     /\ stopTimer' = NoTimer
     /\ UNCHANGED <<faultCleared, injector>>
  \/ /\ state = "RUN"
     /\ GenerateIn("RUN", faultCleared)
     /\ UNCHANGED <<state, stateAge, stopTimer>>

\* In RUN the reset of a dropped fault is refused, so only the flag moves.
Tick ==
  \/ /\ Accepts("startup_complete", FALSE)
     /\ Move("RUN")
     /\ GenerateIn("RUN", faultCleared)
     /\ UNCHANGED stopTimer
  \/ /\ state = "STOPPING" /\ stopTimer # NoTimer /\ stopTimer >= StopDuration
     /\ Move("STOP")
     /\ stopTimer' = NoTimer
     /\ UNCHANGED <<faultCleared, injector>>
  \/ /\ state = "RUN"
     /\ GenerateIn("RUN", faultCleared)
     /\ UNCHANGED <<state, stateAge, stopTimer>>

Later(age) == IF age < MaxAge THEN age + 1 ELSE age

Advance ==
  /\ stateAge' = Later(stateAge)
  /\ stopTimer' = IF stopTimer = NoTimer THEN NoTimer ELSE Later(stopTimer)
  /\ UNCHANGED <<state, faultCleared, injector>>

-----------------------------------------------------------------------------

Next ==
  \/ Start \/ Stop \/ Fault \/ Reset
  \/ \E e \in Events : RawEvent(e)
  \/ \E f \in Faults : \/ InjectFault(f) \/ InjectInactiveFault(f)
                       \/ RemoveFault(f)
                       \/ ActivateFault(f) \/ DeactivateFault(f)
                       \/ FaultExpires(f)
  \/ ClearFaults
  \/ ReadPoints
  \/ Tick
  \/ Advance

Spec == Init /\ [][Next]_vars

\* The tick loop of the engine visits every device it holds, and time passes.
FairSpec == Spec /\ WF_vars(Tick) /\ WF_vars(Advance)

-----------------------------------------------------------------------------
(* Properties *)

\* No raw event bypasses fault(), stop() or the stopping sequence: operators use
\* the methods of DeviceInstance for those, and raw events for the rest.
Managed == RawEvents \cap {"fault", "device_failure", "stop", "stop_complete"} = {}

\* A device in ERROR has no clearance left over from an earlier fault: whatever
\* clears it also resets it, so the condition of the reset rule cannot be met by
\* a clearance that was meant for another fault (state_machine.py 253-258).
ErrorIsUncleared == state = "ERROR" => ~faultCleared

\* The timer of the stopping sequence is set whenever the device is in STOPPING,
\* and it is the timer of this sequence, not of an earlier one that a fault or
\* a mode change cut short without clearing _stopping_enter_time.
TimerIsOfThisSequence == state = "STOPPING" => stopTimer = stateAge

\* A stopping sequence lasts stopping_sequence_duration, unless an injected fault
\* or a mode change takes the device out of it (the docstring of stop()).
SequenceRunsToItsEnd ==
  [][state = "STOPPING" /\ state' = "STOP" /\ faults' = faults =>
       stateAge >= StopDuration]_vars

\* A device is ONLINE only after min_startup_time in STARTING, and every way
\* into RUN leads through STARTING, whatever events operators post.
RunOnlyAfterStartup ==
  [][state # "RUN" /\ state' = "RUN" =>
       state = "STARTING" /\ stateAge >= MinStartup]_vars

\* The status shown to clients keeps the promise of DeviceStatus.
ShownStatus == INSTANCE DeviceStatus WITH status <- Status
KeepsStatusPromise == ShownStatus!Spec

\* Under the tick loop a device does not stay in STARTING, nor in STOPPING.
StartupEnds == state = "STARTING" ~> state # "STARTING"
StoppingEnds == state = "STOPPING" ~> state # "STOPPING"

\* DEVICE_FAILURE can be raised in any state and takes the device to ERROR
\* (state_machine.py 247 and the docstring of device_failure).
FailureReachesError ==
  [][\A f \in Faults :
       faults[f] # "active" /\ faults'[f] = "active" => state' = "ERROR"]_vars
=============================================================================
