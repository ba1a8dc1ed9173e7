----------------------- MODULE DeviceLifecycleProofs -----------------------
(***************************************************************************)
(* Theorems about DeviceLifecycle, for any set of faults, any durations    *)
(* and any bound on the clock.                                             *)
(***************************************************************************)
EXTENDS DeviceLifecycle, TLAPS

-----------------------------------------------------------------------------
(* Types *)

\* Accepted or refused, an event leaves the state and its age in their types.
LEMMA TriggerTypes ==
  ASSUME TypeOK, NEW e \in Events, NEW c, Trigger(e, c)
  PROVE  state' \in States /\ stateAge' \in Ages
<1>1. To[e] \in States
  BY DEF To, Events, States
<1> QED
  BY <1>1, DurationAssumption DEF TypeOK, Trigger, Move, Ages

\* The shape of a fault that is raised and of one that is lifted.
LEMMA CallbackTypes ==
  ASSUME TypeOK, RaiseFault \/ ClearAndReset
  PROVE  state' \in States /\ stateAge' \in Ages /\ faultCleared' \in BOOLEAN
<1>1. {"fault", "reset"} \subseteq Events
  BY DEF Events
<1> QED
  BY <1>1, TriggerTypes DEF RaiseFault, ClearAndReset

\* Dropping faults from the list keeps the injector and the machine in their types.
LEMMA DropTypes ==
  ASSUME TypeOK, NEW S, Drop(S)
  PROVE  /\ state' \in States /\ stateAge' \in Ages /\ faultCleared' \in BOOLEAN
         /\ faults' \in [Faults -> {"absent", "active", "inactive"}]
         /\ expired' \subseteq Faults
<1>1. faults' \in [Faults -> {"absent", "active", "inactive"}] /\ expired' \subseteq Faults
  BY DEF TypeOK, Drop
<1>2. state' \in States /\ stateAge' \in Ages /\ faultCleared' \in BOOLEAN
  BY CallbackTypes DEF TypeOK, Drop, sm
<1> QED
  BY <1>1, <1>2

\* The initial state has the types.
LEMMA InitType == Init => TypeOK
<1> SUFFICES ASSUME Init PROVE TypeOK
  OBVIOUS
<1>1. state \in States /\ stateAge \in Ages /\ stopTimer \in Ages \cup {NoTimer}
  BY DurationAssumption DEF Init, States, Ages
<1>2. faultCleared \in BOOLEAN
  BY DEF Init
<1>3. faults \in [Faults -> {"absent", "active", "inactive"}] /\ expired \subseteq Faults
  BY DEF Init
<1> QED
  BY <1>1, <1>2, <1>3 DEF TypeOK

\* Every step keeps the types.
LEMMA NextType == TypeOK /\ [Next]_vars => TypeOK'
<1> SUFFICES ASSUME TypeOK, [Next]_vars PROVE TypeOK'
  OBVIOUS
<1> USE DurationAssumption DEF Ages, NoTimer
<1>1. CASE Start
  BY <1>1, TriggerTypes DEF Start, TypeOK, injector, Events
<1>2. CASE Stop
  <2>1. CASE StopBySequence
    BY <2>1 DEF StopBySequence, Move, TypeOK, States, injector
  <2>2. CASE StopAtOnce
    BY <2>2 DEF StopAtOnce, Move, TypeOK, States, injector
  <2>3. CASE StopFromError
    BY <2>3, CallbackTypes DEF StopFromError, TypeOK, injector
  <2>4. CASE StopFromMode
    BY <2>4 DEF StopFromMode, Move, TypeOK, States, injector
  <2> QED
    BY <1>2, <2>1, <2>2, <2>3, <2>4 DEF Stop
<1>3. CASE Fault
  BY <1>3, CallbackTypes DEF Fault, TypeOK, injector
<1>4. CASE Reset
  BY <1>4, CallbackTypes DEF Reset, TypeOK, injector
<1>5. ASSUME NEW e \in Events, RawEvent(e) PROVE TypeOK'
  <2>1. To[e] \in States
    BY DEF To, Events, States
  <2> QED
    BY <1>5, <2>1 DEF RawEvent, Move, TypeOK, injector
<1>6. ASSUME NEW f \in Faults, InjectFault(f) \/ ActivateFault(f) PROVE TypeOK'
  BY <1>6, CallbackTypes DEF InjectFault, ActivateFault, TypeOK
<1>7. ASSUME NEW f \in Faults, DeactivateFault(f) PROVE TypeOK'
  BY <1>7, CallbackTypes DEF DeactivateFault, TypeOK
<1>8. ASSUME NEW f \in Faults, InjectInactiveFault(f) PROVE TypeOK'
  BY <1>8 DEF InjectInactiveFault, Move, TypeOK, States
<1>9. ASSUME NEW f \in Faults, RemoveFault(f) PROVE TypeOK'
  BY <1>9, DropTypes DEF RemoveFault, TypeOK
<1>10. ASSUME NEW f \in Faults, FaultExpires(f) PROVE TypeOK'
  BY <1>10 DEF FaultExpires, TypeOK, sm
<1>11. CASE ClearFaults
  BY <1>11, DropTypes DEF ClearFaults, TypeOK
<1>12. CASE ReadPoints
  BY <1>12, DropTypes DEF ReadPoints, TypeOK
<1>13. CASE Tick
  <2>1. ASSUME NEW s, GenerateIn(s, faultCleared)
        PROVE  /\ faults' \in [Faults -> {"absent", "active", "inactive"}]
               /\ expired' \subseteq Faults /\ faultCleared' \in BOOLEAN
    BY <2>1 DEF GenerateIn, TypeOK
  <2>2. CASE Accepts("startup_complete", FALSE) /\ Move("RUN")
             /\ GenerateIn("RUN", faultCleared) /\ UNCHANGED stopTimer
    BY <2>1, <2>2 DEF Move, TypeOK, States
  <2>3. CASE state = "STOPPING" /\ Move("STOP") /\ stopTimer' = NoTimer
             /\ UNCHANGED <<faultCleared, injector>>
    BY <2>3 DEF Move, TypeOK, States, injector
  <2>4. CASE GenerateIn("RUN", faultCleared) /\ UNCHANGED <<state, stateAge, stopTimer>>
    BY <2>1, <2>4 DEF TypeOK
  <2> QED
    BY <1>13, <2>2, <2>3, <2>4 DEF Tick
<1>14. CASE Advance
  BY <1>14 DEF Advance, Later, TypeOK, injector
<1>15. CASE UNCHANGED vars
  BY <1>15 DEF vars, TypeOK
<1> QED
  BY <1>1, <1>2, <1>3, <1>4, <1>5, <1>6, <1>7, <1>8, <1>9, <1>10, <1>11, <1>12,
     <1>13, <1>14, <1>15 DEF Next

\* The variables keep their types.
THEOREM TypeCorrect == Spec => []TypeOK
<1>1. Init => TypeOK
  BY InitType
<1>2. TypeOK /\ [Next]_vars => TypeOK'
  BY NextType
<1> QED
  BY <1>1, <1>2, PTL DEF Spec

-----------------------------------------------------------------------------
(* Faults and their clearance *)

\* Raw events of a managed installation lead to ERROR in no way.
LEMMA ManagedAvoidsError ==
  ASSUME Managed, NEW e \in Events, e \in RawEvents
  PROVE  To[e] # "ERROR" /\ e # "stop" /\ To[e] # "STOPPING" /\ e # "stop_complete"
  BY DEF Managed, To, Events

\* Lifting a fault leaves ERROR, whatever led there.
LEMMA ClearingLeavesError ==
  ASSUME TypeOK, ClearAndReset PROVE state' # "ERROR"
  BY DEF ClearAndReset, Trigger, Accepts, Move, From, To, TypeOK

\* Raising a fault withdraws the clearance.
LEMMA RaisingIsUncleared ==
  ASSUME TypeOK, RaiseFault PROVE faultCleared' = FALSE
  BY DEF RaiseFault

\* Every step of a managed installation leaves a device in ERROR uncleared.
LEMMA NextUncleared ==
  ASSUME Managed, TypeOK, ErrorIsUncleared, [Next]_vars
  PROVE  ErrorIsUncleared'
<1>1. CASE Start
  BY <1>1 DEF Start, Trigger, Accepts, Move, To, ErrorIsUncleared
<1>2. CASE Stop
  <2>1. CASE StopFromError
    BY <2>1, ClearingLeavesError DEF StopFromError, ErrorIsUncleared
  <2>2. CASE StopBySequence \/ StopAtOnce \/ StopFromMode
    BY <2>2 DEF StopBySequence, StopAtOnce, StopFromMode, Move, ErrorIsUncleared
  <2> QED
    BY <1>2, <2>1, <2>2 DEF Stop
<1>3. CASE Fault
  BY <1>3, RaisingIsUncleared DEF Fault, ErrorIsUncleared
<1>4. CASE Reset
  BY <1>4, ClearingLeavesError DEF Reset, ErrorIsUncleared
<1>5. ASSUME NEW e \in Events, RawEvent(e) PROVE ErrorIsUncleared'
  BY <1>5, ManagedAvoidsError DEF RawEvent, Move, ErrorIsUncleared
<1>6. ASSUME NEW f \in Faults, InjectFault(f) \/ ActivateFault(f) PROVE ErrorIsUncleared'
  BY <1>6, RaisingIsUncleared DEF InjectFault, ActivateFault, ErrorIsUncleared
<1>7. ASSUME NEW f \in Faults, DeactivateFault(f) PROVE ErrorIsUncleared'
  BY <1>7, ClearingLeavesError DEF DeactivateFault, ErrorIsUncleared
<1>8. ASSUME NEW f \in Faults, InjectInactiveFault(f) PROVE ErrorIsUncleared'
  BY <1>8 DEF InjectInactiveFault, Move, From, ErrorIsUncleared
<1>9. ASSUME NEW S, Drop(S) PROVE ErrorIsUncleared'
  BY <1>9, ClearingLeavesError DEF Drop, sm, ErrorIsUncleared
<1>10. ASSUME NEW f \in Faults, RemoveFault(f) PROVE ErrorIsUncleared'
  BY <1>9, <1>10 DEF RemoveFault
<1>11. ASSUME NEW f \in Faults, FaultExpires(f) PROVE ErrorIsUncleared'
  BY <1>11 DEF FaultExpires, sm, ErrorIsUncleared
<1>12. CASE ClearFaults \/ ReadPoints
  BY <1>9, <1>12 DEF ClearFaults, ReadPoints
<1>13. CASE Tick
  BY <1>13 DEF Tick, Move, ErrorIsUncleared
<1>14. CASE Advance
  BY <1>14 DEF Advance, ErrorIsUncleared
<1>15. CASE UNCHANGED vars
  BY <1>15 DEF vars, ErrorIsUncleared
<1> QED
  BY <1>1, <1>2, <1>3, <1>4, <1>5, <1>6, <1>7, <1>8, <1>10, <1>11, <1>12,
     <1>13, <1>14, <1>15 DEF Next

\* In a managed installation a device in ERROR never holds a clearance: a reset
\* is accepted only together with the call that clears the fault.
THEOREM ResetIsAlwaysCleared == ASSUME Managed PROVE Spec => []ErrorIsUncleared
<1>1. Init => ErrorIsUncleared
  BY DEF Init, ErrorIsUncleared
<1>2. TypeOK /\ ErrorIsUncleared /\ [Next]_vars => ErrorIsUncleared'
  BY NextUncleared
<1> QED
  BY <1>1, <1>2, TypeCorrect, PTL DEF Spec

-----------------------------------------------------------------------------
(* The stopping sequence *)

\* Raising or lifting a fault never puts a device in STOPPING, nor touches one
\* that stays there.
LEMMA CallbackTimer ==
  ASSUME TypeOK, TimerIsOfThisSequence, RaiseFault \/ ClearAndReset, UNCHANGED stopTimer
  PROVE  TimerIsOfThisSequence'
  BY DEF RaiseFault, ClearAndReset, Trigger, Accepts, Move, To, TimerIsOfThisSequence

\* Every step of a managed installation keeps the timer that of the sequence.
LEMMA NextTimer ==
  ASSUME Managed, TypeOK, TimerIsOfThisSequence, [Next]_vars
  PROVE  TimerIsOfThisSequence'
<1>1. CASE Start
  BY <1>1 DEF Start, Trigger, Accepts, Move, To, TimerIsOfThisSequence
<1>2. CASE Stop
  <2>1. CASE StopFromError
    BY <2>1, CallbackTimer DEF StopFromError
  <2>2. CASE StopBySequence \/ StopAtOnce \/ StopFromMode
    BY <2>2 DEF StopBySequence, StopAtOnce, StopFromMode, Move, TimerIsOfThisSequence
  <2> QED
    BY <1>2, <2>1, <2>2 DEF Stop
<1>3. CASE Fault \/ Reset
  BY <1>3, CallbackTimer DEF Fault, Reset
<1>4. ASSUME NEW e \in Events, RawEvent(e) PROVE TimerIsOfThisSequence'
  BY <1>4, ManagedAvoidsError DEF RawEvent, Move, TimerIsOfThisSequence
<1>5. ASSUME NEW f \in Faults, InjectFault(f) \/ ActivateFault(f) \/ DeactivateFault(f)
      PROVE  TimerIsOfThisSequence'
  BY <1>5, CallbackTimer DEF InjectFault, ActivateFault, DeactivateFault
<1>6. ASSUME NEW f \in Faults, InjectInactiveFault(f) PROVE TimerIsOfThisSequence'
  BY <1>6 DEF InjectInactiveFault, Move, From, TimerIsOfThisSequence
<1>7. ASSUME NEW S, Drop(S), UNCHANGED stopTimer PROVE TimerIsOfThisSequence'
  BY <1>7, CallbackTimer DEF Drop, sm, TimerIsOfThisSequence
<1>8. ASSUME NEW f \in Faults, RemoveFault(f) PROVE TimerIsOfThisSequence'
  BY <1>7, <1>8 DEF RemoveFault
<1>9. ASSUME NEW f \in Faults, FaultExpires(f) PROVE TimerIsOfThisSequence'
  BY <1>9 DEF FaultExpires, sm, TimerIsOfThisSequence
<1>10. CASE ClearFaults \/ ReadPoints
  BY <1>7, <1>10 DEF ClearFaults, ReadPoints
<1>11. CASE Tick
  BY <1>11 DEF Tick, Move, TimerIsOfThisSequence
<1>12. CASE Advance
  BY <1>12, DurationAssumption
     DEF Advance, Later, TypeOK, Ages, NoTimer, TimerIsOfThisSequence
<1>13. CASE UNCHANGED vars
  BY <1>13 DEF vars, TimerIsOfThisSequence
<1> QED
  BY <1>1, <1>2, <1>3, <1>4, <1>5, <1>6, <1>8, <1>9, <1>10, <1>11, <1>12, <1>13
     DEF Next

\* In a managed installation the timer tick() looks at is always the one of the
\* stopping sequence under way.
THEOREM TimerIsFresh == ASSUME Managed PROVE Spec => []TimerIsOfThisSequence
<1>1. Init => TimerIsOfThisSequence
  BY DEF Init, TimerIsOfThisSequence
<1>2. TypeOK /\ TimerIsOfThisSequence /\ [Next]_vars => TimerIsOfThisSequence'
  BY NextTimer
<1> QED
  BY <1>1, <1>2, TypeCorrect, PTL DEF Spec

\* A step out of STOPPING into STOP with the faults as they were is the tick that
\* finds the timer run down, or a stop() of a device without a sequence.
LEMMA SequenceStep ==
  ASSUME Managed, TypeOK, TimerIsOfThisSequence, [Next]_vars,
         state = "STOPPING", state' = "STOP", faults' = faults
  PROVE  stateAge >= StopDuration
<1>1. CASE Start \/ Fault \/ Reset
  BY <1>1 DEF Start, Fault, Reset, RaiseFault, ClearAndReset, Trigger, Accepts,
              Move, From, To
<1>2. CASE Stop
  BY <1>2, DurationAssumption
     DEF Stop, StopBySequence, StopAtOnce, StopFromError, StopFromMode, Move, TypeOK, Ages
<1>3. ASSUME NEW e \in Events, RawEvent(e) PROVE FALSE
  <2>1. e # "stop_complete"
    BY <1>3, ManagedAvoidsError DEF RawEvent
  <2> QED
    BY <1>3, <2>1 DEF RawEvent, Accepts, Move, Events, From, To
<1>4. ASSUME NEW f \in Faults, \/ InjectFault(f) \/ ActivateFault(f)
                               \/ InjectInactiveFault(f) PROVE FALSE
  BY <1>4 DEF InjectFault, ActivateFault, InjectInactiveFault, TypeOK
<1>5. ASSUME NEW f \in Faults, DeactivateFault(f) PROVE FALSE
  BY <1>5 DEF DeactivateFault, ClearAndReset, Trigger, Accepts, From
<1>6. ASSUME NEW S, Drop(S) PROVE FALSE
  BY <1>6 DEF Drop, sm, ClearAndReset, Trigger, Accepts, From
<1>7. ASSUME NEW f \in Faults, RemoveFault(f) \/ FaultExpires(f) PROVE FALSE
  BY <1>6, <1>7 DEF RemoveFault, FaultExpires, sm
<1>8. CASE ClearFaults \/ ReadPoints
  BY <1>6, <1>8 DEF ClearFaults, ReadPoints
<1>9. CASE Tick
  BY <1>9 DEF Tick, Accepts, From, Move, TimerIsOfThisSequence
<1>10. CASE Advance \/ UNCHANGED vars
  BY <1>10 DEF Advance, vars
<1> QED
  BY <1>1, <1>2, <1>3, <1>4, <1>5, <1>7, <1>8, <1>9, <1>10 DEF Next

\* In a managed installation a stopping sequence is not cut short by an old timer.
THEOREM SequenceIsComplete == ASSUME Managed PROVE Spec => SequenceRunsToItsEnd
<1>1. TypeOK /\ TimerIsOfThisSequence /\ [Next]_vars =>
        [state = "STOPPING" /\ state' = "STOP" /\ faults' = faults =>
           stateAge >= StopDuration]_vars
  BY SequenceStep
<1> QED
  BY <1>1, TypeCorrect, TimerIsFresh, PTL DEF Spec, SequenceRunsToItsEnd

-----------------------------------------------------------------------------
(* Coming ONLINE, and the status clients are shown *)

\* Callbacks of the injector never bring a device to RUN.
LEMMA CallbackNeverRuns ==
  ASSUME RaiseFault \/ ClearAndReset, state' = "RUN" PROVE state = "RUN"
  BY DEF RaiseFault, ClearAndReset, Trigger, Accepts, Move, To

\* The only step into RUN ends a startup.
LEMMA RunStep ==
  ASSUME TypeOK, [Next]_vars, state # "RUN", state' = "RUN"
  PROVE  state = "STARTING" /\ stateAge >= MinStartup
<1>1. CASE Start
  BY <1>1 DEF Start, Trigger, Accepts, Move, To
<1>2. CASE Stop
  BY <1>2, CallbackNeverRuns
     DEF Stop, StopBySequence, StopAtOnce, StopFromError, StopFromMode, Move
<1>3. CASE Fault \/ Reset
  BY <1>3, CallbackNeverRuns DEF Fault, Reset
<1>4. ASSUME NEW e \in Events, RawEvent(e)
      PROVE  state = "STARTING" /\ stateAge >= MinStartup
  BY <1>4 DEF RawEvent, Accepts, Move, Events, From, To
<1>5. ASSUME NEW f \in Faults, InjectFault(f) \/ ActivateFault(f) \/ DeactivateFault(f)
      PROVE  FALSE
  BY <1>5, CallbackNeverRuns DEF InjectFault, ActivateFault, DeactivateFault
<1>6. ASSUME NEW f \in Faults, InjectInactiveFault(f) \/ FaultExpires(f) PROVE FALSE
  BY <1>6 DEF InjectInactiveFault, FaultExpires, Move, sm
<1>7. ASSUME NEW S, Drop(S) PROVE FALSE
  BY <1>7, CallbackNeverRuns DEF Drop, sm
<1>8. ASSUME NEW f \in Faults, RemoveFault(f) PROVE FALSE
  BY <1>7, <1>8 DEF RemoveFault
<1>9. CASE ClearFaults \/ ReadPoints
  BY <1>7, <1>9 DEF ClearFaults, ReadPoints
<1>10. CASE Tick
  BY <1>10 DEF Tick, Accepts, From, Move
<1>11. CASE Advance \/ UNCHANGED vars
  BY <1>11 DEF Advance, vars
<1> QED
  BY <1>1, <1>2, <1>3, <1>4, <1>5, <1>6, <1>8, <1>9, <1>10, <1>11 DEF Next

\* Whatever events operators post, a device comes to RUN only out of STARTING and
\* after its minimum startup time.
THEOREM StartupIsNotSkipped == Spec => RunOnlyAfterStartup
<1>1. TypeOK /\ [Next]_vars =>
        [state # "RUN" /\ state' = "RUN" => state = "STARTING" /\ stateAge >= MinStartup]_vars
  BY RunStep
<1> QED
  BY <1>1, TypeCorrect, PTL DEF Spec, RunOnlyAfterStartup

\* A device implements DeviceStatus through the status it shows: a failed device
\* is not shown ONLINE again before it was OFFLINE.
THEOREM StatusPromise == Spec => KeepsStatusPromise
<1>1. Init => ShownStatus!Init
  BY DEF Init, ShownStatus!Init, Status, StatusOf
<1>2. TypeOK /\ TypeOK' /\ [Next]_vars => [ShownStatus!Next]_Status
  <2> SUFFICES ASSUME TypeOK, TypeOK', [Next]_vars PROVE [ShownStatus!Next]_Status
    OBVIOUS
  <2>1. state' = "RUN" => state \in {"RUN", "STARTING"}
    BY RunStep
  <2>2. Status' = "ONLINE" => Status \in {"ONLINE", "OFFLINE"}
    BY <2>1 DEF Status, StatusOf
  <2>3. Status \in {"ONLINE", "OFFLINE", "ERROR"} /\ Status' \in {"ONLINE", "OFFLINE", "ERROR"}
    BY DEF Status, StatusOf
  <2> QED
    BY <2>2, <2>3 DEF ShownStatus!Next, ShownStatus!ComeUp, ShownStatus!GoDown,
                     ShownStatus!Fail
<1> QED
  BY <1>1, <1>2, TypeCorrect, PTL DEF Spec, KeepsStatusPromise, ShownStatus!Spec
============================================================================
