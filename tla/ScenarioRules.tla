---------------------------- MODULE ScenarioRules ----------------------------
(***************************************************************************)
(* The rules of a scenario, as the tick loop of the engine evaluates them  *)
(* (simulation/scenario.py, simulation/collaboration.py, engine/engine.py).*)
(*                                                                         *)
(* Each start of the scenario makes a new Scenario object.  Its tick goes  *)
(* through the plain rules and then through the collaboration rules, whose *)
(* actions may wait; it suspends in those waits and in every write, and    *)
(* goes on afterwards although the scenario may have been stopped, or      *)
(* stopped and started again, meanwhile.  The loop sleeps between ticks.   *)
(* Between two suspensions nothing else runs.                              *)
(*                                                                         *)
(* A point is hot (1) or cold (0); thresholds ask for hot, and every rule  *)
(* writes hot.  The replay of recorded values is like ValueChanges.        *)
(***************************************************************************)
EXTENDS Naturals, Sequences, FiniteSets

CONSTANTS
  RuleDevices,  \* devices of the scenario, with one point each
  PlainRules,   \* the rules that are not collaborations, in their order:
                \* [kind, source, target, pause]; the pause is the cooldown, or
                \* the interval of a timer
  ChainRules,   \* the collaborations, in their order: [source, pause, actions],
                \* the actions being a sequence of [target, wait]
  Epoch,        \* the clock when the process starts, long after 0
  MaxTime,      \* bound: the clock after Epoch
  MaxStarts     \* bound: starts of the scenario

Kinds == {"threshold", "change", "timer"}

ASSUME RulesAssumption ==
  /\ PlainRules \in Seq([kind : Kinds, source : RuleDevices, target : RuleDevices,
                         pause : Nat])
  /\ ChainRules \in Seq([source : RuleDevices, pause : Nat,
                         actions : Seq([target : RuleDevices, wait : Nat])])
  /\ {Epoch, MaxTime, MaxStarts} \subseteq Nat
  /\ \A r \in DOMAIN PlainRules : PlainRules[r].pause \in 0..Epoch
  /\ \A r \in DOMAIN PlainRules :
       PlainRules[r].kind = "timer" => PlainRules[r].pause > 0
  /\ \A r \in DOMAIN ChainRules : ChainRules[r].pause \in 0..Epoch
  /\ \A r \in DOMAIN ChainRules : ChainRules[r].actions # <<>>

VARIABLES
  now,     \* time.time()
  value,   \* the point of each device
  up,      \* the devices whose status is ONLINE
  live,    \* the Scenario object in _scenario_instances, 0 if there is none
  starts,  \* the objects made so far
  memory,  \* of each object: _start_time, _last_trigger and _prev_values, and
           \* the _last_trigger of its DeviceCollaboration
  turn,    \* the object whose tick is under way, 0 between ticks
  at,      \* the rule it is at, plain rules first
  step,    \* the action of the chain it is at
  doing,   \* "asleep", "checking", "acting"; suspended in "writing", "waiting"
  until,   \* the end of the wait
  began,   \* the time DeviceCollaboration.tick took at its beginning
  fires,   \* history: when the plain rules of each object fired
  late     \* history: writes since the stop, or since a device was last ONLINE

place == <<turn, at, step, doing, until, began>>
world == <<now, value, up>>
histories == <<fires, late>>
rulesVars == <<world, live, starts, memory, place, histories>>

Runs == 1..MaxStarts
Plain == DOMAIN PlainRules
Chains == DOMAIN ChainRules
NumPlain == Len(PlainRules)
NumRules == Len(PlainRules) + Len(ChainRules)
Chain == ChainRules[at - NumPlain]
Unseen == 2  \* no previous value

Times == 0..(Epoch + MaxTime)

RulesTypeOK ==
  /\ now \in Epoch..(Epoch + MaxTime)
  /\ value \in [RuleDevices -> 0..1] /\ up \subseteq RuleDevices
  /\ live \in 0..starts /\ starts \in 0..MaxStarts
  /\ memory \in [Runs -> [start : Times, last : [Plain -> Times],
                          prev : [RuleDevices -> 0..2], chained : [Chains -> Times]]]
  /\ turn \in 0..starts
  /\ at \in 0..NumRules /\ step \in Nat
  /\ doing \in {"asleep", "checking", "acting", "writing", "waiting"}
  /\ turn = 0 <=> doing = "asleep"
  /\ doing \in {"acting", "waiting"} => at > NumPlain /\ step \in DOMAIN Chain.actions
  /\ until \in Nat /\ began \in Times
  /\ fires \in [Runs -> [Plain -> Seq(Times)]]
  /\ late \in Nat

Fresh(t) ==
  [start |-> t, last |-> [r \in Plain |-> 0],
   prev |-> [d \in RuleDevices |-> Unseen], chained |-> [r \in Chains |-> 0]]

RulesInit ==
  /\ now = Epoch
  /\ value = [d \in RuleDevices |-> 0] /\ up = {}
  /\ live = 0 /\ starts = 0
  /\ memory = [o \in Runs |-> Fresh(0)]
  /\ turn = 0 /\ at = 0 /\ step = 0 /\ doing = "asleep" /\ until = 0 /\ began = 0
  /\ fires = [o \in Runs |-> [r \in Plain |-> <<>>]]
  /\ late = 0

-----------------------------------------------------------------------------
(* The tick *)

Rest == /\ turn' = 0 /\ at' = 0 /\ step' = 0 /\ doing' = "asleep"
        /\ until' = 0 /\ began' = 0

\* On to a rule.  The collaborations take the time once, before their first rule.
GoTo(r) ==
  IF r > NumRules THEN Rest
  ELSE /\ at' = r /\ step' = 0 /\ doing' = "checking" /\ until' = 0
       /\ began' = (IF r = NumPlain + 1 THEN now ELSE began)
       /\ UNCHANGED turn

\* Scenario.tick looks at the status once.
TickBegins ==
  /\ doing = "asleep" /\ live # 0 /\ NumRules > 0
  /\ turn' = live /\ at' = 1 /\ step' = 0 /\ doing' = "checking" /\ until' = 0
  /\ began' = (IF NumPlain = 0 THEN now ELSE 0)
  /\ UNCHANGED <<world, live, starts, memory, histories>>

Rule == PlainRules[at]
Cooled == now >= memory[turn].last[at] + Rule.pause

\* The previous value is kept for the point, not for the rule.
Changed == memory[turn].prev[Rule.source] \notin {Unseen, value[Rule.source]}

\* stop() takes the time of the start away, and a timer needs it.
Elapsed == now - memory[turn].start

Triggered ==
  CASE Rule.kind = "threshold" -> Rule.source \in up /\ value[Rule.source] = 1 /\ Cooled
    [] Rule.kind = "change" -> Rule.source \in up /\ Changed /\ Cooled
    [] Rule.kind = "timer" ->
         live = turn /\ Elapsed >= memory[turn].last[at] + Rule.pause

Stamp == IF Rule.kind = "timer" THEN Elapsed ELSE now

Seen(m) ==
  IF Rule.kind = "change" /\ Rule.source \in up
  THEN [m EXCEPT !.prev[Rule.source] = value[Rule.source]]
  ELSE m

\* Broken: the rule fires without a mark of it.
TakesNote == memory' = [memory EXCEPT ![turn] = Seen(@)]

Marks == memory' = [memory EXCEPT ![turn] = [Seen(@) EXCEPT !.last[at] = Stamp]]

PlainRests ==
  /\ doing = "checking" /\ at <= NumPlain /\ ~Triggered
  /\ memory' = [memory EXCEPT ![turn] = Seen(@)]
  /\ GoTo(at + 1)
  /\ UNCHANGED <<world, live, starts, histories>>

\* write_point first, in memory; then the engine carries it to the server.
PlainFires ==
  /\ doing = "checking" /\ at <= NumPlain /\ Triggered
  /\ Marks
  /\ fires' = [fires EXCEPT ![turn][at] = Append(@, now)]
  /\ IF Rule.target \in up
       THEN /\ value' = [value EXCEPT ![Rule.target] = 1]
            /\ doing' = "writing" /\ UNCHANGED <<turn, at, step, until, began>>
       ELSE GoTo(at + 1) /\ UNCHANGED value
  /\ UNCHANGED <<now, up, live, starts, late>>

ChainHolds ==
  /\ began >= memory[turn].chained[at - NumPlain] + Chain.pause
  /\ Chain.source \in up /\ value[Chain.source] = 1

ChainRests ==
  /\ doing = "checking" /\ at > NumPlain /\ ~ChainHolds
  /\ GoTo(at + 1)
  /\ UNCHANGED <<world, live, starts, memory, histories>>

ChainFires ==
  /\ doing = "checking" /\ at > NumPlain /\ ChainHolds
  /\ memory' = [memory EXCEPT ![turn].chained[at - NumPlain] = began]
  /\ step' = 1 /\ doing' = "acting"
  /\ UNCHANGED <<world, live, starts, turn, at, until, began, histories>>

Action == Chain.actions[step]

\* Broken: one action too many.
NextActionPastEnd ==
  IF step <= Len(Chain.actions)
  THEN step' = step + 1 /\ doing' = "acting" /\ until' = 0 /\ UNCHANGED <<turn, at, began>>
  ELSE GoTo(at + 1)

NextAction ==
  IF step < Len(Chain.actions)
  THEN step' = step + 1 /\ doing' = "acting" /\ until' = 0 /\ UNCHANGED <<turn, at, began>>
  ELSE GoTo(at + 1)

\* Broken: the device is not looked at.
WritesAnyway ==
  doing' = "writing" /\ until' = 0 /\ UNCHANGED <<turn, at, step, began>>

\* _collab_write asks for the status before it suspends.
Writes ==
  IF Action.target \in up
  THEN doing' = "writing" /\ until' = 0 /\ UNCHANGED <<turn, at, step, began>>
  ELSE NextAction

ActsAtOnce ==
  /\ doing = "acting" /\ Action.wait = 0
  /\ Writes
  /\ UNCHANGED <<world, live, starts, memory, histories>>

ActionWaits ==
  /\ doing = "acting" /\ Action.wait > 0
  /\ doing' = "waiting" /\ until' = now + Action.wait
  /\ UNCHANGED <<world, live, starts, memory, turn, at, step, began, histories>>

WaitEnds ==
  /\ doing = "waiting" /\ now >= until
  /\ Writes
  /\ UNCHANGED <<world, live, starts, memory, histories>>

Written == IF at <= NumPlain THEN Rule.target ELSE Action.target

\* The simulated network has delayed the write; now it is dropped, or refused,
\* or it reaches the device, which takes it when it is OFFLINE as well.
WriteEnds ==
  /\ doing = "writing"
  /\ \/ UNCHANGED <<value, late>>
     \/ /\ value' = [value EXCEPT ![Written] = 1]
        /\ late' = (IF live # turn /\ up = {} THEN late + 1 ELSE late)
  /\ IF at <= NumPlain THEN GoTo(at + 1) ELSE NextAction
  /\ UNCHANGED <<now, up, live, starts, memory, fires>>

-----------------------------------------------------------------------------
(* What happens while the tick is suspended, or between ticks *)

Suspended == doing \in {"asleep", "writing", "waiting"}

StartScenarioRules ==
  /\ Suspended /\ live = 0 /\ starts < MaxStarts
  /\ starts' = starts + 1 /\ live' = starts'
  /\ memory' = [memory EXCEPT ![starts'] = Fresh(now)]
  /\ up' = RuleDevices /\ late' = 0
  /\ UNCHANGED <<now, value, place, fires>>

\* The devices have no stopping sequence, so they are OFFLINE at once.
StopScenarioRules ==
  /\ Suspended /\ live # 0
  /\ live' = 0 /\ up' = {} /\ late' = 0
  /\ UNCHANGED <<now, value, starts, memory, place, fires>>

\* Operators and faults take devices down and bring them up.
DeviceChanges(d) ==
  /\ Suspended
  /\ up' \in {up \cup {d}, up \ {d}}
  /\ late' = (IF up' = {} THEN late ELSE 0)
  /\ UNCHANGED <<now, value, live, starts, memory, place, fires>>

\* Clients and generators change values.
ValueChanges(d) ==
  /\ Suspended
  /\ value' = [value EXCEPT ![d] = 1 - @]
  /\ UNCHANGED <<now, up, live, starts, memory, place, histories>>

TimePasses ==
  /\ Suspended /\ now < Epoch + MaxTime
  /\ now' = now + 1
  /\ UNCHANGED <<value, up, live, starts, memory, place, histories>>

-----------------------------------------------------------------------------
(* The specification *)

Tick ==
  \/ TickBegins
  \/ PlainRests \/ PlainFires
  \/ ChainRests \/ ChainFires \/ ActsAtOnce \/ ActionWaits \/ WaitEnds
  \/ WriteEnds

RulesNext ==
  \/ Tick
  \/ StartScenarioRules \/ StopScenarioRules
  \/ \E d \in RuleDevices : DeviceChanges(d) \/ ValueChanges(d)
  \/ TimePasses

RulesSpec == RulesInit /\ [][RulesNext]_rulesVars

-----------------------------------------------------------------------------
(* Properties *)

\* A plain rule of one run of the scenario fires, and its timer rings, at most
\* once in its pause, however long the writes of other rules keep the tick.
PausesKept ==
  \A o \in Runs, r \in Plain :
    \A i \in 1..(Len(fires[o][r]) - 1) :
      fires[o][r][i + 1] >= fires[o][r][i] + PlainRules[r].pause

\* A tick that outlives the stop of its scenario goes on through all its rules
\* and chains, but while no device is ONLINE it changes at most one point, with
\* the write that was under way when the scenario was stopped.
AtMostOneLateWrite == late <= 1
=============================================================================
