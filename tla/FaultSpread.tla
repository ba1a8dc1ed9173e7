----------------------------- MODULE FaultSpread -----------------------------
(***************************************************************************)
(* The spreading of faults: rules that inject a fault into a point of a    *)
(* device when the value of another point of that device meets a condition *)
(* (simulation/fault/propagation.py, and its pass in _tick_loop of         *)
(* engine/engine.py).                                                      *)
(*                                                                         *)
(* There is one list of rules and one table of marks for all devices.  The *)
(* pass visits the devices one after the other without suspending; calls   *)
(* of the API and changes of values come between passes.                   *)
(***************************************************************************)
EXTENDS Naturals, Sequences

CONSTANTS
  Machines,      \* the devices, in the order in which the engine holds them
  Points,        \* names of points
  MaxRules,      \* bound: rules at a time
  MaxAdded,      \* bound: rules ever added
  MaxFaults      \* bound: faults of one device by one rule

Names == {Machines[k] : k \in DOMAIN Machines}

ASSUME SpreadAssumption ==
  /\ Machines \in Seq(Names)
  /\ {MaxRules, MaxAdded, MaxFaults} \subseteq Nat \ {0}

VARIABLES
  rules,        \* propagation_rules; the number of a rule is history
  added,        \* rules added so far
  marks,        \* the keys of _triggered
  reading,      \* of each point of each device: "none", or whether the value
                \* meets the conditions that are put to the point
  injected,     \* history: how often a rule has put a fault into a device
  unrecovered,  \* history: the devices a rule has put a fault into, and whose
                \* value no pass has since seen outside the condition
  mishaps       \* history: whether a rule was removed, and whether a pass failed

spreadVars == <<rules, added, marks, reading, injected, unrecovered, mishaps>>

\* What check_propagation and the engine make of the effect_type of a rule: each
\* has its own FaultType, and two types are foreign to that of the engine.
Effects == {"common", "foreign", "unknown"}

RuleRecords == [number : 1..MaxAdded, source : Points, target : Points, effect : Effects]
Keys == (1..MaxRules) \X Points \X Points

SpreadTypeOK ==
  /\ rules \in Seq(RuleRecords) /\ Len(rules) <= MaxRules
  /\ added \in 0..MaxAdded
  /\ marks \subseteq Keys
  /\ reading \in [Names -> [Points -> {"none", "calm", "met"}]]
  /\ injected \in [Names -> [1..MaxAdded -> 0..MaxFaults]]
  /\ unrecovered \subseteq Names \X (1..MaxAdded)
  /\ mishaps \subseteq {"removal", "failure"}

SpreadInit ==
  /\ rules = <<>> /\ added = 0 /\ marks = {}
  /\ reading \in [Names -> [Points -> {"none", "calm"}]]
  /\ injected = [d \in Names |-> [n \in 1..MaxAdded |-> 0]]
  /\ unrecovered = {} /\ mishaps = {}

-----------------------------------------------------------------------------
(* check_propagation *)

\* The key names the rule by its index, and no device.
Key(i) == <<i, rules[i].source, rules[i].target>>

\* Broken: no mark is set, or none is taken away.
Forget(m, i) == m

Mark(m, i) == m \cup {Key(i)}
Unmark(m, i) == m \ {Key(i)}

\* How a visit of rule i on device d changes a check: the marks, the rules that
\* spread, whether the check has failed, and whether the engine will: with the
\* first fault that is foreign to it, so that those behind it are lost.
Visit(c, d, i) ==
  CASE c.failed \/ reading[d][rules[i].source] = "none" -> c
    [] ~c.failed /\ reading[d][rules[i].source] = "calm" ->
         [c EXCEPT !.marks = Unmark(@, i), !.calm = @ \cup {rules[i].number}]
    [] ~c.failed /\ reading[d][rules[i].source] = "met" ->
         IF Key(i) \in c.marks THEN c
         ELSE [c EXCEPT !.marks = Mark(@, i),
                        !.failed = (rules[i].effect = "unknown"),
                        !.stuck = @ \/ rules[i].effect = "foreign",
                        !.spread = IF c.stuck \/ rules[i].effect = "foreign"
                                   THEN @ ELSE @ \cup {rules[i].number}]

\* The mark is set before the fault is put together, which raises for an unknown
\* type; the faults of this device that were found before are then lost.
Check(m, d) ==
  LET Upto[i \in 0..Len(rules)] ==
        IF i = 0 THEN [marks |-> m, spread |-> {}, calm |-> {},
                       failed |-> FALSE, stuck |-> FALSE]
                 ELSE Visit(Upto[i - 1], d, i)
      all == Upto[Len(rules)]
  IN  IF all.failed THEN [all EXCEPT !.spread = {}] ELSE [all EXCEPT !.failed = all.stuck]

\* The pass over the devices ends with the first that fails, in either way.
Nothing == [marks |-> marks, spread |-> {}, calm |-> {}, failed |-> FALSE]

Pass ==
  LET Upto[k \in 0..Len(Machines)] ==
        IF k = 0 \/ Upto[k - 1].failed THEN IF k = 0 THEN Nothing ELSE Upto[k - 1]
        ELSE LET c == Check(Upto[k - 1].marks, Machines[k]) IN
             [marks |-> c.marks, failed |-> c.failed,
              spread |-> Upto[k - 1].spread \cup ({Machines[k]} \X c.spread),
              calm |-> Upto[k - 1].calm \cup ({Machines[k]} \X c.calm)]
  IN  Upto[Len(Machines)]

\* The engine injects and activates what the checks return.
SpreadFaults ==
  LET p == Pass IN
    /\ \A f \in p.spread : injected[f[1]][f[2]] < MaxFaults
    /\ marks' = p.marks
    /\ injected' = [d \in Names |-> [n \in 1..MaxAdded |->
                      IF <<d, n>> \in p.spread THEN injected[d][n] + 1
                                               ELSE injected[d][n]]]
    /\ unrecovered' = (unrecovered \ p.calm) \cup p.spread
    /\ mishaps' = mishaps \cup (IF p.failed THEN {"failure"} ELSE {})
    /\ UNCHANGED <<rules, added, reading>>

-----------------------------------------------------------------------------
(* The API, and the values.  Nobody calls clear_rules. *)

\* add_rule accepts every effect_type.
AddRule(source, target, effect) ==
  /\ Len(rules) < MaxRules /\ added < MaxAdded
  /\ added' = added + 1
  /\ rules' = Append(rules, [number |-> added', source |-> source,
                             target |-> target, effect |-> effect])
  /\ UNCHANGED <<marks, reading, injected, unrecovered, mishaps>>

\* The rules behind it move up; the marks stay as they are.
RemoveRule(i) ==
  /\ rules' = SubSeq(rules, 1, i - 1) \o SubSeq(rules, i + 1, Len(rules))
  /\ mishaps' = mishaps \cup {"removal"}
  /\ UNCHANGED <<added, marks, reading, injected, unrecovered>>

ReadingChanges(d, p) ==
  /\ reading[d][p] # "none"
  /\ reading' = [reading EXCEPT ![d][p] = IF @ = "calm" THEN "met" ELSE "calm"]
  /\ UNCHANGED <<rules, added, marks, injected, unrecovered, mishaps>>

SpreadNext ==
  \/ SpreadFaults
  \/ \E s, t \in Points, effect \in Effects : AddRule(s, t, effect)
  \/ \E i \in DOMAIN rules : RemoveRule(i)
  \/ \E d \in Names, p \in Points : ReadingChanges(d, p)

SpreadSpec == SpreadInit /\ [][SpreadNext]_spreadVars

-----------------------------------------------------------------------------
(* Properties *)

\* As long as the list of rules only grows, a rule that has put a fault into a
\* device does so again only after a pass has seen the value of that device
\* outside the condition (check_propagation: a rule is triggered again after it
\* has recovered).
OncePerRecovery ==
  [][\A d \in Names, n \in 1..MaxAdded :
       injected'[d][n] > injected[d][n] /\ "removal" \notin mishaps
         => <<d, n>> \notin unrecovered]_spreadVars

\* As long as no pass has failed either, a rule that a mark holds back has put its
\* fault into the device since the value last was outside the condition: no mark
\* keeps a rule from its first fault.
MarkedHasFault ==
  mishaps = {} =>
    \A d \in Names, i \in DOMAIN rules :
      Key(i) \in marks => <<d, rules[i].number>> \in unrecovered
=============================================================================
