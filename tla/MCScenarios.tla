----------------------------- MODULE MCScenarios -----------------------------
(***************************************************************************)
(* One instance of each part of what runs by itself in the tick loop.  A   *)
(* behaviour belongs to one part, chosen at the beginning; the parts share *)
(* nothing:                                                                *)
(*   "scenarios"  ScenarioLifecycle                                        *)
(*   "rules"      ScenarioRules                                            *)
(*   "faults"     FaultSpread                                              *)
(***************************************************************************)
EXTENDS MCScenarioLifecycle, ScenarioRules, MCFaultSpread

VARIABLE part

\* A rule that a change of d1 fires, a timer, and a chain that waits.
MCPlainRules ==
  << [kind |-> "change", source |-> d1, target |-> d2, pause |-> 2],
     [kind |-> "timer", source |-> d1, target |-> d1, pause |-> 2] >>
MCChainRules ==
  << [source |-> d2, pause |-> 1,
      actions |-> << [target |-> d1, wait |-> 1], [target |-> d2, wait |-> 0] >>] >>

TickedInit ==
  /\ Init /\ RulesInit /\ SpreadInit
  /\ part \in {"scenarios", "rules", "faults"}
  /\ part # "faults" => \A d \in Names, p \in Points : reading[d][p] = "calm"

OfScenarios(act) ==
  part = "scenarios" /\ act /\ UNCHANGED <<rulesVars, spreadVars, part>>

TickedNext ==
  \/ OfScenarios(Next)
  \/ part = "rules" /\ RulesNext /\ UNCHANGED <<vars, spreadVars, part>>
  \/ part = "faults" /\ SpreadNext /\ UNCHANGED <<vars, rulesVars, part>>

tickedVars == <<vars, rulesVars, spreadVars, part>>

TickedSpec ==
  /\ TickedInit /\ [][TickedNext]_tickedVars
  /\ \A c \in Calls : WF_tickedVars(OfScenarios(Resume(c)))

\* The types of all parts.
TickedTypeOK == TypeOK /\ RulesTypeOK /\ SpreadTypeOK
=============================================================================
