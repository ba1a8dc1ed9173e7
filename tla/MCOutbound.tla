----------------------------- MODULE MCOutbound -----------------------------
(***************************************************************************)
(* One instance of each path by which the program sends on what happens in *)
(* it.  A behaviour belongs to one part, chosen at the beginning; the      *)
(* parts share nothing:                                                    *)
(*   "logs"      LogForward                                                *)
(*   "commands", "messages"                                                *)
(*               EdgeLiteLink: two commands; one command and a message of  *)
(*               a client that waits for its reply                         *)
(*   "events", "tests", "registry"                                         *)
(*               Webhook: many events and no tests; tests beside few       *)
(*               events, for one object; and no events, but every update   *)
(***************************************************************************)
EXTENDS LogForward, EdgeLiteLink, Webhook

CONSTANTS http, file, m1, m2, a1, h1, n1, n2

VARIABLE part

LinkParts == {"commands", "messages"}
HookParts == {"events", "tests", "registry"}

\* The state of the other parts stays as it began, and begins in one way.
OutInit ==
  /\ Init /\ LinkInit /\ WebhookInit
  /\ part \in {"logs"} \cup LinkParts \cup HookParts
  /\ part \notin LinkParts => remote

LinkBounds == stage[IF part = "commands" THEN a1 ELSE m2] = "unissued"

OneName == \A o \in Objects : object[o].conf.name = NoObject.conf.name
Lists == \A o \in Objects : object[o].conf.events = "list"

HookBounds ==
  CASE part = "events"   -> tested = 0 /\ OneName /\ Lists
    [] part = "tests"    -> made <= 1 /\ triggers <= 2 /\ restarts = 0 /\ OneName
    [] part = "registry" -> tested = 0 /\ triggers = 0
    [] OTHER             -> FALSE

OfLogs(step) == part = "logs" /\ step /\ UNCHANGED <<linkVars, webhookVars, part>>
OfCommands(step) ==
  part \in LinkParts /\ step /\ UNCHANGED <<vars, webhookVars, part>> /\ LinkBounds'
OfWebhooks(step) ==
  part \in HookParts /\ step /\ UNCHANGED <<vars, linkVars, part>> /\ HookBounds'

OutNext == OfLogs(Next) \/ OfCommands(LinkNext) \/ OfWebhooks(WebhookNext)

outVars == <<vars, linkVars, webhookVars, part>>

OutSpec ==
  /\ OutInit /\ [][OutNext]_outVars
  /\ WF_outVars(OfLogs(Loop))
  /\ WF_outVars(OfCommands(SendEnds)) /\ WF_outVars(OfCommands(ConsumerTurns))
  /\ WF_outVars(OfCommands(LoopTurns)) /\ WF_outVars(OfCommands(HeartbeatFails))
  /\ WF_outVars(OfWebhooks(HookLoop)) /\ WF_outVars(OfWebhooks(CallerPuts))

OutTypeOK == LinkTypeOK /\ WebhookTypeOK
=============================================================================
