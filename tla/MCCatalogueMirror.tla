-------------------------- MODULE MCCatalogueMirror --------------------------
(***************************************************************************)
(* One instance of each account of which devices there are, of the         *)
(* connection to the database that keeps them, and of the limit on the     *)
(* requests that ask for them.  A behaviour belongs to one part, chosen at *)
(* the beginning; the parts share nothing:                                 *)
(*   "durable"     DeviceCatalogue, one call at a time about a device      *)
(*   "updates"     DeviceCatalogue with overlapping updates of a device,   *)
(*                 of a protocol whose server suspends them or not         *)
(*   "servers"     ProtocolServing                                         *)
(*   "mirror"      EdgeLitePush                                            *)
(*   "statements"  SharedConnection                                        *)
(*   "requests"    RequestLimit                                            *)
(* Since they share nothing, c1, c2 and d1, d2 name the interchangeable    *)
(* calls and things of every part: one symmetry serves them all.           *)
(***************************************************************************)
EXTENDS MCDeviceCatalogue, ProtocolServing, EdgeLitePush, SharedConnection, RequestLimit

CONSTANTS k1, p1, p2

VARIABLE part

catalogueVars == <<devices, rows, announced, calls, dbQueue, owed>>

Updates == INSTANCE DeviceCatalogue WITH
  OneCallPerId <- FALSE, DbMayFail <- FALSE, Ops <- CreateAndUpdate,
  Configs <- AllConfigs, Protocol <- ProtocolOfAll

UpdatesNext ==
  \E c \in Calls :
    \/ \E id \in Ids, config \in AllConfigs :
         Updates!Create(c, id, config) \/ Updates!HotUpdate(c, id, config)
    \/ Updates!Registered(c) \/ Updates!Synced(c)
    \/ Updates!SaveCreated(c) \/ Updates!SaveUpdated(c)
    \/ Updates!Restart

\* The state of the other parts stays as it began, and begins in one way.
AllInit ==
  /\ Init /\ ServingInit /\ PushInit /\ ConnectionInit /\ LimitInit
  /\ part \in {"durable", "updates", "servers", "mirror", "statements", "requests"}
  /\ part # "mirror" => orderly /\ lossy /\ port = 1

OfCatalogue(step) ==
  /\ part = "durable" /\ step
  /\ UNCHANGED <<servingVars, pushVars, connectionVars, limitVars, part>>
OfUpdates(step) ==
  /\ part = "updates" /\ step
  /\ UNCHANGED <<servingVars, pushVars, connectionVars, limitVars, part>>
OfServers(step) ==
  /\ part = "servers" /\ step
  /\ UNCHANGED <<catalogueVars, pushVars, connectionVars, limitVars, part>>
OfMirror(step) ==
  /\ part = "mirror" /\ step
  /\ UNCHANGED <<catalogueVars, servingVars, connectionVars, limitVars, part>>
OfConnection(step) ==
  /\ part = "statements" /\ step
  /\ UNCHANGED <<catalogueVars, servingVars, pushVars, limitVars, part>>
OfLimit(step) ==
  /\ part = "requests" /\ step
  /\ UNCHANGED <<catalogueVars, servingVars, pushVars, connectionVars, part>>

\* Each call is made once.
CallsMade == at \in [Tasks -> {"returned", "raised"}] /\ UNCHANGED connectionVars

allVars == <<catalogueVars, servingVars, pushVars, connectionVars, limitVars, part>>

AllNext ==
  \/ OfCatalogue(Next) \/ OfUpdates(UpdatesNext) \/ OfServers(ServingNext)
  \/ OfMirror(PushNext) \/ OfConnection(ConnectionNext) \/ OfConnection(CallsMade)
  \/ OfLimit(LimitNext)

AllSpec == AllInit /\ [][AllNext]_allVars

\* The types; a start is tried no more often than allowed, a task has a device and
\* a port exactly while it pushes, a call has one job or one answer while it waits,
\* and no key has more recent requests than are allowed.
MirrorTypeOK == ServingTypeOK /\ PushTypeOK /\ ConnectionTypeOK /\ LimitTypeOK

\* However updates that keep the protocol overlap, for clients do not wait for
\* their answers, a device is on disk exactly if it is in memory, and for the
\* same protocol; and when its server does not suspend the engine, between the
\* change in memory and the save, then it is on disk as the last of them left
\* it. (On OPC UA the last one in memory need not be the last one saved.)
UpdatesMatch ==
  part = "updates" => \A id \in Ids : Quiet(id) =>
    /\ rows[id] = None <=> devices[id] = None
    /\ devices[id] # None =>
         /\ ProtocolOfAll[rows[id]] = ProtocolOfAll[devices[id]]
         /\ Updates!Slow(devices[id]) \/ rows[id] = devices[id]
=============================================================================
