--------------------------- MODULE ProtocolServing ---------------------------
(***************************************************************************)
(* The devices of one protocol and the server through which clients reach  *)
(* them: create_device, remove_device, start_device and stop_device of the *)
(* engine against start_protocol, stop_protocol and a server that breaks   *)
(* (engine/engine.py 358-546 and 654-705, protocols/opcua/server.py).      *)
(*                                                                         *)
(* A server keeps the devices it was given when it stops.  It deregisters  *)
(* a device before remove_device suspends for the first time, as all       *)
(* servers but MQTT and GB28181 do; its create_device suspends after the   *)
(* device was registered (OPC UA) or does not suspend (Suspends = FALSE).  *)
(***************************************************************************)
EXTENDS DeviceStateMachine, Naturals

CONSTANTS
  Hosted,       \* devices of this protocol
  Creates,      \* slots for create_device calls in flight
  Starts,       \* slots for start_protocol calls in flight
  MaxAttempts,  \* _MAX_START_RETRIES
  Suspends,     \* create_device of the server suspends
  HasSequence,  \* devices have a stopping sequence
  CallsTakeTurns,  \* clients do not name a device that is still being created
  Nobody

ASSUME ServingAssumption ==
  /\ MaxAttempts \in Nat \ {0}
  /\ {Suspends, HasSequence, CallsTakeTurns} \subseteq BOOLEAN
  /\ Nobody \notin Hosted

VARIABLES
  held,      \* the engine's devices
  state,     \* the state of each, STOP if it is not held
  server,    \* the status of the server
  served,    \* the devices registered with the server
  creates,   \* create_device calls waiting for the server
  starts,    \* start_protocol calls in flight
  asked,     \* the last command each device was given
  refused    \* those the server refused when they were last to be registered

servingVars == <<held, state, server, served, creates, starts, asked, refused>>

CreateTypes == [id : Hosted \cup {Nobody}, live : BOOLEAN]
NoCreate == [id |-> Nobody, live |-> FALSE]

StartTypes ==
  [pc : {"idle", "starting", "settling", "registering", "retrying"},
   attempt : 0..MaxAttempts, todo : SUBSET Hosted]
NoStart == [pc |-> "idle", attempt |-> 0, todo |-> {}]

ServingTypeOK ==
  /\ held \subseteq Hosted
  /\ state \in [Hosted -> {"STOP", "STARTING", "RUN", "STOPPING", "ERROR"}]
  /\ server \in {"stopped", "starting", "running", "error"}
  /\ served \subseteq Hosted
  /\ creates \in [Creates -> CreateTypes]
  /\ starts \in [Starts -> StartTypes]
  /\ asked \in [Hosted -> {"nothing", "start", "stop"}]
  /\ refused \subseteq Hosted

ServingInit ==
  /\ held = {}
  /\ state = [id \in Hosted |-> "STOP"]
  /\ server = "stopped"
  /\ served = {}
  /\ creates = [c \in Creates |-> NoCreate]
  /\ starts = [c \in Starts |-> NoStart]
  /\ asked = [id \in Hosted |-> "nothing"]
  /\ refused = {}

BeingCreated(id) == \E c \in Creates : creates[c].id = id /\ creates[c].live

\* A client may send a command for a device the engine holds.
MayCommand(id) == id \in held /\ (CallsTakeTurns => ~BeingCreated(id))

Move(id, s) == state' = [state EXCEPT ![id] = s]

\* The server is given the devices of S again. Its create_device may raise for any
\* of them, which is logged and changes nothing else.
Offered(S) ==
  \E R \in SUBSET S :
    /\ served' = served \cup (S \ R)
    /\ refused' = (refused \ S) \cup R

-----------------------------------------------------------------------------
(* Devices *)

\* create_device registers the device with a running server and starts it when
\* the server is done with it. Without a server, or if the server raises, the
\* device stays in STOP.
CreateDevice(c, id) ==
  /\ id \notin held /\ creates[c] = NoCreate
  /\ held' = held \cup {id}
  /\ asked' = [asked EXCEPT ![id] = "nothing"]
  /\ refused' = refused \ {id}
  /\ \/ UNCHANGED <<state, served, creates>>
     \/ /\ server = "running"
        /\ served' = served \cup {id}
        /\ IF Suspends
           THEN /\ creates' = [creates EXCEPT ![c] = [id |-> id, live |-> TRUE]]
                /\ UNCHANGED state
           ELSE Move(id, "STARTING") /\ UNCHANGED creates
  /\ UNCHANGED <<server, starts>>

\* The instance the call holds is started, even if the engine has dropped it; or
\* the server raises after it registered the device.
Created(c) ==
  /\ creates[c] # NoCreate
  /\ creates' = [creates EXCEPT ![c] = NoCreate]
  /\ \/ UNCHANGED state
     \/ /\ creates[c].live /\ state[creates[c].id] = "STOP"
        /\ Move(creates[c].id, "STARTING")
  /\ UNCHANGED <<held, server, served, starts, asked, refused>>

RemoveDevice(id) ==
  /\ MayCommand(id)
  /\ held' = held \ {id}
  /\ Move(id, "STOP")
  /\ served' = IF server = "running" THEN served \ {id} ELSE served
  /\ creates' = [c \in Creates |-> IF creates[c].id = id
                                    THEN [creates[c] EXCEPT !.live = FALSE]
                                    ELSE creates[c]]
  /\ asked' = [asked EXCEPT ![id] = "nothing"]
  /\ refused' = refused \ {id}
  /\ UNCHANGED <<server, starts>>

\* start_device does nothing to a device that is ONLINE or in STARTING; in
\* STOPPING the instance ignores the command, but the device is registered.
StartDevice(id) ==
  /\ MayCommand(id)
  /\ asked' = [asked EXCEPT ![id] = "start"]
  /\ IF state[id] \in {"STOP", "ERROR"} THEN Move(id, "STARTING") ELSE UNCHANGED state
  /\ IF state[id] \in {"STOP", "ERROR", "STOPPING"} /\ server = "running"
     THEN Offered({id}) ELSE UNCHANGED <<served, refused>>
  /\ UNCHANGED <<held, server, creates, starts>>

\* stop_device does nothing to a device whose status is OFFLINE, which is what
\* STARTING and STOPPING are shown as.
StopDevice(id) ==
  /\ MayCommand(id)
  /\ asked' = [asked EXCEPT ![id] = "stop"]
  /\ IF StatusOf(state[id]) = "OFFLINE"
     THEN UNCHANGED <<state, served>>
     ELSE /\ Move(id, IF state[id] = "RUN" /\ HasSequence THEN "STOPPING" ELSE "STOP")
          /\ served' = IF server = "running" THEN served \ {id} ELSE served
  /\ UNCHANGED <<held, server, creates, starts, refused>>

\* The tick loop ends a startup or a stopping sequence.
TickDevice(id) ==
  /\ id \in held
  /\ \/ state[id] = "STARTING" /\ Move(id, "RUN")
     \/ state[id] = "STOPPING" /\ Move(id, "STOP")
  /\ UNCHANGED <<held, server, served, creates, starts, asked, refused>>

FaultDevice(id) ==
  /\ id \in held
  /\ state[id] \in From["fault"]
  /\ Move(id, "ERROR")
  /\ UNCHANGED <<held, server, served, creates, starts, asked, refused>>

-----------------------------------------------------------------------------
(* The server *)

Proceed(c, k) == starts' = [starts EXCEPT ![c] = k]

\* start_protocol looks at the status once; a second call made while the first
\* one awaits server.start goes ahead as well.
StartProtocol(c) ==
  /\ starts[c].pc = "idle"
  /\ server # "running"
  /\ server' = "starting"
  /\ Proceed(c, [pc |-> "starting", attempt |-> 1, todo |-> {}])
  /\ UNCHANGED <<held, state, served, creates, asked, refused>>

ServerStarts(c) ==
  /\ starts[c].pc = "starting"
  /\ server' = "running"
  /\ Proceed(c, [starts[c] EXCEPT !.pc = "settling"])
  /\ UNCHANGED <<held, state, served, creates, asked, refused>>

\* Broken: one attempt too many.
ServerStartFailsOnceMore(c) ==
  /\ starts[c].pc = "starting"
  /\ server' = "error"
  /\ \/ Proceed(c, NoStart)
     \/ /\ starts[c].attempt <= MaxAttempts
        /\ Proceed(c, [starts[c] EXCEPT !.pc = "retrying"])
  /\ UNCHANGED <<held, state, served, creates, asked, refused>>

\* server.start raises; some errors are tried again after _RETRY_DELAY_SECONDS.
ServerStartFails(c) ==
  /\ starts[c].pc = "starting"
  /\ server' = "error"
  /\ \/ Proceed(c, NoStart)
     \/ /\ starts[c].attempt < MaxAttempts
        /\ Proceed(c, [starts[c] EXCEPT !.pc = "retrying"])
  /\ UNCHANGED <<held, state, served, creates, asked, refused>>

RetryStart(c) ==
  /\ starts[c].pc = "retrying"
  /\ server' = "starting"
  /\ Proceed(c, [starts[c] EXCEPT !.pc = "starting", !.attempt = @ + 1])
  /\ UNCHANGED <<held, state, served, creates, asked, refused>>

\* The task of the server ends with an exception.
ServerBreaks ==
  /\ server = "running"
  /\ server' = "error"
  /\ UNCHANGED <<held, state, served, creates, starts, asked, refused>>

\* Broken: only the devices that run are registered again.
SettledOnlineOnly(c) ==
  /\ starts[c].pc = "settling"
  /\ IF server = "error"
     THEN server' = "stopped" /\ Proceed(c, NoStart)
     ELSE /\ Proceed(c, [starts[c] EXCEPT !.pc = "registering",
                         !.todo = {id \in held : StatusOf(state[id]) = "ONLINE"}])
          /\ UNCHANGED server
  /\ UNCHANGED <<held, state, served, creates, asked, refused>>

\* After two seconds in which the status did not become ERROR, the devices the
\* engine then holds are registered one by one.
Settled(c) ==
  /\ starts[c].pc = "settling"
  /\ IF server = "error"
     THEN server' = "stopped" /\ Proceed(c, NoStart)
     ELSE /\ Proceed(c, [starts[c] EXCEPT !.pc = "registering", !.todo = held])
          /\ UNCHANGED server
  /\ UNCHANGED <<held, state, served, creates, asked, refused>>

\* Registering suspends between two devices if the server's create_device does.
Reregister(c) ==
  /\ starts[c].pc = "registering"
  /\ \/ /\ starts[c].todo = {}
        /\ Proceed(c, NoStart)
        /\ UNCHANGED <<served, refused>>
     \/ \E S \in SUBSET starts[c].todo \ {{}} :
          /\ IF Suspends THEN \E id \in S : S = {id} ELSE S = starts[c].todo
          /\ Offered(S)
          /\ Proceed(c, [starts[c] EXCEPT !.todo = @ \ S])
  /\ UNCHANGED <<held, state, server, creates, asked>>

StopProtocol ==
  /\ server # "stopped"
  /\ server' = "stopped"
  /\ UNCHANGED <<held, state, served, creates, starts, asked, refused>>

ServingNext ==
  \/ \E id \in Hosted : \/ \E c \in Creates : CreateDevice(c, id)
                     \/ RemoveDevice(id) \/ StartDevice(id) \/ StopDevice(id)
                     \/ TickDevice(id) \/ FaultDevice(id)
  \/ \E c \in Creates : Created(c)
  \/ \E c \in Starts : \/ StartProtocol(c) \/ ServerStarts(c) \/ ServerStartFails(c)
                       \/ RetryStart(c) \/ Settled(c) \/ Reregister(c)
  \/ ServerBreaks \/ StopProtocol

ServingSpec == ServingInit /\ [][ServingNext]_servingVars

-----------------------------------------------------------------------------
(* Properties *)

\* When the protocol is up and no start_protocol is still at work, every device
\* that was started can be reached by clients, unless the server itself refused it:
\* whatever order creations, starts, stops and restarts of the protocol came in,
\* none of them left it out.
StartedIsServed ==
  server = "running" /\ (\A c \in Starts : starts[c] = NoStart) =>
    \A id \in held : state[id] \in {"STARTING", "RUN"} => id \in served \cup refused

\* A device whose last command was stop does not run: "stop" is accepted in
\* STARTING too (state_machine.py 207).
StopIsHonoured ==
  \A id \in held : asked[id] = "stop" => state[id] # "RUN"
=============================================================================
