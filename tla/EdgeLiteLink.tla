----------------------------- MODULE EdgeLiteLink -----------------------------
(***************************************************************************)
(* Commands on their way to EdgeLite: the WebSocket, its heartbeat and its *)
(* reconnect loop, and the retry queue with its consumer and its flushes   *)
(* (integrations/integration/manager.py, integrations/integration/         *)
(* channel.py).                                                            *)
(*                                                                         *)
(* Everything runs in one event loop.  A command is sent by the handler of *)
(* its event, by the consumer of the queue or by a flush, and each of them *)
(* suspends in send(); while the socket is known to be gone none of them   *)
(* suspends at all.  The messages of clients (POST /integration/message)   *)
(* go through the same socket, and into the same queue when they fail.     *)
(***************************************************************************)
EXTENDS Naturals, Sequences, FiniteSets

CONSTANTS
  Messages,    \* device_control and delete_device messages, one per event,
               \* and messages of clients
  Asking,      \* those of clients that carry an id: send() waits for a reply
  QueueLimit,  \* maxsize of _retry_queue
  TryLimit,    \* the 50 of _enqueue_retry
  FirstDelay,  \* _ws_reconnect_interval
  MaxDelay,    \* _ws_reconnect_max_interval
  MaxOutages,  \* bound: times the connection is lost
  MaxStops,    \* bound: times the manager is stopped
  NoItem       \* nothing in hand

ASSUME LinkAssumption ==
  /\ IsFiniteSet(Messages) /\ Asking \subseteq Messages
  /\ NoItem \notin [cmd : Messages, tries : Nat]
  /\ {QueueLimit, TryLimit, FirstDelay, MaxDelay} \subseteq Nat \ {0}
  /\ FirstDelay <= MaxDelay
  /\ MaxOutages \in Nat /\ MaxStops \in Nat

VARIABLES
  serving,   \* _running
  remote,    \* EdgeLite accepts connections (environment)
  link,      \* the socket: "down"; "open"; or "stale", closed by the peer with
             \* code 1000, which ends _receive_loop and leaves _connected set
  stage,     \* of each message: where the coroutine that issued it is
  waiting,   \* _retry_queue
  inHand,    \* the item _retry_queue_consumer is sending
  flushing,  \* the items each flush has taken out and not yet sent
  loopAt,    \* _ws_reconnect_loop
  delay,     \* _ws_reconnect_current_delay
  httpUp,    \* _connect_http has succeeded once; it is not tried again
  delivered, \* history: messages that EdgeLite was sent without an error
  dropped,   \* history: messages given up
  outages, stops

holders == <<stage, waiting, inHand, flushing>>
fates == <<delivered, dropped>>
counts == <<outages, stops>>
linkVars == <<serving, remote, link, holders, loopAt, delay, httpUp, fates, counts>>

\* Those the program makes itself; they carry no id.
Commands == Messages \ Asking

Items == [cmd : Messages, tries : 1..TryLimit]
Flushes == {"loop", "http"}  \* after _connect_websocket, after _connect_http

LinkTypeOK ==
  /\ serving \in BOOLEAN /\ remote \in BOOLEAN /\ httpUp \in BOOLEAN
  /\ link \in {"down", "open", "stale"}
  /\ stage \in [Messages -> {"unissued", "socket", "rest", "over"}]
  /\ waiting \in Seq(Items) /\ Len(waiting) <= QueueLimit
  /\ inHand \in Items \cup {NoItem}
  /\ flushing \in [Flushes -> Seq(Items)]
  /\ loopAt \in {"starting", "sleeping", "connecting", "connected", "flushing"}
  /\ delay \in FirstDelay..MaxDelay
  /\ delivered \subseteq Messages /\ dropped \subseteq Messages
  /\ outages \in 0..MaxOutages /\ stops \in 0..MaxStops

LinkInit ==
  /\ serving = TRUE
  /\ remote \in BOOLEAN
  /\ link \in (IF remote THEN {"open"} ELSE {"down"})
  /\ httpUp = remote
  /\ stage = [m \in Messages |-> "unissued"]
  /\ waiting = <<>> /\ inHand = NoItem
  /\ flushing = [f \in Flushes |-> <<>>]
  /\ loopAt = "sleeping" /\ delay = FirstDelay
  /\ delivered = {} /\ dropped = {}
  /\ outages = 0 /\ stops = 0

-----------------------------------------------------------------------------
(* The channel and the queue *)

\* is_connected: what the program believes.
Connected == link # "down"

\* _enqueue_retry of a command tried that many times, on what the queue holds
\* now: given up after TryLimit tries, and when the queue is full.
Enqueue(m, tries, q) ==
  IF tries < TryLimit /\ Len(q) < QueueLimit
  THEN waiting' = Append(q, [cmd |-> m, tries |-> tries + 1]) /\ UNCHANGED dropped
  ELSE waiting' = q /\ dropped' = dropped \cup {m}

\* Broken: the exception leaves the flag _connected set.
SocketFailsUnnoticed ==
  /\ link # "open"
  /\ UNCHANGED <<link, outages>>

\* send() raises: the peer had left, or the connection breaks under it.
SocketFails ==
  /\ link' = "down"
  /\ \/ link # "open" /\ UNCHANGED outages
     \/ link = "open" /\ outages < MaxOutages /\ outages' = outages + 1

\* send() returns: without an id as soon as the frame is written; with one when
\* the reply comes.
SocketSends(m) == link = "open" /\ delivered' = delivered \cup {m}

\* send() of a message with an id returns that the reply was not ok, or has not
\* come in 10 s. It was sent, and what has become of the socket since is open.
Unanswered(m) == m \in Asking /\ delivered' = delivered \cup {m}

-----------------------------------------------------------------------------
(* The coroutines that issue commands *)

\* _on_device_started, _on_device_stopped, send_device_control, send_message: to
\* the socket if it is believed open; otherwise an event's command goes into the
\* queue, and a client's message is refused.
Issue(m) ==
  /\ serving /\ stage[m] = "unissued"
  /\ m \in Asking => Connected
  /\ IF Connected
     THEN stage' = [stage EXCEPT ![m] = "socket"] /\ UNCHANGED <<waiting, dropped>>
     ELSE stage' = [stage EXCEPT ![m] = "over"] /\ Enqueue(m, 0, waiting)
  /\ UNCHANGED <<serving, remote, link, inHand, flushing, loopAt, delay, httpUp,
                 delivered, counts>>

\* The REST request of _on_device_removed, and of send_device_control without a
\* socket, which clients call also while the manager is stopped.
IssueByRest(m) ==
  /\ m \in Commands /\ stage[m] = "unissued"
  /\ stage' = [stage EXCEPT ![m] = "rest"]
  /\ UNCHANGED <<serving, remote, link, waiting, inHand, flushing, loopAt, delay,
                 httpUp, fates, counts>>

HandlerSent(m) ==
  /\ stage[m] = "socket" /\ SocketSends(m)
  /\ stage' = [stage EXCEPT ![m] = "over"]
  /\ UNCHANGED <<serving, remote, link, waiting, inHand, flushing, loopAt, delay,
                 httpUp, dropped, counts>>

\* send_message does not look at the reply.
HandlerUnanswered(m) ==
  /\ stage[m] = "socket" /\ Unanswered(m)
  /\ stage' = [stage EXCEPT ![m] = "over"]
  /\ UNCHANGED <<serving, remote, link, waiting, inHand, flushing, loopAt, delay,
                 httpUp, dropped, counts>>

HandlerFailed(m) ==
  /\ stage[m] = "socket" /\ SocketFails
  /\ stage' = [stage EXCEPT ![m] = "over"]
  /\ Enqueue(m, 0, waiting)
  /\ UNCHANGED <<serving, remote, inHand, flushing, loopAt, delay, httpUp,
                 delivered, stops>>

\* The request is answered, or raises and the command goes into the queue.
RestEnds(m) ==
  /\ stage[m] = "rest"
  /\ stage' = [stage EXCEPT ![m] = "over"]
  /\ \/ remote /\ delivered' = delivered \cup {m} /\ UNCHANGED <<waiting, dropped>>
     \/ Enqueue(m, 0, waiting) /\ UNCHANGED delivered
  /\ UNCHANGED <<serving, remote, link, inHand, flushing, loopAt, delay, httpUp, counts>>

-----------------------------------------------------------------------------
(* _retry_queue_consumer *)

ConsumerMay == serving /\ loopAt # "starting" /\ inHand = NoItem /\ waiting # <<>>

\* Broken: a command at its last try is thrown away instead of sent.
ConsumerTakesYoung ==
  /\ ConsumerMay /\ Connected
  /\ waiting' = Tail(waiting)
  /\ IF Head(waiting).tries < TryLimit
     THEN inHand' = Head(waiting) /\ UNCHANGED dropped
     ELSE dropped' = dropped \cup {Head(waiting).cmd} /\ UNCHANGED inHand
  /\ UNCHANGED <<serving, remote, link, stage, flushing, loopAt, delay, httpUp,
                 delivered, counts>>

ConsumerTakes ==
  /\ ConsumerMay /\ Connected
  /\ inHand' = Head(waiting) /\ waiting' = Tail(waiting)
  /\ UNCHANGED <<serving, remote, link, stage, flushing, loopAt, delay, httpUp,
                 fates, counts>>

\* Without a connection the item goes back to the end of the queue at once, one
\* try older: no pause, so an outage spends the tries as fast as the loop turns.
ConsumerPutsBack ==
  /\ ConsumerMay /\ ~Connected
  /\ Enqueue(Head(waiting).cmd, Head(waiting).tries, Tail(waiting))
  /\ UNCHANGED <<serving, remote, link, stage, inHand, flushing, loopAt, delay,
                 httpUp, delivered, counts>>

ConsumerSent ==
  /\ inHand # NoItem /\ SocketSends(inHand.cmd)
  /\ inHand' = NoItem
  /\ UNCHANGED <<serving, remote, link, stage, waiting, flushing, loopAt, delay,
                 httpUp, dropped, counts>>

\* A message with an id goes back, though it was sent.
ConsumerUnanswered ==
  /\ inHand # NoItem /\ Unanswered(inHand.cmd)
  /\ inHand' = NoItem
  /\ Enqueue(inHand.cmd, inHand.tries, waiting)
  /\ UNCHANGED <<serving, remote, link, stage, flushing, loopAt, delay, httpUp, counts>>

ConsumerFailed ==
  /\ inHand # NoItem /\ SocketFails
  /\ inHand' = NoItem
  /\ Enqueue(inHand.cmd, inHand.tries, waiting)
  /\ UNCHANGED <<serving, remote, stage, flushing, loopAt, delay, httpUp,
                 delivered, stops>>

-----------------------------------------------------------------------------
(* _flush_retry_queue *)

\* Broken: the queue is read without being emptied.
TakeAllPeeking(f) == flushing' = [flushing EXCEPT ![f] = waiting] /\ UNCHANGED waiting

TakeAll(f) == flushing' = [flushing EXCEPT ![f] = waiting] /\ waiting' = <<>>

FlushSent(f) ==
  /\ flushing[f] # <<>> /\ SocketSends(Head(flushing[f]).cmd)
  /\ flushing' = [flushing EXCEPT ![f] = Tail(@)]
  /\ UNCHANGED <<serving, remote, link, stage, waiting, inHand, loopAt, delay,
                 httpUp, dropped, counts>>

FlushUnanswered(f) ==
  /\ flushing[f] # <<>> /\ Unanswered(Head(flushing[f]).cmd)
  /\ flushing' = [flushing EXCEPT ![f] = Tail(@)]
  /\ Enqueue(Head(flushing[f]).cmd, Head(flushing[f]).tries, waiting)
  /\ UNCHANGED <<serving, remote, link, stage, inHand, loopAt, delay, httpUp, counts>>

FlushFailed(f) ==
  /\ flushing[f] # <<>> /\ Connected /\ SocketFails
  /\ flushing' = [flushing EXCEPT ![f] = Tail(@)]
  /\ Enqueue(Head(flushing[f]).cmd, Head(flushing[f]).tries, waiting)
  /\ UNCHANGED <<serving, remote, stage, inHand, loopAt, delay, httpUp,
                 delivered, stops>>

Commanded(items) == {items[i].cmd : i \in DOMAIN items}

\* Broken: the flush waits until there is a connection.
FlushWaits(f) == flushing[f] # <<>> /\ Connected /\ UNCHANGED linkVars

\* The items the flush comes to without a connection are passed over: they are
\* in the queue no more.
FlushAbandons(f) ==
  /\ flushing[f] # <<>> /\ ~Connected
  /\ flushing' = [flushing EXCEPT ![f] = <<>>]
  /\ dropped' = dropped \cup Commanded(flushing[f])
  /\ UNCHANGED <<serving, remote, link, stage, waiting, inHand, loopAt, delay,
                 httpUp, delivered, counts>>

-----------------------------------------------------------------------------
(* Connections *)

\* _connect_http, from start or from a push, until it succeeds once: the flush
\* runs whether or not there is a socket. After stop() no authentication is left
\* that could fail.
HttpConnects ==
  /\ ~httpUp /\ (serving => remote)
  /\ httpUp' = TRUE
  /\ TakeAll("http")
  /\ UNCHANGED <<serving, remote, link, stage, inHand, loopAt, delay, fates, counts>>

\* _ws_reconnect_loop wakes and finds no connection; it closes the old channel.
LoopWakes ==
  /\ serving /\ loopAt = "sleeping" /\ ~Connected
  /\ loopAt' = "connecting"
  /\ UNCHANGED <<serving, remote, link, holders, delay, httpUp, fates, counts>>

\* It wakes and finds a connection: nothing to do.
LoopSleepsOn ==
  /\ serving /\ loopAt = "sleeping" /\ Connected
  /\ UNCHANGED linkVars

\* _connect_websocket returns: it swallows what it catches, so the loop takes
\* the attempt for a success either way and resets its delay.
LoopConnects ==
  /\ loopAt = "connecting"
  /\ link' = IF remote THEN "open" ELSE link
  /\ loopAt' = "connected" /\ delay' = FirstDelay
  /\ UNCHANGED <<serving, remote, holders, httpUp, fates, counts>>

LoopFlushes ==
  /\ loopAt = "connected"
  /\ TakeAll("loop") /\ loopAt' = "flushing"
  /\ UNCHANGED <<serving, remote, link, stage, inHand, delay, httpUp, fates, counts>>

LoopRests ==
  /\ loopAt = "flushing" /\ flushing["loop"] = <<>>
  /\ loopAt' = "sleeping"
  /\ UNCHANGED <<serving, remote, link, holders, delay, httpUp, fates, counts>>

\* _heartbeat_loop sends on a connection the peer has closed.
HeartbeatFails ==
  /\ link = "stale" /\ SocketFails
  /\ UNCHANGED <<serving, remote, holders, loopAt, delay, httpUp, fates, stops>>

\* The connection is lost, and perhaps EdgeLite with it. _receive_loop clears
\* the flag when the close was not a clean one.
ConnectionLost ==
  /\ outages < MaxOutages /\ outages' = outages + 1
  /\ remote /\ remote' \in BOOLEAN
  /\ link' \in (IF link = "open" THEN {"stale", "down"} ELSE {link})
  /\ UNCHANGED <<serving, holders, loopAt, delay, httpUp, fates, stops>>

RemoteReturns ==
  /\ ~remote /\ remote' = TRUE
  /\ UNCHANGED <<serving, link, holders, loopAt, delay, httpUp, fates, counts>>

\* stop() cancels the consumer and the loop, with what they have in hand, and
\* closes the channel. The queue is kept.
StopManager ==
  /\ serving /\ stops < MaxStops /\ stops' = stops + 1
  /\ serving' = FALSE /\ link' = "down" /\ loopAt' = "sleeping"
  /\ inHand' = NoItem /\ flushing' = [flushing EXCEPT !["loop"] = <<>>]
  /\ dropped' = dropped \cup Commanded(flushing["loop"])
                        \cup (IF inHand = NoItem THEN {} ELSE {inHand.cmd})
  /\ UNCHANGED <<remote, stage, waiting, delay, httpUp, delivered, outages>>

\* start() subscribes to the events, connects, and then creates the tasks.
StartManager ==
  /\ ~serving /\ serving' = TRUE
  /\ loopAt' = "starting"
  /\ UNCHANGED <<remote, link, holders, delay, httpUp, fates, counts>>

StartConnects ==
  /\ loopAt = "starting" /\ loopAt' = "sleeping"
  /\ link' = IF remote THEN "open" ELSE link
  /\ UNCHANGED <<serving, remote, holders, delay, httpUp, fates, counts>>

-----------------------------------------------------------------------------

SendEnds ==
  \/ \E m \in Messages :
       HandlerSent(m) \/ HandlerUnanswered(m) \/ HandlerFailed(m) \/ RestEnds(m)
  \/ ConsumerSent \/ ConsumerUnanswered \/ ConsumerFailed
  \/ \E f \in Flushes :
       FlushSent(f) \/ FlushUnanswered(f) \/ FlushFailed(f) \/ FlushAbandons(f)

ConsumerTurns == ConsumerTakes \/ ConsumerPutsBack

LoopTurns == LoopWakes \/ LoopConnects \/ LoopFlushes \/ LoopRests \/ StartConnects

LinkNext ==
  \/ \E m \in Messages : Issue(m) \/ IssueByRest(m)
  \/ SendEnds \/ ConsumerTurns \/ LoopTurns \/ HeartbeatFails
  \/ HttpConnects \/ ConnectionLost \/ RemoteReturns
  \/ StopManager \/ StartManager \/ LoopSleepsOn

LinkSpec == LinkInit /\ [][LinkNext]_linkVars

\* asyncio runs every task that can go on, and timers fire: the tasks of the
\* manager go on. Nothing is assumed of EdgeLite, the network or the clients.
LinkFairSpec ==
  /\ LinkSpec
  /\ WF_linkVars(SendEnds) /\ WF_linkVars(ConsumerTurns)
  /\ WF_linkVars(LoopTurns) /\ WF_linkVars(HeartbeatFails)

-----------------------------------------------------------------------------
(* Properties *)

InQueue(m, q) == {i \in DOMAIN q : q[i].cmd = m}

\* How many places hold a message that is still to be sent.
Held(m) ==
  Cardinality(InQueue(m, waiting))
  + Cardinality(InQueue(m, flushing["loop"])) + Cardinality(InQueue(m, flushing["http"]))
  + (IF inHand # NoItem /\ inHand.cmd = m THEN 1 ELSE 0)
  + (IF stage[m] \in {"socket", "rest"} THEN 1 ELSE 0)

\* A command that was issued is held in one place, or was sent without an error,
\* or was given up, never two of these: the handlers, the consumer and the two
\* flushes neither mislay it nor send it again once send() or the request has
\* returned, whatever breaks between them. (A request that has raised may have
\* reached EdgeLite all the same; and a client's message that waits for a reply
\* is sent again when that is not ok or late, so it is not spoken of.)
EachCommandOnce ==
  \A m \in Commands :
    Held(m) + Cardinality({m} \cap delivered) + Cardinality({m} \cap dropped)
      = (IF stage[m] = "unissued" THEN 0 ELSE 1)

\* A command is given up only while the program knows that there is no
\* connection, or finds that out, or when the queue is full: none is lost under
\* way on an open connection, and the tries alone never end one there.
GivenUpForAReason ==
  [][dropped' \cap Commands # dropped \cap Commands =>
       \/ link # "open" \/ link' # "open"
       \/ Len(waiting) = QueueLimit /\ waiting' = waiting]_linkVars

\* When EdgeLite stays up and the manager running, the socket is open for good,
\* also after a clean close that the receive loop did not notice.
LinkRecovers == <>[](serving /\ remote) => <>[](link = "open")

\* While the manager runs, every message comes to an end: it is not kept for
\* ever in the queue, in a flush or in a send, whatever EdgeLite does.
EveryCommandEnds ==
  \A m \in Messages : <>[]serving => (stage[m] # "unissued" ~> Held(m) = 0)
=============================================================================
