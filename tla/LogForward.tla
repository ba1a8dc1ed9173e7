------------------------------ MODULE LogForward ------------------------------
(***************************************************************************)
(* The log bus and the engine that forwards its entries in batches to      *)
(* targets (observability/log_bus.py, integrations/forward.py).            *)
(*                                                                         *)
(* The queue between them is bounded and loses its oldest entry when it is *)
(* full.  The forward loop is one task; start, stop, add_target and        *)
(* remove_target run between its steps, also while it awaits a target.     *)
(***************************************************************************)
EXTENDS Naturals, Sequences, FiniteSets

CONSTANTS
  Targets,     \* names of targets
  NoTarget,    \* no target: the loop is in no round
  QueueSize,   \* queue_maxsize
  BatchSize,   \* batch_size
  RetryCount,  \* retry_count
  MaxEmitted   \* bound: entries emitted

ASSUME ForwardAssumption ==
  /\ IsFiniteSet(Targets) /\ NoTarget \notin Targets
  /\ QueueSize \in Nat \ {0} /\ BatchSize \in Nat \ {0}
  /\ RetryCount \in Nat \ {0} /\ MaxEmitted \in Nat \ {0}

VARIABLES
  emitted,  \* entries emitted so far; they are numbered 1, 2, ...
  running,  \* _running: the queue is subscribed
  queue,    \* _queue
  targets,  \* _targets
  loop,     \* the task: "none", "collecting", "sending", "backing off" or "dead"
  batch,    \* the records taken from the queue
  current,  \* in a round: the target being sent to,
  todo,     \*   the targets the dictionary iterator has ahead of it,
  size,     \*   the size of the dictionary when the round began
  attempt,  \*   and the attempt at this target
  last      \* history: the entries of the send begun last to each target

bus == <<emitted, queue>>
round == <<current, todo, size, attempt>>
vars == <<emitted, running, queue, targets, loop, batch, round, last>>

InRound == loop \in {"sending", "backing off"}

QueueOK == queue \in Seq(1..MaxEmitted) /\ Len(queue) <= QueueSize

RoundOK ==
  /\ loop \in {"none", "collecting", "sending", "backing off", "dead"}
  /\ batch \in Seq(1..MaxEmitted) /\ Len(batch) <= BatchSize
  /\ current \in Targets \cup {NoTarget}
  /\ InRound => current \in Targets
  /\ todo \subseteq Targets
  /\ size \in Nat
  /\ attempt \in 0..RetryCount

TypeOK ==
  /\ emitted \in 0..MaxEmitted
  /\ running \in BOOLEAN
  /\ QueueOK
  /\ targets \subseteq Targets
  /\ RoundOK
  /\ last \in [Targets -> SUBSET (1..MaxEmitted)]

Entries(s) == {s[i] : i \in 1..Len(s)}

Init ==
  /\ emitted = 0 /\ queue = <<>>
  /\ running = FALSE /\ loop = "none" /\ batch = <<>>
  /\ targets = {}
  /\ current = NoTarget /\ todo = {} /\ size = 0 /\ attempt = 0
  /\ last = [t \in Targets |-> {}]

-----------------------------------------------------------------------------
(* LogBus.emit *)

\* Broken: an entry that finds the queue full is itself dropped.
OfferDroppingNew(q, e) == IF Len(q) = QueueSize THEN q ELSE Append(q, e)

\* put_nowait, and when the queue is full get_nowait and put_nowait again.
Offer(q, e) == IF Len(q) = QueueSize THEN Append(Tail(q), e) ELSE Append(q, e)

Emit ==
  /\ emitted < MaxEmitted
  /\ emitted' = emitted + 1
  /\ queue' = IF running THEN Offer(queue, emitted + 1) ELSE queue
  /\ UNCHANGED <<running, targets, loop, batch, round, last>>

-----------------------------------------------------------------------------
(* ForwardEngine: the operations of the API *)

\* A new queue is subscribed; what the old one still held is gone. While
\* _running is set, start does nothing, be the task alive or not.
Start ==
  /\ ~running
  /\ running' = TRUE
  /\ queue' = <<>>
  /\ loop' = "collecting" /\ batch' = <<>>
  /\ current' = NoTarget /\ todo' = {} /\ size' = 0 /\ attempt' = 0
  /\ UNCHANGED <<emitted, targets, last>>

\* The task is cancelled wherever it is, with the batch it holds. A request on
\* its way, or the thread that appends to a file, is not called back.
Stop ==
  /\ running
  /\ running' = FALSE
  /\ loop' = "none" /\ batch' = <<>>
  /\ current' = NoTarget /\ todo' = {} /\ size' = 0 /\ attempt' = 0
  /\ UNCHANGED <<emitted, queue, targets, last>>

\* A new name goes to the end of the dictionary, ahead of its iterator.
AddTarget(t) ==
  /\ t \notin targets
  /\ targets' = targets \cup {t}
  /\ todo' = IF InRound THEN todo \cup {t} ELSE todo
  /\ UNCHANGED <<bus, running, loop, batch, current, size, attempt, last>>

RemoveTarget(t) ==
  /\ t \in targets
  /\ targets' = targets \ {t}
  /\ todo' = todo \ {t}
  /\ UNCHANGED <<bus, running, loop, batch, current, size, attempt, last>>

-----------------------------------------------------------------------------
(* ForwardEngine._forward_loop *)

\* Broken: the newest entry is taken first.
TakeNewest ==
  /\ loop = "collecting" /\ queue # <<>> /\ Len(batch) < BatchSize
  /\ batch' = Append(batch, queue[Len(queue)])
  /\ queue' = SubSeq(queue, 1, Len(queue) - 1)
  /\ UNCHANGED <<emitted, running, targets, loop, round, last>>

Take ==
  /\ loop = "collecting" /\ queue # <<>> /\ Len(batch) < BatchSize
  /\ batch' = Append(batch, Head(queue))
  /\ queue' = Tail(queue)
  /\ UNCHANGED <<emitted, running, targets, loop, round, last>>

SendBegins(t) == last' = [last EXCEPT ![t] = Entries(batch)]

\* The batch is full, or no entry came in time. Without targets the records
\* are thrown away.
BeginRound ==
  /\ loop = "collecting" /\ batch # <<>>
  /\ \/ /\ targets = {}
        /\ batch' = <<>>
        /\ UNCHANGED <<loop, round, last>>
     \/ \E t \in targets :
          /\ loop' = "sending"
          /\ current' = t /\ todo' = targets \ {t}
          /\ size' = Cardinality(targets) /\ attempt' = 1
          /\ SendBegins(t)
          /\ UNCHANGED batch
  /\ UNCHANGED <<bus, running, targets>>

\* The iterator goes on: RuntimeError if the dictionary has another size than
\* when the round began, which ends the task.
NextTarget ==
  IF Cardinality(targets) # size
  THEN /\ loop' = "dead"
       /\ current' = NoTarget /\ todo' = {} /\ size' = 0 /\ attempt' = 0
       /\ batch' = <<>>
       /\ UNCHANGED last
  ELSE IF todo = {}
  THEN /\ loop' = "collecting"
       /\ current' = NoTarget /\ todo' = {} /\ size' = 0 /\ attempt' = 0
       /\ batch' = <<>>
       /\ UNCHANGED last
  ELSE \E t \in todo :
       /\ loop' = "sending"
       /\ current' = t /\ todo' = todo \ {t} /\ attempt' = 1
       /\ SendBegins(t)
       /\ UNCHANGED <<size, batch>>

SendSucceeds ==
  /\ loop = "sending"
  /\ NextTarget
  /\ UNCHANGED <<bus, running, targets>>

\* Broken: the attempts are not counted, or counted one too far.
SendFailsUncounted ==
  /\ loop = "sending"
  /\ loop' = "backing off"
  /\ UNCHANGED <<bus, running, targets, batch, round, last>>

SendFailsOnceMore ==
  /\ loop = "sending"
  /\ IF attempt < RetryCount + 1
     THEN /\ loop' = "backing off" /\ attempt' = attempt + 1
          /\ UNCHANGED <<batch, current, todo, size, last>>
     ELSE NextTarget
  /\ UNCHANGED <<bus, running, targets>>

\* The target refuses, or its answer does not come in time. After the last
\* attempt the loop gives up on the target.
SendFails ==
  /\ loop = "sending"
  /\ IF attempt < RetryCount
     THEN /\ loop' = "backing off" /\ attempt' = attempt + 1
          /\ UNCHANGED <<batch, current, todo, size, last>>
     ELSE NextTarget
  /\ UNCHANGED <<bus, running, targets>>

\* The same entries as before.
SendAgain ==
  /\ loop = "backing off"
  /\ loop' = "sending"
  /\ UNCHANGED <<bus, running, targets, batch, round, last>>

Loop == Take \/ BeginRound \/ SendSucceeds \/ SendFails \/ SendAgain

Next ==
  \/ Emit \/ Start \/ Stop
  \/ \E t \in Targets : AddTarget(t) \/ RemoveTarget(t)
  \/ Loop

Spec == Init /\ [][Next]_vars

\* The event loop runs the task, requests to targets time out, and sleeps end.
FairSpec == Spec /\ WF_vars(Loop)

-----------------------------------------------------------------------------
(* Properties *)

\* q is the last of the first e entries, without a gap.
Newest(q, e) == \A i \in 1..Len(q) : q[i] = e - Len(q) + i

\* What the bus loses is always the oldest: while the engine runs, its queue
\* holds the newest entries without a gap.
KeepsNewest == running => Newest(queue, emitted)

\* No send to a target begins with entries older than one before it, across lost
\* entries, retries, restarts of the engine, and targets that come and go in the
\* middle of a round. (When a send whose answer did not come in time, or that was
\* cancelled, takes effect is the target's affair.)
Stream == INSTANCE BatchStream
InOrder == Stream!Spec

\* A round ends, whatever its targets do, because attempts are bounded; only
\* operators who take targets out and put them back for ever can prolong it.
RoundEnds == []<><<targets' # targets>>_vars \/ (InRound ~> ~InRound)
=============================================================================
