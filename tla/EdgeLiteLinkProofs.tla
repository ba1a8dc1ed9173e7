-------------------------- MODULE EdgeLiteLinkProofs --------------------------
(***************************************************************************)
(* Theorems about EdgeLiteLink, for any commands, limits and delays.       *)
(***************************************************************************)
EXTENDS EdgeLiteLink, FiniteSetTheorems, FunctionTheorems, SequenceTheorems, TLAPS

-----------------------------------------------------------------------------
(* Types *)

LEMMA InitType == LinkAssumption /\ LinkInit => LinkTypeOK
BY DEF LinkAssumption, LinkInit, LinkTypeOK, Items, Flushes

\* What _enqueue_retry makes of the queue.
LEMMA EnqueueType ==
  ASSUME LinkAssumption, LinkTypeOK, NEW m \in Messages, NEW n \in 0..TryLimit,
         NEW q \in Seq(Items), Len(q) <= QueueLimit, Enqueue(m, n, q)
  PROVE  /\ waiting' \in Seq(Items) /\ Len(waiting') <= QueueLimit
         /\ dropped' \subseteq Messages
<1>1. CASE n < TryLimit /\ Len(q) < QueueLimit
  <2>1. [cmd |-> m, tries |-> n + 1] \in Items
    BY <1>1 DEF Items, LinkAssumption
  <2>2. waiting' = Append(q, [cmd |-> m, tries |-> n + 1]) /\ UNCHANGED dropped
    BY <1>1 DEF Enqueue
  <2> QED
    BY <1>1, <2>1, <2>2 DEF LinkTypeOK, LinkAssumption
<1>2. CASE ~(n < TryLimit /\ Len(q) < QueueLimit)
  BY <1>2 DEF Enqueue, LinkTypeOK
<1> QED
  BY <1>1, <1>2

\* The first of the items of a queue or a flush, and the others.
LEMMA HeadFacts ==
  ASSUME NEW q \in Seq(Items), q # <<>>
  PROVE  /\ Head(q) \in Items /\ Head(q).cmd \in Messages /\ Head(q).tries \in 0..TryLimit
         /\ Tail(q) \in Seq(Items) /\ Len(Tail(q)) = Len(q) - 1 /\ Len(q) > 0
<1>1. Head(q) \in Items /\ Tail(q) \in Seq(Items) /\ Len(Tail(q)) = Len(q) - 1 /\ Len(q) > 0
  OBVIOUS
<1> QED
  BY <1>1 DEF Items

LEMMA CommandedType ==
  ASSUME NEW q \in Seq(Items)
  PROVE  Commanded(q) \subseteq Messages
<1>1. \A i \in DOMAIN q : q[i] \in Items
  OBVIOUS
<1> QED
  BY <1>1 DEF Commanded, Items

LEMMA InHandFacts ==
  ASSUME LinkTypeOK, inHand # NoItem
  PROVE  inHand \in Items /\ inHand.cmd \in Messages /\ inHand.tries \in 0..TryLimit
BY DEF LinkTypeOK, Items

\* What a send that fails does to the connection.
LEMMA SocketFailsType ==
  ASSUME LinkAssumption, LinkTypeOK, SocketFails
  PROVE  link' = "down" /\ outages' \in 0..MaxOutages
BY DEF SocketFails, LinkTypeOK, LinkAssumption

\* Every step keeps the types.
LEMMA NextType ==
  ASSUME LinkAssumption, LinkTypeOK, [LinkNext]_linkVars
  PROVE  LinkTypeOK'
<1> USE DEF holders, fates, counts
<1>1. CASE UNCHANGED linkVars \/ LoopSleepsOn
  BY <1>1 DEF linkVars, LinkTypeOK, LoopSleepsOn
<1>2. ASSUME NEW m \in Messages, Issue(m)
      PROVE  LinkTypeOK'
  <2>1. stage' \in [Messages -> {"unissued", "socket", "rest", "over"}]
    BY <1>2 DEF Issue, LinkTypeOK
  <2>2. \/ UNCHANGED <<waiting, dropped>>
        \/ Enqueue(m, 0, waiting)
    BY <1>2 DEF Issue
  <2>3. 0 \in 0..TryLimit
    BY DEF LinkAssumption
  <2>4. waiting' \in Seq(Items) /\ Len(waiting') <= QueueLimit /\ dropped' \subseteq Messages
    BY <2>2, <2>3, EnqueueType DEF LinkTypeOK
  <2> QED
    BY <1>2, <2>1, <2>4 DEF Issue, LinkTypeOK
<1>3. ASSUME NEW m \in Messages, IssueByRest(m) \/ HandlerSent(m) \/ HandlerUnanswered(m)
      PROVE  LinkTypeOK'
  BY <1>3 DEF IssueByRest, HandlerSent, HandlerUnanswered, SocketSends, Unanswered, LinkTypeOK
<1>4. ASSUME NEW m \in Messages, HandlerFailed(m) \/ RestEnds(m)
      PROVE  LinkTypeOK'
  <2>1. \/ UNCHANGED <<waiting, dropped>>
        \/ Enqueue(m, 0, waiting)
    BY <1>4 DEF HandlerFailed, RestEnds
  <2>2. 0 \in 0..TryLimit
    BY DEF LinkAssumption
  <2>3. waiting' \in Seq(Items) /\ Len(waiting') <= QueueLimit /\ dropped' \subseteq Messages
    BY <2>1, <2>2, EnqueueType DEF LinkTypeOK
  <2> QED
    BY <1>4, <2>3, SocketFailsType DEF HandlerFailed, RestEnds, LinkTypeOK
<1>5. CASE ConsumerTakes
  BY <1>5, HeadFacts DEF ConsumerTakes, ConsumerMay, LinkTypeOK
<1>6. CASE ConsumerPutsBack
  <2>1. /\ Head(waiting).cmd \in Messages /\ Head(waiting).tries \in 0..TryLimit
        /\ Tail(waiting) \in Seq(Items) /\ Len(Tail(waiting)) <= QueueLimit
    BY <1>6, HeadFacts DEF ConsumerPutsBack, ConsumerMay, LinkTypeOK, LinkAssumption
  <2>2. waiting' \in Seq(Items) /\ Len(waiting') <= QueueLimit /\ dropped' \subseteq Messages
    BY <1>6, <2>1, EnqueueType DEF ConsumerPutsBack
  <2> QED
    BY <1>6, <2>2 DEF ConsumerPutsBack, LinkTypeOK
<1>7. CASE ConsumerSent
  BY <1>7, InHandFacts DEF ConsumerSent, SocketSends, LinkTypeOK
<1>8. CASE ConsumerFailed \/ ConsumerUnanswered
  <2>1. waiting' \in Seq(Items) /\ Len(waiting') <= QueueLimit /\ dropped' \subseteq Messages
    BY <1>8, InHandFacts, EnqueueType DEF ConsumerFailed, ConsumerUnanswered, LinkTypeOK
  <2>2. CASE ConsumerFailed
    BY <2>1, <2>2, SocketFailsType DEF ConsumerFailed, LinkTypeOK
  <2>3. CASE ConsumerUnanswered
    BY <2>1, <2>3, InHandFacts DEF ConsumerUnanswered, Unanswered, LinkTypeOK
  <2> QED
    BY <1>8, <2>2, <2>3
<1>9. ASSUME NEW f \in Flushes,
             FlushSent(f) \/ FlushUnanswered(f) \/ FlushFailed(f) \/ FlushAbandons(f)
      PROVE  LinkTypeOK'
  <2>1. flushing[f] \in Seq(Items) /\ flushing[f] # <<>>
    BY <1>9 DEF FlushSent, FlushUnanswered, FlushFailed, FlushAbandons, LinkTypeOK
  <2>2. flushing' = [flushing EXCEPT ![f] = Tail(flushing[f])]
        \/ flushing' = [flushing EXCEPT ![f] = <<>>]
    <3>1. CASE FlushSent(f)
      BY <3>1 DEF FlushSent
    <3>2. CASE FlushFailed(f)
      BY <3>2 DEF FlushFailed
    <3>3. CASE FlushAbandons(f)
      BY <3>3 DEF FlushAbandons
    <3>4. CASE FlushUnanswered(f)
      BY <3>4 DEF FlushUnanswered
    <3> QED
      BY <1>9, <3>1, <3>2, <3>3, <3>4
  <2>3. flushing' \in [Flushes -> Seq(Items)]
    <3>1. flushing \in [Flushes -> Seq(Items)] /\ Tail(flushing[f]) \in Seq(Items)
          /\ <<>> \in Seq(Items)
      BY <2>1, HeadFacts DEF LinkTypeOK
    <3> QED
      BY <2>2, <3>1, Zenon
  <2>4. CASE FlushSent(f)
    BY <2>1, <2>3, <2>4, HeadFacts DEF FlushSent, SocketSends, LinkTypeOK
  <2>5. CASE FlushFailed(f)
    <3>1. waiting' \in Seq(Items) /\ Len(waiting') <= QueueLimit /\ dropped' \subseteq Messages
      BY <2>1, <2>5, HeadFacts, EnqueueType DEF FlushFailed, LinkTypeOK
    <3> QED
      BY <2>3, <2>5, <3>1, SocketFailsType DEF FlushFailed, LinkTypeOK
  <2>6. CASE FlushAbandons(f)
    BY <2>1, <2>3, <2>6, CommandedType DEF FlushAbandons, LinkTypeOK
  <2>7. CASE FlushUnanswered(f)
    <3>1. waiting' \in Seq(Items) /\ Len(waiting') <= QueueLimit /\ dropped' \subseteq Messages
      BY <2>1, <2>7, HeadFacts, EnqueueType DEF FlushUnanswered, LinkTypeOK
    <3>2. delivered' \subseteq Messages
      BY <2>1, <2>7, HeadFacts DEF FlushUnanswered, Unanswered, LinkTypeOK
    <3> QED
      BY <2>3, <2>7, <3>1, <3>2 DEF FlushUnanswered, LinkTypeOK
  <2> QED
    BY <1>9, <2>4, <2>5, <2>6, <2>7
<1>10. CASE HttpConnects \/ LoopFlushes
  <2>1. waiting' \in Seq(Items) /\ Len(waiting') <= QueueLimit
    <3>1. waiting' = <<>>
      BY <1>10 DEF HttpConnects, LoopFlushes, TakeAll
    <3> QED
      BY <3>1 DEF LinkAssumption
  <2>2. flushing' \in [Flushes -> Seq(Items)]
    <3>1. flushing \in [Flushes -> Seq(Items)] /\ waiting \in Seq(Items)
      BY DEF LinkTypeOK
    <3>2. ASSUME NEW f \in Flushes, TakeAll(f)
          PROVE  flushing' \in [Flushes -> Seq(Items)]
      BY <3>1, <3>2, Zenon DEF TakeAll
    <3> QED
      <4>1. {"http", "loop"} \subseteq Flushes /\ (TakeAll("http") \/ TakeAll("loop"))
        BY <1>10 DEF HttpConnects, LoopFlushes, Flushes
      <4> QED
        BY <3>2, <4>1
  <2> QED
    <3>1. CASE HttpConnects
      BY <2>1, <2>2, <3>1 DEF HttpConnects, LinkTypeOK
    <3>2. CASE LoopFlushes
      BY <2>1, <2>2, <3>2 DEF LoopFlushes, LinkTypeOK
    <3> QED
      BY <1>10, <3>1, <3>2
<1>11. CASE LoopWakes \/ LoopRests \/ RemoteReturns \/ StartManager
  BY <1>11 DEF LoopWakes, LoopRests, RemoteReturns, StartManager, LinkTypeOK
<1>12. CASE LoopConnects \/ StartConnects
  BY <1>12 DEF LoopConnects, StartConnects, LinkTypeOK, LinkAssumption
<1>13. CASE HeartbeatFails
  BY <1>13, SocketFailsType DEF HeartbeatFails, LinkTypeOK
<1>14. CASE ConnectionLost
  BY <1>14 DEF ConnectionLost, LinkTypeOK, LinkAssumption
<1>15. CASE StopManager
  <2>1. flushing' \in [Flushes -> Seq(Items)]
    <3>1. flushing' = [flushing EXCEPT !["loop"] = <<>>] /\ <<>> \in Seq(Items)
      BY <1>15 DEF StopManager
    <3> QED
      BY <3>1, Zenon DEF LinkTypeOK
  <2>2. dropped' \subseteq Messages
    <3>1. Commanded(flushing["loop"]) \subseteq Messages
      BY CommandedType DEF LinkTypeOK, Flushes
    <3> QED
      BY <1>15, <3>1, InHandFacts DEF StopManager, LinkTypeOK
  <2>3. stops' \in 0..MaxStops
    BY <1>15 DEF StopManager, LinkTypeOK, LinkAssumption
  <2> QED
    BY <1>15, <2>1, <2>2, <2>3 DEF StopManager, LinkTypeOK
<1> QED
  BY <1>1, <1>2, <1>3, <1>4, <1>5, <1>6, <1>7, <1>8, <1>9, <1>10, <1>11, <1>12, <1>13,
     <1>14, <1>15 DEF LinkNext, SendEnds, ConsumerTurns, LoopTurns

\* The queue is never longer than its limit and holds commands with at most the
\* tries they are granted.
THEOREM LinkTypeCorrect == LinkSpec => []LinkTypeOK
<1>1. LinkInit => LinkTypeOK
  BY InitType, LinkAssumption
<1>2. LinkTypeOK /\ [LinkNext]_linkVars => LinkTypeOK'
  BY NextType, LinkAssumption
<1> QED
  BY <1>1, <1>2, PTL DEF LinkSpec

-----------------------------------------------------------------------------
(* A command is given up for a reason *)

\* A command that _enqueue_retry gives up finds the queue full, or has had its
\* tries.
LEMMA EnqueueGivesUp ==
  ASSUME LinkAssumption, LinkTypeOK, NEW m, NEW n \in 0..TryLimit, NEW q \in Seq(Items),
         Len(q) <= QueueLimit, Enqueue(m, n, q), dropped' # dropped
  PROVE  n = TryLimit \/ (Len(q) = QueueLimit /\ waiting' = q)
BY DEF Enqueue, LinkAssumption

GivenUp ==
  dropped' \cap Commands # dropped \cap Commands =>
    \/ link # "open" \/ link' # "open"
    \/ Len(waiting) = QueueLimit /\ waiting' = waiting

LEMMA GivenUpStep ==
  ASSUME LinkAssumption, LinkTypeOK, LinkNext
  PROVE  GivenUp
<1> USE DEF holders, fates, counts
<1>1. ASSUME NEW m \in Messages, RestEnds(m), dropped' # dropped
      PROVE  GivenUp
  <2>1. Enqueue(m, 0, waiting) /\ 0 \in 0..TryLimit /\ 0 # TryLimit
    BY <1>1 DEF RestEnds, LinkAssumption
  <2> QED
    BY <1>1, <2>1, EnqueueGivesUp DEF LinkTypeOK, GivenUp
<1>2. ASSUME NEW m \in Messages,
             \/ Issue(m) \/ IssueByRest(m) \/ HandlerSent(m) \/ HandlerUnanswered(m)
             \/ HandlerFailed(m)
      PROVE  GivenUp
  BY <1>2 DEF Issue, IssueByRest, HandlerSent, HandlerUnanswered, HandlerFailed, SocketFails, Connected, GivenUp
<1>3. CASE ConsumerTakes \/ ConsumerPutsBack \/ ConsumerSent \/ ConsumerFailed
  BY <1>3 DEF ConsumerTakes, ConsumerPutsBack, ConsumerSent, ConsumerFailed, SocketFails,
              Connected, GivenUp
<1>4. ASSUME NEW f \in Flushes, FlushSent(f) \/ FlushFailed(f) \/ FlushAbandons(f)
      PROVE  GivenUp
  BY <1>4 DEF FlushSent, FlushFailed, FlushAbandons, SocketFails, Connected, GivenUp
<1>unanswered. CASE ConsumerUnanswered \/ \E f \in Flushes : FlushUnanswered(f)
  <2>1. ASSUME NEW m \in Asking, NEW n, NEW q, Enqueue(m, n, q)
        PROVE  dropped' \cap Commands = dropped \cap Commands
    BY <2>1 DEF Enqueue, Commands
  <2> QED
    BY <1>unanswered, <2>1 DEF ConsumerUnanswered, FlushUnanswered, Unanswered, GivenUp
<1>5. CASE HttpConnects \/ LoopTurns \/ HeartbeatFails \/ LoopSleepsOn
  BY <1>5 DEF HttpConnects, LoopTurns, LoopWakes, LoopConnects, LoopFlushes, LoopRests,
              StartConnects, HeartbeatFails, LoopSleepsOn, linkVars, GivenUp
<1>6. CASE ConnectionLost \/ RemoteReturns \/ StopManager \/ StartManager
  BY <1>6 DEF ConnectionLost, RemoteReturns, StopManager, StartManager, GivenUp
<1> QED
  BY <1>1, <1>2, <1>3, <1>4, <1>unanswered, <1>5, <1>6
     DEF LinkNext, SendEnds, ConsumerTurns, GivenUp

\* No command is lost under way on an open connection with room in the queue, and
\* its tries do not run out there.
THEOREM GivenUpWithoutConnection == LinkSpec => GivenUpForAReason
<1>1. LinkTypeOK /\ [LinkNext]_linkVars
      => [dropped' \cap Commands # dropped \cap Commands =>
            \/ link # "open" \/ link' # "open"
            \/ Len(waiting) = QueueLimit /\ waiting' = waiting]_linkVars
  BY GivenUpStep, LinkAssumption DEF GivenUp
<1> QED
  BY <1>1, LinkTypeCorrect, PTL DEF LinkSpec, GivenUpForAReason

-----------------------------------------------------------------------------
(* How often a queue holds a command *)

Count(m, q) == Cardinality(InQueue(m, q))

Same(m, n) == IF m = n THEN 1 ELSE 0

LEMMA CountType ==
  ASSUME NEW m, NEW q \in Seq(Items)
  PROVE  IsFiniteSet(InQueue(m, q)) /\ Count(m, q) \in Nat
<1>1. IsFiniteSet(1..Len(q)) /\ InQueue(m, q) \in SUBSET (1..Len(q))
  BY FS_Interval DEF InQueue
<1>2. IsFiniteSet(InQueue(m, q))
  BY <1>1, FS_Subset
<1> QED
  BY <1>2, FS_CardinalityType DEF Count

LEMMA CountEmpty ==
  ASSUME NEW m
  PROVE  Count(m, <<>>) = 0
<1>1. InQueue(m, <<>>) = {}
  BY DEF InQueue
<1> QED
  BY <1>1, FS_EmptySet DEF Count

LEMMA CountAppend ==
  ASSUME NEW m, NEW q \in Seq(Items), NEW x \in Items
  PROVE  Count(m, Append(q, x)) = Count(m, q) + Same(x.cmd, m)
<1> DEFINE n == Len(q) + 1
<1>1. IsFiniteSet(InQueue(m, q)) /\ Count(m, q) \in Nat
  BY CountType
<1>2. /\ DOMAIN Append(q, x) = 1..n /\ DOMAIN q = 1..Len(q)
      /\ \A i \in 1..Len(q) : Append(q, x)[i] = q[i]
      /\ Append(q, x)[n] = x /\ n \notin InQueue(m, q)
      /\ 1..n = 1..Len(q) \cup {n}
  BY DEF InQueue
<1>3. CASE x.cmd = m
  <2>1. InQueue(m, Append(q, x)) = InQueue(m, q) \cup {n}
    BY <1>2, <1>3 DEF InQueue
  <2>2. Cardinality(InQueue(m, q) \cup {n}) = Cardinality(InQueue(m, q)) + 1
    BY <1>1, <1>2, FS_AddElement
  <2> QED
    BY <1>3, <2>1, <2>2 DEF Count, Same
<1>4. CASE x.cmd # m
  <2>1. InQueue(m, Append(q, x)) = InQueue(m, q)
    BY <1>2, <1>4 DEF InQueue
  <2> QED
    BY <1>1, <1>4, <2>1 DEF Count, Same
<1> QED
  BY <1>3, <1>4

LEMMA CountTail ==
  ASSUME NEW m, NEW q \in Seq(Items), q # <<>>
  PROVE  Count(m, q) = Count(m, Tail(q)) + Same(Head(q).cmd, m)
<1> DEFINE t == Tail(q)
           S == InQueue(m, t)
           T == InQueue(m, q) \ {1}
           f == [i \in S |-> i + 1]
<1>1. /\ t \in Seq(Items) /\ Len(t) = Len(q) - 1 /\ Len(q) \in Nat \ {0}
      /\ DOMAIN q = 1..Len(q) /\ DOMAIN t = 1..(Len(q) - 1)
      /\ \A i \in 1..(Len(q) - 1) : t[i] = q[i + 1]
      /\ Head(q) = q[1]
  OBVIOUS
<1>2. IsFiniteSet(S) /\ IsFiniteSet(InQueue(m, q)) /\ Count(m, t) \in Nat /\ Count(m, q) \in Nat
  BY <1>1, CountType
<1>3. f \in [S -> T]
  <2>1. ASSUME NEW i \in S
        PROVE  i + 1 \in T
    BY <1>1 DEF InQueue
  <2> QED
    BY <2>1
<1>4. \A a, b \in S : f[a] = f[b] => a = b
  BY <1>1 DEF InQueue
<1>5. \A j \in T : \E i \in S : f[i] = j
  <2> SUFFICES ASSUME NEW j \in T
               PROVE  \E i \in S : f[i] = j
    OBVIOUS
  <2>1. j \in 2..Len(q) /\ q[j].cmd = m
    BY <1>1 DEF InQueue
  <2>2. j - 1 \in S /\ (j - 1) + 1 = j
    BY <1>1, <2>1 DEF InQueue
  <2>3. f[j - 1] = (j - 1) + 1
    BY <2>2
  <2> QED
    BY <2>2, <2>3
<1>6. Cardinality(T) = Count(m, t)
  <2> HIDE DEF f, S, T
  <2>1. f \in Bijection(S, T)
    BY <1>3, <1>4, <1>5, Fun_IsBij, Fun_IsSurj
  <2>2. ExistsBijection(S, T)
    BY <2>1, Fun_ExistsBij
  <2>3. Cardinality(T) = Cardinality(S)
    BY <1>2, <2>2, FS_Bijection
  <2> QED
    BY <2>3 DEF Count, S
<1>7. Cardinality(T) = IF 1 \in InQueue(m, q) THEN Count(m, q) - 1 ELSE Count(m, q)
  BY <1>2, FS_RemoveElement DEF Count
<1>8. 1 \in InQueue(m, q) <=> Head(q).cmd = m
  BY <1>1 DEF InQueue
<1> HIDE DEF T, t
<1> QED
  BY <1>2, <1>6, <1>7, <1>8 DEF Same, t

LEMMA CountCommanded ==
  ASSUME NEW m, NEW q \in Seq(Items)
  PROVE  Count(m, q) = 0 <=> m \notin Commanded(q)
<1>1. IsFiniteSet(InQueue(m, q))
  BY CountType
<1>2. Count(m, q) = 0 <=> InQueue(m, q) = {}
  BY <1>1, FS_EmptySet DEF Count
<1> QED
  BY <1>2 DEF InQueue, Commanded

LEMMA CountSingleton ==
  ASSUME NEW m, NEW S
  PROVE  Cardinality({m} \cap S) = IF m \in S THEN 1 ELSE 0
<1>1. CASE m \in S
  <2>1. {m} \cap S = {m}
    BY <1>1
  <2> QED
    BY <1>1, <2>1, FS_Singleton
<1>2. CASE m \notin S
  <2>1. {m} \cap S = {}
    BY <1>2
  <2> QED
    BY <1>2, <2>1, FS_EmptySet
<1> QED
  BY <1>1, <1>2

-----------------------------------------------------------------------------
(* Each command is in one place *)

Queued(m) == Count(m, waiting)

InHand(m) == IF inHand # NoItem /\ inHand.cmd = m THEN 1 ELSE 0

Sending(m) == IF stage[m] \in {"socket", "rest"} THEN 1 ELSE 0

InFlush(m) == Count(m, flushing["loop"]) + Count(m, flushing["http"])

Sent(m) == IF m \in delivered THEN 1 ELSE 0

Lost(m) == IF m \in dropped THEN 1 ELSE 0

Issued(m) == IF stage[m] # "unissued" THEN 1 ELSE 0

Whole(m) == Queued(m) + InFlush(m) + InHand(m) + Sending(m) + Sent(m) + Lost(m)

OnceInv == \A m \in Commands : Whole(m) = Issued(m)

\* A flush takes the queue only when the one before it is over, and a stopped
\* manager has no loop that flushes.
FlushInv ==
  /\ ~serving => loopAt = "sleeping"
  /\ loopAt # "flushing" => flushing["loop"] = <<>>
  /\ ~httpUp => flushing["http"] = <<>>

LEMMA WholeFacts ==
  ASSUME LinkTypeOK, NEW m
  PROVE  /\ Queued(m) \in Nat /\ InHand(m) \in {0, 1} /\ Sending(m) \in {0, 1}
         /\ Count(m, flushing["loop"]) \in Nat /\ Count(m, flushing["http"]) \in Nat
         /\ InFlush(m) \in Nat
         /\ \A f \in Flushes : Count(m, flushing[f]) \in 0..InFlush(m)
<1>1. waiting \in Seq(Items) /\ flushing["loop"] \in Seq(Items) /\ flushing["http"] \in Seq(Items)
  BY DEF LinkTypeOK, Flushes
<1>2. /\ Queued(m) \in Nat
      /\ Count(m, flushing["loop"]) \in Nat /\ Count(m, flushing["http"]) \in Nat
  BY <1>1, CountType DEF Queued
<1> QED
  BY <1>2 DEF Queued, InFlush, InHand, Sending, Flushes

LEMMA OnceIsOnce == ASSUME LinkTypeOK, OnceInv PROVE EachCommandOnce
<1> SUFFICES ASSUME NEW m \in Commands
             PROVE  Held(m) + Cardinality({m} \cap delivered) + Cardinality({m} \cap dropped)
                      = (IF stage[m] = "unissued" THEN 0 ELSE 1)
  BY DEF EachCommandOnce
<1>1. Whole(m) = Issued(m)
  BY DEF OnceInv
<1>2. Whole(m) = Held(m) + Cardinality({m} \cap delivered) + Cardinality({m} \cap dropped)
  <2>1. Held(m) = Queued(m) + Count(m, flushing["loop"]) + Count(m, flushing["http"])
                    + InHand(m) + Sending(m)
    BY DEF Held, Queued, Count, InHand, Sending, Sent, Lost, Issued, Same
  <2>2. Sent(m) \in {0, 1} /\ Lost(m) \in {0, 1}
    BY DEF Sent, Lost, Issued, Same
  <2> QED
    BY <2>1, <2>2, WholeFacts, CountSingleton DEF Whole, InFlush, Sent, Lost
<1> QED
  BY <1>1, <1>2 DEF Sent, Lost, Issued, Same

\* A command that is held somewhere has neither been sent nor given up, and is
\* held once.
LEMMA HeldOnce ==
  ASSUME LinkTypeOK, OnceInv, NEW m \in Commands,
         Queued(m) + InFlush(m) + InHand(m) + Sending(m) > 0
  PROVE  /\ m \notin delivered /\ m \notin dropped
         /\ Queued(m) + InFlush(m) + InHand(m) + Sending(m) = 1
<1>1. Whole(m) \in {0, 1}
  BY DEF OnceInv, Sent, Lost, Issued, Same
<1>2. Sent(m) \in {0, 1} /\ Lost(m) \in {0, 1}
  BY DEF Sent, Lost, Issued, Same
<1>3. Sent(m) = 0 /\ Lost(m) = 0
      /\ Queued(m) + InFlush(m) + InHand(m) + Sending(m) = 1
  BY <1>1, <1>2, WholeFacts DEF Whole
<1> QED
  BY <1>3 DEF Sent, Lost, Issued, Same

\* A command that is put back is in the queue once more, or given up.
LEMMA EnqueueCount ==
  ASSUME LinkAssumption, NEW m \in Messages, NEW n \in 0..TryLimit, NEW q \in Seq(Items),
         Enqueue(m, n, q), NEW c \in Commands, c = m => m \notin dropped
  PROVE  \/ Queued(c)' = Count(c, q) + Same(c, m) /\ Lost(c)' = Lost(c)
         \/ Queued(c)' = Count(c, q) /\ Lost(c)' = Lost(c) + Same(c, m)
<1>1. Count(c, q) \in Nat
  BY CountType
<1>2. CASE n < TryLimit /\ Len(q) < QueueLimit
  <2> DEFINE x == [cmd |-> m, tries |-> n + 1]
  <2>1. x \in Items /\ x.cmd = m
    BY <1>2 DEF Items, LinkAssumption
  <2>2. waiting' = Append(q, x) /\ UNCHANGED dropped
    BY <1>2 DEF Enqueue
  <2> HIDE DEF x
  <2>3. Queued(c)' = Count(c, q) + Same(m, c)
    BY <2>1, <2>2, CountAppend DEF Queued
  <2> QED
    BY <1>1, <2>2, <2>3 DEF Lost, Same
<1>3. CASE ~(n < TryLimit /\ Len(q) < QueueLimit)
  <2>1. waiting' = q /\ dropped' = dropped \cup {m}
    BY <1>3 DEF Enqueue
  <2> QED
    BY <1>1, <2>1 DEF Queued, Lost, Same
<1> QED
  BY <1>2, <1>3

LEMMA SentCount ==
  ASSUME NEW m, delivered' = delivered \cup {m}, NEW c, c = m => m \notin delivered
  PROVE  Sent(c)' = Sent(c) + Same(c, m)
BY DEF Sent, Lost, Issued, Same

\* What a flush that takes, sends or abandons items holds afterwards.
LEMMA FlushCount ==
  ASSUME LinkTypeOK, NEW f \in Flushes, NEW q \in Seq(Items),
         flushing' = [flushing EXCEPT ![f] = q], NEW c
  PROVE  InFlush(c)' = InFlush(c) - Count(c, flushing[f]) + Count(c, q)
<1>1. flushing'[f] = q /\ \A g \in Flushes \ {f} : flushing'[g] = flushing[g]
  BY DEF LinkTypeOK
<1>2. Count(c, q) \in Nat
  BY CountType
<1>3. CASE f = "loop"
  <2>1. flushing'["loop"] = q /\ flushing'["http"] = flushing["http"]
    BY <1>1, <1>3 DEF Flushes
  <2> QED
    BY <1>2, <1>3, <2>1, WholeFacts DEF InFlush
<1>4. CASE f = "http"
  <2>1. flushing'["http"] = q /\ flushing'["loop"] = flushing["loop"]
    BY <1>1, <1>4 DEF Flushes
  <2> QED
    BY <1>2, <1>4, <2>1, WholeFacts DEF InFlush
<1> QED
  BY <1>3, <1>4 DEF Flushes

\* A command that was not issued is nowhere.
LEMMA UnissuedNowhere ==
  ASSUME LinkTypeOK, OnceInv, NEW m \in Commands, stage[m] = "unissued"
  PROVE  m \notin delivered /\ m \notin dropped
<1>1. Whole(m) = 0
  BY DEF OnceInv, Sent, Lost, Issued, Same
<1>2. Sent(m) \in {0, 1} /\ Lost(m) \in {0, 1}
  BY DEF Sent, Lost, Issued, Same
<1>3. Sent(m) = 0 /\ Lost(m) = 0
  BY <1>1, <1>2, WholeFacts DEF Whole
<1> QED
  BY <1>3 DEF Sent, Lost, Issued, Same

\* What a step has to show of each command: its places, taken together, change as
\* much as it has been issued.
Balanced(c) ==
  \E n \in {0, 1} : Whole(c)' = Whole(c) + n /\ Issued(c)' = Issued(c) + n

LEMMA Balance ==
  ASSUME OnceInv, \A c \in Commands : Balanced(c)
  PROVE  OnceInv'
BY DEF OnceInv, Balanced

LEMMA WholeType ==
  ASSUME LinkTypeOK, NEW c
  PROVE  /\ Queued(c) \in Nat /\ InFlush(c) \in Nat /\ InHand(c) \in Nat /\ Sending(c) \in Nat
         /\ Sent(c) \in Nat /\ Lost(c) \in Nat /\ Whole(c) \in Nat /\ Issued(c) \in Nat
<1>1. /\ Queued(c) \in Nat /\ InFlush(c) \in Nat /\ InHand(c) \in Nat /\ Sending(c) \in Nat
  BY WholeFacts
<1>2. Sent(c) \in Nat /\ Lost(c) \in Nat /\ Issued(c) \in Nat
  BY DEF Sent, Lost, Issued
<1> QED
  BY <1>1, <1>2 DEF Whole

LEMMA BalancedMove ==
  ASSUME LinkTypeOK, NEW c, Whole(c)' = Whole(c), Issued(c)' = Issued(c)
  PROVE  Balanced(c)
BY WholeType DEF Balanced

\* The coroutines that issue commands.
LEMMA BalancedHandler ==
  ASSUME LinkAssumption, LinkTypeOK, LinkTypeOK', OnceInv, NEW m \in Messages,
         NEW c \in Commands,
         \/ Issue(m) \/ IssueByRest(m) \/ HandlerSent(m) \/ HandlerUnanswered(m)
         \/ HandlerFailed(m) \/ RestEnds(m)
  PROVE  Balanced(c)
<1>1. InHand(c)' = InHand(c) /\ InFlush(c)' = InFlush(c)
  <2>1. UNCHANGED <<inHand, flushing>>
    BY DEF Issue, IssueByRest, HandlerSent, HandlerUnanswered, HandlerFailed, RestEnds, holders
  <2> QED
    BY <2>1 DEF InHand, InFlush
<1>nat. /\ Queued(c) \in Nat /\ InFlush(c) \in Nat /\ InHand(c) \in Nat /\ Sending(c) \in Nat
      /\ Sent(c) \in Nat /\ Lost(c) \in Nat
  BY WholeType
<1>same. PICK k \in Nat : k = Same(c, m)
  BY DEF Same
<1>2. /\ 0 \in 0..TryLimit /\ waiting \in Seq(Items) /\ k \in {0, 1}
  BY <1>same DEF Same, LinkTypeOK, LinkAssumption
<1>3. CASE IssueByRest(m) \/ (Issue(m) /\ Connected)
  <2>1. Queued(c)' = Queued(c) /\ Sent(c)' = Sent(c) /\ Lost(c)' = Lost(c)
    BY <1>3 DEF Issue, IssueByRest, fates, Queued, Sent, Lost
  <2>2. Sending(c)' = Sending(c) + k /\ Issued(c)' = Issued(c) + k
    BY <1>same, <1>3 DEF Issue, IssueByRest, Sending, Issued, Same, LinkTypeOK,
                           Commands
  <2>3. Whole(c)' = Whole(c) + k
    BY <1>1, <1>2, <2>1, <2>2, <1>nat, SMTT(60) DEF Whole
  <2> QED
    BY <1>2, <2>2, <2>3 DEF Balanced
<1>4. CASE Issue(m) /\ ~Connected
  <2>1. Enqueue(m, 0, waiting) /\ UNCHANGED delivered /\ (c = m => m \notin dropped)
    BY <1>4, UnissuedNowhere DEF Issue
  <2>2. /\ Sending(c)' = Sending(c) /\ Issued(c)' = Issued(c) + k
        /\ Sent(c)' = Sent(c)
    BY <1>same, <1>4 DEF Issue, Sending, Issued, Sent, Same, LinkTypeOK,
                           Commands
  <2>3. Whole(c)' = Whole(c) + k
    <3>1. CASE Queued(c)' = Queued(c) + k /\ Lost(c)' = Lost(c)
      BY <1>1, <1>2, <2>2, <3>1, <1>nat, SMTT(60) DEF Whole
    <3>2. CASE Queued(c)' = Queued(c) /\ Lost(c)' = Lost(c) + k
      BY <1>1, <1>2, <2>2, <3>2, <1>nat, SMTT(60) DEF Whole
    <3> QED
      BY <1>2, <2>1, <3>1, <3>2, <1>same, EnqueueCount DEF Queued
  <2> QED
    BY <1>2, <2>2, <2>3 DEF Balanced
<1>5. CASE HandlerSent(m) \/ HandlerUnanswered(m) \/ HandlerFailed(m) \/ RestEnds(m)
  <2>1. ASSUME c = m
        PROVE  m \notin delivered /\ m \notin dropped
    <3>1. Sending(m) = 1
      BY <1>5 DEF HandlerSent, HandlerUnanswered, HandlerFailed, RestEnds, Sending
    <3>2. Queued(m) + InFlush(m) + InHand(m) + Sending(m) > 0
      BY <3>1, WholeType
    <3> QED
      BY <2>1, <3>2, HeldOnce
  <2>2. /\ Sending(c) = Sending(c)' + k /\ Sending(c)' \in Nat
        /\ Issued(c)' = Issued(c)
    BY <1>same, <1>5 DEF HandlerSent, HandlerUnanswered, HandlerFailed, RestEnds, Sending, Issued, Same, LinkTypeOK,
                           Commands
  <2>3. Whole(c)' = Whole(c)
    <3>1. CASE Enqueue(m, 0, waiting) /\ UNCHANGED delivered
      <4>1. Sent(c)' = Sent(c)
        BY <3>1 DEF Sent
      <4>2. CASE Queued(c)' = Queued(c) + k /\ Lost(c)' = Lost(c)
        BY <1>1, <1>2, <2>2, <4>1, <4>2, <1>nat, SMTT(60) DEF Whole
      <4>3. CASE Queued(c)' = Queued(c) /\ Lost(c)' = Lost(c) + k
        BY <1>1, <1>2, <2>2, <4>1, <4>3, <1>nat, SMTT(60) DEF Whole
      <4> QED
        BY <1>2, <2>1, <3>1, <4>2, <4>3, <1>same, EnqueueCount DEF Queued
    <3>2. CASE delivered' = delivered \cup {m} /\ UNCHANGED <<waiting, dropped>>
      <4>1. Sent(c)' = Sent(c) + k /\ Queued(c)' = Queued(c) /\ Lost(c)' = Lost(c)
        BY <2>1, <3>2, <1>same, SentCount DEF Queued, Lost
      <4> QED
        BY <1>1, <1>2, <2>2, <4>1, <1>nat, SMTT(60) DEF Whole
    <3> QED
      BY <1>5, <3>1, <3>2 DEF HandlerSent, HandlerUnanswered, HandlerFailed, RestEnds, SocketSends, Unanswered
  <2> QED
    BY <2>2, <2>3, BalancedMove
<1> QED
  BY <1>3, <1>4, <1>5

\* _retry_queue_consumer.
LEMMA BalancedConsumer ==
  ASSUME LinkAssumption, LinkTypeOK, OnceInv, NEW c \in Commands,
         ConsumerTakes \/ ConsumerPutsBack \/ ConsumerSent \/ ConsumerUnanswered \/ ConsumerFailed
  PROVE  Balanced(c)
<1> DEFINE x == IF inHand = NoItem THEN Head(waiting) ELSE inHand
           m == x.cmd
<1>1. /\ Sending(c)' = Sending(c) /\ InFlush(c)' = InFlush(c) /\ Issued(c)' = Issued(c)
  BY DEF ConsumerTakes, ConsumerPutsBack, ConsumerSent, ConsumerUnanswered, ConsumerFailed, Sending, InFlush, Issued
<1>nat. /\ Queued(c) \in Nat /\ InFlush(c) \in Nat /\ InHand(c) \in Nat /\ Sending(c) \in Nat
        /\ Sent(c) \in Nat /\ Lost(c) \in Nat
  BY WholeType
<1>2. x \in Items /\ m \in Messages /\ x.tries \in 0..TryLimit
  BY HeadFacts, InHandFacts DEF ConsumerTakes, ConsumerPutsBack, ConsumerSent, ConsumerUnanswered, ConsumerFailed,
     ConsumerMay, LinkTypeOK
<1>same. PICK k \in Nat : k = Same(c, m)
  BY DEF Same
<1>3. CASE ConsumerTakes \/ ConsumerPutsBack
  <2>1. /\ inHand = NoItem /\ waiting # <<>> /\ waiting \in Seq(Items) /\ x = Head(waiting)
        /\ Tail(waiting) \in Seq(Items)
    BY <1>3, HeadFacts DEF ConsumerTakes, ConsumerPutsBack, ConsumerMay, LinkTypeOK
  <2>2. Queued(c) = Count(c, Tail(waiting)) + k /\ Count(c, Tail(waiting)) \in Nat
    BY <1>same, <2>1, CountTail, CountType DEF Queued, Same
  <2>3. CASE ConsumerTakes
    <3>1. /\ Queued(c)' = Count(c, Tail(waiting)) /\ Sent(c)' = Sent(c) /\ Lost(c)' = Lost(c)
      BY <2>3 DEF ConsumerTakes, Queued, Sent, Lost, fates
    <3>2. NoItem \notin Items
      BY DEF LinkAssumption, Items
    <3>3. InHand(c) = 0 /\ InHand(c)' = k
      BY <1>2, <1>same, <2>1, <2>3, <3>2 DEF ConsumerTakes, InHand, Same
    <3>4. Whole(c)' = Whole(c)
      BY <1>1, <1>nat, <2>2, <3>1, <3>3 DEF Whole
    <3> QED
      BY <1>1, <3>4, BalancedMove
  <2>4. CASE ConsumerPutsBack
    <3>1. ASSUME c = m
          PROVE  m \notin dropped
      <4>1. Queued(m) = Count(m, Tail(waiting)) + 1 /\ Count(m, Tail(waiting)) \in Nat
        BY <2>1, CountTail, CountType DEF Queued, Same
      <4>2. Queued(m) + InFlush(m) + InHand(m) + Sending(m) > 0
        BY <4>1, WholeType
      <4> QED
        BY <3>1, <4>2, HeldOnce
    <3>2. /\ InHand(c)' = InHand(c) /\ Sent(c)' = Sent(c)
          /\ Enqueue(m, x.tries, Tail(waiting))
      BY <2>1, <2>4 DEF ConsumerPutsBack, InHand, Sent
    <3>3. CASE Queued(c)' = Count(c, Tail(waiting)) + k /\ Lost(c)' = Lost(c)
      <4>1. Whole(c)' = Whole(c)
        BY <1>1, <1>nat, <2>2, <3>2, <3>3 DEF Whole
      <4> QED
        BY <1>1, <4>1, BalancedMove
    <3>4. CASE Queued(c)' = Count(c, Tail(waiting)) /\ Lost(c)' = Lost(c) + k
      <4>1. Whole(c)' = Whole(c)
        BY <1>1, <1>nat, <2>2, <3>2, <3>4 DEF Whole
      <4> QED
        BY <1>1, <4>1, BalancedMove
    <3> HIDE DEF x
    <3> QED
      BY <1>2, <1>same, <2>1, <3>1, <3>2, <3>3, <3>4, EnqueueCount
  <2> QED
    BY <1>3, <2>3, <2>4
<1>4. CASE ConsumerSent \/ ConsumerUnanswered \/ ConsumerFailed
  <2>1. inHand # NoItem /\ x = inHand /\ inHand' = NoItem
    BY <1>4 DEF ConsumerSent, ConsumerUnanswered, ConsumerFailed
  <2>2. ASSUME c = m
        PROVE  m \notin delivered /\ m \notin dropped
    <3>1. InHand(m) = 1
      BY <2>1 DEF InHand
    <3>2. Queued(m) + InFlush(m) + InHand(m) + Sending(m) > 0
      BY <3>1, WholeType
    <3> QED
      BY <2>2, <3>2, HeldOnce
  <2>3. InHand(c) = k /\ InHand(c)' = 0
    BY <1>same, <2>1 DEF InHand, Same
  <2>4. CASE ConsumerSent
    <3>1. /\ delivered' = delivered \cup {m}
          /\ Queued(c)' = Queued(c) /\ Lost(c)' = Lost(c)
      BY <2>1, <2>4 DEF ConsumerSent, SocketSends, Queued, Lost
    <3>2. Sent(c)' = Sent(c) + k
      BY <1>2, <1>same, <2>2, <3>1, SentCount
    <3>3. Whole(c)' = Whole(c)
      BY <1>1, <1>nat, <2>3, <3>1, <3>2 DEF Whole
    <3> QED
      BY <1>1, <3>3, BalancedMove
  <2>5. CASE ConsumerFailed
    <3>1. Sent(c)' = Sent(c) /\ Enqueue(m, x.tries, waiting) /\ waiting \in Seq(Items)
      BY <2>1, <2>5 DEF ConsumerFailed, Sent, LinkTypeOK
    <3>2. CASE Queued(c)' = Queued(c) + k /\ Lost(c)' = Lost(c)
      <4>1. Whole(c)' = Whole(c)
        BY <1>1, <1>nat, <2>3, <3>1, <3>2 DEF Whole
      <4> QED
        BY <1>1, <4>1, BalancedMove
    <3>3. CASE Queued(c)' = Queued(c) /\ Lost(c)' = Lost(c) + k
      <4>1. Whole(c)' = Whole(c)
        BY <1>1, <1>nat, <2>3, <3>1, <3>3, SMTT(60) DEF Whole
      <4> QED
        BY <1>1, <4>1, BalancedMove
    <3> HIDE DEF x
    <3> QED
      BY <1>2, <1>same, <2>2, <3>1, <3>2, <3>3, EnqueueCount DEF Queued
  <2>6. CASE ConsumerUnanswered
    <3>1. /\ m \in Asking /\ m # c /\ k = 0 /\ Same(c, m) = 0 /\ delivered' = delivered \cup {m}
          /\ Enqueue(m, x.tries, waiting) /\ waiting \in Seq(Items)
      BY <2>1, <2>6, <1>same DEF ConsumerUnanswered, Unanswered, Commands, Same, LinkTypeOK
    <3>2. Sent(c)' = Sent(c)
      BY <3>1 DEF Sent
    <3>3. Queued(c)' = Queued(c) /\ Lost(c)' = Lost(c)
      <4> HIDE DEF x
      <4> QED
        BY <1>2, <1>nat, <1>same, <3>1, EnqueueCount DEF Queued
    <3>4. Whole(c)' = Whole(c)
      BY <1>1, <1>nat, <2>3, <3>1, <3>2, <3>3 DEF Whole
    <3> QED
      BY <1>1, <3>4, BalancedMove
  <2> QED
    BY <1>4, <2>4, <2>5, <2>6
<1> QED
  BY <1>3, <1>4

\* A flush sends its items one by one.
LEMMA BalancedFlush ==
  ASSUME LinkAssumption, LinkTypeOK, OnceInv, NEW f \in Flushes, NEW c \in Commands,
         FlushSent(f) \/ FlushUnanswered(f) \/ FlushFailed(f)
  PROVE  Balanced(c)
<1> DEFINE x == Head(flushing[f])
           m == x.cmd
           rest == Tail(flushing[f])
<1>1. Sending(c)' = Sending(c) /\ InHand(c)' = InHand(c) /\ Issued(c)' = Issued(c)
  BY DEF FlushSent, FlushUnanswered, FlushFailed, Sending, InHand, Issued
<1>nat. /\ Queued(c) \in Nat /\ InFlush(c) \in Nat /\ InHand(c) \in Nat /\ Sending(c) \in Nat
        /\ Sent(c) \in Nat /\ Lost(c) \in Nat
  BY WholeType
<1>2. /\ flushing[f] \in Seq(Items) /\ flushing[f] # <<>>
      /\ flushing' = [flushing EXCEPT ![f] = rest]
  <2>1. CASE FlushSent(f)
    BY <2>1 DEF FlushSent, LinkTypeOK
  <2>2. CASE FlushFailed(f)
    BY <2>2 DEF FlushFailed, LinkTypeOK
  <2>3. CASE FlushUnanswered(f)
    BY <2>3 DEF FlushUnanswered, LinkTypeOK
  <2> QED
    BY <2>1, <2>2, <2>3
<1>3. m \in Messages /\ x.tries \in 0..TryLimit /\ rest \in Seq(Items)
  BY <1>2, HeadFacts
<1>same. PICK k \in Nat : k = Same(c, m)
  BY DEF Same
<1>4. PICK g \in Nat : InFlush(c)' = g /\ InFlush(c) = g + k
  <2>1. Count(c, flushing[f]) = Count(c, rest) + k
    BY <1>2, <1>same, CountTail DEF Same
  <2>2. Count(c, rest) \in Nat /\ Count(c, flushing[f]) \in 0..InFlush(c)
    BY <1>3, CountType, WholeFacts
  <2>3. InFlush(c)' = InFlush(c) - Count(c, flushing[f]) + Count(c, rest)
    BY <1>2, <1>3, FlushCount
  <2> QED
    BY <1>nat, <2>1, <2>2, <2>3
<1>5. ASSUME c = m
      PROVE  m \notin delivered /\ m \notin dropped
  <2>1. Count(m, flushing[f]) = Count(m, rest) + 1 /\ Count(m, rest) \in Nat
    BY <1>2, <1>3, CountTail, CountType DEF Same
  <2>2. InFlush(m) > 0
    BY <1>3, <2>1, WholeFacts
  <2>3. Queued(m) + InFlush(m) + InHand(m) + Sending(m) > 0
    BY <2>2, WholeType
  <2> QED
    BY <1>5, <2>3, HeldOnce
<1>6. CASE FlushSent(f)
  <2>1. delivered' = delivered \cup {m} /\ Queued(c)' = Queued(c) /\ Lost(c)' = Lost(c)
    BY <1>6 DEF FlushSent, SocketSends, Queued, Lost
  <2>2. Sent(c)' = Sent(c) + k
    BY <1>3, <1>5, <1>same, <2>1, SentCount
  <2>3. Whole(c)' = Whole(c)
    BY <1>1, <1>nat, <1>4, <2>1, <2>2 DEF Whole
  <2> QED
    BY <1>1, <2>3, BalancedMove
<1>7. CASE FlushFailed(f)
  <2>1. Sent(c)' = Sent(c) /\ Enqueue(m, x.tries, waiting) /\ waiting \in Seq(Items)
    BY <1>7 DEF FlushFailed, Sent, LinkTypeOK
  <2>2. CASE Queued(c)' = Queued(c) + k /\ Lost(c)' = Lost(c)
    <3>1. Whole(c)' = Whole(c)
      BY <1>1, <1>nat, <1>4, <2>1, <2>2 DEF Whole
    <3> QED
      BY <1>1, <3>1, BalancedMove
  <2>3. CASE Queued(c)' = Queued(c) /\ Lost(c)' = Lost(c) + k
    <3>1. Whole(c)' = Whole(c)
      BY <1>1, <1>nat, <1>4, <2>1, <2>3, SMTT(60) DEF Whole
    <3> QED
      BY <1>1, <3>1, BalancedMove
  <2> HIDE DEF x
  <2> QED
    BY <1>3, <1>5, <1>same, <2>1, <2>2, <2>3, EnqueueCount DEF Queued
<1>8. CASE FlushUnanswered(f)
  <2>1. /\ m \in Asking /\ m # c /\ k = 0 /\ Same(c, m) = 0 /\ delivered' = delivered \cup {m}
        /\ Enqueue(m, x.tries, waiting) /\ waiting \in Seq(Items)
    BY <1>8, <1>same DEF FlushUnanswered, Unanswered, Commands, Same, LinkTypeOK
  <2>2. Sent(c)' = Sent(c)
    BY <2>1 DEF Sent
  <2>3. Queued(c)' = Queued(c) /\ Lost(c)' = Lost(c)
    <3> HIDE DEF x
    <3> QED
      BY <1>3, <1>nat, <1>same, <2>1, EnqueueCount DEF Queued
  <2>4. Whole(c)' = Whole(c)
    BY <1>1, <1>nat, <1>4, <2>1, <2>2, <2>3 DEF Whole
  <2> QED
    BY <1>1, <2>4, BalancedMove
<1> QED
  BY <1>6, <1>7, <1>8

\* Items thrown away together are of different commands.
LEMMA AbandonedCount ==
  ASSUME LinkTypeOK, OnceInv, NEW f \in Flushes, NEW c \in Commands,
         flushing' = [flushing EXCEPT ![f] = <<>>],
         NEW D, dropped' = dropped \cup Commanded(flushing[f]) \cup D, c \notin D
  PROVE  /\ InFlush(c) + Lost(c) = InFlush(c)' + Lost(c)'
         /\ InFlush(c)' \in Nat /\ Lost(c)' \in Nat
<1> DEFINE n == Count(c, flushing[f])
<1>1. flushing[f] \in Seq(Items)
  BY DEF LinkTypeOK
<1>2. n \in Nat /\ (n = 0 <=> c \notin Commanded(flushing[f]))
  BY <1>1, CountType, CountCommanded
<1>3. n <= InFlush(c) /\ InFlush(c) \in Nat
  BY <1>2, WholeFacts
<1>4. InFlush(c)' = InFlush(c) - n
  <2>1. <<>> \in Seq(Items) /\ Count(c, <<>>) = 0
    BY CountEmpty
  <2>2. InFlush(c)' = InFlush(c) - Count(c, flushing[f]) + Count(c, <<>>)
    BY <2>1, FlushCount
  <2> QED
    BY <1>2, <1>3, <2>1, <2>2
<1>5. CASE n = 0
  <2>1. Lost(c)' = Lost(c) /\ Lost(c) \in Nat
    BY <1>2, <1>5 DEF Lost
  <2> QED
    BY <1>3, <1>4, <1>5, <2>1
<1>6. CASE n # 0
  <2>1. Queued(c) + InFlush(c) + InHand(c) + Sending(c) > 0
    BY <1>2, <1>3, <1>6, WholeType
  <2>2. c \notin dropped /\ Queued(c) + InFlush(c) + InHand(c) + Sending(c) = 1
    BY <2>1, HeldOnce
  <2>3. InFlush(c) = 1 /\ n = 1
    BY <1>2, <1>3, <1>6, <2>2, WholeType
  <2>4. Lost(c) = 0 /\ Lost(c)' = 1
    BY <1>2, <1>6, <2>2 DEF Lost
  <2> QED
    BY <1>4, <2>3, <2>4
<1> QED
  BY <1>5, <1>6

\* Steps in which nothing is sent, issued or put back.
LEMMA BalancedConnection ==
  ASSUME LinkAssumption, LinkTypeOK, OnceInv, FlushInv, NEW c \in Commands,
         \/ \E f \in Flushes : FlushAbandons(f)
         \/ HttpConnects \/ LoopFlushes \/ StopManager
  PROVE  Balanced(c)
<1>1. Sending(c)' = Sending(c) /\ Sent(c)' = Sent(c) /\ Issued(c)' = Issued(c)
  BY DEF FlushAbandons, HttpConnects, LoopFlushes, StopManager, Sending, Sent, Issued, fates
<1>nat. /\ Queued(c) \in Nat /\ InFlush(c) \in Nat /\ InHand(c) \in Nat /\ Sending(c) \in Nat
        /\ Sent(c) \in Nat /\ Lost(c) \in Nat
  BY WholeType
<1>2. ASSUME NEW f \in Flushes, FlushAbandons(f)
      PROVE  Balanced(c)
  <2>1. Queued(c)' = Queued(c) /\ InHand(c)' = InHand(c)
    BY <1>2 DEF FlushAbandons, Queued, InHand
  <2>2. /\ flushing' = [flushing EXCEPT ![f] = <<>>]
        /\ dropped' = dropped \cup Commanded(flushing[f]) \cup {}
    BY <1>2 DEF FlushAbandons
  <2>3. /\ InFlush(c) + Lost(c) = InFlush(c)' + Lost(c)'
        /\ InFlush(c)' \in Nat /\ Lost(c)' \in Nat
    BY <2>2, AbandonedCount
  <2>4. Whole(c)' = Whole(c)
    BY <1>1, <1>nat, <2>1, <2>3 DEF Whole
  <2> QED
    BY <1>1, <2>4, BalancedMove
<1>3. CASE HttpConnects \/ LoopFlushes
  <2>1. PICK f \in Flushes : TakeAll(f) /\ flushing[f] = <<>>
    BY <1>3 DEF HttpConnects, LoopFlushes, FlushInv, Flushes
  <2>2. /\ flushing' = [flushing EXCEPT ![f] = waiting] /\ waiting \in Seq(Items)
        /\ waiting' = <<>>
    BY <2>1 DEF TakeAll, LinkTypeOK
  <2>3. InFlush(c)' = InFlush(c) - 0 + Queued(c)
    <3>1. Count(c, flushing[f]) = 0
      BY <2>1, CountEmpty
    <3>2. InFlush(c)' = InFlush(c) - Count(c, flushing[f]) + Count(c, waiting)
      BY <2>2, FlushCount
    <3> QED
      BY <3>1, <3>2 DEF Queued
  <2>4. Queued(c)' = 0
    BY <2>2, CountEmpty DEF Queued
  <2>5. InHand(c)' = InHand(c) /\ Lost(c)' = Lost(c)
    BY <1>3 DEF HttpConnects, LoopFlushes, InHand, Lost, fates
  <2>6. Whole(c)' = Whole(c)
    BY <1>1, <1>nat, <2>3, <2>4, <2>5 DEF Whole
  <2> QED
    BY <1>1, <2>6, BalancedMove
<1>4. CASE StopManager
  <2> DEFINE D == IF inHand = NoItem THEN {} ELSE {inHand.cmd}
  <2>1. /\ "loop" \in Flushes /\ flushing' = [flushing EXCEPT !["loop"] = <<>>]
        /\ dropped' = dropped \cup Commanded(flushing["loop"]) \cup D
        /\ Queued(c)' = Queued(c) /\ InHand(c)' = 0
    BY <1>4 DEF StopManager, Flushes, Queued, InHand
  <2>2. CASE c \notin D
    <3>1. InHand(c)' = InHand(c) /\ Queued(c)' = Queued(c)
      BY <2>1, <2>2 DEF InHand
    <3>2. /\ InFlush(c) + Lost(c) = InFlush(c)' + Lost(c)'
          /\ InFlush(c)' \in Nat /\ Lost(c)' \in Nat
      <4> HIDE DEF D
      <4> QED
        BY <2>1, <2>2, AbandonedCount
    <3>3. Whole(c)' = Whole(c)
      BY <1>1, <1>nat, <3>1, <3>2 DEF Whole
    <3> QED
      BY <1>1, <3>3, BalancedMove
  <2>3. CASE c \in D
    <3>1. InHand(c) = 1
      BY <2>3 DEF InHand
    <3>2. c \notin dropped /\ Queued(c) + InFlush(c) + InHand(c) + Sending(c) = 1
      <4>1. Queued(c) + InFlush(c) + InHand(c) + Sending(c) > 0
        BY <1>nat, <3>1
      <4> QED
        BY <4>1, HeldOnce
    <3>3. InFlush(c) = 0 /\ Lost(c) = 0 /\ Lost(c)' = 1
      BY <1>nat, <2>1, <2>3, <3>1, <3>2 DEF Lost
    <3>4. InFlush(c)' = 0
      <4>1. flushing["loop"] \in Seq(Items) /\ <<>> \in Seq(Items)
        BY <2>1 DEF LinkTypeOK
      <4>2. Count(c, flushing["loop"]) = 0
        BY <2>1, <3>3, WholeFacts
      <4>3. InFlush(c)' = InFlush(c) - Count(c, flushing["loop"]) + Count(c, <<>>)
        BY <2>1, <4>1, FlushCount
      <4> QED
        BY <3>3, <4>2, <4>3, CountEmpty
    <3>5. Whole(c)' = Whole(c)
      BY <1>1, <1>nat, <2>1, <3>1, <3>3, <3>4 DEF Whole
    <3> QED
      BY <1>1, <3>5, BalancedMove
  <2> QED
    BY <2>2, <2>3
<1> QED
  BY <1>2, <1>3, <1>4

LEMMA FlushStep ==
  ASSUME LinkTypeOK, FlushInv, [LinkNext]_linkVars
  PROVE  FlushInv'
<1> USE DEF FlushInv, holders, fates, counts
<1>1. ASSUME UNCHANGED <<serving, flushing, httpUp, loopAt>>
      PROVE  FlushInv'
  BY <1>1
<1>2. ASSUME NEW f \in Flushes, FlushSent(f) \/ FlushUnanswered(f) \/ FlushFailed(f) \/ FlushAbandons(f)
      PROVE  FlushInv'
  <2>1. /\ flushing[f] # <<>> /\ UNCHANGED <<serving, httpUp, loopAt>>
        /\ \A g \in Flushes \ {f} : flushing'[g] = flushing[g]
    <3>1. CASE FlushSent(f)
      BY <3>1 DEF FlushSent, LinkTypeOK
    <3>2. CASE FlushFailed(f)
      BY <3>2 DEF FlushFailed, LinkTypeOK
    <3>3. CASE FlushAbandons(f)
      BY <3>3 DEF FlushAbandons, LinkTypeOK
    <3>4. CASE FlushUnanswered(f)
      BY <3>4 DEF FlushUnanswered, LinkTypeOK
    <3> QED
      BY <1>2, <3>1, <3>2, <3>3, <3>4
  <2> QED
    BY <2>1 DEF Flushes
<1>3. CASE HttpConnects \/ LoopFlushes
  <2>1. "loop" \in Flushes /\ "http" \in Flushes /\ "loop" # "http"
    BY DEF Flushes
  <2>2. CASE HttpConnects
    <3>1. httpUp' /\ UNCHANGED <<serving, loopAt>> /\ flushing' = [flushing EXCEPT !["http"] = waiting]
      BY <2>2 DEF HttpConnects, TakeAll
    <3>2. flushing'["loop"] = flushing["loop"]
      BY <2>1, <3>1 DEF LinkTypeOK
    <3> QED
      BY <3>1, <3>2
  <2>3. CASE LoopFlushes
    <3>1. /\ serving /\ serving' /\ loopAt' = "flushing" /\ httpUp' = httpUp
          /\ flushing' = [flushing EXCEPT !["loop"] = waiting]
      BY <2>3 DEF LoopFlushes, TakeAll
    <3>2. flushing'["http"] = flushing["http"]
      BY <2>1, <3>1 DEF LinkTypeOK
    <3> QED
      BY <3>1, <3>2
  <2> QED
    BY <1>3, <2>2, <2>3
<1>4. CASE LoopWakes \/ LoopConnects \/ LoopRests \/ StartConnects \/ StartManager \/ StopManager
  <2>1. CASE LoopWakes
    BY <2>1 DEF LoopWakes
  <2>2. CASE LoopConnects
    BY <2>2 DEF LoopConnects
  <2>3. CASE LoopRests
    BY <2>3 DEF LoopRests
  <2>4. CASE StartConnects
    BY <2>4 DEF StartConnects
  <2>5. CASE StartManager
    BY <2>5 DEF StartManager
  <2>6. CASE StopManager
    <3>1. /\ httpUp' = httpUp /\ loopAt' = "sleeping"
          /\ flushing' = [flushing EXCEPT !["loop"] = <<>>]
      BY <2>6 DEF StopManager
    <3>2. flushing'["loop"] = <<>> /\ flushing'["http"] = flushing["http"]
      BY <3>1 DEF LinkTypeOK, Flushes
    <3> QED
      BY <3>1, <3>2
  <2> QED
    BY <1>4, <2>1, <2>2, <2>3, <2>4, <2>5, <2>6
<1>5. ASSUME NEW m \in Messages,
             \/ Issue(m) \/ IssueByRest(m) \/ HandlerSent(m) \/ HandlerUnanswered(m)
             \/ HandlerFailed(m) \/ RestEnds(m)
      PROVE  FlushInv'
  BY <1>1, <1>5 DEF Issue, IssueByRest, HandlerSent, HandlerUnanswered, HandlerFailed, RestEnds
<1>6. CASE ConsumerTakes \/ ConsumerPutsBack \/ ConsumerSent \/ ConsumerUnanswered \/ ConsumerFailed
  BY <1>1, <1>6 DEF ConsumerTakes, ConsumerPutsBack, ConsumerSent, ConsumerUnanswered, ConsumerFailed
<1>7. CASE HeartbeatFails \/ ConnectionLost \/ RemoteReturns \/ LoopSleepsOn \/ UNCHANGED linkVars
  BY <1>1, <1>7 DEF HeartbeatFails, ConnectionLost, RemoteReturns, LoopSleepsOn, linkVars
<1> QED
  BY <1>2, <1>3, <1>4, <1>5, <1>6, <1>7 DEF LinkNext, SendEnds, ConsumerTurns, LoopTurns

LEMMA OnceStep ==
  ASSUME LinkAssumption, LinkTypeOK, LinkTypeOK', FlushInv, OnceInv, [LinkNext]_linkVars
  PROVE  OnceInv'
<1> SUFFICES ASSUME NEW c \in Commands
             PROVE  Balanced(c)
  BY Balance
<1>1. ASSUME UNCHANGED <<holders, fates>>
      PROVE  Balanced(c)
  <2>1. Whole(c)' = Whole(c) /\ Issued(c)' = Issued(c)
    BY <1>1 DEF holders, fates, Whole, Queued, InFlush, InHand, Sending, Sent, Lost, Issued
  <2> QED
    BY <2>1, BalancedMove
<1>2. CASE LoopWakes \/ LoopConnects \/ LoopRests \/ StartConnects \/ StartManager
           \/ HeartbeatFails \/ ConnectionLost \/ RemoteReturns \/ LoopSleepsOn
           \/ UNCHANGED linkVars
  BY <1>1, <1>2 DEF LoopWakes, LoopConnects, LoopRests, StartConnects, StartManager,
     HeartbeatFails, ConnectionLost, RemoteReturns, LoopSleepsOn, linkVars
<1> QED
  BY <1>2, BalancedHandler, BalancedConsumer, BalancedFlush, BalancedConnection
     DEF LinkNext, SendEnds, ConsumerTurns, LoopTurns

\* A command is in one place, or sent, or given up, for any number of commands,
\* outages and stops, however the handlers, the consumer and the flushes interleave.
THEOREM CommandsAreAccountedFor == LinkSpec => []EachCommandOnce
<1>1. LinkInit => LinkTypeOK /\ FlushInv /\ OnceInv
  <2> SUFFICES ASSUME LinkInit
               PROVE  LinkTypeOK /\ FlushInv /\ OnceInv
    OBVIOUS
  <2>1. LinkTypeOK /\ FlushInv
    BY InitType, LinkAssumption DEF LinkInit, FlushInv, Flushes
  <2>2. ASSUME NEW m \in Commands
        PROVE  Whole(m) = Issued(m)
    <3>1. /\ Queued(m) = 0 /\ InFlush(m) = 0 /\ InHand(m) = 0 /\ Sending(m) = 0
          /\ Sent(m) = 0 /\ Lost(m) = 0 /\ Issued(m) = 0
      BY CountEmpty DEF LinkInit, Queued, InFlush, InHand, Sending, Sent, Lost, Issued, Flushes, Commands
    <3> QED
      BY <3>1 DEF Whole
  <2> QED
    BY <2>1, <2>2 DEF OnceInv
<1>2. LinkTypeOK /\ FlushInv /\ OnceInv /\ [LinkNext]_linkVars
      => LinkTypeOK' /\ FlushInv' /\ OnceInv'
  BY NextType, FlushStep, OnceStep, LinkAssumption
<1>3. LinkTypeOK /\ OnceInv => EachCommandOnce
  BY OnceIsOnce
<1> QED
  BY <1>1, <1>2, <1>3, PTL DEF LinkSpec
=============================================================================
