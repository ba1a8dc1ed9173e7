---------------------------- MODULE OutboundProofs ----------------------------
(***************************************************************************)
(* Theorems about LogForward, for any targets, sizes and retries, and      *)
(* about Webhook, for any number of webhooks, events and restarts, and for *)
(* every rate limit, threshold and size of the queue; those about          *)
(* EdgeLiteLink have a module of their own.                                *)
(***************************************************************************)
EXTENDS MCOutbound, EdgeLiteLinkProofs

-----------------------------------------------------------------------------
(* Log entries *)

-----------------------------------------------------------------------------
(* Sequences *)

\* What put_nowait leaves in the queue.
LEMMA OfferFacts ==
  ASSUME NEW S, NEW q \in Seq(S), NEW e \in S, Len(q) <= QueueSize
  PROVE  /\ Offer(q, e) \in Seq(S)
         /\ Len(Offer(q, e)) \in 1..QueueSize
         /\ Offer(q, e)[Len(Offer(q, e))] = e
         /\ \/ /\ Len(Offer(q, e)) = Len(q) + 1
               /\ \A i \in 1..Len(q) : Offer(q, e)[i] = q[i]
            \/ /\ Len(Offer(q, e)) = Len(q)
               /\ \A i \in 1..(Len(q) - 1) : Offer(q, e)[i] = q[i + 1]
<1> USE ForwardAssumption
<1>1. CASE Len(q) = QueueSize
  <2>1. q # <<>> /\ Len(q) \in Nat
    BY <1>1
  <2>2. /\ Tail(q) \in Seq(S) /\ Len(Tail(q)) = Len(q) - 1
        /\ \A i \in 1..(Len(q) - 1) : Tail(q)[i] = q[i + 1]
    BY <2>1
  <2>3. Offer(q, e) = Append(Tail(q), e)
    BY <1>1 DEF Offer
  <2> QED
    BY <1>1, <2>1, <2>2, <2>3
<1>2. CASE Len(q) # QueueSize
  BY <1>2 DEF Offer
<1> QED
  BY <1>1, <1>2

\* Taking the head of the queue moves the rest up by one.
LEMMA TakeFacts ==
  ASSUME NEW S, NEW q \in Seq(S), q # <<>>
  PROVE  /\ Head(q) = q[1] /\ Head(q) \in S
         /\ Tail(q) \in Seq(S) /\ Len(Tail(q)) = Len(q) - 1 /\ Len(q) \in Nat \ {0}
         /\ \A i \in 1..Len(Tail(q)) : Tail(q)[i] = q[i + 1]
OBVIOUS

\* A sequence over S has its entries in S.
LEMMA EntriesType ==
  ASSUME NEW S, NEW s \in Seq(S)
  PROVE  Entries(s) \subseteq S
BY DEF Entries

\* The empty batch is a batch and has no entries.
LEMMA EmptyBatch ==
  <<>> \in Seq(1..MaxEmitted) /\ Len(<<>>) <= BatchSize /\ Entries(<<>>) = {}
BY ForwardAssumption DEF Entries

-----------------------------------------------------------------------------
(* Types *)

\* The initial state has the types.
LEMMA ForwardInitType == Init => TypeOK
<1> SUFFICES ASSUME Init PROVE TypeOK
  OBVIOUS
<1> USE ForwardAssumption
<1>1. emitted \in 0..MaxEmitted /\ targets \subseteq Targets
  BY DEF Init
<1>2. running \in BOOLEAN
  BY DEF Init
<1>3. QueueOK
  BY DEF Init, QueueOK
<1>4. RoundOK
  BY DEF Init, RoundOK, InRound
<1>5. last \in [Targets -> SUBSET (1..MaxEmitted)]
  BY DEF Init
<1> QED
  BY <1>1, <1>2, <1>3, <1>4, <1>5 DEF TypeOK

\* Wherever the iterator goes next, the round keeps its types.
LEMMA NextTargetTypes ==
  ASSUME RoundOK, NextTarget
  PROVE  RoundOK'
<1>1. batch' \in Seq(1..MaxEmitted) /\ Len(batch') <= BatchSize
  <2>1. batch' = <<>> \/ batch' = batch
    BY DEF NextTarget
  <2> QED
    BY <2>1, EmptyBatch DEF RoundOK
<1>2. loop' \in {"none", "collecting", "sending", "backing off", "dead"}
  BY DEF NextTarget
<1>3. current' \in Targets \cup {NoTarget} /\ todo' \subseteq Targets
  BY DEF NextTarget, RoundOK
<1>4. InRound' => current' \in Targets
  <2>1. CASE loop' = "sending"
    BY <2>1 DEF NextTarget, RoundOK
  <2>2. loop' = "sending" \/ ~InRound'
    BY DEF NextTarget, InRound
  <2> QED
    BY <2>1, <2>2
<1>5. size' \in Nat
  <2>1. size' = 0 \/ size' = size
    BY DEF NextTarget
  <2>2. size \in Nat
    BY DEF RoundOK
  <2> QED
    BY <2>1, <2>2
<1>6. attempt' \in 0..RetryCount
  BY ForwardAssumption DEF NextTarget
<1> QED
  BY <1>1, <1>2, <1>3, <1>4, <1>5, <1>6 DEF RoundOK, InRound

\* A send that begins, or none, keeps the type of the history.
LEMMA SendBegunType ==
  ASSUME RoundOK, last \in [Targets -> SUBSET (1..MaxEmitted)],
         (\E t \in Targets : SendBegins(t)) \/ UNCHANGED last
  PROVE  last' \in [Targets -> SUBSET (1..MaxEmitted)]
<1>1. Entries(batch) \subseteq 1..MaxEmitted
  BY EntriesType DEF RoundOK
<1>2. CASE \E t \in Targets : SendBegins(t)
  BY <1>1, <1>2 DEF SendBegins
<1>3. CASE UNCHANGED last
  BY <1>3
<1> QED
  BY <1>2, <1>3

\* The iterator sends the same batch to the next target, or the round is over.
LEMMA NextTargetSends ==
  ASSUME RoundOK, NextTarget
  PROVE  \/ InRound' /\ batch' = batch /\ \E t \in Targets : SendBegins(t)
         \/ batch' = <<>> /\ UNCHANGED last
BY DEF NextTarget, RoundOK, InRound

\* Every step keeps the types.
LEMMA ForwardNextType == TypeOK /\ [Next]_vars => TypeOK'
<1> SUFFICES ASSUME TypeOK, [Next]_vars PROVE TypeOK'
  OBVIOUS
<1> USE ForwardAssumption
<1> USE DEF bus, round
<1>1. CASE Emit
  <2>1. emitted' \in 0..MaxEmitted /\ emitted + 1 \in 1..MaxEmitted
    BY <1>1 DEF Emit, TypeOK
  <2>2. QueueOK'
    BY <1>1, <2>1, OfferFacts DEF Emit, TypeOK, QueueOK
  <2>3. RoundOK'
    BY <1>1 DEF Emit, TypeOK, RoundOK, InRound
  <2> QED
    BY <1>1, <2>1, <2>2, <2>3 DEF Emit, TypeOK
<1>2. CASE Start
  <2>1. QueueOK'
    BY <1>2 DEF Start, QueueOK
  <2>2. RoundOK'
    BY <1>2 DEF Start, RoundOK, InRound
  <2> QED
    BY <1>2, <2>1, <2>2 DEF Start, TypeOK
<1>3. CASE Stop
  <2>1. RoundOK'
    BY <1>3 DEF Stop, RoundOK, InRound
  <2> QED
    BY <1>3, <2>1 DEF Stop, TypeOK, QueueOK
<1>4. ASSUME NEW t \in Targets, AddTarget(t) PROVE TypeOK'
  <2>1. RoundOK' /\ targets' \subseteq Targets
    BY <1>4 DEF AddTarget, TypeOK, RoundOK, InRound
  <2> QED
    BY <1>4, <2>1 DEF AddTarget, TypeOK, QueueOK
<1>5. ASSUME NEW t \in Targets, RemoveTarget(t) PROVE TypeOK'
  <2>1. RoundOK' /\ targets' \subseteq Targets
    BY <1>5 DEF RemoveTarget, TypeOK, RoundOK, InRound
  <2> QED
    BY <1>5, <2>1 DEF RemoveTarget, TypeOK, QueueOK
<1>6. CASE Take
  <2>1. Head(queue) \in 1..MaxEmitted /\ QueueOK'
    BY <1>6, TakeFacts DEF Take, TypeOK, QueueOK
  <2>2. batch' \in Seq(1..MaxEmitted) /\ Len(batch') <= BatchSize
    BY <1>6, <2>1 DEF Take, TypeOK, RoundOK
  <2>3. RoundOK'
    BY <1>6, <2>2 DEF Take, TypeOK, RoundOK, InRound
  <2> QED
    BY <1>6, <2>1, <2>3 DEF Take, TypeOK
<1>7. CASE BeginRound
  <2>1. Cardinality(targets) \in Nat
    BY FS_Subset, FS_CardinalityType DEF TypeOK
  <2>2. ASSUME batch' = <<>>, UNCHANGED <<loop, round>> PROVE RoundOK'
    <3>1. batch' \in Seq(1..MaxEmitted) /\ Len(batch') <= BatchSize
      BY <2>2, EmptyBatch
    <3> QED
      BY <2>2, <3>1 DEF TypeOK, RoundOK, InRound
  <2>3. ASSUME NEW t \in targets,
               loop' = "sending", current' = t, todo' = targets \ {t},
               size' = Cardinality(targets), attempt' = 1, batch' = batch
        PROVE  RoundOK'
    <3>1. t \in Targets /\ 1 \in 0..RetryCount
      BY DEF TypeOK
    <3>2. batch' \in Seq(1..MaxEmitted) /\ Len(batch') <= BatchSize
      BY <2>3 DEF TypeOK, RoundOK
    <3> QED
      BY <2>1, <2>3, <3>1, <3>2 DEF TypeOK, RoundOK, InRound
  <2>4. RoundOK'
    BY <1>7, <2>2, <2>3 DEF BeginRound
  <2>5. (\E t \in Targets : SendBegins(t)) \/ UNCHANGED last
    BY <1>7 DEF BeginRound, TypeOK
  <2>6. last' \in [Targets -> SUBSET (1..MaxEmitted)]
    BY <2>5, SendBegunType DEF TypeOK
  <2> QED
    BY <1>7, <2>4, <2>6 DEF BeginRound, TypeOK, QueueOK
<1>8. CASE SendSucceeds
  <2>1. RoundOK'
    BY <1>8, NextTargetTypes DEF SendSucceeds, TypeOK
  <2>2. last' \in [Targets -> SUBSET (1..MaxEmitted)]
    BY <1>8, NextTargetSends, SendBegunType DEF SendSucceeds, TypeOK
  <2> QED
    BY <1>8, <2>1, <2>2 DEF SendSucceeds, TypeOK, QueueOK
<1>9. CASE SendFails
  <2>1. ASSUME NextTarget PROVE RoundOK'
    BY <2>1, NextTargetTypes DEF TypeOK
  <2>2. ASSUME attempt < RetryCount, loop' = "backing off", attempt' = attempt + 1,
               UNCHANGED <<batch, current, todo, size>>
        PROVE  RoundOK'
    <3>0. RoundOK
      BY DEF TypeOK
    <3>1. attempt' \in 0..RetryCount
      <4>1. attempt \in 0..RetryCount
        BY <3>0 DEF RoundOK
      <4>2. attempt < RetryCount /\ attempt' = attempt + 1
        BY <2>2
      <4> QED
        BY <4>1, <4>2
    <3>2. batch' \in Seq(1..MaxEmitted) /\ Len(batch') <= BatchSize
      BY <2>2 DEF TypeOK, RoundOK
    <3>3. current \in Targets
      BY <1>9 DEF SendFails, TypeOK, RoundOK, InRound
    <3> QED
      BY <2>2, <3>1, <3>2, <3>3 DEF TypeOK, RoundOK
  <2>3. RoundOK'
    BY <1>9, <2>1, <2>2 DEF SendFails
  <2>4. last' \in [Targets -> SUBSET (1..MaxEmitted)]
    BY <1>9, NextTargetSends, SendBegunType DEF SendFails, TypeOK
  <2> QED
    BY <1>9, <2>3, <2>4 DEF SendFails, TypeOK, QueueOK
<1>10. CASE SendAgain
  <2>1. RoundOK'
    BY <1>10 DEF SendAgain, TypeOK, RoundOK, InRound
  <2> QED
    BY <1>10, <2>1 DEF SendAgain, TypeOK, QueueOK
<1>11. CASE UNCHANGED vars
  BY <1>11 DEF vars, TypeOK, QueueOK, RoundOK, InRound
<1> QED
  BY <1>1, <1>2, <1>3, <1>4, <1>5, <1>6, <1>7, <1>8, <1>9, <1>10, <1>11 DEF Next, Loop

\* The variables keep their types: the queue and the batch their bounds, and no
\* target more attempts than the retry count.
THEOREM TypeCorrect == Spec => []TypeOK
<1> QED
  BY ForwardInitType, ForwardNextType, PTL DEF Spec

-----------------------------------------------------------------------------
(* The queue *)

\* Offering the next entry keeps the queue the newest entries without a gap.
LEMMA OfferKeepsNewest ==
  ASSUME NEW q \in Seq(Nat), NEW e \in Nat, Len(q) <= QueueSize, Newest(q, e)
  PROVE  Newest(Offer(q, e + 1), e + 1)
<1> DEFINE r == Offer(q, e + 1)
<1>1. Len(r) \in Nat /\ Len(q) \in Nat /\ r[Len(r)] = e + 1
  BY OfferFacts, ForwardAssumption
<1>2. CASE Len(r) = Len(q) + 1 /\ \A i \in 1..Len(q) : r[i] = q[i]
  <2> SUFFICES ASSUME NEW i \in 1..Len(r) PROVE r[i] = (e + 1) - Len(r) + i
    BY DEF Newest
  <2>1. CASE i = Len(r)
    BY <1>1, <2>1
  <2>2. CASE i \in 1..Len(q)
    <3>1. q[i] = e - Len(q) + i /\ r[i] = q[i]
      BY <1>2, <2>2 DEF Newest
    <3> QED
      BY <1>1, <1>2, <2>2, <3>1
  <2> QED
    BY <1>1, <1>2, <2>1, <2>2
<1>3. CASE Len(r) = Len(q) /\ \A i \in 1..(Len(q) - 1) : r[i] = q[i + 1]
  <2> SUFFICES ASSUME NEW i \in 1..Len(r) PROVE r[i] = (e + 1) - Len(r) + i
    BY DEF Newest
  <2>1. CASE i = Len(r)
    BY <1>1, <2>1
  <2>2. CASE i \in 1..(Len(q) - 1)
    <3>1. i + 1 \in 1..Len(q)
      BY <1>1, <2>2
    <3>2. q[i + 1] = e - Len(q) + (i + 1) /\ r[i] = q[i + 1]
      BY <1>3, <2>2, <3>1 DEF Newest
    <3> QED
      BY <1>1, <1>3, <2>2, <3>2
  <2> QED
    BY <1>1, <1>3, <2>1, <2>2
<1>4. e + 1 \in Nat
  OBVIOUS
<1>5. \/ Len(r) = Len(q) + 1 /\ \A i \in 1..Len(q) : r[i] = q[i]
      \/ Len(r) = Len(q) /\ \A i \in 1..(Len(q) - 1) : r[i] = q[i + 1]
  BY <1>4, OfferFacts, ZenonT(60)
<1> QED
  BY <1>2, <1>3, <1>5

\* So does taking its head.
LEMMA TakeKeepsNewest ==
  ASSUME NEW q \in Seq(Nat), NEW e \in Nat, q # <<>>, Newest(q, e)
  PROVE  Newest(Tail(q), e)
<1> SUFFICES ASSUME NEW i \in 1..Len(Tail(q))
             PROVE  Tail(q)[i] = e - Len(Tail(q)) + i
  BY DEF Newest
<1>1. Len(q) \in Nat \ {0} /\ Len(Tail(q)) = Len(q) - 1 /\ Tail(q)[i] = q[i + 1]
  BY TakeFacts
<1>2. i + 1 \in 1..Len(q)
  BY <1>1
<1>3. q[i + 1] = e - Len(q) + (i + 1)
  BY <1>2 DEF Newest
<1> QED
  BY <1>1, <1>2, <1>3

\* While the engine runs, its queue holds the newest entries without a gap,
\* however full it gets.
THEOREM QueueKeepsNewest == Spec => []KeepsNewest
<1>1. Init => KeepsNewest
  BY DEF Init, KeepsNewest
<1>2. ASSUME TypeOK, KeepsNewest, [Next]_vars PROVE KeepsNewest'
  <2>1. queue \in Seq(Nat) /\ Len(queue) <= QueueSize
    <3>1. 1..MaxEmitted \subseteq Nat
      BY ForwardAssumption
    <3> QED
      BY <1>2, <3>1, SeqMonotonic DEF TypeOK, QueueOK
  <2>2. emitted \in Nat
    BY <1>2, ForwardAssumption DEF TypeOK
  <2>3. CASE Emit
    <3>1. Newest(queue, emitted) => Newest(Offer(queue, emitted + 1), emitted + 1)
      BY <2>1, <2>2, OfferKeepsNewest
    <3> QED
      BY <1>2, <2>3, <3>1 DEF Emit, KeepsNewest
  <2>4. CASE Start
    <3>1. Newest(<<>>, emitted')
      BY DEF Newest
    <3> QED
      BY <2>4, <3>1 DEF Start, KeepsNewest
  <2>5. CASE Stop
    BY <2>5 DEF Stop, KeepsNewest
  <2>6. CASE Take
    <3>1. Newest(queue, emitted) => Newest(Tail(queue), emitted)
      BY <2>1, <2>2, <2>6, TakeKeepsNewest DEF Take
    <3> QED
      BY <1>2, <2>6, <3>1 DEF Take, KeepsNewest
  <2>7. CASE UNCHANGED <<emitted, queue, running>>
    <3>1. Newest(queue', emitted') <=> Newest(queue, emitted)
      BY <2>7
    <3> QED
      BY <1>2, <2>7, <3>1 DEF KeepsNewest
  <2>8. Emit \/ Start \/ Stop \/ Take \/ UNCHANGED <<emitted, queue, running>>
    BY <1>2 DEF Next, Loop, AddTarget, RemoveTarget, BeginRound, SendSucceeds,
                SendFails, SendAgain, bus, vars
  <2> QED
    BY <2>3, <2>4, <2>5, <2>6, <2>7, <2>8
<1> QED
  BY <1>1, <1>2, TypeCorrect, PTL DEF Spec

-----------------------------------------------------------------------------
(* Order *)

Before(S, T) == \A m \in S, n \in T : m < n
Increasing(q) == \A i, j \in 1..Len(q) : i < j => q[i] < q[j]

\* The queue holds increasing entries; what was taken for a batch or sent to a
\* target lies before them; and what a target was sent last is this batch,
\* while its round lasts, or lies before it.
OrderInv ==
  /\ Entries(queue) \subseteq 1..emitted /\ Increasing(queue)
  /\ Entries(batch) \subseteq 1..emitted /\ Before(Entries(batch), Entries(queue))
  /\ \A t \in Targets :
       /\ last[t] \subseteq 1..emitted /\ Before(last[t], Entries(queue))
       /\ \/ InRound /\ last[t] = Entries(batch)
          \/ Before(last[t], Entries(batch))

\* Offering an entry beyond all of the queue keeps it increasing, and adds
\* no other entry.
LEMMA OfferOrder ==
  ASSUME NEW q \in Seq(Nat), NEW e \in Nat, Len(q) <= QueueSize,
         Entries(q) \subseteq 1..e, Increasing(q)
  PROVE  /\ Entries(Offer(q, e + 1)) \subseteq Entries(q) \cup {e + 1}
         /\ Increasing(Offer(q, e + 1))
<1> DEFINE r == Offer(q, e + 1)
<1>1. e + 1 \in Nat
  OBVIOUS
<1>2. r[Len(r)] = e + 1 /\ Len(r) \in 1..QueueSize
  <2>1. Len(r) \in 1..QueueSize
    BY <1>1, OfferFacts, Zenon
  <2>2. r[Len(r)] = e + 1
    <3>1. \A p \in Seq(Nat), x \in Nat :
             Len(p) <= QueueSize => Offer(p, x)[Len(Offer(p, x))] = x
      BY OfferFacts
    <3> QED
      BY <1>1, <3>1
  <2> QED
    BY <2>1, <2>2
<1>3. \/ Len(r) = Len(q) + 1 /\ \A i \in 1..Len(q) : r[i] = q[i]
      \/ Len(r) = Len(q) /\ \A i \in 1..(Len(q) - 1) : r[i] = q[i + 1]
  BY <1>1, OfferFacts, ZenonT(60)
<1>4. Len(q) \in Nat /\ Len(r) \in Nat \ {0}
  BY <1>2, ForwardAssumption
<1>5. \A i \in 1..Len(q) : q[i] \in Entries(q) /\ q[i] \in 1..e
  BY DEF Entries
<1>6. PICK k \in {0, 1} : /\ Len(r) - 1 + k <= Len(q)
                          /\ \A i \in 1..(Len(r) - 1) : r[i] = q[i + k]
  <2>1. CASE Len(r) = Len(q) + 1 /\ \A i \in 1..Len(q) : r[i] = q[i]
    <3>1. Len(r) - 1 + 0 <= Len(q) /\ \A i \in 1..(Len(r) - 1) : r[i] = q[i + 0]
      BY <1>4, <2>1
    <3> QED
      BY <3>1
  <2>2. CASE Len(r) = Len(q) /\ \A i \in 1..(Len(q) - 1) : r[i] = q[i + 1]
    <3>1. Len(r) - 1 + 1 <= Len(q) /\ \A i \in 1..(Len(r) - 1) : r[i] = q[i + 1]
      BY <1>4, <2>2
    <3> QED
      BY <3>1
  <2> QED
    BY <1>3, <2>1, <2>2
<1>7. \A i \in 1..(Len(r) - 1) : i + k \in 1..Len(q)
  BY <1>4, <1>6
<1>8. ASSUME NEW i \in 1..Len(r) PROVE r[i] \in Entries(q) \cup {e + 1}
  <2>1. CASE i = Len(r)
    BY <1>2, <2>1
  <2>2. CASE i \in 1..(Len(r) - 1)
    BY <1>5, <1>6, <1>7, <2>2
  <2> QED
    BY <1>4, <2>1, <2>2
<1>9. ASSUME NEW i \in 1..Len(r), NEW j \in 1..Len(r), i < j PROVE r[i] < r[j]
  <2>1. i \in 1..(Len(r) - 1)
    BY <1>4, <1>9
  <2>2. r[i] = q[i + k] /\ i + k \in 1..Len(q)
    BY <1>6, <1>7, <2>1
  <2>3. CASE j = Len(r)
    <3>1. r[j] = e + 1 /\ q[i + k] \in 1..e
      BY <1>2, <1>5, <2>2, <2>3
    <3> QED
      BY <2>2, <3>1
  <2>4. CASE j \in 1..(Len(r) - 1)
    <3>1. r[j] = q[j + k] /\ j + k \in 1..Len(q) /\ i + k < j + k
      BY <1>6, <1>7, <1>9, <2>4
    <3> QED
      BY <2>2, <3>1 DEF Increasing
  <2> QED
    BY <1>4, <2>3, <2>4
<1> QED
  BY <1>8, <1>9 DEF Entries, Increasing

\* The head of an increasing queue lies before the rest.
LEMMA TakeOrder ==
  ASSUME NEW q \in Seq(Nat), q # <<>>, Increasing(q)
  PROVE  /\ Head(q) \in Entries(q) /\ Entries(Tail(q)) \subseteq Entries(q)
         /\ Before({Head(q)}, Entries(Tail(q))) /\ Increasing(Tail(q))
<1>1. /\ Head(q) = q[1] /\ Len(q) \in Nat \ {0} /\ Len(Tail(q)) = Len(q) - 1
      /\ \A i \in 1..Len(Tail(q)) : Tail(q)[i] = q[i + 1]
  BY TakeFacts
<1>2. \A i \in 1..Len(Tail(q)) : i + 1 \in 1..Len(q) /\ 1 < i + 1
  BY <1>1
<1>3. Head(q) \in Entries(q)
  BY <1>1 DEF Entries
<1>4. Entries(Tail(q)) \subseteq Entries(q)
  BY <1>1, <1>2 DEF Entries
<1>5. Before({Head(q)}, Entries(Tail(q)))
  <2>1. \A i \in 1..Len(Tail(q)) : q[1] < q[i + 1]
    BY <1>1, <1>2 DEF Increasing
  <2> QED
    BY <1>1, <2>1 DEF Before, Entries
<1>6. Increasing(Tail(q))
  <2> SUFFICES ASSUME NEW i \in 1..Len(Tail(q)), NEW j \in 1..Len(Tail(q)), i < j
               PROVE  Tail(q)[i] < Tail(q)[j]
    BY DEF Increasing
  <2>1. i + 1 < j + 1
    BY <1>1
  <2> QED
    BY <1>1, <1>2, <2>1 DEF Increasing
<1> QED
  BY <1>3, <1>4, <1>5, <1>6

\* Append adds one entry.
LEMMA AppendEntries ==
  ASSUME NEW S, NEW s \in Seq(S), NEW e \in S
  PROVE  Entries(Append(s, e)) = Entries(s) \cup {e}
BY DEF Entries

\* The initial state is in order.
LEMMA InitOrder == Init => OrderInv
BY EmptyBatch DEF Init, OrderInv, Before, Increasing, Entries

\* A target that is sent the batch has nothing older coming, and may be sent
\* the batch again.
LEMMA SendBegunOrder ==
  ASSUME TypeOK, OrderInv, InRound', UNCHANGED <<emitted, queue, batch>>,
         (\E t \in Targets : SendBegins(t)) \/ (InRound /\ UNCHANGED last)
  PROVE  OrderInv'
<1>1. last \in [Targets -> SUBSET (1..MaxEmitted)]
  BY DEF TypeOK
<1>2. ASSUME NEW t \in Targets
      PROVE  last'[t] = last[t] \/ last'[t] = Entries(batch)
  BY <1>1 DEF SendBegins
<1>3. ASSUME NEW t \in Targets
      PROVE  /\ last'[t] \subseteq 1..emitted' /\ Before(last'[t], Entries(queue'))
             /\ \/ InRound' /\ last'[t] = Entries(batch')
                \/ Before(last'[t], Entries(batch'))
  BY <1>2 DEF OrderInv
<1> QED
  BY <1>3 DEF OrderInv

\* When the batch is gone, whatever was sent of it lies before what is queued.
LEMMA BatchGoneOrder ==
  ASSUME OrderInv, batch' = <<>>, UNCHANGED <<emitted, queue, last>>
  PROVE  OrderInv'
<1>1. Entries(batch') = {} /\ \A S : Before(S, {}) /\ Before({}, S)
  BY EmptyBatch DEF Before
<1> QED
  BY <1>1 DEF OrderInv

\* Every step keeps the order.
LEMMA NextOrder == TypeOK /\ OrderInv /\ [Next]_vars => OrderInv'
<1> SUFFICES ASSUME TypeOK, OrderInv, [Next]_vars PROVE OrderInv'
  OBVIOUS
<1>1. queue \in Seq(Nat) /\ Len(queue) <= QueueSize
  <2>1. 1..MaxEmitted \subseteq Nat
    BY ForwardAssumption
  <2> QED
    BY <2>1, SeqMonotonic DEF TypeOK, QueueOK
<1>2. emitted \in Nat
  BY ForwardAssumption DEF TypeOK
<1>3. CASE Emit
  <2>1. emitted' = emitted + 1 /\ UNCHANGED <<loop, batch, last>>
    BY <1>3 DEF Emit
  <2>2. /\ Entries(queue') \subseteq Entries(queue) \cup {emitted + 1}
        /\ Increasing(queue')
    <3>1. Entries(Offer(queue, emitted + 1)) \subseteq Entries(queue) \cup {emitted + 1}
          /\ Increasing(Offer(queue, emitted + 1))
      BY <1>1, <1>2, OfferOrder DEF OrderInv
    <3> QED
      BY <1>3, <3>1 DEF Emit, OrderInv
  <2>3. 1..emitted \subseteq 1..(emitted + 1) /\ emitted + 1 \in 1..(emitted + 1)
    BY <1>2
  <2>4. \A S \in SUBSET (1..emitted) :
           Before(S, Entries(queue)) => Before(S, Entries(queue'))
    BY <1>2, <2>2 DEF Before
  <2>5. Entries(queue') \subseteq 1..emitted' /\ Entries(batch') \subseteq 1..emitted'
        /\ Before(Entries(batch'), Entries(queue'))
    BY <2>1, <2>2, <2>3, <2>4 DEF OrderInv
  <2>6. ASSUME NEW t \in Targets
        PROVE  /\ last'[t] \subseteq 1..emitted' /\ Before(last'[t], Entries(queue'))
               /\ \/ InRound' /\ last'[t] = Entries(batch')
                  \/ Before(last'[t], Entries(batch'))
    BY <2>1, <2>3, <2>4 DEF OrderInv, InRound
  <2> QED
    BY <2>2, <2>5, <2>6 DEF OrderInv
<1>4. CASE Start
  BY <1>4, EmptyBatch DEF Start, OrderInv, Before, Increasing, Entries
<1>5. CASE Stop
  BY <1>5, EmptyBatch DEF Stop, OrderInv, Before, bus
<1>6. CASE Take
  <2>1. /\ Head(queue) \in Entries(queue) /\ Entries(Tail(queue)) \subseteq Entries(queue)
        /\ Before({Head(queue)}, Entries(Tail(queue))) /\ Increasing(Tail(queue))
    BY <1>1, <1>6, TakeOrder DEF Take, OrderInv
  <2>2. Entries(batch') = Entries(batch) \cup {Head(queue)}
    <3>1. Head(queue) \in 1..MaxEmitted
      BY <1>6, TakeFacts DEF Take, TypeOK, QueueOK
    <3>2. batch \in Seq(1..MaxEmitted)
      BY DEF TypeOK, RoundOK
    <3>3. batch' = Append(batch, Head(queue))
      BY <1>6 DEF Take
    <3>4. \A b \in Seq(1..MaxEmitted), e \in 1..MaxEmitted :
             Entries(Append(b, e)) = Entries(b) \cup {e}
      BY AppendEntries
    <3> QED
      BY <3>1, <3>2, <3>3, <3>4
  <2>3. queue' = Tail(queue) /\ UNCHANGED <<emitted, loop, last>> /\ ~InRound
    BY <1>6 DEF Take, InRound
  <2>4. /\ Entries(queue') \subseteq 1..emitted' /\ Increasing(queue')
        /\ Entries(batch') \subseteq 1..emitted'
    BY <2>1, <2>2, <2>3 DEF OrderInv
  <2>5. Before(Entries(batch'), Entries(queue'))
    BY <2>1, <2>2, <2>3 DEF OrderInv, Before
  <2>6. ASSUME NEW t \in Targets
        PROVE  /\ last'[t] \subseteq 1..emitted' /\ Before(last'[t], Entries(queue'))
               /\ Before(last'[t], Entries(batch'))
    BY <2>1, <2>2, <2>3 DEF OrderInv, Before
  <2> QED
    BY <2>4, <2>5, <2>6 DEF OrderInv
<1>7. CASE BeginRound
  <2>1. UNCHANGED <<emitted, queue>>
    BY <1>7 DEF BeginRound, bus
  <2>2. \/ batch' = <<>> /\ UNCHANGED last
        \/ InRound' /\ batch' = batch /\ \E t \in Targets : SendBegins(t)
    BY <1>7 DEF BeginRound, TypeOK, InRound
  <2> QED
    BY <2>1, <2>2, SendBegunOrder, BatchGoneOrder
<1>8. CASE SendSucceeds \/ SendFails
  <2>1. InRound /\ UNCHANGED <<emitted, queue>>
    BY <1>8 DEF SendSucceeds, SendFails, InRound, bus
  <2>2. CASE NextTarget
    BY <2>1, <2>2, NextTargetSends, SendBegunOrder, BatchGoneOrder DEF TypeOK
  <2>3. CASE loop' = "backing off" /\ UNCHANGED <<batch, last>>
    BY <2>1, <2>3, SendBegunOrder DEF InRound
  <2> QED
    BY <1>8, <2>2, <2>3 DEF SendSucceeds, SendFails
<1>9. CASE UNCHANGED <<emitted, queue, batch, last>> /\ (InRound' <=> InRound)
  BY <1>9 DEF OrderInv
<1>10. ASSUME (\E t \in Targets : AddTarget(t) \/ RemoveTarget(t)) \/ UNCHANGED vars
       PROVE  UNCHANGED <<emitted, queue, batch, last>> /\ (InRound' <=> InRound)
  <2>1. UNCHANGED <<emitted, queue, batch, last, loop>>
    BY <1>10 DEF AddTarget, RemoveTarget, bus, vars
  <2> QED
    BY <2>1 DEF InRound
<1>11. ASSUME SendAgain
       PROVE  UNCHANGED <<emitted, queue, batch, last>> /\ (InRound' <=> InRound)
  BY <1>11 DEF SendAgain, InRound, bus
<1> QED
  BY <1>3, <1>4, <1>5, <1>6, <1>7, <1>8, <1>9, <1>10, <1>11 DEF Next, Loop

\* Along every run the entries keep their order on the way to the targets.
THEOREM OrderIsKept == Spec => []OrderInv
<1> QED
  BY InitOrder, NextOrder, TypeCorrect, PTL DEF Spec

-----------------------------------------------------------------------------
(* The engine is a BatchStream *)

\* A send that begins is one of a later batch, or of the same one again.
LEMMA SendStep ==
  ASSUME TypeOK, OrderInv, UNCHANGED emitted, NEW t \in Targets, SendBegins(t)
  PROVE  [Stream!Next]_(Stream!vars)
<1>1. CASE last[t] = Entries(batch)
  <2>1. last \in [Targets -> SUBSET (1..MaxEmitted)]
    BY DEF TypeOK
  <2>2. last' = last
    BY <1>1, <2>1 DEF SendBegins
  <2> QED
    BY <2>2 DEF Stream!vars
<1>2. CASE last[t] # Entries(batch)
  <2>1. Before(last[t], Entries(batch)) /\ Entries(batch) \in SUBSET (1..emitted)
    BY <1>2 DEF OrderInv
  <2>2. Stream!Send(t)
    BY <2>1 DEF Stream!Send, SendBegins, Before
  <2> QED
    BY <2>2 DEF Stream!Next
<1> QED
  BY <1>1, <1>2

\* Whatever is lost, retried or restarted, and whichever targets come and go,
\* sends to a target begin in the order the entries were emitted.
THEOREM SentInOrder == Spec => InOrder
<1>1. Init => Stream!Init
  BY DEF Init, Stream!Init
<1>2. ASSUME TypeOK, OrderInv, [Next]_vars PROVE [Stream!Next]_(Stream!vars)
  <2>1. CASE Emit
    BY <2>1 DEF Emit, Stream!Emit, Stream!Next
  <2>2. ASSUME BeginRound \/ SendSucceeds \/ SendFails, ~UNCHANGED <<emitted, last>>
        PROVE  [Stream!Next]_(Stream!vars)
    <3>1. UNCHANGED emitted /\ ~UNCHANGED last
      BY <2>2 DEF BeginRound, SendSucceeds, SendFails, bus
    <3>2. \E t \in Targets : SendBegins(t)
      <4>1. CASE BeginRound
        BY <1>2, <3>1, <4>1 DEF BeginRound, TypeOK
      <4>2. CASE SendSucceeds \/ SendFails
        BY <1>2, <3>1, <4>2, NextTargetSends DEF SendSucceeds, SendFails, TypeOK
      <4> QED
        BY <2>2, <4>1, <4>2
    <3> QED
      BY <1>2, <3>1, <3>2, SendStep
  <2>3. CASE UNCHANGED <<emitted, last>>
    BY <2>3 DEF Stream!vars
  <2>4. \/ Emit \/ BeginRound \/ SendSucceeds \/ SendFails
        \/ UNCHANGED <<emitted, last>>
    BY <1>2 DEF Next, Loop, Start, Stop, AddTarget, RemoveTarget, Take,
                SendAgain, bus, vars
  <2> QED
    BY <2>1, <2>2, <2>3, <2>4
<1> QED
  BY <1>1, <1>2, TypeCorrect, OrderIsKept, PTL DEF Spec, InOrder, Stream!Spec

-----------------------------------------------------------------------------
(* Webhooks *)

\* The event the loop posts is one for which the limit has run out since its
\* last delivery to the object, for nobody else delivers for the loop.
PostInv ==
  posting # Nobody => event # Nobody /\ event >= sentAt[posting] + RateLimit

\* Stamps are of the past, and no delivery of the loop is later than the last
\* success of the object, for the test route only sets that to a later time.
StampInv ==
  /\ \A i \in DOMAIN pending : pending[i] <= clock
  /\ \A i \in DOMAIN callers : callers[i] <= clock
  /\ event # Nobody => event <= clock
  /\ \A o \in Objects : /\ sentAt[o] <= clock /\ sentAt[o] <= object[o].last
                        /\ o > made => sentAt[o] = 0

Inv == WebhookTypeOK /\ PostInv /\ StampInv

-----------------------------------------------------------------------------
(* Objects *)

LEMMA Parameters ==
  ASSUME WebhookAssumption
  PROVE  /\ RateLimit \in Nat /\ Threshold \in Nat /\ MaxObjects \in Nat /\ MaxClock \in Nat
         /\ MaxTriggers \in Nat /\ MaxTests \in Nat /\ MaxRestarts \in Nat
         /\ EventQueueSize \in Nat /\ MaxObjects > 0 /\ Nobody \notin Nat
BY DEF WebhookAssumption

LEMMA NewObjectType ==
  ASSUME NEW conf \in Configs
  PROVE  /\ NewObject(conf) \in Fields /\ NewObject(conf).conf = conf
         /\ NewObject(conf).errors = 0 /\ NewObject(conf).successes = 0
         /\ NewObject(conf).last = 0
BY DEF NewObject, Fields

\* A place without an object is filled as if one with the first name were there.
LEMMA NoObjectIsNew ==
  ASSUME WebhookAssumption
  PROVE  \E conf \in Configs : NoObject = NewObject(conf)
<1>1. (CHOOSE n \in Names : TRUE) \in Names
  BY DEF WebhookAssumption
<1>2. [name |-> CHOOSE n \in Names : TRUE, events |-> "list", enabled |-> TRUE] \in Configs
  BY <1>1 DEF Configs
<1> QED
  BY <1>2 DEF NoObject

LEMMA FieldsType ==
  ASSUME NEW r \in Fields
  PROVE  r.errors \in Nat /\ r.successes \in Nat /\ r.last \in Nat /\ r.conf \in Configs
BY DEF Fields

LEMMA ConfigsType ==
  ASSUME NEW c \in Configs
  PROVE  /\ \A name \in Names : [c EXCEPT !.name = name] \in Configs
         /\ [c EXCEPT !.enabled = FALSE] \in Configs
BY DEF Configs

LEMMA ObjectsInUse ==
  ASSUME WebhookAssumption, WebhookTypeOK
  PROVE  /\ 1..made \subseteq Objects /\ made \in Nat
         /\ posting # Nobody => posting \in 1..made
         /\ \A h \in HookIds : hooks[h] # Nobody => hooks[h] \in 1..made
<1>1. made \in Nat /\ MaxObjects \in Nat /\ made <= MaxObjects
  BY Parameters DEF WebhookTypeOK
<1>2. 1..made \subseteq Objects
  BY <1>1 DEF Objects
<1>3. /\ posting # Nobody => posting \in 1..made
      /\ \A h \in HookIds : hooks[h] # Nobody => hooks[h] \in 1..made
  BY DEF WebhookTypeOK
<1> QED
  BY <1>1, <1>2, <1>3

\* The object o, and no other, has these fields in the next state.
Becomes(o, c, e, s, l) ==
  /\ object' \in [Objects -> Fields]
  /\ object'[o].conf = c /\ object'[o].errors = e
  /\ object'[o].successes = s /\ object'[o].last = l
  /\ \A q \in Objects : q # o => object'[q] = object[q]

LEMMA Replaced ==
  ASSUME object \in [Objects -> Fields], NEW o \in Objects, NEW r \in Fields,
         object' = [object EXCEPT ![o] = r]
  PROVE  Becomes(o, r.conf, r.errors, r.successes, r.last)
<1>1. object' \in [Objects -> Fields]
  OBVIOUS
<1>2. object'[o] = r /\ \A q \in Objects : q # o => object'[q] = object[q]
  OBVIOUS
<1> QED
  BY <1>1, <1>2 DEF Becomes

LEMMA Configured ==
  ASSUME object \in [Objects -> Fields], NEW o \in Objects, NEW c \in Configs,
         object' = [object EXCEPT ![o].conf = c]
  PROVE  Becomes(o, c, object[o].errors, object[o].successes, object[o].last)
<1> DEFINE r == [object[o] EXCEPT !.conf = c]
<1>1. /\ r \in Fields /\ r.conf = c /\ r.errors = object[o].errors
      /\ r.successes = object[o].successes /\ r.last = object[o].last
  <2>1. \A x \in Fields : LET y == [x EXCEPT !.conf = c] IN
          /\ y \in Fields /\ y.conf = c /\ y.errors = x.errors
          /\ y.successes = x.successes /\ y.last = x.last
    BY DEF Fields
  <2>2. object[o] \in Fields
    OBVIOUS
  <2> QED
    BY <2>1, <2>2
<1>2. object' = [object EXCEPT ![o] = r]
  OBVIOUS
<1> HIDE DEF r
<1>3. Becomes(o, r.conf, r.errors, r.successes, r.last)
  BY <1>1, <1>2, Replaced
<1> QED
  BY <1>1, <1>3 DEF Becomes

LEMMA CountedError ==
  ASSUME object \in [Objects -> Fields], NEW o \in Objects, NEW c \in Configs,
         object' = [object EXCEPT ![o].errors = @ + 1, ![o].conf = c]
  PROVE  Becomes(o, c, object[o].errors + 1, object[o].successes, object[o].last)
<1> DEFINE n == object[o].errors + 1
           r == [object[o] EXCEPT !.errors = n, !.conf = c]
<1>0. object[o] \in Fields /\ n \in Nat
  BY FieldsType
<1>1. /\ r \in Fields /\ r.conf = c /\ r.errors = n
      /\ r.successes = object[o].successes /\ r.last = object[o].last
  <2>1. \A x \in Fields, k \in Nat : LET y == [x EXCEPT !.errors = k, !.conf = c] IN
          /\ y \in Fields /\ y.conf = c /\ y.errors = k
          /\ y.successes = x.successes /\ y.last = x.last
    BY DEF Fields
  <2> HIDE DEF n
  <2> QED
    BY <1>0, <2>1
<1>2. object' = [object EXCEPT ![o] = r]
  OBVIOUS
<1> HIDE DEF r
<1>3. Becomes(o, r.conf, r.errors, r.successes, r.last)
  BY <1>1, <1>2, Replaced
<1> QED
  BY <1>1, <1>3 DEF Becomes

\* A failed send, by the loop or by the test route.
LEMMA FailedSend ==
  ASSUME object \in [Objects -> Fields], NEW o \in Objects, Failed(o)
  PROVE  Becomes(o, object[o].conf, object[o].errors + 1, object[o].successes,
                 object[o].last)
<1> DEFINE n == object[o].errors + 1
           r == [object[o] EXCEPT !.errors = n]
<1>0. object[o] \in Fields /\ n \in Nat
  BY FieldsType
<1>1. /\ r \in Fields /\ r.conf = object[o].conf /\ r.errors = n
      /\ r.successes = object[o].successes /\ r.last = object[o].last
  <2>1. \A x \in Fields, k \in Nat : LET y == [x EXCEPT !.errors = k] IN
          /\ y \in Fields /\ y.conf = x.conf /\ y.errors = k
          /\ y.successes = x.successes /\ y.last = x.last
    BY DEF Fields
  <2> HIDE DEF n
  <2> QED
    BY <1>0, <2>1
<1>2. object' = [object EXCEPT ![o] = r]
  BY DEF Failed
<1> HIDE DEF r
<1>3. Becomes(o, r.conf, r.errors, r.successes, r.last)
  BY <1>1, <1>2, Replaced
<1> QED
  BY <1>1, <1>3 DEF Becomes

\* A delivery, by the loop or by the test route.
LEMMA DeliveredSend ==
  ASSUME object \in [Objects -> Fields], NEW o \in Objects, clock \in Nat, Delivered(o)
  PROVE  Becomes(o, object[o].conf, object[o].errors, object[o].successes + 1, clock)
<1> DEFINE n == object[o].successes + 1
           r == [object[o] EXCEPT !.successes = n, !.last = clock]
<1>0. object[o] \in Fields /\ n \in Nat
  BY FieldsType
<1>1. /\ r \in Fields /\ r.conf = object[o].conf /\ r.errors = object[o].errors
      /\ r.successes = n /\ r.last = clock
  <2>1. \A x \in Fields, k \in Nat : LET y == [x EXCEPT !.successes = k, !.last = clock] IN
          /\ y \in Fields /\ y.conf = x.conf /\ y.errors = x.errors
          /\ y.successes = k /\ y.last = clock
    BY DEF Fields
  <2> HIDE DEF n
  <2> QED
    BY <1>0, <2>1
<1>2. object' = [object EXCEPT ![o] = r]
  BY DEF Delivered
<1> HIDE DEF r
<1>3. Becomes(o, r.conf, r.errors, r.successes, r.last)
  BY <1>1, <1>2, Replaced
<1> QED
  BY <1>1, <1>3 DEF Becomes

-----------------------------------------------------------------------------
(* The file *)

LEMMA ContentsType ==
  ASSUME NEW n, NEW table \in [HookIds -> (1..n) \cup {Nobody}],
         n \in 0..MaxObjects, WebhookAssumption,
         NEW fields \in [Objects -> Fields]
  PROVE  Contents(table, fields) \in [HookIds -> Configs \cup {Nobody}]
<1>1. ASSUME NEW h \in HookIds, table[h] # Nobody
      PROVE  fields[table[h]].conf \in Configs
  <2>1. table[h] \in Objects
    BY <1>1 DEF Objects, WebhookAssumption
  <2> QED
    BY <2>1, FieldsType
<1> QED
  BY <1>1 DEF Contents

\* A write that succeeds leaves the file as the registry is.
LEMMA PersistType ==
  ASSUME NEW n, NEW table \in [HookIds -> (1..n) \cup {Nobody}],
         n \in 0..MaxObjects, WebhookAssumption,
         NEW fields \in [Objects -> Fields],
         saved \in [HookIds -> Configs \cup {Nobody}], misnamed \subseteq 1..made,
         Persist(table, fields)
  PROVE  /\ saved' \in [HookIds -> Configs \cup {Nobody}] /\ unsaved' \in BOOLEAN
         /\ misnamed' \subseteq 1..made
         /\ ~unsaved' => saved' = Contents(table, fields)
<1>1. Contents(table, fields) \in [HookIds -> Configs \cup {Nobody}]
  BY ContentsType
<1>2. CASE saved' = Contents(table, fields) /\ unsaved' = FALSE /\ misnamed' = {}
  BY <1>1, <1>2
<1>3. CASE saved' \in {saved, NoHooks} /\ unsaved' = TRUE /\ UNCHANGED misnamed
  <2>1. NoHooks \in [HookIds -> Configs \cup {Nobody}]
    BY DEF NoHooks
  <2> QED
    BY <1>3, <2>1
<1> QED
  BY <1>2, <1>3 DEF Persist

\* What is as the registry is agrees with it.
LEMMA ContentsAgree ==
  ASSUME ~unsaved' => saved' = Contents(hooks', object')
  PROVE  SavedAgrees'
BY DEF SavedAgrees, SavedAs, Contents

\* The restored webhooks are given objects of their own.
LEMMA PlaceOfItsOwn ==
  ASSUME WebhookAssumption, NEW restored \in SUBSET HookIds,
         NEW place \in [HookIds -> Objects \cup {Nobody}],
         \A h \in HookIds : place[h] # Nobody <=> h \in restored,
         {place[h] : h \in restored} = 1..Cardinality(restored)
  PROVE  /\ Cardinality(restored) \in 0..MaxObjects
         /\ place \in [HookIds -> (1..Cardinality(restored)) \cup {Nobody}]
         /\ \A g, h \in restored : place[g] = place[h] => g = h
<1> DEFINE n == Cardinality(restored)
           f == [h \in restored |-> place[h]]
<1>1. IsFiniteSet(restored) /\ n \in Nat
  BY FS_Subset, FS_CardinalityType DEF WebhookAssumption
<1>2. \A h \in restored : place[h] \in Objects /\ place[h] \in 1..n
  OBVIOUS
<1>3. n <= MaxObjects
  <2>1. CASE n = 0
    BY <2>1 DEF WebhookAssumption
  <2>2. CASE n # 0
    <3>1. n \in 1..n
      BY <1>1, <2>2
    <3>2. PICK h \in restored : place[h] = n
      BY <3>1
    <3> QED
      BY <3>2, <1>2 DEF Objects, WebhookAssumption
  <2> QED
    BY <2>1, <2>2
<1>4. f \in Surjection(restored, 1..n)
  BY <1>2 DEF Surjection
<1>5. Cardinality(1..n) = n
  BY <1>1, FS_Interval
<1>6. f \in Injection(restored, 1..n)
  BY <1>1, <1>4, <1>5, FS_SurjSameCardinalityImpliesInj
<1>7. \A g, h \in restored : place[g] = place[h] => g = h
  BY <1>6 DEF Injection, IsInjective
<1>8. place \in [HookIds -> (1..n) \cup {Nobody}]
  BY <1>2
<1> QED
  BY <1>1, <1>3, <1>7, <1>8

-----------------------------------------------------------------------------
(* Steps *)

LEMMA TypesInUse ==
  ASSUME WebhookAssumption, WebhookTypeOK
  PROVE  /\ object \in [Objects -> Fields] /\ testing \in [Objects -> Nat]
         /\ tested \in Nat /\ clock \in Nat /\ Threshold \in Nat
<1>1. object \in [Objects -> Fields] /\ testing \in [Objects -> Nat]
  BY DEF WebhookTypeOK
<1>2. tested \in Nat /\ clock \in Nat /\ Threshold \in Nat
  BY Parameters DEF WebhookTypeOK
<1> QED
  BY <1>1, <1>2

LEMMA InitInv ==
  ASSUME WebhookAssumption, WebhookInit
  PROVE  Inv /\ SavedAgrees
<1>1. PICK conf \in Configs : NoObject = NewObject(conf)
  BY NoObjectIsNew
<1> DEFINE new == NewObject(conf)
<1>2. new \in Fields /\ new.errors = 0 /\ new.successes = 0 /\ new.last = 0
  BY NewObjectType
<1> HIDE DEF new
<1>3. /\ object = [o \in Objects |-> new] /\ clock = RateLimit /\ made = 0
      /\ hooks = NoHooks /\ saved = NoHooks /\ misnamed = {}
      /\ sentAt = [o \in Objects |-> 0] /\ unsaved = FALSE
      /\ pending = <<>> /\ callers = <<>> /\ event = Nobody /\ listed = {}
      /\ posting = Nobody /\ alive = TRUE /\ triggers = 0 /\ restarts = 0
      /\ testing = [o \in Objects |-> 0] /\ tested = 0
  BY <1>1 DEF WebhookInit, new
<1>4. ErrorsOK
  <2>1. \A o \in Objects : posting # o
    BY <1>3, Parameters DEF Objects
  <2> QED
    BY <1>2, <1>3, <2>1, Parameters DEF ErrorsOK
<1>5. WebhookTypeOK
  <2>1. /\ clock \in RateLimit..(RateLimit + MaxClock) /\ made \in 0..MaxObjects
        /\ triggers \in 0..MaxTriggers /\ restarts \in 0..MaxRestarts
        /\ tested \in 0..MaxTests
    BY <1>3, Parameters
  <2>2. /\ pending \in Seq(Nat) /\ Len(pending) <= EventQueueSize /\ callers \in Seq(Nat)
        /\ listed \subseteq 1..made /\ posting \in listed \cup {Nobody}
        /\ misnamed \subseteq 1..made
    BY <1>3, Parameters
  <2>3. /\ hooks \in [HookIds -> (1..made) \cup {Nobody}]
        /\ saved \in [HookIds -> Configs \cup {Nobody}] /\ unsaved \in BOOLEAN
        /\ sentAt \in [Objects -> Nat] /\ event \in Nat \cup {Nobody}
        /\ object \in [Objects -> Fields] /\ testing \in [Objects -> Nat]
        /\ alive \in BOOLEAN
    BY <1>2, <1>3 DEF NoHooks
  <2> QED
    BY <1>3, <1>4, <2>1, <2>2, <2>3 DEF WebhookTypeOK
<1>6. PostInv /\ StampInv
  BY <1>2, <1>3, Parameters DEF PostInv, StampInv
<1>7. SavedAgrees
  BY <1>3 DEF SavedAgrees, NoHooks
<1> QED
  BY <1>5, <1>6, <1>7 DEF Inv

\* The errors, the calls and the POST of an object are what they were.
LEMMA ErrorsStay ==
  ASSUME ErrorsOK, UNCHANGED <<testing, tested>>, posting' = posting \/ posting' = Nobody,
         object \in [Objects -> Fields], testing \in [Objects -> Nat], tested \in Nat,
         WebhookAssumption,
         \A q \in Objects : object'[q].errors \in {object[q].errors, 0}
  PROVE  ErrorsOK'
<1> SUFFICES ASSUME NEW q \in Objects
             PROVE  /\ testing'[q] <= tested'
                    /\ object'[q].errors + testing'[q] + (IF posting' = q THEN 1 ELSE 0)
                         <= Threshold + tested'
  BY DEF ErrorsOK
<1>1. /\ object[q].errors \in Nat /\ testing[q] \in Nat /\ tested \in Nat /\ Threshold \in Nat
      /\ q # Nobody
  BY FieldsType, Parameters DEF Objects
<1>2. /\ testing[q] <= tested
      /\ object[q].errors + testing[q] + (IF posting = q THEN 1 ELSE 0) <= Threshold + tested
  BY DEF ErrorsOK
<1>3. object'[q].errors \in Nat /\ object'[q].errors <= object[q].errors
  BY <1>1
<1>4. (IF posting' = q THEN 1 ELSE 0) <= (IF posting = q THEN 1 ELSE 0)
  BY <1>1
<1> DEFINE a == IF posting' = q THEN 1 ELSE 0
           b == IF posting = q THEN 1 ELSE 0
<1>5. a \in Nat /\ b \in Nat /\ a <= b
  BY <1>4
<1> HIDE DEF a, b
<1>6. object[q].errors + testing[q] + b <= Threshold + tested
  BY <1>2 DEF b
<1>7. object'[q].errors + testing[q] + a <= Threshold + tested
  BY <1>1, <1>3, <1>5, <1>6
<1> QED
  BY <1>2, <1>7 DEF a

\* The calls of the API make an object that the loop knows nothing of, or
\* change the fields of one that are saved.
LEMMA RegistryStep ==
  ASSUME WebhookAssumption, Inv, NEW h \in HookIds,
         \/ \E conf \in Configs : AddWebhook(h, conf) \/ UpdateWebhook(h, conf)
         \/ RemoveWebhook(h)
  PROVE  Inv' /\ SavedAgrees'
<1> USE DEF traffic, tests
<1>0. object \in [Objects -> Fields] /\ tested \in Nat
  BY TypesInUse DEF Inv
<1>1. ASSUME NEW conf \in Configs, AddWebhook(h, conf)
      PROVE  Inv' /\ SavedAgrees'
  <2> DEFINE o == made + 1
             new == NewObject(conf)
  <2>0. new \in Fields /\ new.errors = 0 /\ new.successes = 0 /\ new.last = 0
    BY NewObjectType
  <2>1. /\ made' = o /\ made < MaxObjects
        /\ object' = [object EXCEPT ![o] = new]
        /\ hooks' = [hooks EXCEPT ![h] = o]
        /\ UNCHANGED <<clock, sentAt, traffic, tests, triggers, restarts>>
        /\ Persist(hooks', object')
    BY <1>1 DEF AddWebhook
  <2>2. /\ o \in Objects /\ o \in 1..o /\ o \in 0..MaxObjects /\ 1..made \subseteq 1..o
        /\ o > made /\ \A q \in Objects : q > o => q > made
    <3>1. made \in Nat /\ MaxObjects \in Nat /\ made < MaxObjects /\ o = made + 1
      BY <2>1, Parameters DEF Inv, WebhookTypeOK
    <3> QED
      BY <3>1 DEF Objects
  <2> HIDE DEF new, o
  <2>3. Becomes(o, new.conf, 0, 0, 0)
    BY <1>0, <2>0, <2>1, <2>2, Replaced
  <2>4. hooks' \in [HookIds -> (1..made') \cup {Nobody}] /\ made' \in 0..MaxObjects
    BY <2>1, <2>2 DEF Inv, WebhookTypeOK
  <2>5. /\ saved' \in [HookIds -> Configs \cup {Nobody}] /\ unsaved' \in BOOLEAN
        /\ misnamed' \subseteq 1..made'
        /\ ~unsaved' => saved' = Contents(hooks', object')
    <3>1. saved \in [HookIds -> Configs \cup {Nobody}] /\ misnamed \subseteq 1..made
      BY DEF Inv, WebhookTypeOK
    <3>2. object' \in [Objects -> Fields]
      BY <2>3 DEF Becomes
    <3>3. hooks' \in [HookIds -> (1..o) \cup {Nobody}] /\ o \in 0..MaxObjects
      BY <2>1, <2>2, <2>4
    <3>4. /\ saved' \in [HookIds -> Configs \cup {Nobody}] /\ unsaved' \in BOOLEAN
          /\ misnamed' \subseteq 1..made
          /\ ~unsaved' => saved' = Contents(hooks', object')
      BY <2>1, <3>1, <3>2, <3>3, PersistType
    <3> QED
      BY <2>1, <2>2, <3>4
  <2>6. ErrorsOK'
    <3>1. \A q \in Objects : object'[q].errors \in {object[q].errors, 0}
      BY <2>3 DEF Becomes
    <3> QED
      BY <1>0, <2>1, <3>1, ErrorsStay DEF Inv, WebhookTypeOK
  <2>7. WebhookTypeOK'
    BY <2>1, <2>2, <2>3, <2>4, <2>5, <2>6 DEF Inv, WebhookTypeOK, Becomes
  <2>8. PostInv'
    BY <2>1 DEF Inv, PostInv
  <2>9. StampInv'
    <3>1. ASSUME NEW q \in Objects
          PROVE  /\ sentAt'[q] <= clock' /\ sentAt'[q] <= object'[q].last
                 /\ q > made' => sentAt'[q] = 0
      <4>1. CASE q = o
        BY <2>1, <2>2, <2>3, <4>1 DEF Inv, StampInv, Becomes
      <4>2. CASE q # o
        BY <2>1, <2>2, <2>3, <4>2 DEF Inv, StampInv, Becomes
      <4> QED
        BY <4>1, <4>2
    <3> QED
      BY <2>1, <3>1 DEF Inv, StampInv
  <2> QED
    BY <2>5, <2>7, <2>8, <2>9, ContentsAgree DEF Inv
<1>2. ASSUME NEW conf \in Configs, UpdateWebhook(h, conf)
      PROVE  Inv' /\ SavedAgrees'
  <2> DEFINE o == hooks[h]
  <2>1. /\ object' = [object EXCEPT ![o].conf = conf] /\ Persist(hooks, object')
        /\ UNCHANGED <<clock, hooks, made, sentAt, traffic, tests, triggers, restarts>>
    BY <1>2 DEF UpdateWebhook
  <2>2. o \in Objects
    BY <1>2, ObjectsInUse DEF UpdateWebhook, Inv
  <2> HIDE DEF o
  <2>3. Becomes(o, conf, object[o].errors, object[o].successes, object[o].last)
    BY <1>0, <2>1, <2>2, Configured
  <2>4. /\ object' \in [Objects -> Fields]
        /\ \A q \in Objects : /\ object'[q].errors \in {object[q].errors, 0}
                              /\ object'[q].last = object[q].last
    BY <2>3 DEF Becomes
  <2>5. /\ saved' \in [HookIds -> Configs \cup {Nobody}] /\ unsaved' \in BOOLEAN
        /\ misnamed' \subseteq 1..made'
        /\ ~unsaved' => saved' = Contents(hooks', object')
    BY <2>1, <2>4, PersistType DEF Inv, WebhookTypeOK
  <2>6. ErrorsOK'
    BY <1>0, <2>1, <2>4, ErrorsStay DEF Inv, WebhookTypeOK
  <2>7. WebhookTypeOK'
    BY <2>1, <2>4, <2>5, <2>6 DEF Inv, WebhookTypeOK
  <2>8. PostInv' /\ StampInv'
    BY <2>1, <2>4 DEF Inv, PostInv, StampInv
  <2> QED
    BY <2>5, <2>7, <2>8, ContentsAgree DEF Inv
<1>3. ASSUME RemoveWebhook(h)
      PROVE  Inv' /\ SavedAgrees'
  <2>1. /\ hooks' \in [HookIds -> (1..made) \cup {Nobody}]
        /\ Persist(hooks', object)
        /\ UNCHANGED <<clock, object, made, sentAt, traffic, tests, triggers, restarts>>
    BY <1>3 DEF RemoveWebhook, Inv, WebhookTypeOK
  <2>2. /\ saved' \in [HookIds -> Configs \cup {Nobody}] /\ unsaved' \in BOOLEAN
        /\ misnamed' \subseteq 1..made'
        /\ ~unsaved' => saved' = Contents(hooks', object')
    BY <2>1, PersistType DEF Inv, WebhookTypeOK
  <2>3. ErrorsOK'
    BY <1>0, <2>1, ErrorsStay DEF Inv, WebhookTypeOK
  <2>4. WebhookTypeOK'
    BY <2>1, <2>2, <2>3 DEF Inv, WebhookTypeOK
  <2>5. PostInv' /\ StampInv'
    BY <2>1 DEF Inv, PostInv, StampInv
  <2> QED
    BY <2>2, <2>4, <2>5, ContentsAgree DEF Inv
<1> QED
  BY <1>1, <1>2, <1>3

\* A refused update leaves the file behind by one name.
LEMMA RefusedStep ==
  ASSUME WebhookAssumption, Inv, NEW h \in HookIds, NEW name \in Names,
         UpdateRefused(h, name)
  PROVE  Inv' /\ (SavedAgrees => SavedAgrees')
<1> USE DEF traffic, tests
<1> DEFINE o == hooks[h]
           conf == [object[o].conf EXCEPT !.name = name]
<1>1. object \in [Objects -> Fields] /\ tested \in Nat
  BY TypesInUse DEF Inv
<1>2. /\ object' = [object EXCEPT ![o].conf.name = name]
      /\ misnamed' = misnamed \cup {o}
      /\ UNCHANGED <<clock, hooks, made, sentAt, saved, unsaved, traffic, tests,
                     triggers, restarts>>
  BY DEF UpdateRefused
<1>3. o \in Objects /\ o \in 1..made
  BY ObjectsInUse DEF UpdateRefused, Inv
<1>4. object[o].conf \in Configs /\ conf \in Configs
  BY <1>1, <1>3, FieldsType, ConfigsType
<1>5. object' = [object EXCEPT ![o].conf = conf]
  BY <1>1, <1>2, <1>3
<1> HIDE DEF o, conf
<1>6. Becomes(o, conf, object[o].errors, object[o].successes, object[o].last)
  BY <1>1, <1>3, <1>4, <1>5, Configured
<1>7. /\ object' \in [Objects -> Fields]
      /\ \A q \in Objects : /\ object'[q].errors \in {object[q].errors, 0}
                            /\ object'[q].last = object[q].last
  BY <1>6 DEF Becomes
<1>8. ErrorsOK'
  BY <1>1, <1>2, <1>7, ErrorsStay DEF Inv, WebhookTypeOK
<1>9. WebhookTypeOK'
  BY <1>2, <1>3, <1>7, <1>8 DEF Inv, WebhookTypeOK
<1>10. PostInv' /\ StampInv'
  BY <1>2, <1>7 DEF Inv, PostInv, StampInv
<1>11. ASSUME SavedAgrees, ~unsaved, NEW g \in HookIds
       PROVE  (IF hooks[g] = Nobody THEN saved[g] = Nobody ELSE SavedAs(saved[g], hooks[g]))'
  <2>1. CASE hooks[g] = Nobody
    BY <1>2, <1>11, <2>1 DEF SavedAgrees
  <2>2. CASE hooks[g] = o
    <3>1. hooks[g] # Nobody
      BY <2>2, <1>3, Parameters
    <3>2. SavedAs(saved[g], o)
      BY <1>11, <2>2, <3>1 DEF SavedAgrees
    <3>3. saved[g] \in Configs /\ \/ saved[g] = object[o].conf
                                  \/ object[o].conf = [saved[g] EXCEPT !.name = object[o].conf.name]
      BY <1>4, <3>2 DEF SavedAs
    <3>4. conf = [object[o].conf EXCEPT !.name = name] /\ conf.name = name
      BY <1>4 DEF conf, Configs
    <3>5. conf = [saved[g] EXCEPT !.name = conf.name]
      <4>1. ASSUME NEW a \in Configs, NEW b \in Configs,
                   a = b \/ b = [a EXCEPT !.name = b.name]
            PROVE  [b EXCEPT !.name = name] = [a EXCEPT !.name = name]
        BY <4>1 DEF Configs
      <4>2. [object[o].conf EXCEPT !.name = name] = [saved[g] EXCEPT !.name = name]
        BY <1>4, <3>3, <4>1
      <4> QED
        BY <3>4, <4>2
    <3>6. object'[o].conf = conf
      BY <1>6 DEF Becomes
    <3> QED
      BY <1>2, <2>2, <3>1, <3>3, <3>5, <3>6 DEF SavedAs
  <2>3. CASE hooks[g] # Nobody /\ hooks[g] # o
    <3>1. SavedAs(saved[g], hooks[g])
      BY <1>11, <2>3 DEF SavedAgrees
    <3>2. hooks[g] \in Objects
      BY <2>3, ObjectsInUse DEF Inv
    <3>3. object'[hooks[g]] = object[hooks[g]]
      BY <1>6, <2>3, <3>2 DEF Becomes
    <3> QED
      BY <1>2, <2>3, <3>1, <3>3 DEF SavedAs
  <2> QED
    BY <2>1, <2>2, <2>3
<1>12. SavedAgrees => SavedAgrees'
  BY <1>2, <1>11 DEF SavedAgrees
<1> QED
  BY <1>9, <1>10, <1>12 DEF Inv

\* The queue, its callers and the event in hand keep their stamps.
LEMMA QueueStep ==
  ASSUME WebhookAssumption, Inv, Trigger \/ CallerPuts \/ TakeEvent \/ Dispatched
  PROVE  Inv'
<1> USE DEF registry, onDisk, tests
<1>0. ASSUME UNCHANGED <<object, testing, tested, posting>> PROVE ErrorsOK'
  BY <1>0 DEF ErrorsOK, Inv, WebhookTypeOK
<1>1. ASSUME NEW s \in Seq(Nat), NEW t \in Nat, t <= clock,
             \A i \in DOMAIN s : s[i] <= clock
      PROVE  /\ Append(s, t) \in Seq(Nat) /\ Len(Append(s, t)) = Len(s) + 1
             /\ \A i \in DOMAIN Append(s, t) : Append(s, t)[i] <= clock
  BY <1>1, SMTT(60)
<1>2. ASSUME NEW s \in Seq(Nat), s # <<>>, \A i \in DOMAIN s : s[i] <= clock
      PROVE  /\ Tail(s) \in Seq(Nat) /\ Len(Tail(s)) = Len(s) - 1
             /\ Head(s) \in Nat /\ Head(s) <= clock
             /\ \A i \in DOMAIN Tail(s) : Tail(s)[i] <= clock
  BY <1>2, SMTT(60)
<1>3. clock \in Nat /\ clock <= clock
  BY Parameters, SMTT(60) DEF Inv, WebhookTypeOK
<1>4. CASE Trigger
  <2>1. /\ triggers' \in 0..MaxTriggers
        /\ UNCHANGED <<clock, registry, event, listed, posting, alive, tests, restarts>>
    <3>1. triggers \in Nat /\ MaxTriggers \in Nat
      BY Parameters DEF Inv, WebhookTypeOK
    <3>2. triggers < MaxTriggers /\ triggers' = triggers + 1
      BY <1>4 DEF Trigger
    <3>3. UNCHANGED <<clock, registry, event, listed, posting, alive, tests, restarts>>
      BY <1>4 DEF Trigger
    <3> QED
      BY <3>1, <3>2, <3>3
  <2>2. /\ pending' \in Seq(Nat) /\ Len(pending') <= EventQueueSize /\ callers' \in Seq(Nat)
        /\ \A i \in DOMAIN pending' : pending'[i] <= clock
        /\ \A i \in DOMAIN callers' : callers'[i] <= clock
    <3>1. CASE Len(pending) < EventQueueSize
      <4>1. pending' = Append(pending, clock) /\ callers' = callers
        BY <1>4, <3>1 DEF Trigger
      <4>2. /\ pending \in Seq(Nat) /\ callers \in Seq(Nat) /\ Len(pending) \in Nat
            /\ \A i \in DOMAIN pending : pending[i] <= clock
            /\ \A i \in DOMAIN callers : callers[i] <= clock
        BY DEF Inv, WebhookTypeOK, StampInv
      <4>3. /\ pending' \in Seq(Nat) /\ Len(pending') = Len(pending) + 1
            /\ \A i \in DOMAIN pending' : pending'[i] <= clock
        BY <1>1, <1>3, <4>1, <4>2
      <4>4. Len(pending') <= EventQueueSize
        BY <3>1, <4>2, <4>3, Parameters
      <4> QED
        BY <4>1, <4>2, <4>3, <4>4
    <3>2. CASE ~(Len(pending) < EventQueueSize)
      BY <1>1, <1>3, <1>4, <3>2 DEF Trigger, Inv, WebhookTypeOK, StampInv
    <3> QED
      BY <3>1, <3>2
  <2> QED
    BY <1>0, <2>1, <2>2 DEF Inv, WebhookTypeOK, PostInv, StampInv
<1>5. CASE CallerPuts
  <2>1. /\ UNCHANGED <<clock, registry, event, listed, posting, alive, tests, triggers,
                     restarts>>
    BY <1>5 DEF CallerPuts
  <2>2. /\ pending' \in Seq(Nat) /\ Len(pending') <= EventQueueSize /\ callers' \in Seq(Nat)
        /\ \A i \in DOMAIN pending' : pending'[i] <= clock
        /\ \A i \in DOMAIN callers' : callers'[i] <= clock
    <3>1. /\ callers # <<>> /\ Len(pending) < EventQueueSize
          /\ pending' = Append(pending, Head(callers)) /\ callers' = Tail(callers)
      BY <1>5 DEF CallerPuts
    <3>2. /\ pending \in Seq(Nat) /\ callers \in Seq(Nat) /\ Len(pending) \in Nat
          /\ \A i \in DOMAIN pending : pending[i] <= clock
          /\ \A i \in DOMAIN callers : callers[i] <= clock
      BY DEF Inv, WebhookTypeOK, StampInv
    <3>3. /\ Head(callers) \in Nat /\ Head(callers) <= clock /\ callers' \in Seq(Nat)
          /\ \A i \in DOMAIN callers' : callers'[i] <= clock
      BY <1>2, <3>1, <3>2
    <3>4. /\ pending' \in Seq(Nat) /\ Len(pending') = Len(pending) + 1
          /\ \A i \in DOMAIN pending' : pending'[i] <= clock
      BY <1>1, <3>1, <3>2, <3>3
    <3>5. Len(pending') <= EventQueueSize
      BY <3>1, <3>2, <3>4, Parameters
    <3> QED
      BY <3>3, <3>4, <3>5
  <2> QED
    BY <1>0, <2>1, <2>2 DEF Inv, WebhookTypeOK, PostInv, StampInv
<1>6. CASE TakeEvent
  <2>1. /\ event = Nobody /\ UNCHANGED <<clock, registry, callers, posting, alive, tests,
                                            triggers, restarts>>
        /\ listed' = {hooks[h] : h \in HookIds} \ {Nobody}
    BY <1>6 DEF TakeEvent
  <2>2. posting = Nobody /\ listed' \subseteq 1..made
    BY <2>1 DEF Inv, WebhookTypeOK
  <2>3. /\ pending' \in Seq(Nat) /\ Len(pending') <= EventQueueSize
        /\ \A i \in DOMAIN pending' : pending'[i] <= clock
        /\ event' \in Nat /\ event' <= clock
    <3>1. /\ pending # <<>> /\ event' = Head(pending) /\ pending' = Tail(pending)
      BY <1>6 DEF TakeEvent
    <3>2. /\ pending \in Seq(Nat) /\ Len(pending) \in Nat /\ Len(pending) <= EventQueueSize
          /\ \A i \in DOMAIN pending : pending[i] <= clock
      BY DEF Inv, WebhookTypeOK, StampInv
    <3>3. /\ pending' \in Seq(Nat) /\ Len(pending') = Len(pending) - 1
          /\ \A i \in DOMAIN pending' : pending'[i] <= clock
          /\ event' \in Nat /\ event' <= clock
      BY <1>2, <3>1, <3>2
    <3>4. Len(pending') <= EventQueueSize
      BY <3>2, <3>3, Parameters
    <3> QED
      BY <3>3, <3>4
  <2> QED
    BY <1>0, <2>1, <2>2, <2>3, Parameters DEF Inv, WebhookTypeOK, PostInv, StampInv
<1>7. CASE Dispatched
  BY <1>0, <1>7 DEF Dispatched, Inv, WebhookTypeOK, PostInv, StampInv
<1> QED
  BY <1>4, <1>5, <1>6, <1>7

\* A test adds a call and its POST; what comes of it touches the file, the time
\* of the last success and the errors, which the call has room for.
LEMMA TestStep ==
  ASSUME WebhookAssumption, Inv,
         \/ \E h \in HookIds : Test(h)
         \/ \E o \in Objects : TestSucceeds(o) \/ TestFails(o) \/ TestFailsUncounted(o)
  PROVE  Inv'
<1> USE DEF registry, onDisk, traffic
<1>1. /\ object \in [Objects -> Fields] /\ testing \in [Objects -> Nat]
      /\ tested \in Nat /\ clock \in Nat /\ Threshold \in Nat
  BY TypesInUse DEF Inv
<1>2. ASSUME NEW q \in Objects
      PROVE  /\ object[q].errors \in Nat /\ testing[q] \in Nat /\ testing[q] <= tested
             /\ object[q].errors + testing[q] + (IF posting = q THEN 1 ELSE 0)
                  <= Threshold + tested
  BY <1>1, FieldsType DEF Inv, WebhookTypeOK, ErrorsOK
<1>3. ASSUME NEW h \in HookIds, Test(h)
      PROVE  Inv'
  <2>1. hooks[h] \in Objects
    BY <1>3, ObjectsInUse DEF Test, Inv
  <2>2. /\ tested' = tested + 1 /\ tested' \in 0..MaxTests
        /\ testing' = [testing EXCEPT ![hooks[h]] = testing[hooks[h]] + 1]
        /\ UNCHANGED <<clock, registry, traffic, triggers, restarts>>
    BY <1>1, <1>3, Parameters DEF Test
  <2>3. testing' \in [Objects -> Nat]
    BY <1>1, <2>1, <2>2
  <2>4. ErrorsOK'
    <3> SUFFICES ASSUME NEW q \in Objects
                 PROVE  /\ testing'[q] <= tested'
                        /\ object'[q].errors + testing'[q] + (IF posting' = q THEN 1 ELSE 0)
                             <= Threshold + tested'
      BY DEF ErrorsOK
    <3>1. testing'[q] \in Nat /\ testing'[q] <= testing[q] + 1
      BY <1>1, <2>1, <2>2, <2>3
    <3> QED
      BY <1>1, <1>2, <2>2, <3>1
  <2>5. WebhookTypeOK'
    BY <2>2, <2>3, <2>4 DEF Inv, WebhookTypeOK
  <2> QED
    BY <2>2, <2>5 DEF Inv, PostInv, StampInv
<1>4. ASSUME NEW o \in Objects, TestAnswered(o),
             object' \in [Objects -> Fields], object'[o].errors <= object[o].errors + 1,
             object'[o].last \in {object[o].last, clock},
             \A q \in Objects : q # o => object'[q] = object[q],
             UNCHANGED onDisk \/ Persist(hooks, object')
      PROVE  Inv'
  <2>1. /\ testing[o] > 0 /\ testing' = [testing EXCEPT ![o] = testing[o] - 1]
        /\ UNCHANGED <<clock, hooks, made, sentAt, traffic, tested, triggers, restarts>>
    BY <1>4 DEF TestAnswered
  <2>2. testing[o] - 1 \in Nat /\ testing' \in [Objects -> Nat]
    BY <1>1, <2>1
  <2>3. ErrorsOK'
    <3> SUFFICES ASSUME NEW q \in Objects
                 PROVE  /\ testing'[q] <= tested'
                        /\ object'[q].errors + testing'[q] + (IF posting' = q THEN 1 ELSE 0)
                             <= Threshold + tested'
      BY DEF ErrorsOK
    <3>1. /\ testing'[q] \in Nat /\ object'[q].errors \in Nat /\ testing'[q] <= testing[q]
          /\ object'[q].errors + testing'[q] <= object[q].errors + testing[q]
      <4>1. testing'[q] \in Nat /\ object'[q].errors \in Nat
        BY <1>4, <2>2, FieldsType
      <4>2. CASE q = o
        BY <1>2, <1>4, <2>1, <2>2, <4>1, <4>2
      <4>3. CASE q # o
        BY <1>1, <1>2, <1>4, <2>1, <4>1, <4>3
      <4> QED
        BY <4>1, <4>2, <4>3
    <3> QED
      BY <1>1, <1>2, <2>1, <3>1
  <2>4. /\ saved' \in [HookIds -> Configs \cup {Nobody}] /\ unsaved' \in BOOLEAN
        /\ misnamed' \subseteq 1..made'
    BY <1>4, <2>1, PersistType DEF Inv, WebhookTypeOK
  <2>5. WebhookTypeOK'
    BY <1>4, <2>1, <2>2, <2>3, <2>4 DEF Inv, WebhookTypeOK
  <2>6. PostInv'
    BY <2>1 DEF Inv, PostInv
  <2>7. StampInv'
    <3>1. ASSUME NEW q \in Objects
          PROVE  sentAt[q] <= object'[q].last
      <4>1. CASE q = o
        BY <1>4, <4>1 DEF Inv, StampInv
      <4>2. CASE q # o
        BY <1>4, <4>2 DEF Inv, StampInv
      <4> QED
        BY <4>1, <4>2
    <3> QED
      BY <2>1, <3>1 DEF Inv, StampInv
  <2> QED
    BY <2>5, <2>6, <2>7 DEF Inv
<1>5. ASSUME NEW o \in Objects, TestSucceeds(o) PROVE Inv'
  <2>1. TestAnswered(o) /\ Persist(hooks, object')
    BY <1>5 DEF TestSucceeds, Delivered
  <2>2. Becomes(o, object[o].conf, object[o].errors, object[o].successes + 1, clock)
    BY <1>1, <1>5, DeliveredSend DEF TestSucceeds
  <2> QED
    BY <1>2, <1>4, <2>1, <2>2 DEF Becomes
<1>6. ASSUME NEW o \in Objects, TestFails(o) PROVE Inv'
  <2>1. TestAnswered(o) /\ UNCHANGED onDisk
    BY <1>6 DEF TestFails
  <2>2. Becomes(o, object[o].conf, object[o].errors + 1, object[o].successes, object[o].last)
    BY <1>1, <1>6, FailedSend DEF TestFails
  <2> QED
    BY <1>2, <1>4, <2>1, <2>2 DEF Becomes
<1>7. ASSUME NEW o \in Objects, TestFailsUncounted(o) PROVE Inv'
  <2>1. TestAnswered(o) /\ object' = object /\ UNCHANGED onDisk
    BY <1>7 DEF TestFailsUncounted
  <2> QED
    BY <1>1, <1>2, <1>4, <2>1
<1> QED
  BY <1>3, <1>5, <1>6, <1>7

\* The loop turns to an object.
LEMMA TurnStep ==
  ASSUME WebhookAssumption, Inv, NEW o \in Objects,
         Skip(o) \/ LoopDies(o) \/ Disable(o) \/ Post(o)
  PROVE  Inv'
<1> USE DEF registry, onDisk, tests
<1>1. /\ object \in [Objects -> Fields] /\ testing \in [Objects -> Nat]
      /\ tested \in Nat /\ Threshold \in Nat
  BY TypesInUse DEF Inv
<1>2. ASSUME UNCHANGED <<object, testing, tested, posting>> PROVE ErrorsOK'
  BY <1>2 DEF ErrorsOK, Inv, WebhookTypeOK
<1>3. CASE Skip(o)
  <2>1. /\ posting = Nobody /\ listed' = listed \ {o}
        /\ UNCHANGED <<clock, registry, pending, callers, event, posting, alive, tests,
                       triggers, restarts>>
    BY <1>3 DEF Skip, AtObject
  <2> QED
    BY <1>2, <2>1 DEF Inv, WebhookTypeOK, PostInv, StampInv
<1>4. CASE LoopDies(o)
  <2>1. posting = Nobody /\ listed' = {} /\ event' = Nobody /\ alive' = FALSE
        /\ UNCHANGED <<clock, registry, pending, callers, posting, tests, triggers, restarts>>
    BY <1>4 DEF LoopDies, AtObject
  <2> QED
    BY <1>2, <2>1 DEF Inv, WebhookTypeOK, PostInv, StampInv
<1>5. CASE Post(o)
  <2>1. /\ o \in listed /\ posting = Nobody /\ posting' = o
        /\ event >= object[o].last + RateLimit /\ object[o].errors < Threshold
        /\ UNCHANGED <<clock, registry, pending, callers, event, listed, alive, tests,
                       triggers, restarts>>
    BY <1>5 DEF Post, AtObject, Due
  <2>2. event # Nobody
    BY <2>1 DEF Inv, WebhookTypeOK
  <2>3. event >= sentAt[o] + RateLimit
    <3>1. /\ event \in Nat /\ object[o].last \in Nat /\ sentAt[o] \in Nat /\ RateLimit \in Nat
          /\ sentAt[o] <= object[o].last
      BY <1>1, <2>2, FieldsType, Parameters DEF Inv, WebhookTypeOK, StampInv
    <3> QED
      BY <2>1, <3>1
  <2>4. ErrorsOK'
    <3> SUFFICES ASSUME NEW q \in Objects
                 PROVE  /\ testing'[q] <= tested'
                        /\ object'[q].errors + testing'[q] + (IF posting' = q THEN 1 ELSE 0)
                             <= Threshold + tested'
      BY DEF ErrorsOK
    <3>1. /\ object[q].errors \in Nat /\ testing[q] \in Nat /\ testing[q] <= tested
          /\ object[q].errors + testing[q] + (IF posting = q THEN 1 ELSE 0)
               <= Threshold + tested
      BY <1>1, FieldsType DEF Inv, WebhookTypeOK, ErrorsOK
    <3>2. CASE q = o
      BY <1>1, <2>1, <3>1, <3>2
    <3>3. CASE q # o
      BY <1>1, <2>1, <3>1, <3>3, Parameters, SMTT(60) DEF Objects
    <3> QED
      BY <3>2, <3>3
  <2>5. WebhookTypeOK'
    BY <2>1, <2>4 DEF Inv, WebhookTypeOK
  <2>6. PostInv' /\ StampInv'
    BY <2>1, <2>2, <2>3 DEF Inv, PostInv, StampInv
  <2> QED
    BY <2>5, <2>6 DEF Inv
<1>6. CASE Disable(o)
  <2> DEFINE conf == [object[o].conf EXCEPT !.enabled = FALSE]
  <2>1. /\ object' = [object EXCEPT ![o].conf = conf] /\ Persist(hooks, object')
        /\ posting = Nobody /\ listed' = listed \ {o}
        /\ UNCHANGED <<clock, hooks, made, sentAt, pending, callers, event, posting, alive,
                       tests, triggers, restarts>>
    BY <1>1, <1>6 DEF Disable, AtObject
  <2>2. conf \in Configs
    BY <1>1, FieldsType, ConfigsType
  <2> HIDE DEF conf
  <2>3. Becomes(o, conf, object[o].errors, object[o].successes, object[o].last)
    BY <1>1, <2>1, <2>2, Configured
  <2>4. /\ object' \in [Objects -> Fields]
        /\ \A q \in Objects : /\ object'[q].errors \in {object[q].errors, 0}
                              /\ object'[q].last = object[q].last
    BY <2>3 DEF Becomes
  <2>5. /\ saved' \in [HookIds -> Configs \cup {Nobody}] /\ unsaved' \in BOOLEAN
        /\ misnamed' \subseteq 1..made'
    BY <2>1, <2>4, PersistType DEF Inv, WebhookTypeOK
  <2>6. ErrorsOK'
    BY <1>1, <2>1, <2>4, ErrorsStay DEF Inv, WebhookTypeOK
  <2>7. WebhookTypeOK'
    BY <2>1, <2>4, <2>5, <2>6 DEF Inv, WebhookTypeOK
  <2>8. PostInv' /\ StampInv'
    BY <2>1, <2>4 DEF Inv, PostInv, StampInv
  <2> QED
    BY <2>7, <2>8 DEF Inv
<1> QED
  BY <1>3, <1>4, <1>5, <1>6

\* The loop has the answer to its POST.
LEMMA AnswerStep ==
  ASSUME WebhookAssumption, Inv, Answer
  PROVE  Inv'
<1> USE DEF onDisk, tests
<1> DEFINE o == posting
<1>1. /\ o # Nobody /\ posting' = Nobody /\ listed' = listed \ {o}
      /\ UNCHANGED <<clock, hooks, made, pending, callers, event, alive, tests, triggers,
                     restarts>>
  BY DEF Answer, PostSucceeds, PostFails, PostRefused, PostFailsUncounted, Answered
<1>2. /\ o \in Objects /\ o \in 1..made
      /\ object \in [Objects -> Fields] /\ testing \in [Objects -> Nat]
      /\ tested \in Nat /\ Threshold \in Nat /\ clock \in Nat /\ made \in Nat
  <2>1. o \in 1..made /\ o \in Objects /\ made \in Nat
    BY <1>1, ObjectsInUse DEF Inv
  <2>2. /\ object \in [Objects -> Fields] /\ testing \in [Objects -> Nat]
        /\ tested \in Nat /\ Threshold \in Nat /\ clock \in Nat
    BY TypesInUse DEF Inv
  <2> QED
    BY <2>1, <2>2
<1>3. ASSUME NEW q \in Objects
      PROVE  /\ object[q].errors \in Nat /\ testing[q] \in Nat /\ testing[q] <= tested
             /\ object[q].errors + testing[q] + (IF posting = q THEN 1 ELSE 0)
                  <= Threshold + tested
  BY <1>2, FieldsType DEF Inv, WebhookTypeOK, ErrorsOK
<1>4. ASSUME object' \in [Objects -> Fields], object'[o].errors <= object[o].errors + 1,
             \A q \in Objects : q # o => object'[q] = object[q],
             \/ object'[o].last = object[o].last /\ UNCHANGED sentAt
             \/ object'[o].last = clock /\ sentAt' = [sentAt EXCEPT ![o] = clock],
             UNCHANGED onDisk \/ Persist(hooks, object')
      PROVE  Inv'
  <2>1. ErrorsOK'
    <3> SUFFICES ASSUME NEW q \in Objects
                 PROVE  /\ testing'[q] <= tested'
                        /\ object'[q].errors + testing'[q] + (IF posting' = q THEN 1 ELSE 0)
                             <= Threshold + tested'
      BY DEF ErrorsOK
    <3>1. q # Nobody /\ object'[q].errors \in Nat
      BY <1>4, FieldsType, Parameters DEF Objects
    <3>2. CASE q = o
      BY <1>1, <1>2, <1>3, <1>4, <3>1, <3>2
    <3>3. CASE q # o
      BY <1>1, <1>2, <1>3, <1>4, <3>1, <3>3
    <3> QED
      BY <3>2, <3>3
  <2>2. /\ saved' \in [HookIds -> Configs \cup {Nobody}] /\ unsaved' \in BOOLEAN
        /\ misnamed' \subseteq 1..made'
    BY <1>1, <1>4, PersistType DEF Inv, WebhookTypeOK
  <2>3. sentAt' \in [Objects -> Nat]
    BY <1>2, <1>4 DEF Inv, WebhookTypeOK
  <2>4. WebhookTypeOK'
    BY <1>1, <1>4, <2>1, <2>2, <2>3 DEF Inv, WebhookTypeOK
  <2>5. PostInv'
    BY <1>1 DEF PostInv
  <2>6. StampInv'
    <3>1. ASSUME NEW q \in Objects
          PROVE  /\ sentAt'[q] <= clock /\ sentAt'[q] <= object'[q].last
                 /\ q > made => sentAt'[q] = 0
      <4>0. /\ sentAt[q] <= clock /\ sentAt[q] <= object[q].last
            /\ q > made => sentAt[q] = 0
        BY DEF Inv, StampInv
      <4>1. CASE q = o
        <5>1. \/ object'[q].last = object[q].last /\ sentAt'[q] = sentAt[q]
              \/ object'[q].last = clock /\ sentAt'[q] = clock
          BY <1>2, <1>4, <4>1 DEF Inv, WebhookTypeOK
        <5>2. ~(q > made)
          BY <1>2, <4>1
        <5> QED
          BY <1>2, <4>0, <5>1, <5>2
      <4>2. CASE q # o
        BY <1>2, <1>4, <4>0, <4>2 DEF Inv, WebhookTypeOK
      <4> QED
        BY <4>1, <4>2
    <3> QED
      BY <1>1, <3>1 DEF Inv, StampInv
  <2> QED
    BY <2>4, <2>5, <2>6 DEF Inv
<1>5. CASE PostSucceeds
  <2>1. Persist(hooks, object') /\ sentAt' = [sentAt EXCEPT ![o] = clock]
    BY <1>5 DEF PostSucceeds, Delivered
  <2>2. Becomes(o, object[o].conf, object[o].errors, object[o].successes + 1, clock)
    BY <1>2, <1>5, DeliveredSend DEF PostSucceeds
  <2> QED
    BY <1>2, <1>3, <1>4, <2>1, <2>2 DEF Becomes
<1>6. CASE PostFails
  <2>1. UNCHANGED onDisk /\ UNCHANGED sentAt
    BY <1>6 DEF PostFails
  <2>2. Becomes(o, object[o].conf, object[o].errors + 1, object[o].successes, object[o].last)
    BY <1>2, <1>6, FailedSend DEF PostFails
  <2> QED
    BY <1>2, <1>3, <1>4, <2>1, <2>2 DEF Becomes
<1>7. CASE PostRefused
  <2> DEFINE conf == [object[o].conf EXCEPT !.enabled = FALSE]
  <2>1. /\ Persist(hooks, object') /\ UNCHANGED sentAt
        /\ object' = [object EXCEPT ![o].errors = @ + 1, ![o].conf = conf]
    BY <1>2, <1>7 DEF PostRefused
  <2>2. conf \in Configs
    BY <1>2, FieldsType, ConfigsType
  <2> HIDE DEF conf
  <2>3. Becomes(o, conf, object[o].errors + 1, object[o].successes, object[o].last)
    BY <1>2, <2>1, <2>2, CountedError
  <2> QED
    BY <1>2, <1>3, <1>4, <2>1, <2>3 DEF Becomes
<1>8. CASE PostFailsUncounted
  <2>1. object' = object /\ UNCHANGED onDisk /\ UNCHANGED sentAt
    BY <1>8 DEF PostFailsUncounted
  <2> QED
    BY <1>2, <1>3, <1>4, <2>1
<1> QED
  BY <1>5, <1>6, <1>7, <1>8 DEF Answer

-----------------------------------------------------------------------------
(* A restart *)

LEMMA RestartStep ==
  ASSUME WebhookAssumption, Inv, RestartWebhooks
  PROVE  /\ Inv' /\ SavedAgrees'
         /\ \A o \in Objects : object'[o].successes = 0
<1> DEFINE restored == {h \in HookIds : saved[h] # Nobody}
           n == Cardinality(restored)
<1>1. /\ UNCHANGED <<clock, saved, tested, triggers>> /\ restarts' \in 0..MaxRestarts
      /\ sentAt' = [o \in Objects |-> 0] /\ misnamed' = {}
      /\ pending' = <<>> /\ callers' = <<>>
      /\ event' = Nobody /\ listed' = {} /\ posting' = Nobody /\ alive' = TRUE
      /\ testing' = [o \in Objects |-> 0]
  BY Parameters, SMTT(60) DEF RestartWebhooks, Inv, WebhookTypeOK
\* Whatever was read, every object is a new one.
<1>2. ASSUME \A o \in Objects : \E conf \in Configs : object'[o] = NewObject(conf),
             object' = [o \in Objects |-> object'[o]],
             made' \in 0..MaxObjects, hooks' \in [HookIds -> (1..made') \cup {Nobody}],
             unsaved' \in BOOLEAN
      PROVE  Inv' /\ \A o \in Objects : object'[o].successes = 0
  <2>1. ASSUME NEW o \in Objects
        PROVE  /\ object'[o] \in Fields /\ object'[o].errors = 0
               /\ object'[o].successes = 0 /\ object'[o].last = 0
    <3>1. PICK conf \in Configs : object'[o] = NewObject(conf)
      BY <1>2
    <3>2. /\ NewObject(conf) \in Fields /\ NewObject(conf).errors = 0
          /\ NewObject(conf).successes = 0 /\ NewObject(conf).last = 0
      BY <3>1, NewObjectType
    <3> QED
      BY <3>1, <3>2
  <2>2. object' \in [Objects -> Fields]
    BY <1>2, <2>1
  <2>3. ErrorsOK'
    <3>1. \A o \in Objects : posting' # o
      BY <1>1, Parameters DEF Objects
    <3>2. tested' \in Nat /\ Threshold \in Nat
      BY <1>1, TypesInUse DEF Inv
    <3> QED
      BY <1>1, <2>1, <3>1, <3>2 DEF ErrorsOK
  <2>4. /\ pending' \in Seq(Nat) /\ Len(pending') <= EventQueueSize /\ callers' \in Seq(Nat)
    BY <1>1, Parameters
  <2>5. /\ listed' \subseteq 1..made' /\ posting' \in listed' \cup {Nobody}
        /\ event' \in Nat \cup {Nobody} /\ sentAt' \in [Objects -> Nat]
        /\ testing' \in [Objects -> Nat] /\ misnamed' \subseteq 1..made' /\ alive' \in BOOLEAN
    BY <1>1
  <2>6. WebhookTypeOK'
    BY <1>1, <1>2, <2>2, <2>3, <2>4, <2>5 DEF Inv, WebhookTypeOK
  <2>7. PostInv' /\ StampInv'
    <3>1. clock \in Nat
      BY TypesInUse DEF Inv
    <3> QED
      BY <1>1, <2>1, <3>1 DEF PostInv, StampInv
  <2> QED
    BY <2>1, <2>6, <2>7 DEF Inv
<1>3. CASE Restore
  <2>1. PICK place \in [HookIds -> Objects \cup {Nobody}] :
          /\ \A h \in HookIds : place[h] # Nobody <=> h \in restored
          /\ {place[h] : h \in restored} = 1..n
          /\ hooks' = place
          /\ made' = n
          /\ object' = [o \in Objects |->
                          IF \E h \in restored : place[h] = o
                          THEN NewObject(saved[CHOOSE h \in restored : place[h] = o])
                          ELSE NoObject]
          /\ unsaved' = FALSE
    BY <1>3 DEF Restore
  <2>2. /\ n \in 0..MaxObjects /\ place \in [HookIds -> (1..n) \cup {Nobody}]
        /\ \A g, h \in restored : place[g] = place[h] => g = h
    BY <2>1, PlaceOfItsOwn
  <2>3. \A h \in restored : saved[h] \in Configs
    BY DEF Inv, WebhookTypeOK
  <2>4. ASSUME NEW o \in Objects
        PROVE  \E conf \in Configs : object'[o] = NewObject(conf)
    <3>1. CASE \E h \in restored : place[h] = o
      <4>1. (CHOOSE h \in restored : place[h] = o) \in restored
        BY <3>1
      <4> QED
        BY <2>1, <2>3, <3>1, <4>1
    <3>2. CASE ~ \E h \in restored : place[h] = o
      BY <2>1, <3>2, NoObjectIsNew
    <3> QED
      BY <3>1, <3>2
  <2>5. Inv' /\ \A o \in Objects : object'[o].successes = 0
    <3>1. object' = [o \in Objects |-> object'[o]]
      BY <2>1
    <3> QED
      BY <1>2, <2>1, <2>2, <2>4, <3>1
  <2>6. ASSUME NEW h \in HookIds
        PROVE  saved[h] = IF place[h] = Nobody THEN Nobody ELSE object'[place[h]].conf
    <3>1. CASE place[h] = Nobody
      BY <2>1, <3>1
    <3>2. CASE place[h] # Nobody
      <4>1. h \in restored /\ place[h] \in Objects
        BY <2>1, <3>2
      <4>2. (CHOOSE g \in restored : place[g] = place[h]) = h
        BY <2>2, <4>1
      <4>3. object'[place[h]] = NewObject(saved[h])
        BY <2>1, <4>1, <4>2
      <4>4. saved[h] = object'[place[h]].conf
        BY <4>3 DEF NewObject
      <4> QED
        BY <3>2, <4>4
    <3> QED
      BY <3>1, <3>2
  <2>7. saved = Contents(hooks', object')
    <3>1. saved = [h \in HookIds |-> saved[h]]
      BY DEF Inv, WebhookTypeOK
    <3>2. Contents(hooks', object') = [h \in HookIds |-> IF place[h] = Nobody THEN Nobody
                                                        ELSE object'[place[h]].conf]
      BY <2>1 DEF Contents
    <3>3. [h \in HookIds |-> saved[h]]
            = [h \in HookIds |-> IF place[h] = Nobody THEN Nobody ELSE object'[place[h]].conf]
      BY <2>6, Zenon
    <3> QED
      BY <3>1, <3>2, <3>3
  <2>8. SavedAgrees'
    BY <1>1, <2>7, ContentsAgree
  <2> QED
    BY <2>5, <2>8
<1>4. CASE RestoreFails
  <2>1. /\ hooks' = NoHooks /\ made' = 0 /\ unsaved' = TRUE
        /\ object' = [o \in Objects |-> NoObject]
    BY <1>4 DEF RestoreFails
  <2>2. \A o \in Objects : \E conf \in Configs : object'[o] = NewObject(conf)
    BY <2>1, NoObjectIsNew
  <2>3. made' \in 0..MaxObjects /\ hooks' \in [HookIds -> (1..made') \cup {Nobody}]
    BY <2>1, Parameters DEF NoHooks
  <2>4. object' = [o \in Objects |-> object'[o]]
    BY <2>1
  <2>5. SavedAgrees'
    BY <2>1 DEF SavedAgrees
  <2> QED
    BY <1>2, <2>1, <2>2, <2>3, <2>4, <2>5
<1> QED
  BY <1>3, <1>4 DEF RestartWebhooks

-----------------------------------------------------------------------------
(* The theorems *)

LEMMA NextInv ==
  ASSUME WebhookAssumption, Inv, [WebhookNext]_webhookVars
  PROVE  Inv'
<1> USE DEF onDisk, tests
<1>1. CASE UNCHANGED webhookVars
  <2>1. ErrorsOK'
    BY <1>1 DEF webhookVars, ErrorsOK, Inv, WebhookTypeOK
  <2> QED
    BY <1>1, <2>1 DEF webhookVars, Inv, WebhookTypeOK, PostInv, StampInv
<1>2. CASE ClockTicks
  <2>1. clock' = clock + 1 /\ clock' \in RateLimit..(RateLimit + MaxClock) /\ clock \in Nat
        /\ UNCHANGED <<registry, traffic, tests, triggers, restarts>>
    BY <1>2, Parameters, SMTT(60) DEF ClockTicks, Inv, WebhookTypeOK
  <2>2. StampInv'
    <3>1. ASSUME NEW t \in Nat, t <= clock
          PROVE  t <= clock'
      BY <2>1, <3>1
    <3>2. pending' = pending /\ callers' = callers
      BY <2>1 DEF traffic
    <3>3. \A i \in DOMAIN pending' : pending'[i] \in Nat /\ pending'[i] <= clock
      <4>1. pending \in Seq(Nat) /\ \A i \in DOMAIN pending : pending[i] <= clock
        BY DEF Inv, WebhookTypeOK, StampInv
      <4> QED
        BY <3>2, <4>1
    <3>4. \A i \in DOMAIN callers' : callers'[i] \in Nat /\ callers'[i] <= clock
      <4>1. callers \in Seq(Nat) /\ \A i \in DOMAIN callers : callers[i] <= clock
        BY DEF Inv, WebhookTypeOK, StampInv
      <4> QED
        BY <3>2, <4>1
    <3>5. event' # Nobody => event' \in Nat /\ event' <= clock
      BY <2>1 DEF Inv, WebhookTypeOK, StampInv, traffic
    <3>6. \A o \in Objects : /\ sentAt'[o] \in Nat /\ sentAt'[o] <= clock
                             /\ sentAt'[o] <= object'[o].last
                             /\ o > made' => sentAt'[o] = 0
      BY <2>1 DEF Inv, WebhookTypeOK, StampInv, registry
    <3> QED
      BY <3>1, <3>3, <3>4, <3>5, <3>6 DEF StampInv
  <2>3. ErrorsOK'
    BY <2>1 DEF ErrorsOK, Inv, WebhookTypeOK, registry, traffic
  <2> QED
    BY <2>1, <2>2, <2>3 DEF Inv, WebhookTypeOK, PostInv, registry, traffic
<1>3. ASSUME NEW h \in HookIds, NotFound(h) PROVE Inv'
  BY <1>1, <1>3 DEF NotFound
<1>4. CASE LoopWaits
  BY <1>1, <1>4 DEF LoopWaits
<1> QED
  BY <1>1, <1>2, <1>3, <1>4, RegistryStep, RefusedStep, QueueStep, TestStep, TurnStep,
     AnswerStep, RestartStep
     DEF WebhookNext, Turn

\* What does not touch the file or what it is to hold leaves them agreeing.
LEMMA SavedStay ==
  ASSUME WebhookAssumption, Inv, SavedAgrees, UNCHANGED <<hooks, onDisk>>,
         \A o \in Objects : object'[o].conf = object[o].conf
  PROVE  SavedAgrees'
<1> SUFFICES ASSUME ~unsaved, NEW h \in HookIds
             PROVE  (IF hooks[h] = Nobody THEN saved[h] = Nobody ELSE SavedAs(saved[h], hooks[h]))'
  BY DEF SavedAgrees, onDisk
<1>1. hooks[h] # Nobody => hooks[h] \in Objects
  BY ObjectsInUse DEF Inv
<1>2. IF hooks[h] = Nobody THEN saved[h] = Nobody ELSE SavedAs(saved[h], hooks[h])
  BY DEF SavedAgrees
<1> QED
  BY <1>1, <1>2 DEF SavedAs, onDisk

\* Whoever changes what is to be saved saves it, but for a refused update.
LEMMA SavedStep ==
  ASSUME WebhookAssumption, Inv, SavedAgrees, [WebhookNext]_webhookVars
  PROVE  SavedAgrees'
<1> USE DEF registry
<1>0. object \in [Objects -> Fields] /\ clock \in Nat
  BY TypesInUse DEF Inv
<1>1. ASSUME UNCHANGED <<hooks, object, onDisk>>
      PROVE  SavedAgrees'
  BY <1>1, SavedStay
<1>2. ASSUME Persist(hooks, object'), UNCHANGED hooks
      PROVE  SavedAgrees'
  BY <1>2, ContentsAgree DEF Persist
<1>3. ASSUME NEW o \in Objects, Failed(o), UNCHANGED <<hooks, onDisk>>
      PROVE  SavedAgrees'
  <2>1. \A q \in Objects : object'[q].conf = object[q].conf
    BY <1>0, <1>3, FailedSend DEF Becomes
  <2> QED
    BY <1>3, <2>1, SavedStay
<1>4. ASSUME NEW q \in Objects, Skip(q) \/ LoopDies(q) \/ Disable(q) \/ Post(q)
      PROVE  SavedAgrees'
  BY <1>1, <1>2, <1>4 DEF Skip, LoopDies, Disable, Post
<1>5. ASSUME NEW q \in Objects, TestSucceeds(q) \/ TestFails(q) \/ TestFailsUncounted(q)
      PROVE  SavedAgrees'
  BY <1>1, <1>2, <1>3, <1>5
     DEF TestSucceeds, TestFails, TestFailsUncounted, TestAnswered, Delivered
<1>6. CASE Answer
  <2>1. posting \in Objects
    BY <1>6, ObjectsInUse
       DEF Answer, PostSucceeds, PostFails, PostRefused, PostFailsUncounted, Answered, Inv
  <2> QED
    BY <1>1, <1>2, <1>3, <1>6, <2>1
       DEF Answer, PostSucceeds, PostFails, PostRefused, PostFailsUncounted, Answered, Delivered
<1>7. ASSUME \/ Trigger \/ CallerPuts \/ TakeEvent \/ Dispatched \/ LoopWaits \/ ClockTicks
             \/ UNCHANGED webhookVars \/ \E h \in HookIds : Test(h) \/ NotFound(h)
      PROVE  SavedAgrees'
  <2>1. ASSUME UNCHANGED webhookVars PROVE UNCHANGED <<hooks, object, onDisk>>
    BY <2>1 DEF webhookVars, onDisk
  <2>2. UNCHANGED <<hooks, object, onDisk>>
    BY <1>7, <2>1 DEF Trigger, CallerPuts, TakeEvent, Dispatched, LoopWaits, ClockTicks,
                      Test, NotFound
  <2> QED
    BY <1>1, <2>2
<1> QED
  BY <1>4, <1>5, <1>6, <1>7, RegistryStep, RefusedStep, RestartStep DEF WebhookNext, Turn

\* What the loop delivers is an event it may post.
LEMMA DeliveredWhenAnswered ==
  ASSUME WebhookAssumption, Inv, NEW o \in Objects, DeliveredByLoop(o)
  PROVE  event # Nobody /\ event >= sentAt[o] + RateLimit
<1>1. posting = o /\ posting # Nobody /\ posting' = Nobody
      /\ object'[o].successes > object[o].successes
  <2>1. o # Nobody
    BY Parameters DEF Objects
  <2> QED
    BY <2>1 DEF DeliveredByLoop
<1> QED
  BY <1>1 DEF Inv, PostInv

\* Types, whatever is registered, triggered, tested and answered; a webhook has
\* no more errors than the threshold and the calls of the test route.
THEOREM WebhookTypeCorrect == WebhookSpec => []WebhookTypeOK
<1>1. WebhookInit => Inv
  BY InitInv, WebhookAssumption
<1>2. Inv /\ [WebhookNext]_webhookVars => Inv'
  BY NextInv, WebhookAssumption
<1>3. Inv => WebhookTypeOK
  BY DEF Inv
<1> QED
  BY <1>1, <1>2, <1>3, PTL DEF WebhookSpec

\* Deliveries of events to one webhook keep the rate limit, for any limit,
\* however long the events waited and whatever the test route sends meanwhile.
THEOREM DeliveriesKeepTheirDistance == WebhookSpec => RateLimited
<1>1. WebhookInit => Inv
  BY InitInv, WebhookAssumption
<1>2. Inv /\ [WebhookNext]_webhookVars => Inv'
  BY NextInv, WebhookAssumption
<1>3. Inv /\ [WebhookNext]_webhookVars
      => [\A o \in Objects :
            DeliveredByLoop(o) => clock >= sentAt[o] + RateLimit]_webhookVars
  <2> SUFFICES ASSUME Inv, WebhookNext, NEW o \in Objects, DeliveredByLoop(o)
               PROVE  clock >= sentAt[o] + RateLimit
    OBVIOUS
  <2>1. event # Nobody /\ event >= sentAt[o] + RateLimit
    BY DeliveredWhenAnswered, WebhookAssumption
  <2>2. event \in Nat /\ event <= clock /\ sentAt[o] \in Nat /\ clock \in Nat /\ RateLimit \in Nat
    BY <2>1, Parameters, WebhookAssumption, TypesInUse DEF Inv, WebhookTypeOK, StampInv
  <2> QED
    BY <2>1, <2>2
<1> QED
  BY <1>1, <1>2, <1>3, PTL DEF WebhookSpec, RateLimited

\* A restart finds the webhooks as they were, but for the name of one whose
\* update was refused, unless a write or the reading had failed; for any
\* webhooks and however often the process is restarted.
THEOREM FileIsTheRegistry == WebhookSpec => []SavedAgrees
<1>1. WebhookInit => Inv /\ SavedAgrees
  BY InitInv, WebhookAssumption
<1>2. Inv /\ SavedAgrees /\ [WebhookNext]_webhookVars => Inv' /\ SavedAgrees'
  BY NextInv, SavedStep, WebhookAssumption
<1> QED
  BY <1>1, <1>2, PTL DEF WebhookSpec

-----------------------------------------------------------------------------
(* All parts *)

\* The link to the gateway and the webhooks of one instance keep their types, whichever of
\* the parts moves: none changes the state of another.
THEOREM OutTypes == OutSpec => []OutTypeOK
<1>1. OutInit => LinkInit /\ WebhookInit
  BY DEF OutInit
<1>2. [OutNext]_outVars => [LinkNext]_linkVars /\ [WebhookNext]_webhookVars
  BY DEF OutNext, OfLogs, OfCommands, OfWebhooks, outVars
<1>3. OutSpec => LinkSpec
  BY <1>1, <1>2, PTL DEF OutSpec, LinkSpec
<1>4. OutSpec => WebhookSpec
  BY <1>1, <1>2, PTL DEF OutSpec, WebhookSpec
<1>5. LinkTypeOK /\ WebhookTypeOK <=> OutTypeOK
  BY DEF OutTypeOK
<1> QED BY <1>3, <1>4, <1>5, LinkTypeCorrect, WebhookTypeCorrect, PTL
=============================================================================
