-------------------------- MODULE EdgeLitePushProofs --------------------------
(***************************************************************************)
(* Theorems about EdgeLitePush, for any devices, tasks, ports and number   *)
(* of late requests.                                                       *)
(***************************************************************************)
EXTENDS EdgeLitePush, TLAPS

TaskTypes ==
  [todo : SUBSET Devices, device : Devices \cup {NoDevice}, port : Ports \cup {Absent},
   pc : {"idle", "starting", "posting", "putting", "deleting", "reposting", "cleaning"}]

\* A task has a device and a port exactly while it pushes.
LegalTasks == {t \in TaskTypes :
  (t.pc = "idle" <=> t.device = NoDevice) /\ (t.pc # "idle" => t.port \in Ports)}

PushTypeInv == PushTypeOK /\ tasks \in [Pushers -> LegalTasks]

\* No device is pushed by two tasks, and while one pushes it no report counts.
ReportInv ==
  /\ \A p \in Pushers : \A q \in Pushers \ {p} :
       tasks[p].device # NoDevice => tasks[q].device # tasks[p].device
  /\ \A p \in Pushers : tasks[p].device # NoDevice => report[tasks[p].device] = Absent
  /\ RegisteredStays

Calm == orderly /\ ~lossy

\* What clients that take their time and a network that loses nothing guarantee:
\* only devices that exist are pushed, and a device is absent when it is posted
\* again.
CalmInv ==
  /\ late = {} /\ created \subseteq present /\ removals \cap present = {}
  /\ \A p \in Pushers :
       /\ tasks[p].todo \subseteq present
       /\ tasks[p].device # NoDevice => tasks[p].device \in present
       /\ tasks[p].pc # "cleaning"
       /\ tasks[p].pc = "reposting" => edge[tasks[p].device] = Absent

MirrorInv == Calm => CalmInv /\ MirrorAgrees
-----------------------------------------------------------------------------
(* Types *)

\* A task that pushes has a device, a port and a request or the server to wait for.
LEMMA TaskFacts ==
  ASSUME PushTypeInv, NEW p \in Pushers
  PROVE  /\ tasks[p] \in LegalTasks /\ tasks[p] \in TaskTypes
         /\ tasks[p].todo \subseteq Devices
         /\ tasks[p].device \in Devices \cup {NoDevice}
         /\ tasks[p].pc = "idle" <=> tasks[p].device = NoDevice
         /\ tasks[p].pc # "idle" => tasks[p].device \in Devices /\ tasks[p].port \in Ports
BY DEF PushTypeInv, LegalTasks, TaskTypes

\* A step of one task leaves the others alone.
LEMMA OneTask ==
  ASSUME PushTypeInv, NEW p \in Pushers, NEW t \in LegalTasks, tasks' = [tasks EXCEPT ![p] = t]
  PROVE  /\ tasks' \in [Pushers -> LegalTasks] /\ tasks'[p] = t
         /\ \A q \in Pushers \ {p} : tasks'[q] = tasks[q]
BY DEF PushTypeInv

\* What a task can become.
LEMMA LegalFacts ==
  ASSUME PushAssumption, NEW t \in LegalTasks, NEW S \in SUBSET Devices, NEW d \in Devices,
         NEW q \in Ports
  PROVE  /\ [NoPush EXCEPT !.todo = S] \in LegalTasks
         /\ [t EXCEPT !.todo = S] \in LegalTasks
         /\ \A pc \in {"starting", "posting"} :
              [todo |-> S, device |-> d, port |-> q, pc |-> pc] \in LegalTasks
         /\ t.pc # "idle" =>
              \A pc \in {"posting", "putting", "deleting", "reposting", "cleaning"} :
                [t EXCEPT !.pc = pc] \in LegalTasks
BY DEF PushAssumption, LegalTasks, TaskTypes, NoPush

LEMMA AssignedFacts ==
  ASSUME PushAssumption, PushTypeInv, NEW p \in Pushers, NEW S \in SUBSET Devices, Assigned(p, S)
  PROVE  /\ tasks' \in [Pushers -> LegalTasks]
         /\ tasks[p].device = NoDevice /\ tasks[p].todo = {}
         /\ tasks'[p] = [NoPush EXCEPT !.todo = S]
         /\ tasks'[p].device = NoDevice /\ tasks'[p].todo = S /\ tasks'[p].pc = "idle"
         /\ \A q \in Pushers \ {p} : tasks'[q] = tasks[q]
<1>1. [NoPush EXCEPT !.todo = S] \in LegalTasks
  BY DEF PushAssumption, LegalTasks, TaskTypes, NoPush
<1>2. tasks[p].device = NoDevice /\ tasks[p].todo = {}
  BY DEF Assigned, NoPush
<1>3. /\ [NoPush EXCEPT !.todo = S].device = NoDevice
      /\ [NoPush EXCEPT !.todo = S].todo = S
      /\ [NoPush EXCEPT !.todo = S].pc = "idle"
  BY DEF NoPush
<1> QED
  BY <1>1, <1>2, <1>3, OneTask DEF Assigned

\* A device that is locked is passed over, any other one is begun.
LEMMA BeginFacts ==
  ASSUME PushAssumption, PushTypeInv, NEW p \in Pushers, NEW d \in Devices, Begin(p, d)
  PROVE  /\ tasks' \in [Pushers -> LegalTasks]
         /\ \A q \in Pushers \ {p} : tasks'[q] = tasks[q]
         /\ tasks[p].device = NoDevice /\ tasks[p].pc = "idle" /\ d \in tasks[p].todo
         /\ tasks'[p].todo = tasks[p].todo \ {d}
         /\ \/ Locked(d) /\ tasks'[p].device = NoDevice /\ tasks'[p].pc = "idle"
               /\ UNCHANGED report
            \/ /\ ~Locked(d) /\ tasks'[p].device = d
               /\ tasks'[p].pc \in {"starting", "posting"}
               /\ report' = [report EXCEPT ![d] = Absent]
<1> DEFINE t == tasks[p]
           passed == [t EXCEPT !.todo = @ \ {d}]
           begun == [todo |-> t.todo \ {d}, device |-> d, port |-> port,
                     pc |-> IF listening = "running" THEN "posting" ELSE "starting"]
<1>1. /\ t \in LegalTasks /\ t \in TaskTypes /\ t.todo \subseteq Devices
      /\ t.device = NoDevice /\ t.pc = "idle" /\ d \in t.todo
  BY TaskFacts DEF Begin
<1>2. passed \in LegalTasks /\ begun \in LegalTasks
  <2>1. passed = [t EXCEPT !.todo = t.todo \ {d}]
    BY <1>1
  <2>2. port \in Ports
    BY DEF PushTypeInv, PushTypeOK
  <2>3. t.todo \ {d} \in SUBSET Devices
    BY <1>1
  <2> HIDE DEF t
  <2> QED
    BY <1>1, <2>1, <2>2, <2>3, LegalFacts
<1>3. /\ passed.todo = t.todo \ {d} /\ passed.device = NoDevice /\ passed.pc = "idle"
      /\ begun.todo = t.todo \ {d} /\ begun.device = d /\ begun.pc \in {"starting", "posting"}
  <2> HIDE DEF t
  <2> QED
    BY <1>1 DEF TaskTypes
<1>4. CASE Locked(d)
  <2>1. tasks' = [tasks EXCEPT ![p] = passed] /\ UNCHANGED report
    <3>1. tasks' = [tasks EXCEPT ![p].todo = @ \ {d}] /\ UNCHANGED report
      BY <1>4 DEF Begin
    <3> QED
      BY <3>1
  <2> HIDE DEF passed, begun
  <2> QED
    BY <1>1, <1>2, <1>3, <1>4, <2>1, OneTask
<1>5. CASE ~Locked(d)
  <2>1. tasks' = [tasks EXCEPT ![p] = begun] /\ report' = [report EXCEPT ![d] = Absent]
    <3>1. tasks' = [tasks EXCEPT ![p] =
               [todo |-> @.todo \ {d}, device |-> d, port |-> port,
                pc |-> IF listening = "running" THEN "posting" ELSE "starting"]]
           /\ report' = [report EXCEPT ![d] = Absent]
      BY <1>5 DEF Begin
    <3> QED
      BY <3>1
  <2> HIDE DEF passed, begun
  <2> QED
    BY <1>1, <1>2, <1>3, <1>5, <2>1, OneTask
<1> QED
  BY <1>4, <1>5

\* A task that goes on is still busy with its device.
LEMMA GoesFacts ==
  ASSUME PushAssumption, PushTypeInv, NEW p \in Pushers, tasks[p].pc # "idle",
         NEW pc \in {"posting", "putting", "deleting", "reposting", "cleaning"}, Goes(p, pc)
  PROVE  /\ tasks' \in [Pushers -> LegalTasks]
         /\ \A q \in Pushers \ {p} : tasks'[q] = tasks[q]
         /\ tasks'[p].todo = tasks[p].todo /\ tasks'[p].device = tasks[p].device
         /\ tasks'[p].pc = pc
<1> DEFINE t == [tasks[p] EXCEPT !.pc = pc]
<1>1. tasks[p] \in LegalTasks /\ tasks[p] \in TaskTypes
  BY TaskFacts
<1>2. t \in LegalTasks
  BY <1>1 DEF LegalTasks, TaskTypes
<1>3. t.todo = tasks[p].todo /\ t.device = tasks[p].device /\ t.pc = pc
  BY <1>1 DEF TaskTypes
<1>4. tasks' = [tasks EXCEPT ![p] = t]
  BY DEF Goes
<1> HIDE DEF t
<1> QED
  BY <1>2, <1>3, <1>4, OneTask

\* A task whose push is over has no device.
LEMMA EndsFacts ==
  ASSUME PushAssumption, PushTypeInv, NEW p \in Pushers, Ends(p)
  PROVE  /\ tasks' \in [Pushers -> LegalTasks]
         /\ \A q \in Pushers \ {p} : tasks'[q] = tasks[q]
         /\ tasks'[p].todo = tasks[p].todo /\ tasks'[p].device = NoDevice
         /\ tasks'[p].pc = "idle"
<1> DEFINE t == [NoPush EXCEPT !.todo = tasks[p].todo]
<1>1. tasks[p].todo \subseteq Devices
  BY TaskFacts
<1>2. t \in LegalTasks
  BY <1>1 DEF PushAssumption, LegalTasks, TaskTypes, NoPush
<1>3. t.todo = tasks[p].todo /\ t.device = NoDevice /\ t.pc = "idle"
  BY DEF NoPush
<1>4. tasks' = [tasks EXCEPT ![p] = t]
  BY DEF Ends
<1> HIDE DEF t
<1> QED
  BY <1>2, <1>3, <1>4, OneTask

\* How a request moves its task: on, to a failure, or to a success, which has
\* registered the device.
Moves(p) ==
  \/ /\ \E pc \in {"putting", "deleting", "reposting", "cleaning"} : Goes(p, pc)
     /\ UNCHANGED report
  \/ Fails(p)
  \/ Succeeds(p) /\ Register(tasks[p].device, tasks[p].port)

\* What a request does to the registrations.
PushAnswers(p) ==
  LET d == tasks[p].device
      q == tasks[p].port IN
  /\ edge' = edge \/ Register(d, q) \/ Register(d, Absent)
  /\ \/ late' = late
     \/ lossy /\ \E op \in {"post", "put", "delete"} :
                    late' = late \cup {[op |-> op, device |-> d, port |-> q]}

\* The requests on a network that loses nothing. A push fails only where the
\* device that is posted again is there already.
Reliable(p) ==
  LET d == tasks[p].device IN
  \/ /\ tasks[p].pc = "posting" /\ edge[d] # Absent
     /\ edge' = edge /\ Goes(p, "putting") /\ UNCHANGED report
  \/ tasks[p].pc = "putting" /\ edge' = edge /\ Goes(p, "deleting") /\ UNCHANGED report
  \/ tasks[p].pc = "deleting" /\ Register(d, Absent) /\ Goes(p, "reposting") /\ UNCHANGED report
  \/ tasks[p].pc = "reposting" /\ edge[d] # Absent /\ edge' = edge /\ Fails(p)
  \/ Register(d, tasks[p].port) /\ Succeeds(p)
  \/ tasks[p].pc = "cleaning"

LEMMA RequestFacts ==
  ASSUME PushTypeInv, NEW p \in Pushers, Request(p)
  PROVE  /\ tasks[p].pc \notin {"idle", "starting"}
         /\ UNCHANGED <<environment, engine, removals>>
         /\ Moves(p) /\ PushAnswers(p)
         /\ ~lossy => UNCHANGED late /\ Reliable(p)
<1>1. CASE Post(p)
  BY <1>1, Zenon DEF Post, Moves, PushAnswers, Reliable, Unanswered
<1>2. CASE Put(p)
  BY <1>2, Zenon DEF Put, Moves, PushAnswers, Reliable, Unanswered
<1>3. CASE DeleteStale(p)
  BY <1>3, Zenon DEF DeleteStale, Moves, PushAnswers, Reliable, Unanswered
<1>4. CASE Repost(p)
  BY <1>4, Zenon DEF Repost, Moves, PushAnswers, Reliable, Unanswered
<1>5. CASE CleanUp(p)
  BY <1>5, Zenon DEF CleanUp, Moves, PushAnswers, Reliable, Unanswered
<1> QED
  BY <1>1, <1>2, <1>3, <1>4, <1>5 DEF Request

\* Every step keeps the types.
LEMMA PushNextType ==
  ASSUME PushAssumption, PushTypeInv, [PushNext]_pushVars
  PROVE  PushTypeInv'
<1> USE DEF PushTypeInv, PushTypeOK
<1>1. CASE UNCHANGED pushVars
  BY <1>1 DEF pushVars, environment, engine
<1>2. ASSUME NEW d \in Devices, EngineCreates(d) \/ EngineRemoves(d)
      PROVE  PushTypeInv'
  BY <1>2 DEF EngineCreates, EngineRemoves, environment
<1>3. ASSUME NEW d \in Devices, Remove(d)
      PROVE  PushTypeInv'
  <2>1. /\ UNCHANGED <<environment, engine, tasks>> /\ removals' = removals \ {d}
        /\ report' = [report EXCEPT ![d] = Absent]
        /\ edge' = edge \/ edge' = [edge EXCEPT ![d] = Absent]
        /\ late' = late \/ \E q \in Ports :
                             late' = late \cup {[op |-> "delete", device |-> d, port |-> q]}
    BY <1>3, Zenon DEF Remove, Register, Unanswered
  <2>2. late' \subseteq Requests
    BY <2>1 DEF Requests
  <2> QED
    BY <2>1, <2>2 DEF environment, engine
<1>4. CASE EngineStartsServer \/ EngineStopsServer
  BY <1>4 DEF EngineStartsServer, EngineStopsServer, environment
<1>5. ASSUME NEW p \in Pushers, NEW d \in Devices, HandleCreated(p, d) \/ RequestPush(p, d)
      PROVE  PushTypeInv'
  <2>1. \E S \in SUBSET Devices : Assigned(p, S)
    BY <1>5 DEF HandleCreated, RequestPush
  <2>2. tasks' \in [Pushers -> LegalTasks]
    BY <2>1, AssignedFacts
  <2>3. created' \subseteq Devices
    BY <1>5 DEF HandleCreated, RequestPush, engine
  <2> QED
    BY <1>5, <2>2, <2>3 DEF HandleCreated, RequestPush, environment, engine, LegalTasks, TaskTypes
<1>6. ASSUME NEW p \in Pushers, HandleStarted(p)
      PROVE  PushTypeInv'
  <2>1. tasks' \in [Pushers -> LegalTasks]
    BY <1>6, AssignedFacts DEF HandleStarted
  <2> QED
    BY <1>6, <2>1 DEF HandleStarted, environment, LegalTasks, TaskTypes
<1>7. ASSUME NEW p \in Pushers, NEW d \in Devices, Begin(p, d)
      PROVE  PushTypeInv'
  <2>1. tasks' \in [Pushers -> LegalTasks]
    BY <1>7, BeginFacts
  <2>2. report' = report \/ report' = [report EXCEPT ![d] = Absent]
    BY <1>7 DEF Begin
  <2>3. UNCHANGED <<environment, engine, edge, removals, late>>
    BY <1>7 DEF Begin
  <2> QED
    BY <2>1, <2>2, <2>3 DEF environment, engine, LegalTasks, TaskTypes
<1>8. ASSUME NEW p \in Pushers, AutoStart(p)
      PROVE  PushTypeInv'
  <2>1. tasks' \in [Pushers -> LegalTasks]
    BY <1>8, GoesFacts DEF AutoStart
  <2> QED
    BY <1>8, <2>1 DEF AutoStart, environment, LegalTasks, TaskTypes
<1>9. ASSUME NEW p \in Pushers, Request(p)
      PROVE  PushTypeInv'
  <2> DEFINE d == tasks[p].device
             q == tasks[p].port
  <2>1. d \in Devices /\ q \in Ports /\ tasks[p].pc # "idle"
    BY <1>9, RequestFacts, TaskFacts
  <2>2. tasks' \in [Pushers -> LegalTasks]
    <3>1. (\E pc \in {"putting", "deleting", "reposting", "cleaning"} : Goes(p, pc)) \/ Ends(p)
      BY <1>9, RequestFacts DEF Moves, Fails, Succeeds
    <3> QED
      <4>1. ASSUME NEW pc \in {"putting", "deleting", "reposting", "cleaning"}, Goes(p, pc)
            PROVE  tasks' \in [Pushers -> LegalTasks]
        <5>1. pc \in {"posting", "putting", "deleting", "reposting", "cleaning"}
          BY <4>1
        <5> QED
          BY <1>9, <2>1, <4>1, <5>1, GoesFacts, ZenonT(60)
      <4>2. CASE Ends(p)
        BY <1>9, <4>2, EndsFacts
      <4> QED
        BY <3>1, <4>1, <4>2
  <2>3. edge' \in [Devices -> Ports \cup {Absent}] /\ late' \subseteq Requests
    BY <1>9, <2>1, RequestFacts DEF PushAnswers, Register, Requests
  <2>4. report' = report \/ report' = [report EXCEPT ![d] = q]
    BY <1>9, RequestFacts DEF Moves, Fails, Succeeds
  <2>5. report' \in [Devices -> Ports \cup {Absent}]
    BY <2>1, <2>4
  <2> QED
    BY <1>9, <2>2, <2>3, <2>5, RequestFacts DEF environment, engine, LegalTasks, TaskTypes
<1>10. ASSUME NEW r \in late, LateEffect(r)
       PROVE  PushTypeInv'
  <2>1. r.device \in Devices /\ r.port \in Ports
    BY DEF Requests
  <2> QED
    BY <1>10, <2>1 DEF LateEffect, Register, environment, engine
<1> QED
  BY <1>1, <1>2, <1>3, <1>4, <1>5, <1>6, <1>7, <1>8, <1>9, <1>10 DEF PushNext

LEMMA PushInitType == PushAssumption /\ PushInit => PushTypeInv
<1>1. NoPush \in LegalTasks /\ NoPush.pc = "idle" /\ NoPush.device = NoDevice
  BY DEF NoPush, LegalTasks, TaskTypes
<1>2. LegalTasks \subseteq TaskTypes
  BY DEF LegalTasks
<1>3. ASSUME PushInit
      PROVE  /\ tasks \in [Pushers -> LegalTasks] /\ tasks \in [Pushers -> TaskTypes]
             /\ \A p \in Pushers : tasks[p].pc = "idle" /\ tasks[p].device = NoDevice
  BY <1>1, <1>2, <1>3 DEF PushInit
<1>4. ASSUME PushInit
      PROVE  PushTypeOK
  BY <1>3, <1>4 DEF PushInit, PushTypeOK, TaskTypes
<1> QED
  BY <1>3, <1>4 DEF PushTypeInv

\* A task that pushes has a device and a port, and an idle one has no device; the
\* registrations, reports and late requests keep their types.
THEOREM PushTypeCorrect == PushSpec => []PushTypeOK
<1>1. PushInit => PushTypeInv
  BY PushInitType, PushAssumption
<1>2. PushTypeInv /\ [PushNext]_pushVars => PushTypeInv'
  BY PushNextType, PushAssumption
<1>3. PushTypeInv => PushTypeOK
  BY DEF PushTypeInv
<1> QED
  BY <1>1, <1>2, <1>3, PTL DEF PushSpec

-----------------------------------------------------------------------------
(* A reported registration stays *)

\* A device that is pushed is pushed by one task and has no report.
LEMMA ReportStep ==
  ASSUME PushAssumption, PushTypeInv, ReportInv, [PushNext]_pushVars
  PROVE  ReportInv'
<1> USE DEF ReportInv, RegisteredStays
<1>1. ASSUME UNCHANGED <<edge, tasks, report>>
      PROVE  ReportInv'
  BY <1>1
<1>2. ASSUME NEW d \in Devices, UNCHANGED tasks, report' = [report EXCEPT ![d] = Absent],
             \A e \in Devices \ {d} : edge'[e] = edge[e]
      PROVE  ReportInv'
  <2>1. report'[d] = Absent /\ \A e \in Devices \ {d} : report'[e] = report[e]
    BY <1>2 DEF PushTypeInv, PushTypeOK
  <2>2. \A q \in Pushers : tasks[q].device # NoDevice => report'[tasks[q].device] = Absent
    BY <2>1, TaskFacts
  <2>3. \A e \in Devices : report'[e] # Absent => edge'[e] = report'[e]
    BY <1>2, <2>1
  <2> QED
    BY <1>2, <2>2, <2>3
<1>3. ASSUME NEW p \in Pushers, NEW S \in SUBSET Devices, Assigned(p, S),
             UNCHANGED <<edge, report>>
      PROVE  ReportInv'
  <2>1. tasks'[p].device = NoDevice /\ \A q \in Pushers \ {p} : tasks'[q] = tasks[q]
    BY <1>3, AssignedFacts
  <2>2. /\ \A q \in Pushers : \A r \in Pushers \ {q} :
             tasks'[q].device # NoDevice => tasks'[r].device # tasks'[q].device
        /\ \A q \in Pushers :
             tasks'[q].device # NoDevice => report'[tasks'[q].device] = Absent
    BY <1>3, <2>1
  <2> QED
    BY <1>3, <2>2
<1>4. ASSUME NEW p \in Pushers, NEW d \in Devices, Begin(p, d)
      PROVE  ReportInv'
  <2>1. UNCHANGED edge
    BY <1>4 DEF Begin
  <2>2. CASE tasks'[p].device = NoDevice /\ UNCHANGED report
    BY <1>4, <2>1, <2>2, BeginFacts
  <2>3. CASE ~Locked(d) /\ tasks'[p].device = d /\ report' = [report EXCEPT ![d] = Absent]
    <3>1. \A q \in Pushers \ {p} : tasks'[q].device # d /\ tasks'[q] = tasks[q]
      BY <1>4, <2>3, BeginFacts DEF Locked
    <3>2. report' \in [Devices -> Ports \cup {Absent}] /\ report'[d] = Absent
      BY <2>3 DEF PushTypeInv, PushTypeOK
    <3>3. \A e \in Devices \ {d} : report'[e] = report[e]
      BY <2>3 DEF PushTypeInv, PushTypeOK
    <3>4. \A q \in Pushers : tasks'[q].device # NoDevice => report'[tasks'[q].device] = Absent
      BY <2>3, <3>1, <3>2, <3>3, TaskFacts
    <3>5. \A q \in Pushers : \A r \in Pushers \ {q} :
            tasks'[q].device # NoDevice => tasks'[r].device # tasks'[q].device
      BY <2>3, <3>1
    <3> QED
      BY <2>1, <3>2, <3>3, <3>4, <3>5
  <2> QED
    BY <1>4, <2>2, <2>3, BeginFacts
<1>5. ASSUME NEW p \in Pushers, AutoStart(p)
      PROVE  ReportInv'
  BY <1>5, GoesFacts DEF AutoStart
<1>6. ASSUME NEW p \in Pushers, Request(p)
      PROVE  ReportInv'
  <2> DEFINE d == tasks[p].device
             q == tasks[p].port
  <2>1. d \in Devices /\ q \in Ports /\ d # NoDevice
    BY <1>6, RequestFacts, TaskFacts, PushAssumption DEF PushAssumption
  <2>2. \A r \in Pushers \ {p} : tasks[r].device # d
    BY <2>1
  <2>3. \A e \in Devices \ {d} : edge'[e] = edge[e]
    BY <1>6, RequestFacts DEF PushAnswers, Register, PushTypeInv, PushTypeOK
  <2>4. CASE (\E pc \in {"putting", "deleting", "reposting", "cleaning"} : Goes(p, pc))
             /\ UNCHANGED report
    <3>1. \A r \in Pushers : tasks'[r].device = tasks[r].device
      BY <1>6, <2>4, RequestFacts, GoesFacts
    <3>2. report[d] = Absent
      BY <2>1
    <3> QED
      BY <2>1, <2>3, <2>4, <3>1, <3>2
  <2>5. CASE Fails(p)
    <3>1. tasks'[p].device = NoDevice /\ \A r \in Pushers \ {p} : tasks'[r] = tasks[r]
      BY <2>5, EndsFacts DEF Fails
    <3>2. report[d] = Absent /\ UNCHANGED report
      BY <2>1, <2>5 DEF Fails
    <3> QED
      BY <2>3, <3>1, <3>2
  <2>6. CASE Succeeds(p) /\ Register(tasks[p].device, tasks[p].port)
    <3>1. tasks'[p].device = NoDevice /\ \A r \in Pushers \ {p} : tasks'[r] = tasks[r]
      BY <2>6, EndsFacts DEF Succeeds
    <3>2. report'[d] = q /\ edge'[d] = q /\ \A e \in Devices \ {d} : report'[e] = report[e]
      BY <2>1, <2>6 DEF Succeeds, Register, PushTypeInv, PushTypeOK
    <3>3. \A r \in Pushers : tasks'[r].device # NoDevice => report'[tasks'[r].device] = Absent
      BY <2>2, <3>1, <3>2, TaskFacts
    <3>4. \A e \in Devices : report'[e] # Absent => edge'[e] = report'[e]
      BY <2>3, <3>2
    <3> QED
      BY <3>1, <3>3, <3>4
  <2> QED
    BY <1>6, <2>4, <2>5, <2>6, RequestFacts DEF Moves
<1>7. ASSUME NEW d \in Devices, EngineCreates(d) \/ EngineRemoves(d) \/ Remove(d)
      PROVE  ReportInv'
  <2>1. CASE EngineCreates(d)
    BY <1>1, <2>1 DEF EngineCreates
  <2>2. CASE EngineRemoves(d)
    BY <1>2, <2>2 DEF EngineRemoves
  <2>3. CASE Remove(d)
    <3>1. \A e \in Devices \ {d} : edge'[e] = edge[e]
      BY <2>3 DEF Remove, Register, Unanswered, PushTypeInv, PushTypeOK
    <3> QED
      BY <1>2, <2>3, <3>1 DEF Remove
  <2> QED
    BY <1>7, <2>1, <2>2, <2>3
<1>8. ASSUME NEW r \in late, LateEffect(r)
      PROVE  ReportInv'
  <2>1. r.device \in Devices
    BY DEF PushTypeInv, PushTypeOK, Requests
  <2>2. \A e \in Devices \ {r.device} : edge'[e] = edge[e]
    BY <1>8, <2>1 DEF LateEffect, Register, PushTypeInv, PushTypeOK
  <2> QED
    BY <1>2, <1>8, <2>1, <2>2 DEF LateEffect
<1>9. ASSUME NEW p \in Pushers, NEW d \in Devices, HandleCreated(p, d) \/ RequestPush(p, d)
      PROVE  ReportInv'
  BY <1>3, <1>9 DEF HandleCreated, RequestPush
<1>10. ASSUME NEW p \in Pushers, HandleStarted(p)
       PROVE  ReportInv'
  BY <1>3, <1>10 DEF HandleStarted, PushTypeInv, PushTypeOK
<1>11. CASE UNCHANGED pushVars \/ EngineStartsServer \/ EngineStopsServer
  BY <1>1, <1>11 DEF pushVars, EngineStartsServer, EngineStopsServer
<1> QED
  BY <1>4, <1>5, <1>6, <1>7, <1>8, <1>9, <1>10, <1>11 DEF PushNext

\* A registration reported as done is on EdgeLite as it was reported until a later
\* push, a removal or a late request touches it, however pushes overlap and
\* whatever requests fail.
THEOREM ReportsHold == PushSpec => []RegisteredStays
<1>1. PushInit => PushTypeInv /\ ReportInv
  <2>1. PushInit => ReportInv
    BY DEF PushInit, ReportInv, RegisteredStays, NoPush
  <2> QED
    BY <2>1, PushInitType, PushAssumption
<1>2. PushTypeInv /\ ReportInv /\ [PushNext]_pushVars => PushTypeInv' /\ ReportInv'
  BY PushNextType, ReportStep, PushAssumption
<1>3. ReportInv => RegisteredStays
  BY DEF ReportInv
<1> QED
  BY <1>1, <1>2, <1>3, PTL DEF PushSpec

-----------------------------------------------------------------------------
(* The mirror agrees *)

\* In calm conditions a device with neither a push nor a removal under way or due
\* is registered exactly if it exists.
PushSettled(d) == ~PushDue(d) /\ d \notin removals => (edge[d] # Absent <=> d \in present)

\* Steps that touch neither registrations nor tasks.
LEMMA MirrorEngine ==
  ASSUME PushAssumption, PushTypeInv, MirrorInv, NEW d \in Devices,
         EngineCreates(d) \/ EngineRemoves(d)
  PROVE  MirrorInv'
<1> SUFFICES ASSUME Calm'
             PROVE  CalmInv' /\ MirrorAgrees'
  BY DEF MirrorInv
<1>1. Calm /\ CalmInv /\ \A e \in Devices : PushSettled(e)
  <2>1. UNCHANGED environment
    BY DEF EngineCreates, EngineRemoves
  <2> QED
    BY <2>1 DEF MirrorInv, Calm, MirrorAgrees, environment, PushSettled
<1>2. UNCHANGED <<edge, tasks, late, started>>
  BY DEF EngineCreates, EngineRemoves
<1>3. CASE EngineCreates(d)
  <2>1. CalmInv'
    BY <1>1, <1>2, <1>3 DEF EngineCreates, CalmInv, Calm
  <2>2. PushDue(d)'
    BY <1>3 DEF EngineCreates, PushDue
  <2>3. ASSUME NEW e \in Devices \ {d}
        PROVE  PushSettled(e)'
    BY <1>1, <1>2, <1>3 DEF EngineCreates, PushDue, PushSettled
  <2> QED
    BY <2>1, <2>2, <2>3 DEF MirrorAgrees, PushSettled
<1>4. CASE EngineRemoves(d)
  <2>1. CalmInv'
    BY <1>1, <1>2, <1>4, TaskFacts DEF EngineRemoves, CalmInv, Calm, PushDue
  <2>2. ASSUME NEW e \in Devices
        PROVE  PushSettled(e)'
    BY <1>1, <1>2, <1>4 DEF EngineRemoves, PushDue, PushSettled
  <2> QED
    BY <2>1, <2>2 DEF MirrorAgrees, PushSettled
<1> QED
  BY <1>3, <1>4

\* A device that is taken up or passed over stays due until it has been pushed.
LEMMA MirrorTasks ==
  ASSUME PushAssumption, PushTypeInv, MirrorInv, NEW p \in Pushers,
         UNCHANGED <<environment, present, edge, removals, late>>,
         tasks'[p].pc \notin {"reposting", "cleaning"},
         \A q \in Pushers \ {p} : tasks'[q] = tasks[q],
         created' \subseteq created,
         tasks'[p].todo \subseteq tasks[p].todo \cup present,
         tasks'[p].device \in {NoDevice, tasks[p].device} \cup tasks[p].todo,
         \A e \in Devices : PushDue(e) => PushDue(e)' \/ e \notin present
  PROVE  MirrorInv'
<1> SUFFICES ASSUME Calm'
             PROVE  CalmInv' /\ MirrorAgrees'
  BY DEF MirrorInv
<1>1. Calm /\ CalmInv /\ \A e \in Devices : PushSettled(e)
  BY DEF MirrorInv, Calm, MirrorAgrees, environment, PushSettled
<1>2. CalmInv'
  BY <1>1 DEF CalmInv
<1>3. \A e \in Devices : PushDue(e) => e \in present
  BY <1>1 DEF CalmInv, PushDue
<1>4. \A e \in Devices : PushSettled(e)'
  BY <1>1, <1>3 DEF PushSettled
<1> QED
  BY <1>2, <1>4 DEF MirrorAgrees, PushSettled

\* What the tasks do apart from their requests.
LEMMA MirrorWork ==
  ASSUME PushAssumption, PushTypeInv, MirrorInv, NEW p \in Pushers,
         \/ \E d \in Devices : HandleCreated(p, d) \/ RequestPush(p, d) \/ Begin(p, d)
         \/ HandleStarted(p) \/ AutoStart(p)
  PROVE  MirrorInv'
<1>1. UNCHANGED <<environment, present, edge, removals, late>>
  BY DEF HandleCreated, RequestPush, Begin, HandleStarted, AutoStart, engine
<1>2. ASSUME NEW S \in SUBSET Devices, Assigned(p, S), S \subseteq present,
             created' \subseteq created,
             \A e \in present : e \in created \/ started
                                => e \in created' \/ started' \/ e \in S
      PROVE  MirrorInv'
  <2>1. \A e \in Devices : PushDue(e) => PushDue(e)' \/ e \notin present
    <3> SUFFICES ASSUME NEW e \in Devices, PushDue(e), e \in present
                 PROVE  PushDue(e)'
      OBVIOUS
    <3>1. /\ tasks[p].todo = {} /\ tasks[p].device = NoDevice /\ tasks'[p].todo = S
          /\ \A q \in Pushers \ {p} : tasks'[q] = tasks[q]
      BY <1>2, AssignedFacts
    <3>2. ASSUME NEW q \in Pushers, e \in tasks[q].todo \cup {tasks[q].device}
          PROVE  PushDue(e)'
      <4>1. q # p
        BY <3>1, <3>2, PushAssumption DEF PushAssumption
      <4> QED
        BY <3>1, <3>2, <4>1 DEF PushDue
    <3>3. CASE e \in created \/ started
      BY <1>1, <1>2, <3>1, <3>3 DEF PushDue
    <3> QED
      BY <3>2, <3>3 DEF PushDue
  <2>2. /\ tasks'[p].pc = "idle" /\ tasks'[p].todo \subseteq tasks[p].todo \cup present
        /\ tasks'[p].device = NoDevice
        /\ \A q \in Pushers \ {p} : tasks'[q] = tasks[q]
    <3>1. /\ tasks[p].todo = {} /\ tasks'[p].todo = S
          /\ tasks'[p].pc = "idle" /\ tasks'[p].device = NoDevice
          /\ \A q \in Pushers \ {p} : tasks'[q] = tasks[q]
      BY <1>2, AssignedFacts
    <3> QED
      BY <1>2, <3>1
  <2> QED
    BY <1>1, <1>2, <2>1, <2>2, MirrorTasks
<1>3. ASSUME NEW d \in Devices, HandleCreated(p, d)
      PROVE  MirrorInv'
  BY <1>2, <1>3 DEF HandleCreated
<1>4. ASSUME NEW d \in Devices, RequestPush(p, d)
      PROVE  MirrorInv'
  BY <1>2, <1>4 DEF RequestPush, engine
<1>5. CASE HandleStarted(p)
  BY <1>2, <1>5 DEF HandleStarted, PushTypeInv, PushTypeOK
<1>6. ASSUME NEW d \in Devices, Begin(p, d)
      PROVE  MirrorInv'
  <2>1. UNCHANGED <<created, started>>
    BY <1>6 DEF Begin, engine
  <2>2. \A e \in Devices : PushDue(e) => PushDue(e)'
    <3> SUFFICES ASSUME NEW e \in Devices, PushDue(e)
                 PROVE  PushDue(e)'
      OBVIOUS
    <3>1. CASE e = d
      <4>1. CASE Locked(d)
        <5>1. PICK q \in Pushers : tasks[q].device = d
          BY <4>1 DEF Locked
        <5>2. q # p
          BY <1>6, <5>1, BeginFacts, PushAssumption DEF PushAssumption
        <5> QED
          BY <1>6, <3>1, <5>1, <5>2, BeginFacts DEF PushDue
      <4>2. CASE ~Locked(d)
        BY <1>6, <3>1, <4>2, BeginFacts DEF PushDue
      <4> QED
        BY <4>1, <4>2
    <3>2. CASE e # d
      <4>1. CASE e \in created \/ (started /\ e \in present)
        BY <1>1, <2>1, <4>1 DEF PushDue
      <4>2. ASSUME NEW q \in Pushers, e \in tasks[q].todo \cup {tasks[q].device}
            PROVE  e \in tasks'[q].todo \cup {tasks'[q].device}
        <5>1. CASE q = p
          BY <1>6, <3>2, <4>2, <5>1, BeginFacts, PushAssumption DEF PushAssumption
        <5>2. CASE q # p
          BY <1>6, <4>2, <5>2, BeginFacts
        <5> QED
          BY <5>1, <5>2
      <4> QED
        BY <4>1, <4>2 DEF PushDue
    <3> QED
      BY <3>1, <3>2
  <2>3. /\ tasks'[p].pc \in {"idle", "starting", "posting"}
        /\ tasks'[p].todo \subseteq tasks[p].todo
        /\ tasks'[p].device \in {NoDevice, tasks[p].device} \cup tasks[p].todo
        /\ \A q \in Pushers \ {p} : tasks'[q] = tasks[q]
    BY <1>6, BeginFacts
  <2> QED
    BY <1>1, <2>1, <2>2, <2>3, MirrorTasks
<1>7. CASE AutoStart(p)
  <2>1. /\ tasks'[p].pc = "posting" /\ tasks'[p].todo = tasks[p].todo
        /\ tasks'[p].device = tasks[p].device
        /\ \A q \in Pushers \ {p} : tasks'[q] = tasks[q]
    BY <1>7, GoesFacts DEF AutoStart
  <2>2. created' = created /\ (started => started')
    BY <1>7 DEF AutoStart
  <2>3. \A e \in Devices : PushDue(e) => PushDue(e)'
    BY <1>1, <2>1, <2>2 DEF PushDue
  <2> QED
    BY <1>1, <2>1, <2>2, <2>3, MirrorTasks
<1> QED
  BY <1>3, <1>4, <1>5, <1>6, <1>7

\* A removal whose DELETE arrives leaves no registration; nothing else arrives late.
LEMMA MirrorRemoval ==
  ASSUME PushAssumption, PushTypeInv, MirrorInv, NEW d \in Devices, Remove(d)
  PROVE  MirrorInv'
<1> SUFFICES ASSUME Calm'
             PROVE  CalmInv' /\ MirrorAgrees'
  BY DEF MirrorInv
<1>1. UNCHANGED <<environment, engine, tasks>>
  BY DEF Remove
<1>2. Calm /\ CalmInv /\ \A e \in Devices : PushSettled(e)
  BY <1>1 DEF MirrorInv, Calm, MirrorAgrees, environment, PushSettled
<1>3. Register(d, Absent) /\ UNCHANGED late /\ d \in removals /\ removals' = removals \ {d}
  BY <1>2 DEF Remove, Unanswered, Calm
<1>4. edge'[d] = Absent /\ \A e \in Devices \ {d} : edge'[e] = edge[e]
  BY <1>3 DEF Register, PushTypeInv, PushTypeOK
<1>5. CalmInv'
  <2>1. ASSUME NEW p \in Pushers, tasks[p].pc = "reposting"
        PROVE  edge'[tasks[p].device] = Absent
    BY <1>2, <1>4, <2>1, TaskFacts DEF CalmInv
  <2> QED
    BY <1>1, <1>2, <1>3, <2>1 DEF CalmInv, engine
<1>6. ASSUME NEW e \in Devices
      PROVE  PushSettled(e)'
  <2>1. CASE e = d
    BY <1>1, <1>2, <1>3, <1>4, <2>1 DEF PushSettled, CalmInv, engine
  <2>2. CASE e # d
    BY <1>1, <1>2, <1>3, <1>4, <2>2 DEF PushSettled, PushDue, engine
  <2> QED
    BY <2>1, <2>2
<1> QED
  BY <1>5, <1>6 DEF MirrorAgrees, PushSettled

\* A push ends with its device registered.
LEMMA MirrorRequest ==
  ASSUME PushAssumption, PushTypeInv, ReportInv, MirrorInv, NEW p \in Pushers, Request(p)
  PROVE  MirrorInv'
<1> DEFINE d == tasks[p].device
           q == tasks[p].port
<1> SUFFICES ASSUME Calm'
             PROVE  CalmInv' /\ MirrorAgrees'
  BY DEF MirrorInv
<1>1. UNCHANGED <<environment, engine, removals>> /\ tasks[p].pc \notin {"idle", "starting"}
  BY RequestFacts
<1>2. Calm /\ CalmInv /\ \A e \in Devices : PushSettled(e)
  BY <1>1 DEF MirrorInv, Calm, MirrorAgrees, environment, PushSettled
<1>3. UNCHANGED late /\ Reliable(p)
  BY <1>2, RequestFacts DEF Calm
<1>4. /\ d \in Devices /\ q \in Ports /\ d # NoDevice /\ q # Absent /\ d \in present
      /\ tasks[p].pc # "cleaning"
      /\ tasks[p].pc = "reposting" => edge[d] = Absent
  BY <1>1, <1>2, TaskFacts, PushAssumption DEF PushAssumption, CalmInv
<1>5. \A r \in Pushers \ {p} : tasks[r].device # d
  BY <1>4 DEF ReportInv
<1>6. ASSUME \A e \in Devices \ {d} : edge'[e] = edge[e],
             \A r \in Pushers \ {p} : tasks'[r] = tasks[r],
             tasks'[p].todo = tasks[p].todo,
             \/ /\ tasks'[p].device = d /\ tasks'[p].pc \in {"putting", "deleting"}
             \/ /\ tasks'[p].device = d /\ tasks'[p].pc = "reposting" /\ edge'[d] = Absent
             \/ /\ tasks'[p].device = NoDevice /\ tasks'[p].pc = "idle" /\ edge'[d] # Absent
      PROVE  CalmInv' /\ MirrorAgrees'
  <2>1. CalmInv'
    <3>1. ASSUME NEW r \in Pushers \ {p}, tasks[r].pc = "reposting"
          PROVE  edge'[tasks[r].device] = Absent
      BY <1>2, <1>5, <1>6, <3>1, TaskFacts DEF CalmInv
    <3>2. ASSUME NEW r \in Pushers
          PROVE  /\ tasks'[r].todo \subseteq present
                 /\ tasks'[r].device # NoDevice => tasks'[r].device \in present
                 /\ tasks'[r].pc # "cleaning"
                 /\ tasks'[r].pc = "reposting" => edge'[tasks'[r].device] = Absent
      <4>1. CASE r = p
        BY <1>2, <1>4, <1>6, <4>1 DEF CalmInv
      <4>2. CASE r # p
        BY <1>2, <1>6, <3>1, <4>2 DEF CalmInv
      <4> QED
        BY <4>1, <4>2
    <3> QED
      BY <1>1, <1>2, <1>3, <3>2 DEF CalmInv, engine
  <2>2. ASSUME NEW e \in Devices
        PROVE  PushSettled(e)'
    <3>1. CASE e = d
      <4>1. CASE tasks'[p].device = d
        BY <3>1, <4>1 DEF PushSettled, PushDue
      <4>2. CASE edge'[d] # Absent
        BY <1>1, <1>4, <3>1, <4>2 DEF PushSettled, engine
      <4> QED
        BY <1>6, <4>1, <4>2
    <3>2. CASE e # d
      <4>1. PushDue(e) => PushDue(e)'
        <5>1. CASE e \in created \/ (started /\ e \in present)
          BY <1>1, <5>1 DEF PushDue, engine
        <5>2. ASSUME NEW r \in Pushers, e \in tasks[r].todo \cup {tasks[r].device}
              PROVE  e \in tasks'[r].todo \cup {tasks'[r].device}
          <6>1. CASE r = p
            BY <1>6, <3>2, <5>2, <6>1
          <6>2. CASE r # p
            BY <1>6, <5>2, <6>2
          <6> QED
            BY <6>1, <6>2
        <5> QED
          BY <5>1, <5>2 DEF PushDue
      <4> QED
        BY <1>1, <1>2, <1>6, <3>2, <4>1 DEF PushSettled, engine
    <3> QED
      BY <3>1, <3>2
  <2> QED
    BY <2>1, <2>2 DEF MirrorAgrees, PushSettled
<1>7. ASSUME NEW pc \in {"putting", "deleting", "reposting"}, Goes(p, pc)
      PROVE  /\ \A r \in Pushers \ {p} : tasks'[r] = tasks[r]
             /\ tasks'[p].todo = tasks[p].todo /\ tasks'[p].device = d /\ tasks'[p].pc = pc
  BY <1>1, <1>7, GoesFacts
<1>8. ASSUME NEW x \in {q, Absent}, Register(d, x)
      PROVE  edge'[d] = x /\ \A e \in Devices \ {d} : edge'[e] = edge[e]
  BY <1>4, <1>8 DEF Register, PushTypeInv, PushTypeOK
<1>9. CASE edge' = edge /\ (Goes(p, "putting") \/ Goes(p, "deleting"))
  BY <1>6, <1>7, <1>9
<1>10. CASE Register(d, Absent) /\ Goes(p, "reposting")
  BY <1>6, <1>7, <1>8, <1>10
<1>11. CASE Register(d, q) /\ Succeeds(p)
  BY <1>4, <1>6, <1>8, <1>11, EndsFacts DEF Succeeds
<1> QED
  BY <1>3, <1>4, <1>9, <1>10, <1>11 DEF Reliable

LEMMA MirrorStep ==
  ASSUME PushAssumption, PushTypeInv, ReportInv, MirrorInv, [PushNext]_pushVars
  PROVE  MirrorInv'
<1>1. CASE UNCHANGED pushVars
  BY <1>1 DEF pushVars, environment, engine, MirrorInv, Calm, CalmInv, MirrorAgrees, PushDue
<1>2. ASSUME NEW d \in Devices, EngineCreates(d) \/ EngineRemoves(d) \/ Remove(d)
      PROVE  MirrorInv'
  BY <1>2, MirrorEngine, MirrorRemoval
<1>3. CASE EngineStartsServer \/ EngineStopsServer
  <2>1. /\ UNCHANGED <<environment, present, created, edge, tasks, removals, late>>
        /\ started => started'
    BY <1>3 DEF EngineStartsServer, EngineStopsServer
  <2>2. \A e \in Devices : Calm /\ PushSettled(e) => PushSettled(e)'
    BY <2>1 DEF PushSettled, PushDue
  <2>3. Calm' => Calm /\ CalmInv /\ CalmInv'
    BY <2>1 DEF Calm, environment, MirrorInv, CalmInv
  <2> QED
    BY <2>2, <2>3 DEF MirrorInv, MirrorAgrees, PushSettled, Calm
<1>4. ASSUME NEW p \in Pushers, NEW d \in Devices,
             HandleCreated(p, d) \/ RequestPush(p, d) \/ Begin(p, d)
      PROVE  MirrorInv'
  BY <1>4, MirrorWork
<1>5. ASSUME NEW p \in Pushers, HandleStarted(p) \/ AutoStart(p)
      PROVE  MirrorInv'
  BY <1>5, MirrorWork
<1>6. ASSUME NEW p \in Pushers, Request(p)
      PROVE  MirrorInv'
  BY <1>6, MirrorRequest
<1>7. ASSUME NEW r \in late, LateEffect(r)
      PROVE  MirrorInv'
  <2>1. late # {} /\ UNCHANGED environment
    BY <1>7 DEF LateEffect
  <2> QED
    BY <2>1 DEF MirrorInv, Calm, CalmInv, environment
<1> QED
  BY <1>1, <1>2, <1>3, <1>4, <1>5, <1>6, <1>7 DEF PushNext

\* With clients that remove a device between its pushes and a network that loses
\* nothing, EdgeLite mirrors the engine for any number of overlapping pushes.
THEOREM MirrorIsTrue == PushSpec => []MirrorAgrees
<1>1. PushInit => PushTypeInv /\ ReportInv /\ MirrorInv
  <2>1. PushInit => ReportInv
    BY DEF PushInit, ReportInv, RegisteredStays, NoPush
  <2>2. PushInit => MirrorInv
    <3>1. NoPush.todo = {} /\ NoPush.device = NoDevice /\ NoPush.pc = "idle"
      BY DEF NoPush
    <3> QED
      BY <3>1 DEF PushInit, MirrorInv, CalmInv, MirrorAgrees
  <2> QED
    BY <2>1, <2>2, PushInitType, PushAssumption
<1>2. PushTypeInv /\ ReportInv /\ MirrorInv /\ [PushNext]_pushVars
      => PushTypeInv' /\ ReportInv' /\ MirrorInv'
  BY PushNextType, ReportStep, MirrorStep, PushAssumption
<1>3. MirrorInv => MirrorAgrees
  BY DEF MirrorInv, MirrorAgrees, Calm
<1> QED
  BY <1>1, <1>2, <1>3, PTL DEF PushSpec
=============================================================================
