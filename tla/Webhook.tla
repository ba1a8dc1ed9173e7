------------------------------ MODULE Webhook ------------------------------
(***************************************************************************)
(* Webhooks: registered through the REST API, kept in a file, and sent by  *)
(* one loop that takes events from a bounded queue                         *)
(* (integrations/webhook.py).                                              *)
(*                                                                         *)
(* The calls of the API that change the registry are synchronous and       *)
(* atomic.  The loop suspends in each POST, and goes on with the           *)
(* WebhookConfig objects it has listed before, whatever has become of the  *)
(* webhooks meanwhile: a removed object is still sent to, and one that is  *)
(* added again is another object.  The test route sends to an object       *)
(* beside the loop, and asks neither for its rate limit nor for its        *)
(* errors.                                                                 *)
(***************************************************************************)
EXTENDS Naturals, Sequences, FiniteSets

CONSTANTS
  HookIds,        \* ids of webhooks
  Names,          \* names of webhooks
  EventQueueSize, \* queue_maxsize
  RateLimit,      \* rate_limit_seconds
  Threshold,      \* auto_disable_threshold
  ClientErrors,   \* the 3 of _dispatch: errors after which a 4xx disables
  MaxObjects,     \* bound: WebhookConfig objects made in one run of the process
  MaxTriggers,    \* bound: calls of trigger()
  MaxTests,       \* bound: calls of the test route
  MaxClock,       \* bound: the clock
  MaxRestarts,    \* bound: restarts of the process
  Nobody          \* no object, no webhook, no event

ASSUME WebhookAssumption ==
  /\ IsFiniteSet(HookIds) /\ Names # {}
  /\ {EventQueueSize, RateLimit, Threshold, ClientErrors, MaxObjects} \subseteq Nat \ {0}
  /\ {MaxTriggers, MaxTests, MaxClock, MaxRestarts} \subseteq Nat
  /\ Nobody \notin Nat

VARIABLES
  clock,     \* time.time(); it begins at RateLimit, long after 0
  hooks,     \* _webhooks: the object of each id
  object,    \* fields of the WebhookConfig objects
  made,      \* objects made so far
  sentAt,    \* history: when the loop last delivered to each object
  saved,     \* webhooks.json
  unsaved,   \* history: the last write of webhooks.json, or its reading, failed
  misnamed,  \* history: objects renamed by a refused update since the last write
  pending,   \* _queue: the timestamps of the events
  callers,   \* trigger() calls that wait in _queue.put
  event,     \* timestamp of the event _dispatch is at work on
  listed,    \* its list of webhooks, those it has not come to yet
  posting,   \* the object whose POST has not been answered yet
  alive,     \* the task of _send_loop has not ended
  testing,   \* POSTs of the test route under way, by object
  tested,    \* calls of the test route so far
  triggers, restarts

webhookVars == <<clock, hooks, object, made, sentAt, saved, unsaved, misnamed,
                 pending, callers, event, listed, posting, alive, testing, tested,
                 triggers, restarts>>
onDisk == <<saved, unsaved, misnamed>>
registry == <<hooks, object, made, sentAt, onDisk>>
traffic == <<pending, callers, event, listed, posting, alive>>
tests == <<testing, tested>>

Objects == 1..MaxObjects

\* What is saved. The url, the headers and the secret are set and saved together
\* with the events; of the events it only matters here whether they are a list
\* or, since the routes take any JSON, null.
Configs == [name : Names, events : {"list", "null"}, enabled : BOOLEAN]

Fields == [conf : Configs, errors : Nat, successes : Nat, last : Nat]

\* Every webhook is subscribed to every event: one that is not is passed over
\* as a disabled one is.
NewObject(conf) == [conf |-> conf, errors |-> 0, successes |-> 0, last |-> 0]
NoObject == NewObject([name |-> CHOOSE n \in Names : TRUE, events |-> "list",
                       enabled |-> TRUE])

NoHooks == [h \in HookIds |-> Nobody]

\* The loop sends to an object only while it has fewer errors than the
\* threshold: what is over the threshold has come from the test route.
ErrorsOK ==
  \A o \in Objects :
    /\ testing[o] <= tested
    /\ object[o].errors + testing[o] + (IF posting = o THEN 1 ELSE 0)
         <= Threshold + tested

WebhookTypeOK ==
  /\ clock \in RateLimit..(RateLimit + MaxClock)
  /\ made \in 0..MaxObjects
  /\ hooks \in [HookIds -> (1..made) \cup {Nobody}]
  /\ object \in [Objects -> Fields] /\ sentAt \in [Objects -> Nat]
  /\ saved \in [HookIds -> Configs \cup {Nobody}]
  /\ unsaved \in BOOLEAN /\ misnamed \subseteq 1..made
  /\ pending \in Seq(Nat) /\ Len(pending) <= EventQueueSize
  /\ callers \in Seq(Nat)
  /\ event \in Nat \cup {Nobody}
  /\ listed \subseteq 1..made
  /\ posting \in listed \cup {Nobody}
  /\ event = Nobody => listed = {}
  /\ alive \in BOOLEAN
  /\ testing \in [Objects -> Nat] /\ tested \in 0..MaxTests
  /\ ErrorsOK
  /\ triggers \in 0..MaxTriggers /\ restarts \in 0..MaxRestarts

WebhookInit ==
  /\ clock = RateLimit
  /\ hooks = NoHooks
  /\ object = [o \in Objects |-> NoObject]
  /\ made = 0 /\ sentAt = [o \in Objects |-> 0]
  /\ saved = NoHooks
  /\ unsaved = FALSE /\ misnamed = {}
  /\ pending = <<>> /\ callers = <<>>
  /\ event = Nobody /\ listed = {} /\ posting = Nobody /\ alive = TRUE
  /\ testing = [o \in Objects |-> 0] /\ tested = 0
  /\ triggers = 0 /\ restarts = 0

-----------------------------------------------------------------------------
(* The registry *)

Contents(table, fields) ==
  [h \in HookIds |-> IF table[h] = Nobody THEN Nobody ELSE fields[table[h]].conf]

\* _persist swallows every error of the write, which may leave an empty file.
Persist(table, fields) ==
  \/ /\ saved' = Contents(table, fields)
     /\ unsaved' = FALSE /\ misnamed' = {}
  \/ /\ saved' \in {saved, NoHooks}
     /\ unsaved' = TRUE /\ UNCHANGED misnamed

AddWebhook(h, conf) ==
  /\ made < MaxObjects
  /\ made' = made + 1
  /\ object' = [object EXCEPT ![made'] = NewObject(conf)]
  /\ hooks' = [hooks EXCEPT ![h] = made']
  /\ Persist(hooks', object')
  /\ UNCHANGED <<clock, sentAt, traffic, tests, triggers, restarts>>

RemoveWebhook(h) ==
  /\ hooks[h] # Nobody
  /\ hooks' = [hooks EXCEPT ![h] = Nobody]
  /\ Persist(hooks', object)
  /\ UNCHANGED <<clock, object, made, sentAt, traffic, tests, triggers, restarts>>

\* The object is changed in place; its errors are kept.
UpdateWebhook(h, conf) ==
  /\ hooks[h] # Nobody
  /\ object' = [object EXCEPT ![hooks[h]].conf = conf]
  /\ Persist(hooks, object')
  /\ UNCHANGED <<clock, hooks, made, sentAt, traffic, tests, triggers, restarts>>

\* The name is set before the url is looked at, and stays when that is refused.
\* (When the name is the one it has, nothing changes.)
UpdateRefused(h, name) ==
  /\ hooks[h] # Nobody
  /\ object[hooks[h]].conf.name # name
  /\ object' = [object EXCEPT ![hooks[h]].conf.name = name]
  /\ misnamed' = misnamed \cup {hooks[h]}
  /\ UNCHANGED <<clock, hooks, made, sentAt, saved, unsaved, traffic, tests,
                 triggers, restarts>>

\* An update, a removal or a test of an id that is not there answers 404.
NotFound(h) == hooks[h] = Nobody /\ UNCHANGED webhookVars

\* The event is stamped before put(), which waits while the queue is full.
Trigger ==
  /\ triggers < MaxTriggers /\ triggers' = triggers + 1
  /\ IF Len(pending) < EventQueueSize
       THEN pending' = Append(pending, clock) /\ UNCHANGED callers
       ELSE callers' = Append(callers, clock) /\ UNCHANGED pending
  /\ UNCHANGED <<clock, registry, event, listed, posting, alive, tests, restarts>>

CallerPuts ==
  /\ callers # <<>> /\ Len(pending) < EventQueueSize
  /\ pending' = Append(pending, Head(callers)) /\ callers' = Tail(callers)
  /\ UNCHANGED <<clock, registry, event, listed, posting, alive, tests, triggers,
                 restarts>>

-----------------------------------------------------------------------------
(* _send_single, called by the loop and by the test route *)

Delivered(o) ==
  /\ object' = [object EXCEPT ![o].successes = @ + 1, ![o].last = clock]
  /\ Persist(hooks, object')

\* A network error, or an answer of 400 and more.
Failed(o) == object' = [object EXCEPT ![o].errors = @ + 1]

-----------------------------------------------------------------------------
(* The test route *)

Test(h) ==
  /\ hooks[h] # Nobody
  /\ tested < MaxTests /\ tested' = tested + 1
  /\ testing' = [testing EXCEPT ![hooks[h]] = @ + 1]
  /\ UNCHANGED <<clock, registry, traffic, triggers, restarts>>

TestAnswered(o) ==
  /\ testing[o] > 0
  /\ testing' = [testing EXCEPT ![o] = @ - 1]
  /\ UNCHANGED <<clock, hooks, made, sentAt, traffic, tested, triggers, restarts>>

TestSucceeds(o) == TestAnswered(o) /\ Delivered(o)

\* Whatever the answer, nothing here disables the webhook.
TestFails(o) == TestAnswered(o) /\ Failed(o) /\ UNCHANGED onDisk

\* Other exceptions of the client, or of the signature, are not counted.
TestFailsUncounted(o) == TestAnswered(o) /\ UNCHANGED <<object, onDisk>>

-----------------------------------------------------------------------------
(* The loop *)

TakeEvent ==
  /\ alive /\ event = Nobody /\ pending # <<>>
  /\ event' = Head(pending) /\ pending' = Tail(pending)
  /\ listed' = {hooks[h] : h \in HookIds} \ {Nobody}
  /\ UNCHANGED <<clock, registry, callers, posting, alive, tests, triggers, restarts>>

\* The loop comes to the next object of its list. (event # Nobody then.)
AtObject(o) == o \in listed /\ posting = Nobody

\* The event is compared with the last success, by the time it was triggered.
Due(o) ==
  /\ object[o].conf.enabled /\ object[o].conf.events = "list"
  /\ event >= object[o].last + RateLimit

Skip(o) ==
  /\ AtObject(o)
  /\ \/ ~object[o].conf.enabled
     \/ object[o].conf.events = "list" /\ ~Due(o)
  /\ listed' = listed \ {o}
  /\ UNCHANGED <<clock, registry, pending, callers, event, posting, alive, tests,
                 triggers, restarts>>

\* Looking for the event in null raises TypeError, which ends the task.
LoopDies(o) ==
  /\ AtObject(o)
  /\ object[o].conf.enabled /\ object[o].conf.events = "null"
  /\ alive' = FALSE /\ event' = Nobody /\ listed' = {}
  /\ UNCHANGED <<clock, registry, pending, callers, posting, tests, triggers, restarts>>

\* Broken: the disabling is not saved; the threshold is not looked at.
DisableUnsaved(o) ==
  /\ AtObject(o) /\ Due(o) /\ object[o].errors >= Threshold
  /\ object' = [object EXCEPT ![o].conf.enabled = FALSE]
  /\ listed' = listed \ {o}
  /\ UNCHANGED <<clock, hooks, made, sentAt, onDisk, pending, callers, event, posting,
                 alive, tests, triggers, restarts>>
PostPastThreshold(o) ==
  /\ AtObject(o) /\ Due(o)
  /\ posting' = o
  /\ UNCHANGED <<clock, registry, pending, callers, event, listed, alive, tests,
                 triggers, restarts>>

Disable(o) ==
  /\ AtObject(o) /\ Due(o) /\ object[o].errors >= Threshold
  /\ object' = [object EXCEPT ![o].conf.enabled = FALSE]
  /\ Persist(hooks, object')
  /\ listed' = listed \ {o}
  /\ UNCHANGED <<clock, hooks, made, sentAt, pending, callers, event, posting, alive,
                 tests, triggers, restarts>>

Post(o) ==
  /\ AtObject(o) /\ Due(o) /\ object[o].errors < Threshold
  /\ posting' = o
  /\ UNCHANGED <<clock, registry, pending, callers, event, listed, alive, tests,
                 triggers, restarts>>

\* Broken: the object is tried again.
AnsweredRetrying ==
  /\ posting # Nobody
  /\ posting' = Nobody
  /\ UNCHANGED <<clock, hooks, made, pending, callers, event, listed, alive, tests,
                 triggers, restarts>>

Answered ==
  /\ posting # Nobody
  /\ posting' = Nobody /\ listed' = listed \ {posting}
  /\ UNCHANGED <<clock, hooks, made, pending, callers, event, alive, tests, triggers,
                 restarts>>

\* Broken: the time of the event is kept instead of the time of the delivery.
PostSucceedsStamped ==
  /\ Answered
  /\ object' = [object EXCEPT ![posting].successes = @ + 1, ![posting].last = event]
  /\ sentAt' = [sentAt EXCEPT ![posting] = clock]
  /\ Persist(hooks, object')

PostSucceeds ==
  /\ Answered
  /\ Delivered(posting)
  /\ sentAt' = [sentAt EXCEPT ![posting] = clock]

\* Not an answer of 400 to 499, or too few errors by now, those of the test
\* route among them.
PostFails ==
  /\ Answered
  /\ Failed(posting)
  /\ UNCHANGED <<sentAt, onDisk>>

\* An answer of 400 to 499.
PostRefused ==
  /\ Answered
  /\ object[posting].errors + 1 >= ClientErrors
  /\ object' = [object EXCEPT ![posting].errors = @ + 1,
                              ![posting].conf.enabled = FALSE]
  /\ Persist(hooks, object')
  /\ UNCHANGED sentAt

PostFailsUncounted ==
  /\ Answered
  /\ UNCHANGED <<object, sentAt, onDisk>>

Dispatched ==
  /\ event # Nobody /\ listed = {}
  /\ event' = Nobody
  /\ UNCHANGED <<clock, registry, pending, callers, listed, posting, alive, tests,
                 triggers, restarts>>

\* Nothing in the queue for a second: the loop asks again.
LoopWaits ==
  /\ alive /\ event = Nobody /\ pending = <<>>
  /\ UNCHANGED webhookVars

-----------------------------------------------------------------------------
(* Time, and the process *)

ClockTicks ==
  /\ clock < RateLimit + MaxClock
  /\ clock' = clock + 1
  /\ UNCHANGED <<registry, traffic, tests, triggers, restarts>>

\* The objects of the webhooks in the file, numbered in any order.
Restore ==
  LET restored == {h \in HookIds : saved[h] # Nobody} IN
    \E place \in [HookIds -> Objects \cup {Nobody}] :
      /\ \A h \in HookIds : place[h] # Nobody <=> h \in restored
      /\ {place[h] : h \in restored} = 1..Cardinality(restored)
      /\ hooks' = place
      /\ made' = Cardinality(restored)
      /\ object' = [o \in Objects |->
                      IF \E h \in restored : place[h] = o
                      THEN NewObject(saved[CHOOSE h \in restored : place[h] = o])
                      ELSE NoObject]
      /\ unsaved' = FALSE

\* _restore swallows every error.
RestoreFails ==
  /\ hooks' = NoHooks /\ made' = 0
  /\ object' = [o \in Objects |-> NoObject]
  /\ unsaved' = TRUE

\* stop() or a crash, and start() of the next process, which reads the file.
\* What was queued and under way is gone, and so are the counters.
RestartWebhooks ==
  /\ restarts < MaxRestarts /\ restarts' = restarts + 1
  /\ Restore \/ RestoreFails
  /\ sentAt' = [o \in Objects |-> 0] /\ misnamed' = {}
  /\ pending' = <<>> /\ callers' = <<>>
  /\ event' = Nobody /\ listed' = {} /\ posting' = Nobody /\ alive' = TRUE
  /\ testing' = [o \in Objects |-> 0]
  /\ UNCHANGED <<clock, saved, tested, triggers>>

-----------------------------------------------------------------------------
(* The specification *)

Answer == PostSucceeds \/ PostFails \/ PostRefused \/ PostFailsUncounted
Turn == \E o \in Objects : Skip(o) \/ LoopDies(o) \/ Disable(o) \/ Post(o)

WebhookNext ==
  \/ \E h \in HookIds :
       \/ \E conf \in Configs : AddWebhook(h, conf) \/ UpdateWebhook(h, conf)
       \/ \E name \in Names : UpdateRefused(h, name)
       \/ RemoveWebhook(h) \/ NotFound(h) \/ Test(h)
  \/ \E o \in Objects : TestSucceeds(o) \/ TestFails(o) \/ TestFailsUncounted(o)
  \/ Trigger \/ CallerPuts
  \/ TakeEvent \/ Turn \/ Answer \/ Dispatched \/ LoopWaits
  \/ ClockTicks \/ RestartWebhooks

WebhookSpec == WebhookInit /\ [][WebhookNext]_webhookVars

\* The loop goes on, for every POST ends by its timeout, and the event loop
\* resumes a put() that can go on.
HookLoop == TakeEvent \/ Turn \/ Answer \/ Dispatched
WebhookFairSpec ==
  WebhookSpec /\ WF_webhookVars(HookLoop) /\ WF_webhookVars(CallerPuts)

-----------------------------------------------------------------------------
(* Properties *)

DeliveredByLoop(o) ==
  /\ posting = o /\ posting' = Nobody
  /\ object'[o].successes > object[o].successes

\* Two successful deliveries of events by one WebhookConfig are at least
\* RateLimit apart, although the limit is applied to the time an event was
\* triggered, events wait for the loop, and the test route sets the time of the
\* last success too (_dispatch, _send_single). Deliveries by the test route
\* itself are not limited.
RateLimited ==
  [][\A o \in Objects :
       DeliveredByLoop(o) => clock >= sentAt[o] + RateLimit]_webhookVars

\* The row of the file is that of the object; the name may be older, when the
\* last one came with a refused update.
SavedAs(row, o) ==
  \/ row = object[o].conf
  \/ o \in misnamed /\ row \in Configs /\ object[o].conf = [row EXCEPT !.name = object[o].conf.name]

\* Unless its last write failed, the file holds the webhooks as they are in
\* memory, those included that the loop has disabled: a restart neither revives
\* a disabled webhook nor forgets one. The exception is the name of a webhook
\* whose update was refused (_persist, _restore, update_webhook).
SavedAgrees ==
  ~unsaved => \A h \in HookIds :
    IF hooks[h] = Nobody THEN saved[h] = Nobody ELSE SavedAs(saved[h], hooks[h])

\* Until a webhook with null for its events ends the loop (LoopDies): whatever
\* the receivers answer, and whoever adds and removes webhooks, the loop comes
\* to the end of what was triggered, and no caller of trigger() waits for ever
\* for a place in the queue.
Drained == pending = <<>> /\ callers = <<>> /\ event = Nobody
EventsDrain == []<>(Drained \/ ~alive)
=============================================================================
