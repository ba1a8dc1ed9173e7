SPECIFICATION OutSpec
CONSTANTS
  http = http  file = file
  NoTarget = NoTarget
  Targets = {http, file}
  QueueSize = 2
  BatchSize = 2
  RetryCount = 2
  MaxEmitted = 4
  m1 = m1  m2 = m2  a1 = a1
  NoItem = NoItem
  Messages = {m1, m2, a1}
  Asking = {a1}
  QueueLimit = 1
  TryLimit = 2
  FirstDelay = 1
  MaxDelay = 2
  MaxOutages = 2
  MaxStops = 1
  h1 = h1
  Nobody = Nobody
  HookIds = {h1}
  n1 = n1  n2 = n2
  Names = {n1, n2}
  MaxTests = 1
  EventQueueSize = 1
  RateLimit = 1
  Threshold = 2
  ClientErrors = 2
  MaxObjects = 2
  MaxTriggers = 3
  MaxClock = 1
  MaxRestarts = 1
INVARIANT TypeOK
INVARIANT KeepsNewest
PROPERTY InOrder
PROPERTY RoundEnds
INVARIANT OutTypeOK
INVARIANT EachCommandOnce
PROPERTY GivenUpForAReason
PROPERTY LinkRecovers
PROPERTY EveryCommandEnds
INVARIANT SavedAgrees
PROPERTY RateLimited
PROPERTY EventsDrain
