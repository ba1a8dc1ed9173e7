SPECIFICATION AllSpec
CONSTANTS
  d1 = d1  d2 = d2
  modbus1 = modbus1  modbus2 = modbus2  opcua1 = opcua1  opcua2 = opcua2
  c1 = c1  c2 = c2  c3 = c3
  None = None
  Ids = {d1, d2}
  Configs <- OpcuaConfigs
  Protocols <- AllProtocols
  Protocol <- ProtocolOfOpcua
  SlowProtocols = {"opcua"}
  Calls = {c1, c2}
  Ops <- AllOps
  OneCallPerId = TRUE
  DbMayFail = TRUE
  k1 = k1
  Nobody = Nobody
  Hosted = {d1, d2}
  Creates = {k1}
  Starts = {c1, c2}
  MaxAttempts = 2
  Suspends = TRUE
  HasSequence = TRUE
  CallsTakeTurns = TRUE
  p1 = p1  p2 = p2
  Devices = {boiler}
  Pushers = {p1, p2}
  Ports = {1, 2}
  Absent = Absent
  NoDevice = NoDevice
  MaxLate = 1
  Writers = {c1, c2}
  Deletions = {x1}
  Import = Import
  ImportRows = 2
  Keys = {d1, d2}
  MaxRequests = 2
  Second = 2
  Window = 2
  CleanupInterval = 3
  Never = Never
  LastTime = 4
SYMMETRY Interchangeable
INVARIANT AcknowledgedSurvives
INVARIANT UpdatesMatch
INVARIANT StartedIsServed
INVARIANT MirrorTypeOK
INVARIANT RegisteredStays
INVARIANT MirrorAgrees
INVARIANT AnswersAreTrue
INVARIANT WindowKept
INVARIANT RetrySuffices
