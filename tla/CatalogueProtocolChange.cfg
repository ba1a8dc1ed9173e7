SPECIFICATION Spec
CONSTANTS
  d1 = d1  d2 = d2
  modbus1 = modbus1  modbus2 = modbus2  opcua1 = opcua1  opcua2 = opcua2
  c1 = c1  c2 = c2  c3 = c3
  None = None
  Ids = {d1}
  Configs <- AllConfigs
  Protocols <- AllProtocols
  Protocol <- ProtocolOfAll
  SlowProtocols = {"opcua"}
  Calls = {c1, c2}
  Ops <- AllOps
  OneCallPerId = TRUE
  DbMayFail = TRUE
INVARIANT AcknowledgedSurvives
