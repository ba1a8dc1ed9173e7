SPECIFICATION TickedSpec
CONSTANTS
  s1 = s1  s2 = s2  d1 = d1  d2 = d2  pump = pump  line = line
  None = None
  Scenarios = {s1, s2}
  Devices = {d1, d2}
  Configs <- AllConfigs
  Members <- MembersOfAll
  Calls = {c1, c2}
  Orderly = TRUE
  RuleDevices = {d1, d2}
  PlainRules <- MCPlainRules
  ChainRules <- MCChainRules
  Epoch = 2
  MaxTime = 2
  MaxStarts = 2
  Machines <- OneMachine
  Points = {"heat", "noise"}
  MaxRules = 2
  MaxAdded = 2
  MaxFaults = 2
INVARIANT RunningIsTicked
INVARIANT FailureLeavesNoDevice
PROPERTY StartEnds
INVARIANT TickedTypeOK
INVARIANT PausesKept
INVARIANT AtMostOneLateWrite
PROPERTY OncePerRecovery
INVARIANT MarkedHasFault
