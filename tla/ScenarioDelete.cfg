SPECIFICATION Spec
CONSTANTS
  s1 = s1  s2 = s2  d1 = d1  d2 = d2  pump = pump  line = line
  None = None
  Scenarios = {s1}
  Devices = {d1, d2}
  Configs <- AllConfigs
  Members <- MembersOfAll
  Calls = {c1, c2}
  Orderly = TRUE
PROPERTY RefusedDeletionIsHarmless
