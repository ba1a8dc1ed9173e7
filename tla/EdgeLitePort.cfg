SPECIFICATION PushSpec
CONSTANTS
  Devices = {boiler}
  Pushers = {p1, p2}
  Ports = {1, 2}
  Absent = Absent
  NoDevice = NoDevice
  MaxLate = 1
INVARIANT PortFollows
