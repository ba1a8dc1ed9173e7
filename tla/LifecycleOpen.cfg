SPECIFICATION Spec
CONSTANTS
  f1 = f1
  f2 = f2
  Faults <- MCFaults
  MinStartup = 2
  StopDuration = 0
  MaxAge = 3
  RawEvents <- AllEvents
PROPERTY RunOnlyAfterStartup
PROPERTY KeepsStatusPromise
