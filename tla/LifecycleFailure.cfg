SPECIFICATION Spec
CONSTANTS
  f1 = f1
  f2 = f2
  Faults <- MCFaults
  MinStartup = 2
  StopDuration = 2
  MaxAge = 3
  RawEvents <- ManagedEvents
PROPERTY FailureReachesError
