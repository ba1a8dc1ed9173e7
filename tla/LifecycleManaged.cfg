SPECIFICATION FairSpec
CONSTANTS
  f1 = f1
  f2 = f2
  Faults <- MCFaults
  MinStartup = 2
  StopDuration = 2
  MaxAge = 3
  RawEvents <- ManagedEvents
INVARIANT TypeOK
INVARIANT ErrorIsUncleared
INVARIANT TimerIsOfThisSequence
PROPERTY SequenceRunsToItsEnd
PROPERTY StartupEnds
PROPERTY StoppingEnds
