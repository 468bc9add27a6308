\* two trigger descriptors, late wake-ups and EINTRs between runs of the handler
SPECIFICATION FairSpec
CONSTANTS
  SigFd = SigFd
  NoFd = NoFd
  Fds = {f1, f2}
  FirstWake = 1
  MaxWake = 3
  StepsPerMs = 2
  MaxLate = 3
  MaxIntr = 2
INVARIANTS
  DeadlineKept
PROPERTIES
  NoRunAfterShutdown
  SignalStops
  WakeArrives
CHECK_DEADLOCK FALSE
