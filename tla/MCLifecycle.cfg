\* two instances and two nodes, crashes and kills anywhere
SPECIFICATION Spec
CONSTANTS
  NoValue = NoValue
  NoFd = NoFd
  BackoffBase = 1
  BackoffMax = 1
  FailMax = 1
  Wrap = 4
  PerMille = 10
  Procs = {p1, p2}
  NoProc = NoProc
  NSinks = 2
  Values <- MCValues
  BootValues = {0}
  BootRetryMax = 1
SYMMETRY MCSymmetry
INVARIANTS
  BootValuesBack
  CapturesBoot
  HookStillOwns
