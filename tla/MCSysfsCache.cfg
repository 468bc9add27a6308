\* two candidate paths, both change detectors the governor uses, a kernel that may heal
SPECIFICATION FairSpec
CONSTANTS
  NoValue = NoValue
  NoFd = NoFd
  BackoffBase = 1
  BackoffMax = 2
  FailMax = 3
  Wrap = 6
  PerMille = 10
  NPaths = 2
  Values <- MCValues
  Strats <- MCStrats
  Kinds = {"ABS", "REL"}
  MaxValue = 2
INVARIANTS
  Tracking
  RestoreBringsBack
  BackoffReopens
PROPERTIES
  NoHammering
  Recovers
CHECK_DEADLOCK FALSE
