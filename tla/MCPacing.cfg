SPECIFICATION PacingSpec
CONSTANTS
  One = 1024
  RootBits = 15
  MinPoll = 100
  MaxPoll = 1000
  Grow = 200
  Tolerance = 200
  Round = 50
  Percent = 5
  TransPoll = 50
  Cfg <- MCCfg
  Readings <- MCReadings
  Steady <- MCSteady
  Lateness = {0, 200, 202}
  MaxRuns = 2
PROPERTIES
  PaceKept
  Settles
  Rests
