\* a bucket of two messages, samples up to twice the age at which the filter starts again
SPECIFICATION Spec
CONSTANTS
  Burst = 2
  RefillMs = 3
  DropMod = 2
  MinDt = 1
  Stale = 2
  Percent = 100
  Micros = 1000
  Slip = 16
  RateMax = 150
  MaxGap = 4
INVARIANTS
  FilterContinuous
PROPERTIES
  RateHonest
  ImplementsBucket
