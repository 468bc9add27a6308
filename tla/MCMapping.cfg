\* the code's curves on four devices, one with more cores than a mask has room for, in a fixed point of eight bits, from any input to any other
SPECIFICATION MappingSpec
CONSTANTS
  One = 256
  Units = 1000
  Quant = 64
  RootBits = 14
  CpuSetSize = 6
  BaseLim <- MCBaseLim
  Devices <- MCDevices
  Demands <- MCDemands
  Velocities <- MCVelocities
  Scales <- MCScales
  Levels <- MCLevels
  Baselines <- MCBaselines
INVARIANTS
  InLimits
  KeepsOffFastCores
PROPERTIES
  PullsOneWay
