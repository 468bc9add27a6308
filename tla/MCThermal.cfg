SPECIFICATION Spec
CONSTANTS
  One = 128
  CpuSetSize = 1024
  NoFile = NoFile
  Priority <- MCPriority
  CpuLike = {"cpu", "soc_thermal", "apc", "ap-skin"}
  Denied = {"battery", "ap-skin"}
  MaxZones = 2
  MaxTrips = 2
  Stale = 30
  SatMax = 2
  Devices <- MCDevices
  Directories <- MCDirectories
  Temps <- MCTemps
  Velocities <- MCVelocities
  Batteries <- MCBatteries
  Gaps = {1, 31}
INVARIANTS
  HotRestricts
  GapForgets
  MeasuresBest
PROPERTIES
  SetPointTrusted
  Recovers
