\* both builds, active or dormant, with late wake-ups, EINTRs and slow runs, as the reactor's handler
SPECIFICATION GovernorFairSpec
CONSTANTS
  SigFd = SigFd
  NoFd = NoFd
  Fds = {f1}
  FirstWake = 1
  MaxWake = 2
  StepsPerMs = 1
  MaxLate = 1
  MaxIntr = 1
  Setups <- MCSetups
  MinPoll = 1
  MaxPoll = 2
  TransPoll = 1
  SuspendWake = 2
  DispChk = 2
  Grace = 1
  BatChk = 1
  ThermChk = 1
  SweepIvl = 1
  PsiBase = 1
  PsiCap = 2
  PsiFailMax = 2
  TempFailMax = 1
  Panels = {p1, p2}
  CalcTimes = {1}
  SweepTimes = {0}
  LitCap = 6
INVARIANTS
  GovernorTypeOK
  ResumeInTime
  ThermalFallback
  ThermalMapped
  TriggerWatched
PROPERTIES
  SuspendAfterGrace
  FilterRestarts
  ImplementsReactor
  TriggerRearmed
CHECK_DEADLOCK FALSE
