SPECIFICATION CpuFreqSpec
CONSTANTS
  touch = touch
  suspend = suspend
  launcher = launcher
  Token <- MCToken
  Launcher <- launcher
  SuspendToken <- suspend
  SuspendLevel = 5
  MaxLevel = 9
  InitLimit = 12
  InitIndex = 6
  LockLevel = {5}
  LauncherLevel = {4}
  BoostLevel = {7}
  MaxTime = 1
  Minima <- MCMinima
  Maxima <- MCMaxima
  StateTables <- MCStateTables
INVARIANTS
  LimitCoversLocks
  LauncherLockTimed
  VoltageCovers
  PllMatchesDivider
PROPERTY
  ImplementsDvfsLock
CONSTRAINT Together
