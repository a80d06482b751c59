SPECIFICATION PowerSpec
CONSTANTS
  main = main
  unknown = unknown
  sync = sync
  modem = modem
  work = work
  nobody = nobody
  screen = screen
  Lock = {main, unknown, sync, modem}
  Main = main
  Unknown = unknown
  Sync = sync
  IdleLock = {}
  Timeouts = {1}
  UnknownTimeout = 1
  LongHalf = 2
  TimerSlack = 0
  Caller = {work}
  UserCaller = {}
  Work = work
  NoCaller = nobody
  Speed = {800}
  Handler = {screen}
  Level <- MCLevel
  HasSuspend = {screen}
  HasResume = {screen}
CONSTRAINT Bounded
INVARIANTS
  ScreenOffAsleep
  OnlyFreshLocksAsleep
PROPERTY
  ImplementsComponents
