SPECIFICATION WakeLockFairSpec
CONSTANTS
  Lock = {main, unknown, a, b}
  Main = main
  Unknown = unknown
  IdleLock = {b}
  Timeouts <- MCTimeouts
  UnknownTimeout = 1
  LongHalf = 4
  TimerSlack = 1
  main = main
  unknown = unknown
  a = a
  b = b
INVARIANTS
  TimerCoversTimeouts
  SuspendNotLost
  PreventingIsCharged
PROPERTY
  SuspendRetried
