SPECIFICATION ListSpec
CONSTANTS
  Lock = {main, unknown, a, b}
  Main = main
  Unknown = unknown
  IdleLock = {}
  Timeouts <- MCTimeouts
  UnknownTimeout = 1
  LongHalf = 3
  TimerSlack = 1
  main = main
  unknown = unknown
  a = a
  b = b
PROPERTY
  ImplementsWakeLock
SYMMETRY DriverSymmetry
