SPECIFICATION DeviceFairSpec
CONSTANTS
  host = host
  card = card
  conn = conn
  tty = tty
  none = none
  Device <- MCDevice
  Movable <- MCMovable
  NoDevice <- none
INVARIANTS
  OrderKept
  ChildrenAsleep
  NoneForgotten
PROPERTY
  EventuallyAwake
