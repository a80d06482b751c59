SPECIFICATION BinderSpec
CONSTANTS
  client = client
  server = server
  c1 = c1
  s1 = s1
  s2 = s2
  t1 = t1
  t2 = t2
  Proc = {client, server}
  Thread = {c1, s1, s2}
  ProcOf <- MCProcOf
  Tx = {t1, t2}
  Complete = Complete
  NULL = NULL
CONSTRAINT OneConfirmation
SYMMETRY Symmetry
CHECK_DEADLOCK FALSE
INVARIANTS
  StacksSound
  CallersAnswered
  WakeupsNotLost
  OneWayInTurn
