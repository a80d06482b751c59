SPECIFICATION FreezerFairSpec
CONSTANTS
  shell = shell
  app = app
  kthread = kthread
  cgroup = cgroup
  root = root
  Task <- MCTask
  Kthread <- MCKthread
  Group <- MCGroup
  Root <- root
INVARIANTS
  AllQuiet
  NobodyForgotten
  RequestNoticed
PROPERTIES
  FrozenGroupsSpared
  EventuallyThawed
