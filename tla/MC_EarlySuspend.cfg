SPECIFICATION EarlySuspendFairSpec
CONSTANTS
  blank = blank
  draw = draw
  draw2 = draw2
  fb = fb
  Handler <- MCHandler
  Level <- MCLevel
  HasSuspend <- MCHasSuspend
  HasResume <- MCHasResume
INVARIANTS
  HandlersFollowState
  MainReleasedOnlyAsleep
  LevelOrder
  RequestNotLost
PROPERTY
  RequestTakesEffect
