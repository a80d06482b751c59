SPECIFICATION SuspendSpec
CONSTANTS
  work = work
  apm = apm
  nobody = nobody
  Caller <- MCCaller
  UserCaller <- MCUserCaller
  Speed <- MCSpeed
  NoCaller <- nobody
INVARIANTS
  SleepsOnlyQuiesced
  NestedUnwinding
  AllGivenBack
