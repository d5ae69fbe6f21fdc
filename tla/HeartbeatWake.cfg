SPECIFICATION FairSpec
CONSTANTS
  main = main
  other = other
  Targets <- MCTargets
  Priorities = {1, 2}
  Delays = {0, 1, 3}
  Retry = 2
  Coalesce = 1
  MaxHandlers = 2
  MaxRequests = 3
INVARIANTS
  TypeOK
  NoWakeLost
PROPERTIES
  CooldownKept
  WakeTaken
CHECK_DEADLOCK FALSE
