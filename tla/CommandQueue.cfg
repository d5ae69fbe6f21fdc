SPECIFICATION FairSpec
CONSTANTS
  main = main
  cron = cron
  a = a
  b = b
  c = c
  Lanes <- MCLanes
  Tasks <- MCTasks
  LaneOf <- MCLaneOf
  Concurrency <- MCConcurrency
  MaxResets = 1
INVARIANTS
  Accounted
  ActiveIsCurrent
  NoIdleBacklog
  DrainedIsTrue
PROPERTIES
  StartsWithinLimit
  ImplementsService
