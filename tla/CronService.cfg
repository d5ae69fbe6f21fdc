SPECIFICATION FairSpec
CONSTANTS
  every = every
  at = at
  m1 = m1
  m2 = m2
  Jobs <- MCJobs
  OneShot <- MCOneShot
  DeleteAfterRun <- MCOneShot
  Initial <- MCInitial
  Manuals <- MCManuals
  AtTime = 1
  StuckAfter = 1
  Concurrency = 1
  MaxServices = 2
  MaxNow = 2
  MaxDisturbances = 2
INVARIANTS
  TypeOK
  NoOverlap
PROPERTIES
  EditsStick
  NoSilentSkip
  DueJobRuns
CHECK_DEADLOCK FALSE
