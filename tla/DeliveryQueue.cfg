SPECIFICATION FairSpec
CONSTANTS
  d1 = d1
  Deliveries = {d1}
  MaxBoots = 2
  NumPayloads = 2
  Options <- MCOptions
  MaxRetries = 2
INVARIANTS
  TypeOK
  NothingLost
  LeftoverIsTimed
PROPERTIES
  RecoveryEnds
CHECK_DEADLOCK FALSE
