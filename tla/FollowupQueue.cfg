SPECIFICATION FairSpec
CONSTANTS
  m1 = m1
  m2 = m2
  m3 = m3
  thread1 = thread1
  Unkeyed = Unkeyed
  Cross = Cross
  Msgs <- MsgsThree
  RouteOf <- MixedRouting
  IdOf <- Redelivered
  Settings <- AnySettings
  MaxClears = 1
  MaxFailures = 1
INVARIANTS
  TypeOK
  DeliveredOnce
  NothingLostWithinCap
PROPERTIES
  QueuedIsDelivered
CHECK_DEADLOCK FALSE
