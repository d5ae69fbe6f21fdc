SPECIFICATION Spec
CONSTANTS
  m1 = m1
  m2 = m2
  m3 = m3
  thread1 = thread1
  Unkeyed = Unkeyed
  Cross = Cross
  Msgs <- MsgsThree
  RouteOf <- OneRoute
  IdOf <- OwnIds
  Settings <- OneAtATime
  MaxClears = 0
  MaxFailures = 0
INVARIANTS
  NothingLost
CHECK_DEADLOCK FALSE
