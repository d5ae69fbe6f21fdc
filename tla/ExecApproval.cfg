SPECIFICATION FairSpec
CONSTANTS
  r1 = r1
  r2 = r2
  r3 = r3
  w = w
  reused = reused
  own = own
  Requests <- MCRequests
  Waits = {w}
  IdOf <- MCIdOf
  Decisions = {"allow-once", "deny"}
  Timeout = 3
  Grace = 1
INVARIANTS
  TypeOK
  ConsumedOnce
PROPERTIES
  NoForeignExpiry
  AllAnswered
CHECK_DEADLOCK FALSE
