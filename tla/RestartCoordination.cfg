SPECIFICATION FairSpec
CONSTANTS
  d1 = d1
  Dispatchers <- MCDispatchers
  MaxReplies = 2
  Delays = {0, 2}
  Cooldown = 2
  MaxWait = 1
  MaxRequests = 3
INVARIANTS
  TypeOK
  TimerAfterCooldown
PROPERTIES
  NoReplyCutOff
  OneRestartPerRequest
  RequestHonoured
CHECK_DEADLOCK FALSE
