SPECIFICATION GatewaySpec
CONSTANTS
  alice = alice
  bob = bob
  main = main
  a1 = a1
  a2 = a2
  b1 = b1
  Runs = {a1, a2, b1}
  Sessions = {alice, bob}
  Globals = {main}
  SessionOf <- MCSessionOf
  GlobalOf <- MCGlobalOf
  Limits = {2}
  MaxResets = 1
  UsesLock = TRUE
INVARIANT DrainingOnlyForRestart
CHECK_DEADLOCK FALSE
