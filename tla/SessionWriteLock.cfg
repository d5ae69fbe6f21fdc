SPECIFICATION FairSpec
CONSTANTS
  g1 = g1
  g2 = g2
  cli = cli
  gateway = gateway
  other = other
  NoCaller = NoCaller
  Callers = {g1, g2, cli}
  Procs = {gateway, other}
  ProcOf <- MCProcOf
  Reentrant = {g1, g2, cli}
  MaxTries = 2
  MaxMishaps = 1
  StarttimeKnown = TRUE
INVARIANTS
  TypeOK
  FileKeptUntilLastRelease
  NoLeakedLock
PROPERTIES
  LockIsGivenUp
CHECK_DEADLOCK FALSE
