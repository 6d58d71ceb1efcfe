SPECIFICATION FairSpec
CONSTANTS
  k1 = k1
  e1 = e1
  e2 = e2
  r1 = r1
  r3 = r3
  Keys = {k1}
  Entries = {e1, e2}
  NoEntry = NoEntry
  KeyOf <- OneKey
  Requests = {r1, r3}
  Downloads = {r3}
  WithShutdown = TRUE
  QuietClose = TRUE
INVARIANTS TypeOK MappedIsAlive RefCountExact IdleTimerIsSafe PortsAreServed
PROPERTIES ImplementsPool IdleTunnelCloses WaitersAreAnswered
CHECK_DEADLOCK FALSE
