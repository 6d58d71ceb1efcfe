SPECIFICATION Spec
CONSTANTS
  i1 = i1
  i2 = i2
  x1 = x1
  x2 = x2
  m1 = m1
  m2 = m2
  h1 = h1
  h2 = h2
  Ids = {i1, i2}
  Roles = {x1, x2}
  Emails = {m1, m2}
  Requests = {h1, h2}
  Servers <- MCServers
  None = None
  Gone = Gone
  Keep = Keep
SYMMETRY Symmetric
INVARIANTS TypeOK AdminRemains
PROPERTIES AccountsChangeAsAsked SeedAdminAfterStart
CHECK_DEADLOCK FALSE
