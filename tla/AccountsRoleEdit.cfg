SPECIFICATION Spec
CONSTANTS
  i1 = i1
  i2 = i2
  x1 = x1
  x2 = x2
  m1 = m1
  m2 = m2
  h1 = h1
  h2 = h2
  Ids = {i1}
  Roles = {x1, x2}
  Emails = {m1, m2}
  Requests = {h1}
  Servers <- MCRoleEditServers
  None = None
  Gone = Gone
  Keep = Keep
SYMMETRY Symmetric
INVARIANT AdminRemains
CHECK_DEADLOCK FALSE
