CONSTANTS
  a = a  b = b  null = null  None = None
  Values <- ValuesMC
  Null = null
  Refused = {b}
  Filters = {a}
  FirstRows = 3
  MaxId = 5
  MaxDrafts = 1
  MaxRows = 3
  PageSize = 2
  Slots = {1}
  Keyed = TRUE
  Features = {"failedLoads", "undelete"}
SPECIFICATION Spec
INVARIANTS TypeOK PageIsTrue EverythingSaved
PROPERTIES EditsAreKept
