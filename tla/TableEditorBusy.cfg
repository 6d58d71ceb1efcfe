CONSTANTS
  a = a  b = b  null = null  None = None
  Values = {null, b}
  Null = null
  Refused = {b}
  Filters = {}
  FirstRows = 0
  MaxId = 2
  MaxDrafts = 1
  MaxRows = 1
  PageSize = 2
  Slots = {1, 2}
  Keyed = TRUE
  Features = {"overlap", "editWhileSaving", "failedLoads", "failedReload", "lostReply", "otherClient"}
SPECIFICATION LiveSpec
INVARIANTS InsertedOnce
PROPERTIES SaveEnds
