CONSTANTS
  x = x  y = y  a = a  null = null  None = None  Absent = Absent
  Fields = {x, y}
  Values = {null, a}
  Null = null
  FirstDocs <- EmptyOrOne
  MaxId = 2
  MaxDrafts = 1
  MaxRows = 2
  PageSize = 1
  Slots = {1}
  Features = {"failures", "lostReply", "invalidQuery"}
SPECIFICATION Spec
INVARIANTS TypeOK PageIsTrue SavedOnce
PROPERTIES EditsAreKept
