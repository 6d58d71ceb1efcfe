CONSTANTS
  Workspaces = {"p", "q"}
  SqlSources = {"s1"}
  ResourceSources = {"s2"}
  WorkspaceOf <- MCWorkspaceOf
  Tables = {"t"}
  Collections = {"c"}
  MaxTabs = 3
  MaxTabSteps = 4
  Buckets = {"b"}
  Keys <- MCKeys
  NameRank <- MCNameRank
  Hits <- MCHits
  Starts <- MCStarts
  NewKeys <- MCNewKeys
  LIST_PAGE_SIZE = 2
  BATCH_SIZE = 4
  MaxFlights = 2
  MaxBrowserSteps = 3
  MaxElsewhere = 1
  Inputs <- MCInputs
  Texts <- MCTexts
  RowCounts = {0, 3}
  PageSizes = {1, 2}
  LOG_LIMIT = 2
  MaxRuns = 2
  MaxConsoleSteps = 1
  RedisKeys = {1, 2, 3}
  Documents = {1, 2, 3, 4, 5}
  Found = {2, 4, 5}
  KEY_LIMIT = 2
  ChunkSize = 2
  SCAN_GUARD = 20
  MaxListFlights = 2
  MaxListSteps = 3
  MaxOutside = 1
SPECIFICATION PagesSpec
INVARIANTS EndOfListIsTrue
CHECK_DEADLOCK FALSE
