CONSTANTS
  None = None
  hosted = hosted
  team = team
  open = open
  secured = secured
  x = x
  y = y
  z = z
  Profiles = {hosted, team}
  Hosted = hosted
  HostedUrl = open
  FirstServers <- MCFirstServers
  FirstUrl <- MCFirstUrl
  FirstProjects = {1, 2}
  FirstSources = {x, z}
  Backends = {open, secured}
  Secured = {secured}
  Projects = {1, 2, 3}
  Home <- MCHome
  Sources = {x, y, z}
  Parent <- MCParent
  Tokens = {t1, t2}
  Calls = {1, 2}
  MaxOps = 2
  Features = {"failure", "other", "reload"}
  TableNames = {"t", "u"}
  SchemaDialects = {"mysql", "postgres", "sqlite", "duckdb", "mssql", "clickhouse", "oracle"}
  Contents <- MCContents
  Focus <- MCFocus
  ItemNames = {"n1", "n2"}
  Bodies = {"a", "b"}
  ColumnNames = {"c", "x"}
  MaxSchemaSteps = 3
  RowAdapters = {"mysql", "postgres", "sqlite", "mssql", "duckdb", "oracle", "clickhouse", "cassandra"}
  ColumnInputs <- MCColumnInputs
  PageSizes = {0, 1, 2}
  MaxReads = 3
SPECIFICATION WindowSpec
INVARIANTS TypeOK NothingLeaks SettledIsTrue SchemaIsApplied KeptStays RowsAreTrue
PROPERTIES ReloadKeepsPlace
CHECK_DEADLOCK FALSE
