CONSTANTS
  TableNames = {"t", "u"}
  SchemaDialects = {"clickhouse"}
  Contents <- MCContents
  Focus <- MCFocus
  ItemNames = {"n1"}
  Bodies = {"a"}
  ColumnNames = {"c"}
  MaxSchemaSteps = 1
  RowAdapters = {"clickhouse"}
  ColumnInputs <- MCColumnInputs
  PageSizes = {1}
  MaxReads = 1
SPECIFICATION SqlSpec
INVARIANT CreateSubmits
CHECK_DEADLOCK FALSE
