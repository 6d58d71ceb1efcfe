------------------------------ MODULE SqlAdapters ------------------------------
(***************************************************************************)
(* The SQL adapters of the backend: how each of them introspects, pages,   *)
(* creates and saves.  MariaDB uses the MySQL adapter and CockroachDB the  *)
(* Postgres one.  A row is a function from column names to values, Null    *)
(* among them; a statement with placeholders is kept with its parameters,  *)
(* and a placeholder is the index of the parameter it stands for.          *)
(***************************************************************************)
EXTENDS Naturals, Integers, Sequences, FiniteSets, SequencesExt

Adapters == {"mysql", "postgres", "sqlite", "mssql", "duckdb", "oracle", "clickhouse", "cassandra"}

Null == "null"
Absent == "absent"   \* a column that the request does not mention

-----------------------------------------------------------------------------
(* getTableDetails: a stored column as the adapter reports it.             *)

MysqlDetails(c) == c

\* A serial column is known by its default.
PostgresDetails(c) == [c EXCEPT !.auto = c.dflt = "nextval"]

SqliteDetails(c) == [c EXCEPT !.nullable = c.nullable /\ ~c.pk, !.auto = c.pk /\ c.type = "int"]

MssqlDetails(c) == c

OracleDetails(c) == c

\* Nullability is read off the type.
ClickHouseDetails(c) ==
  [c EXCEPT !.nullable = c.type \in {"Nullable(int)", "Nullable(text)"}, !.auto = FALSE]

DuckDbDetails(c) == [c EXCEPT !.auto = FALSE]

Details(a, c) ==
  CASE a = "mysql" -> MysqlDetails(c)
    [] a = "postgres" -> PostgresDetails(c)
    [] a = "sqlite" -> SqliteDetails(c)
    [] a = "mssql" -> MssqlDetails(c)
    [] a = "oracle" -> OracleDetails(c)
    [] a = "clickhouse" -> ClickHouseDetails(c)
    [] a = "duckdb" -> DuckDbDetails(c)

-----------------------------------------------------------------------------
(* getTableRows: one page of the rows in the order asked for.              *)

AtLeastOne(n) == IF n < 1 THEN 1 ELSE n

Upto(rows, n) == IF n < Len(rows) THEN n ELSE Len(rows)

\* LIMIT and OFFSET, bound in this order.
LimitOffset(rows, params) == SubSeq(rows, params[2] + 1, Upto(rows, params[2] + params[1]))

\* OFFSET ... ROWS FETCH NEXT ... ROWS ONLY, bound in this order.
OffsetFetch(rows, params) == SubSeq(rows, params[1] + 1, Upto(rows, params[1] + params[2]))

\* The column that orders the page: the one asked for if there is one of that name, else the
\* first primary key, else the first column.
SortBy(requested, columns, keys) ==
  IF requested \in ToSet(columns) THEN requested
  ELSE IF keys # << >> THEN keys[1] ELSE columns[1]

MysqlRows(rows, page, size) == LimitOffset(rows, <<size, (page - 1) * size>>)

PostgresRows(rows, page, size) == LimitOffset(rows, <<size, (page - 1) * size>>)

SqliteRows(rows, page, size) == LimitOffset(rows, <<size, (page - 1) * size>>)

MssqlRows(rows, page, size) == OffsetFetch(rows, <<(page - 1) * size, size>>)

OracleRows(rows, page, size) == OffsetFetch(rows, <<(page - 1) * size, size>>)

ClickHouseRows(rows, page, size) == LimitOffset(rows, <<size, (page - 1) * size>>)

DuckDbRows(rows, page, size) == LimitOffset(rows, <<size, (page - 1) * size>>)

TableRows(a, rows, askedPage, askedSize) ==
  LET page == AtLeastOne(askedPage)
      size == AtLeastOne(askedSize) IN
  CASE a = "mysql" -> MysqlRows(rows, page, size)
    [] a = "postgres" -> PostgresRows(rows, page, size)
    [] a = "sqlite" -> SqliteRows(rows, page, size)
    [] a = "mssql" -> MssqlRows(rows, page, size)
    [] a = "oracle" -> OracleRows(rows, page, size)
    [] a = "clickhouse" -> ClickHouseRows(rows, page, size)
    [] a = "duckdb" -> DuckDbRows(rows, page, size)

-----------------------------------------------------------------------------
(* createTable: the columns and the primary key of the CREATE TABLE.       *)

\* nullable ?? true
NullableOf(c) == c.nullable # "no"

\* What a primary key column becomes: the server makes it NOT NULL.
AsCreated(c, keys) ==
  [name |-> c.name, type |-> c.type, nullable |-> NullableOf(c) /\ c.name \notin keys,
   pk |-> c.name \in keys, auto |-> c.auto, dflt |-> c.dflt]

FlaggedKeys(columns) == {columns[i].name : i \in {j \in DOMAIN columns : columns[j].pk}}

\* Columns that carry "PRIMARY KEY" in their own definition (SQLite and DuckDB).
InlineKeys(columns) == {columns[i].name : i \in {j \in DOMAIN columns : columns[j].pk /\ columns[j].auto}}

CreatedWith(columns, keys) == [i \in DOMAIN columns |-> AsCreated(columns[i], keys)]

MysqlCreate(columns) == CreatedWith(columns, FlaggedKeys(columns))

\* SERIAL for integer types only; any other type keeps its default.
PostgresCreate(columns) ==
  LET made == CreatedWith(columns, FlaggedKeys(columns)) IN
  [i \in DOMAIN made |->
     IF made[i].auto /\ made[i].type = "int" THEN [made[i] EXCEPT !.nullable = FALSE, !.dflt = "nextval"]
     ELSE made[i]]

\* An inline key and a PRIMARY KEY clause besides are one primary key too many.
InlineCreate(columns) ==
  IF InlineKeys(columns) # {} /\ (FlaggedKeys(columns) # InlineKeys(columns) \/ Cardinality(InlineKeys(columns)) > 1)
  THEN << >>
  ELSE LET made == CreatedWith(columns, FlaggedKeys(columns)) IN
       [i \in DOMAIN made |->
          IF made[i].auto /\ made[i].pk THEN [made[i] EXCEPT !.type = "int", !.dflt = ""] ELSE made[i]]

SqliteCreate(columns) == InlineCreate(columns)

DuckDbCreate(columns) == InlineCreate(columns)

MssqlCreate(columns) == CreatedWith(columns, FlaggedKeys(columns))

OracleCreate(columns) == CreatedWith(columns, FlaggedKeys(columns))

\* The flagged columns become the ORDER BY of a MergeTree, which may hold duplicates.
ClickHouseCreate(columns) ==
  [i \in DOMAIN columns |->
     [AsCreated(columns[i], FlaggedKeys(columns)) EXCEPT
        !.nullable = NullableOf(columns[i]),
        !.type = IF NullableOf(columns[i]) THEN IF columns[i].type = "int" THEN "Nullable(int)" ELSE "Nullable(text)"
                 ELSE columns[i].type]]

\* << >> when the server refuses the definition.
CreateTable(a, columns) ==
  CASE a = "mysql" -> MysqlCreate(columns)
    [] a = "postgres" -> PostgresCreate(columns)
    [] a = "sqlite" -> SqliteCreate(columns)
    [] a = "mssql" -> MssqlCreate(columns)
    [] a = "oracle" -> OracleCreate(columns)
    [] a = "clickhouse" -> ClickHouseCreate(columns)
    [] a = "duckdb" -> DuckDbCreate(columns)

-----------------------------------------------------------------------------
(* saveTableChanges: the statements of one request.  The text of a         *)
(* statement is kept as the clauses that stand in it, each with its        *)
(* placeholder: a number, or Positional for "?", or IsNull when the clause *)
(* is an IS NULL test and binds nothing.                                   *)

Positional == 0
IsNull == -1

\* createPlaceholder
Placeholder(a, index) == IF a \in {"postgres", "mssql"} THEN index ELSE Positional

Clause(column, at) == [column |-> column, at |-> at]

\* The clauses over one column list, numbered from startIndex.
Bound(a, columns, startIndex) ==
  [i \in DOMAIN columns |-> Clause(columns[i], Placeholder(a, startIndex + i - 1))]

Values(row, columns) == [i \in DOMAIN columns |-> row[columns[i]]]

\* buildWhereClause: clauses are in the order of the keys; which of them is first does not
\* matter to an AND, so the tests for NULL follow the comparisons here.
BuildWhereClause(a, row, keys, startIndex) ==
  LET compared == SelectSeq(keys, LAMBDA k : row[k] # Null)
      tested == SelectSeq(keys, LAMBDA k : row[k] = Null) IN
  [clauses |-> Bound(a, compared, startIndex)
               \o [i \in DOMAIN tested |-> Clause(tested[i], IsNull)],
   params |-> Values(row, compared)]

\* normalizePrimaryKeys: those of the request, else the table's, else every column.
KeyColumns(requested, columns, keys) ==
  IF requested # << >> THEN requested ELSE IF keys # << >> THEN keys ELSE columns

\* INSERT names only the columns that the row mentions; DEFAULT VALUES when it names none.
InsertRow(a, columns, row) ==
  LET mentioned == SelectSeq(columns, LAMBDA c : row[c] # Absent) IN
  [op |-> "insert", set |-> Bound(a, mentioned, 1), where |-> << >>, params |-> Values(row, mentioned)]

UpdateRow_NumberedAnew(a, columns, keys, change) ==
  LET mentioned == SelectSeq(columns, LAMBDA c : change.changes[c] # Absent)
      where == BuildWhereClause(a, change.original, keys, 1) IN
  IF mentioned = << >> THEN << >>
  ELSE <<[op |-> "update", set |-> Bound(a, mentioned, 1), where |-> where.clauses,
          params |-> Values(change.changes, mentioned) \o where.params]>>

\* The placeholders of the WHERE clause go on where those of SET end.
UpdateRow(a, columns, keys, change) ==
  LET mentioned == SelectSeq(columns, LAMBDA c : change.changes[c] # Absent)
      where == BuildWhereClause(a, change.original, keys, Len(mentioned) + 1) IN
  IF mentioned = << >> THEN << >>
  ELSE <<[op |-> "update", set |-> Bound(a, mentioned, 1), where |-> where.clauses,
          params |-> Values(change.changes, mentioned) \o where.params]>>

DeleteRow(a, keys, row) ==
  LET where == BuildWhereClause(a, row, keys, 1) IN
  [op |-> "delete", set |-> << >>, where |-> where.clauses, params |-> where.params]

\* The adapters that inherit saveTableChanges from QueryOnlySqlAdapter.
SavesNothing == {"oracle", "clickhouse", "cassandra"}

\* Inserted rows first, then updated ones, then deleted ones.
SaveStatements(a, columns, keys, request) ==
  [i \in DOMAIN request.inserted |-> InsertRow(a, columns, request.inserted[i])]
  \o FlattenSeq([i \in DOMAIN request.updated |-> UpdateRow(a, columns, keys, request.updated[i])])
  \o [i \in DOMAIN request.deleted |-> DeleteRow(a, keys, request.deleted[i])]
=============================================================================
