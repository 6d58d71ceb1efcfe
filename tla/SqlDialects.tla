------------------------------ MODULE SqlDialects ------------------------------
(***************************************************************************)
(* The SQL that the schema editor writes: the table schema dialects of the *)
(* frontend (datasources/<type>/table-schema-dialect.ts), their support of *)
(* the editor's sections (sql-dialect.ts) and the comparison of a drawn    *)
(* table with the loaded one (shared-sql/schema/sql.ts).  MariaDB uses the *)
(* MySQL dialect and CockroachDB the Postgres one.                         *)
(*                                                                         *)
(* A statement is a record whose "op" says what it does; a builder that    *)
(* throws yields Throw, and the editor then offers nothing to submit.      *)
(* Column types, defaults, expressions and column lists are data: members  *)
(* of small sets, "" when the field is blank.                              *)
(***************************************************************************)
EXTENDS SqlAdapters

Dialects == {"mysql", "postgres", "sqlite", "duckdb", "mssql", "clickhouse", "oracle"}

\* The sections whose entries are diffed by name.
ItemSections == {"keys", "foreignKeys", "indexes", "checks", "triggers", "virtualColumns"}
Sections == ItemSections \cup {"columns", "virtualForeignKeys"}

-----------------------------------------------------------------------------
(* Drafts (types/table-schema.ts).  "orig" is originalName, "" for a new   *)
(* entry; "kind" is the type of a key; "body" is the rest of the entry.    *)

CreateColumnDraft ==
  [orig |-> "", name |-> "", type |-> "text", nullable |-> TRUE,
   pk |-> FALSE, auto |-> FALSE, dflt |-> ""]

CreateItemDraft(section) ==
  [orig |-> "", name |-> "", kind |-> IF section = "keys" THEN "unique" ELSE "", body |-> ""]

\* The two columns and the key that a new table starts with.
CreateDefaultTableSchema ==
  [columns |-> << [CreateColumnDraft EXCEPT !.name = "id", !.type = "int", !.nullable = FALSE,
                                            !.pk = TRUE, !.auto = TRUE],
                  [CreateColumnDraft EXCEPT !.name = "name", !.nullable = FALSE] >>,
   items |-> [s \in ItemSections |->
                IF s = "keys" THEN << [orig |-> "", name |-> "pk_id", kind |-> "primary", body |-> "id"] >>
                ELSE << >>],
   links |-> << >>]

\* createDefaultSqlTableSchema: SQLite starts without the key (its column definition
\* declares the primary key), and DuckDB shares that.
DefaultSchema(d) ==
  IF d \in {"sqlite", "duckdb"} THEN [CreateDefaultTableSchema EXCEPT !.items["keys"] = << >>]
  ELSE CreateDefaultTableSchema

-----------------------------------------------------------------------------
(* What the editor offers (getTableSchemaSupport).                         *)

SqliteSupport(mode) ==
  IF mode = "create" THEN Sections ELSE {"columns", "indexes", "triggers", "virtualForeignKeys"}

\* SQL Server and Oracle draw every section of an existing table and write only the columns.
MssqlEditable(mode) ==
  IF mode = "create" THEN {"columns", "keys", "foreignKeys", "indexes", "checks"} ELSE {"columns"}

MssqlSections(mode) == IF mode = "create" THEN MssqlEditable(mode) ELSE Sections

\* ClickHouse draws columns only in a new table, and everything of an existing one.
ClickHouseSections(mode) == IF mode = "create" THEN {"columns"} ELSE Sections

\* support.sections: what the dialog lets the user open.
ShownSections(d, mode) ==
  CASE d \in {"mysql", "postgres"} -> Sections
    [] d = "sqlite" -> SqliteSupport(mode)
    [] d \in {"mssql", "oracle"} -> MssqlSections(mode)
    [] d = "clickhouse" -> ClickHouseSections(mode)
    [] d = "duckdb" -> {"columns"}

\* support.editableSections: what buildEditTableStatements looks at.
EditableSections(d, mode) ==
  CASE d \in {"mysql", "postgres"} -> Sections
    [] d = "sqlite" -> SqliteSupport(mode)
    [] d \in {"mssql", "oracle"} -> MssqlEditable(mode)
    [] d \in {"clickhouse", "duckdb"} -> {"columns"}

-----------------------------------------------------------------------------
(* Entries of the named sections.                                          *)

Throw == [op |-> "throw"]

AddItem(section, item) ==
  [op |-> "add", section |-> section, name |-> item.name, kind |-> item.kind, body |-> item.body]

Complete(item) == item.name # "" /\ item.body # ""

DefineComplete(section, item) == IF Complete(item) THEN AddItem(section, item) ELSE Throw

\* MySQL names its primary key itself, so the entry's name is not asked for.
MysqlDefinition(section, item) ==
  IF section = "keys" /\ item.kind = "primary" /\ item.body # ""
  THEN AddItem(section, [item EXCEPT !.name = "PRIMARY"])
  ELSE DefineComplete(section, item)

PostgresDefinition(section, item) == DefineComplete(section, item)

SqliteDefinition(section, item) == DefineComplete(section, item)

MssqlDefinition(section, item) ==
  IF section = "virtualColumns" THEN Throw ELSE DefineComplete(section, item)

OracleDefinition(section, item) ==
  IF section = "virtualColumns" THEN Throw ELSE DefineComplete(section, item)

\* unsupportedEdit for every entry; a trigger's SQL does not go through the dialect.
ClickHouseDefinition(section, item) == Throw

DuckDbDefinition(section, item) == Throw

\* normalizeTriggerSql: a name and the SQL.  The trigger is called what its SQL says, so the
\* SQL is modelled by the name in it.
NormalizeTriggerSql(item) ==
  IF Complete(item) THEN AddItem("triggers", [item EXCEPT !.name = item.body]) ELSE Throw

Definition(d, section, item) ==
  CASE section = "triggers" -> NormalizeTriggerSql(item)
    [] section # "triggers" /\ d = "mysql" -> MysqlDefinition(section, item)
    [] section # "triggers" /\ d = "postgres" -> PostgresDefinition(section, item)
    [] section # "triggers" /\ d = "sqlite" -> SqliteDefinition(section, item)
    [] section # "triggers" /\ d = "mssql" -> MssqlDefinition(section, item)
    [] section # "triggers" /\ d = "oracle" -> OracleDefinition(section, item)
    [] section # "triggers" /\ d = "clickhouse" -> ClickHouseDefinition(section, item)
    [] section # "triggers" /\ d = "duckdb" -> DuckDbDefinition(section, item)

\* normalizeName(item.originalName || item.name)
OldName(item) == IF item.orig # "" THEN item.orig ELSE item.name

DropItem(section, item) ==
  [op |-> IF section = "triggers" THEN "dropIfExists" ELSE "drop",
   section |-> section, name |-> OldName(item)]

\* DROP PRIMARY KEY names no key: the type that decides is the one now drawn.
MysqlDrop(section, item) ==
  IF section = "keys" /\ item.kind = "primary"
  THEN [op |-> "drop", section |-> "keys", name |-> "PRIMARY"]
  ELSE DropItem(section, item)

PostgresDrop(section, item) == DropItem(section, item)

SqliteDrop(section, item) ==
  IF section \in {"keys", "foreignKeys", "checks"} THEN Throw ELSE DropItem(section, item)

\* SQL Server, Oracle, ClickHouse and DuckDB refuse every drop.
MssqlDrop(section, item) == Throw
OracleDrop(section, item) == Throw
ClickHouseDrop(section, item) == Throw
DuckDbDrop(section, item) == Throw

Drop(d, section, item) ==
  CASE d = "mysql" -> MysqlDrop(section, item)
    [] d = "postgres" -> PostgresDrop(section, item)
    [] d = "sqlite" -> SqliteDrop(section, item)
    [] d = "mssql" -> MssqlDrop(section, item)
    [] d = "oracle" -> OracleDrop(section, item)
    [] d = "clickhouse" -> ClickHouseDrop(section, item)
    [] d = "duckdb" -> DuckDbDrop(section, item)

-----------------------------------------------------------------------------
(* diffNamedItems.                                                         *)

\* compareByName: a Map by old name, so the last entry of a name is the one found.
FoundByName(items, name) ==
  LET at == {i \in 1..Len(items) : OldName(items[i]) = name} IN
  IF at = {} THEN {} ELSE {items[CHOOSE i \in at : \A j \in at : j <= i]}

SignatureOfName(item) == <<item.name, item.kind>>
Signature(item) == <<item.name, item.kind, item.body>>

Removed(previous, next) ==
  SelectSeq(previous, LAMBDA item : FoundByName(next, OldName(item)) = {})

Added(previous, next) ==
  SelectSeq(next, LAMBDA item : FoundByName(previous, OldName(item)) = {})

Changed(previous, next) ==
  SelectSeq(next, LAMBDA item : \E old \in FoundByName(previous, OldName(item)) :
                                   Signature(old) # Signature(item))

-----------------------------------------------------------------------------
(* Columns.  A definition is the column as the server stores it.           *)

NamedAndTyped(c) == c.name # "" /\ c.type # ""

Stored(c) == [name |-> c.name, type |-> c.type, nullable |-> c.nullable, pk |-> FALSE,
              auto |-> c.auto, dflt |-> c.dflt]

MysqlColumn(c) == Stored(c)

\* SERIAL replaces type and default, and is NOT NULL whatever is drawn.
PostgresColumn(c) ==
  IF c.auto THEN [Stored(c) EXCEPT !.type = "int", !.nullable = FALSE, !.dflt = "nextval"]
  ELSE Stored(c)

SqliteColumn(c) ==
  IF c.auto /\ c.pk
  THEN [Stored(c) EXCEPT !.type = "int", !.nullable = FALSE, !.pk = TRUE, !.dflt = ""]
  ELSE [Stored(c) EXCEPT !.auto = FALSE]

MssqlColumn(c) == Stored(c)

OracleColumn(c) == Stored(c)

DuckDbColumn(c) == [Stored(c) EXCEPT !.auto = FALSE]

\* ClickHouse keeps nullability in the type.
BaseType == [t \in {"int", "text", "Nullable(int)", "Nullable(text)"} |->
               CASE t \in {"int", "Nullable(int)"} -> "int"
                 [] t \in {"text", "Nullable(text)"} -> "text"]
NullableType == [t \in {"int", "text"} |-> IF t = "int" THEN "Nullable(int)" ELSE "Nullable(text)"]

NormalizeClickHouseType(type, nullable) ==
  IF nullable THEN NullableType[BaseType[type]] ELSE BaseType[type]

ClickHouseColumn(c) ==
  [Stored(c) EXCEPT !.type = NormalizeClickHouseType(c.type, c.nullable), !.auto = FALSE]

ColumnDefinition(d, c) ==
  CASE d = "mysql" -> MysqlColumn(c)
    [] d = "postgres" -> PostgresColumn(c)
    [] d = "sqlite" -> SqliteColumn(c)
    [] d = "mssql" -> MssqlColumn(c)
    [] d = "oracle" -> OracleColumn(c)
    [] d = "clickhouse" -> ClickHouseColumn(c)
    [] d = "duckdb" -> DuckDbColumn(c)

AddColumn(d, c) ==
  IF NamedAndTyped(c) THEN [op |-> "addColumn", column |-> ColumnDefinition(d, c)] ELSE Throw

\* The clauses of ALTER TABLE: the named fields of column "name" become those of "to".
Alter(name, fields, to) == [op |-> "alter", name |-> name, fields |-> fields, to |-> to]

Rename(o, c) == Alter(o.name, {"name"}, c)

Differing(o, c) == {f \in {"name", "type", "nullable", "dflt"} : o[f] # c[f]}

\* One clause for each differing field, in the order given.
Clauses(o, c, order) ==
  LET differing == SelectSeq(order, LAMBDA f : f \in Differing(o, c)) IN
  [i \in DOMAIN differing |->
     Alter(IF differing[i] = "name" THEN o.name ELSE c.name, {differing[i]}, c)]

\* CHANGE COLUMN writes the whole definition again.
MysqlChange(o, c) ==
  CASE Differing(o, c) = {} -> << >>
    [] Differing(o, c) # {} /\ ~NamedAndTyped(c) -> <<Throw>>
    [] Differing(o, c) # {} /\ NamedAndTyped(c) ->
         <<Alter(o.name, {"name", "type", "nullable", "dflt", "auto"}, MysqlColumn(c))>>

PostgresChange(o, c) == Clauses(o, c, <<"name", "type", "nullable", "dflt">>)

SqliteChange(o, c) ==
  CASE Differing(o, c) = {} -> << >>
    [] Differing(o, c) = {"name"} -> <<Rename(o, c)>>
    [] Differing(o, c) \notin {{}, {"name"}} -> <<Throw>>

\* DECLARE; SELECT; IF ... as one text.  The query route cuts it at the semicolons and runs the
\* pieces apart, where the variable is not declared any more.
DropDefaultConstraint == [op |-> "cutScript"]

\* SQL Server restates type and nullability together; a default is a constraint, which is
\* dropped and, unless the field was cleared, added anew.
MssqlChange(o, c) ==
  Clauses(o, c, <<"name">>)
  \o (IF o.dflt # c.dflt THEN <<DropDefaultConstraint>> ELSE << >>)
  \o (IF o.dflt # c.dflt /\ c.dflt # "" THEN <<Alter(c.name, {"dflt"}, c)>> ELSE << >>)
  \o (IF o.type # c.type \/ o.nullable # c.nullable
      THEN <<Alter(c.name, {"type", "nullable"}, c)>> ELSE << >>)

OracleChange(o, c) == Clauses(o, c, <<"name", "type", "nullable", "dflt">>)

DuckDbChange(o, c) == Clauses(o, c, <<"name", "type", "nullable", "dflt">>)

\* MODIFY COLUMN without a DEFAULT clause leaves the default that the column has.
ClickHouseChange(o, c) ==
  LET from == NormalizeClickHouseType(o.type, o.nullable)
      to == NormalizeClickHouseType(c.type, c.nullable) IN
  Clauses(o, c, <<"name">>)
  \o (IF from # to \/ o.dflt # c.dflt
      THEN <<Alter(c.name, {"type", "nullable"} \cup (IF c.dflt = "" THEN {} ELSE {"dflt"}),
                   [c EXCEPT !.type = to])>>
      ELSE << >>)

ChangeColumn(d, o, c) ==
  CASE d = "mysql" -> MysqlChange(o, c)
    [] d = "postgres" -> PostgresChange(o, c)
    [] d = "sqlite" -> SqliteChange(o, c)
    [] d = "mssql" -> MssqlChange(o, c)
    [] d = "oracle" -> OracleChange(o, c)
    [] d = "clickhouse" -> ClickHouseChange(o, c)
    [] d = "duckdb" -> DuckDbChange(o, c)

DropRenamedColumns(original, next) ==
  LET kept == {next[i].name : i \in DOMAIN next}
      dropped == SelectSeq(original, LAMBDA o : o.name \notin kept) IN
  [i \in DOMAIN dropped |-> [op |-> "dropColumn", name |-> dropped[i].name]]

DropColumns(original, next) ==
  LET kept == {next[i].orig : i \in DOMAIN next}
      dropped == SelectSeq(original, LAMBDA o : o.name \notin kept) IN
  [i \in DOMAIN dropped |-> [op |-> "dropColumn", name |-> dropped[i].name]]

\* buildAlterTableStatements
AlterTable(d, original, next) ==
  DropColumns(original, next)
  \o FlattenSeq([i \in DOMAIN next |->
       IF next[i].orig = "" THEN <<AddColumn(d, next[i])>>
       ELSE LET o == SelectSeq(original, LAMBDA old : old.name = next[i].orig) IN
            IF o = << >> THEN << >>
            ELSE IF next[i].name = "" THEN <<Throw>>
            ELSE ChangeColumn(d, Last(o), next[i])])

-----------------------------------------------------------------------------
(* The statements of a dialog.                                             *)

Each(items, Build(_)) == [i \in DOMAIN items |-> Build(items[i])]

DropOrder == <<"triggers", "foreignKeys", "checks", "keys", "indexes", "virtualColumns">>
AddOrder == <<"virtualColumns", "keys", "foreignKeys", "checks", "indexes", "triggers">>

BuildEditTableStatements(d, original, next) ==
  LET Edited(order) == SelectSeq(order, LAMBDA s : s \in EditableSections(d, "edit"))
      Drops(s) == Each(Removed(original.items[s], next.items[s])
                       \o Changed(original.items[s], next.items[s]), LAMBDA item : Drop(d, s, item))
      Adds(s) == Each(Added(original.items[s], next.items[s])
                      \o Changed(original.items[s], next.items[s]), LAMBDA item : Definition(d, s, item))
  IN  FlattenSeq(Each(Edited(DropOrder), Drops))
      \o AlterTable(d, original.columns, next.columns)
      \o FlattenSeq(Each(Edited(AddOrder), Adds))

\* CREATE TABLE with the definitions inside it; indexes and triggers follow as statements.
BuildCreateTableStatements(d, schema) ==
  LET Defined(sections) == FlattenSeq(Each(sections,
        LAMBDA s : Each(schema.items[s], LAMBDA item : Definition(d, s, item))))
      columns == Each(schema.columns, LAMBDA c : AddColumn(d, c))
      inner == Defined(<<"virtualColumns", "keys", "foreignKeys", "checks">>)
  IN  IF columns \o inner = << >> THEN <<Throw>>
      ELSE IF Throw \in ToSet(columns \o inner) THEN <<Throw>>
      ELSE <<[op |-> "create", parts |-> columns \o inner]>> \o Defined(<<"indexes", "triggers">>)

-----------------------------------------------------------------------------
(* buildTableQuery: the page that the table view asks the query route for. *)

ClampedPage(page) == AtLeastOne(page)

MysqlTableQuery(rows, page, size) == LimitOffset(rows, <<size, (ClampedPage(page) - 1) * size>>)

PostgresTableQuery(rows, page, size) == LimitOffset(rows, <<size, (ClampedPage(page) - 1) * size>>)

\* DuckDB takes it from SQLite.
SqliteTableQuery(rows, page, size) == LimitOffset(rows, <<size, (ClampedPage(page) - 1) * size>>)

MssqlTableQuery(rows, page, size) == OffsetFetch(rows, <<(ClampedPage(page) - 1) * size, size>>)

OracleTableQuery(rows, page, size) == OffsetFetch(rows, <<(ClampedPage(page) - 1) * size, size>>)

ClickHouseTableQuery(rows, page, size) == LimitOffset(rows, <<size, (ClampedPage(page) - 1) * size>>)

BuildTableQuery(d, rows, page, size) ==
  CASE d = "mysql" -> MysqlTableQuery(rows, page, size)
    [] d = "postgres" -> PostgresTableQuery(rows, page, size)
    [] d \in {"sqlite", "duckdb"} -> SqliteTableQuery(rows, page, size)
    [] d = "mssql" -> MssqlTableQuery(rows, page, size)
    [] d = "oracle" -> OracleTableQuery(rows, page, size)
    [] d = "clickhouse" -> ClickHouseTableQuery(rows, page, size)

-----------------------------------------------------------------------------
(* Loading a table (shared-sql/schema/metadata.ts): what the adapter's     *)
(* details and the dialect's metadata query give back of a stored table.   *)

LoadedColumn(reported) ==
  [orig |-> reported.name, name |-> reported.name, type |-> reported.type, nullable |-> reported.nullable,
   pk |-> reported.pk, auto |-> reported.auto, dflt |-> reported.dflt]

LoadedItem(item) == [orig |-> item.name, name |-> item.name, kind |-> item.kind, body |-> item.body]

MysqlMetadata(items) == [s \in ItemSections |-> Each(items[s], LoadedItem)]

PostgresMetadata(items) == [s \in ItemSections |-> Each(items[s], LoadedItem)]

\* Only index_list and the triggers are asked for; an index comes without its columns.
SqliteMetadata(items) ==
  [s \in ItemSections |->
     CASE s = "indexes" -> Each(items[s], LAMBDA item : [LoadedItem(item) EXCEPT !.body = ""])
       [] s = "triggers" -> Each(items[s], LoadedItem)
       [] s \notin {"indexes", "triggers"} -> << >>]

\* SELECT ... WHERE 1 = 0 for every section.
MssqlMetadata(items) == [s \in ItemSections |-> << >>]
OracleMetadata(items) == [s \in ItemSections |-> << >>]
ClickHouseMetadata(items) == [s \in ItemSections |-> << >>]
DuckDbMetadata(items) == [s \in ItemSections |-> << >>]

Metadata(d, items) ==
  CASE d = "mysql" -> MysqlMetadata(items)
    [] d = "postgres" -> PostgresMetadata(items)
    [] d = "sqlite" -> SqliteMetadata(items)
    [] d = "mssql" -> MssqlMetadata(items)
    [] d = "oracle" -> OracleMetadata(items)
    [] d = "clickhouse" -> ClickHouseMetadata(items)
    [] d = "duckdb" -> DuckDbMetadata(items)

\* parseVirtualForeignKeyDrafts: the links kept in the data source's config.
LoadedLink(link) == [name |-> link.name, body |-> link.body]

LoadTableSchemaState(d, table, links) ==
  [columns |-> Each(table.columns, LAMBDA c : LoadedColumn(Details(d, c))),
   items |-> Metadata(d, table.items),
   links |-> Each(links, LoadedLink)]

\* serializeVirtualForeignKeys: entries with a blank field are left out.
SerializeVirtualForeignKeys(links) == SelectSeq(links, Complete)
=============================================================================
