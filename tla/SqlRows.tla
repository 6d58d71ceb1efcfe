-------------------------------- MODULE SqlRows --------------------------------
(***************************************************************************)
(* What a client of the SQL source routes asks of an adapter: to save      *)
(* changed rows, to read a table page by page, and to create a table and   *)
(* describe it.  A save runs statement by statement in a transaction that  *)
(* a failing statement, or the end of the process, rolls back; the answer  *)
(* to its COMMIT may be lost.                                              *)
(***************************************************************************)
EXTENDS SqlDialects, TLC

CONSTANTS
  RowAdapters,   \* the adapters of this instance
  ColumnInputs,  \* the column lists that a client creates a table with
  PageSizes,     \* page sizes that a client asks for
  MaxReads       \* bound: pages read in one behaviour

VARIABLES
  adapter,    \* type of the data source
  request,    \* what the client asked: the job and its inputs
  keyed,      \* the table has a primary key
  rows,       \* the table's committed rows
  began,      \* the save has an open transaction
  pending,    \* the rows as that transaction sees them
  left,       \* statements of the save still to run
  reply,      \* what the client was told
  pagesRead,  \* rows of the pages read so far
  described   \* columns of the created table as getTableDetails reports them

rowVars == <<adapter, request, keyed, rows, began, pending, left, reply, pagesRead, described>>

Columns == <<"k", "v">>
Keys == IF keyed THEN <<"k">> ELSE << >>

StartRows == << [k |-> "1", v |-> "a"], [k |-> "2", v |-> Null], [k |-> "3", v |-> "a"] >>

\* Requests of a client that has the table's rows before it: drafts, changed rows with their
\* originals and rows to delete.  "4" is the number that the server would give the next row.
Drafts == {[k |-> Absent, v |-> Absent], [k |-> "4", v |-> Absent], [k |-> "1", v |-> Null]}
Changes == {[k |-> Absent, v |-> Null], [k |-> Absent, v |-> "b"], [k |-> "5", v |-> Absent],
            [k |-> "5", v |-> "b"], [k |-> Absent, v |-> Absent]}

NoRequest == [job |-> "none", keys |-> << >>, inserted |-> << >>, updated |-> << >>, deleted |-> << >>,
              size |-> 0, descending |-> FALSE, grid |-> FALSE, columns |-> << >>]

SaveRequests ==
  {[NoRequest EXCEPT !.job = "save", !.keys = keys, !.inserted = inserted, !.updated = updated,
                     !.deleted = deleted] :
     keys \in {<< >>, Keys}, inserted \in {<< >>} \cup {<<d>> : d \in Drafts},
     updated \in {<< >>} \cup {<<[original |-> StartRows[i], changes |-> c]>> : i \in 1..2, c \in Changes}
                 \cup {<<[original |-> StartRows[1], changes |-> c], [original |-> StartRows[2], changes |-> e]>> :
                         c, e \in Changes},
     deleted \in {<< >>, <<StartRows[3]>>}}

\* The rows route clamps the size it is asked for; the table view's own query does not.
ReadRequests ==
  {[NoRequest EXCEPT !.job = "read", !.size = s, !.descending = d, !.grid = FALSE] :
     s \in PageSizes, d \in BOOLEAN}
  \cup {[NoRequest EXCEPT !.job = "read", !.size = s, !.descending = d, !.grid = TRUE] :
          s \in PageSizes \ {0}, d \in BOOLEAN}

CreateRequests == {[NoRequest EXCEPT !.job = "create", !.columns = cs] : cs \in ColumnInputs}

RowsInit ==
  /\ adapter \in RowAdapters
  /\ keyed \in BOOLEAN
  /\ request \in SaveRequests \cup ReadRequests \cup CreateRequests
  /\ rows = StartRows
  /\ began = FALSE /\ pending = << >> /\ left = << >>
  /\ reply = "none"
  /\ pagesRead = << >>
  /\ described = << >>

-----------------------------------------------------------------------------
(* The server (external): a statement on a list of rows.                   *)

\* The parameter that a clause of the text is bound to.
ParamOf(s, i) ==
  LET text == s.set \o s.where
      before == Cardinality({j \in 1..i : text[j].at # IsNull}) IN
  s.params[IF text[i].at = Positional THEN before ELSE text[i].at]

ColumnDefault(c) == IF c = "k" THEN "4" ELSE Null

Assigned(s, row) ==
  [c \in ToSet(Columns) |->
     LET at == {i \in DOMAIN s.set : s.set[i].column = c} IN
     IF at = {} THEN row[c] ELSE ParamOf(s, CHOOSE i \in at : TRUE)]

Hit(s, row) ==
  \A i \in DOMAIN s.where :
    row[s.where[i].column] =
      IF s.where[i].at = IsNull THEN Null ELSE ParamOf(s, Len(s.set) + i)

Executed(s, list) ==
  CASE s.op = "insert" -> Append(list, Assigned(s, [c \in ToSet(Columns) |-> ColumnDefault(c)]))
    [] s.op = "update" -> [i \in DOMAIN list |-> IF Hit(s, list[i]) THEN Assigned(s, list[i]) ELSE list[i]]
    [] s.op = "delete" -> SelectSeq(list, LAMBDA row : ~Hit(s, row))

\* The primary key: no two rows share it.
Accepted(list) ==
  keyed => \A i, j \in DOMAIN list : list[i].k = list[j].k => i = j

-----------------------------------------------------------------------------
(* Saving.                                                                 *)

\* The details are read first; oracle, clickhouse and cassandra refuse the operation.
SaveUnsupported ==
  /\ request.job = "save" /\ reply = "none" /\ ~began
  /\ adapter \in SavesNothing
  /\ reply' = "failed"
  /\ UNCHANGED <<adapter, request, keyed, rows, began, pending, left, pagesRead, described>>

BeginTransaction ==
  /\ request.job = "save" /\ reply = "none" /\ ~began
  /\ adapter \notin SavesNothing
  /\ began' = TRUE
  /\ pending' = rows
  /\ left' = SaveStatements(adapter, Columns, KeyColumns(request.keys, Columns, Keys), request)
  /\ UNCHANGED <<adapter, request, keyed, rows, reply, pagesRead, described>>

RunSaveStatement ==
  /\ began /\ left # << >>
  /\ Accepted(Executed(Head(left), pending))
  /\ pending' = Executed(Head(left), pending)
  /\ left' = Tail(left)
  /\ UNCHANGED <<adapter, request, keyed, rows, began, reply, pagesRead, described>>

\* A statement that throws, or the end of the connection: the transaction is rolled back.
Rollback ==
  /\ began
  /\ began' = FALSE /\ pending' = << >> /\ left' = << >>
  /\ reply' = "failed"
  /\ UNCHANGED <<adapter, request, keyed, rows, pagesRead, described>>

Commit ==
  /\ began /\ left = << >>
  /\ rows' = pending
  /\ began' = FALSE /\ pending' = << >>
  /\ reply' = "saved"
  /\ UNCHANGED <<adapter, request, keyed, left, pagesRead, described>>

\* The adapters whose COMMIT goes over a connection.
CommitsRemotely == {"mysql", "postgres", "mssql"}

\* The connection breaks after the database has committed and before it has said so: the
\* catch block rolls back what is no transaction any more, and the client gets an error.
CommitUnacknowledged ==
  /\ began /\ left = << >>
  /\ adapter \in CommitsRemotely
  /\ rows' = pending
  /\ began' = FALSE /\ pending' = << >>
  /\ reply' = "failed"
  /\ UNCHANGED <<adapter, request, keyed, left, pagesRead, described>>

-----------------------------------------------------------------------------
(* Reading pages 1, 2, ... through the rows route, or through the query    *)
(* that the table view sends.  The order is by the key, so it is the same  *)
(* at every request; by a column with ties the database may choose anew.   *)

KeyOrder == [k \in {"1", "2", "3", "4", "5"} |->
               CASE k = "1" -> 1 [] k = "2" -> 2 [] k = "3" -> 3 [] k = "4" -> 4 [] k = "5" -> 5]

InKeyOrder == SortSeq(rows, LAMBDA r, s : IF request.descending THEN KeyOrder[r.k] > KeyOrder[s.k]
                                          ELSE KeyOrder[r.k] < KeyOrder[s.k])

PagesOf(size) == ((Len(rows) - 1) \div AtLeastOne(size)) + 1

ReadPage ==
  /\ request.job = "read" /\ adapter # "cassandra"
  /\ Len(pagesRead) < PagesOf(request.size)
  /\ Len(pagesRead) < MaxReads
  /\ pagesRead' = Append(pagesRead,
       IF request.grid THEN BuildTableQuery(adapter, InKeyOrder, Len(pagesRead) + 1, request.size)
       ELSE TableRows(adapter, InKeyOrder, Len(pagesRead) + 1, request.size))
  /\ UNCHANGED <<adapter, request, keyed, rows, began, pending, left, reply, described>>

-----------------------------------------------------------------------------
(* Creating a table and describing it.                                     *)

CreateAndDescribe ==
  /\ request.job = "create" /\ reply = "none" /\ adapter # "cassandra"
  /\ LET made == CreateTable(adapter, request.columns) IN
       /\ reply' = IF made = << >> THEN "failed" ELSE "created"
       /\ described' = [i \in DOMAIN made |-> Details(adapter, made[i])]
  /\ UNCHANGED <<adapter, request, keyed, rows, began, pending, left, pagesRead>>

RowsNext ==
  \/ SaveUnsupported \/ BeginTransaction \/ RunSaveStatement \/ Rollback
  \/ Commit \/ CommitUnacknowledged
  \/ ReadPage \/ CreateAndDescribe

RowsSpec == RowsInit /\ [][RowsNext]_rowVars

-----------------------------------------------------------------------------
(* Properties.                                                             *)

Row == [k : {"1", "2", "3", "4", "5"}, v : {"a", "b", Null}]

RowsTypeOK ==
  /\ adapter \in RowAdapters /\ keyed \in BOOLEAN /\ began \in BOOLEAN
  /\ rows \in Seq(Row) /\ pending \in Seq(Row)
  /\ \A i \in DOMAIN left : left[i].op \in {"insert", "update", "delete"}
  /\ reply \in {"none", "saved", "failed", "created"}
  /\ \A i \in DOMAIN pagesRead : pagesRead[i] \in Seq(Row)

\* What the client asked for, row by row: the abstract effect of a save.
Merged(row, changes) == [c \in ToSet(Columns) |-> IF changes[c] = Absent THEN row[c] ELSE changes[c]]

Asked ==
  LET changed == [i \in DOMAIN StartRows |->
                    LET mine == SelectSeq(request.updated, LAMBDA u : u.original = StartRows[i]) IN
                    IF mine = << >> THEN StartRows[i] ELSE Merged(StartRows[i], mine[1].changes)]
      kept == SelectSeq(changed, LAMBDA r : r \notin ToSet(request.deleted)) IN
  kept \o [i \in DOMAIN request.inserted |->
             Merged([c \in ToSet(Columns) |-> ColumnDefault(c)], request.inserted[i])]

\* Without a primary key a row is known by its values: two edits of one request may then
\* meet in one row.
RowsTellApart == keyed \/ Len(request.updated) + Len(request.deleted) + Len(request.inserted) < 2

\* A client that is told "saved" finds every row of its request written and no other row
\* changed, whatever placeholders the adapter's driver uses and wherever a NULL takes one
\* away.  A client that is told of a failure finds nothing changed or, where the database's
\* answer to COMMIT may be lost, the whole request written; until the reply nothing is.
SavedIsAsked ==
  LET written == RowsTellApart => rows = Asked IN
  CASE reply = "saved" -> written
    [] reply = "failed" /\ adapter \in CommitsRemotely -> rows = StartRows \/ written
    [] OTHER -> rows = StartRows

\* Read one after another, the pages hold every row once, in the order asked for.
PagesPartition ==
  Len(pagesRead) = PagesOf(request.size) => FlattenSeq(pagesRead) = InKeyOrder

\* The columns whose details the database itself cannot give back: a generated column has
\* no mark that DuckDB, ClickHouse or (on a type other than an integer) Postgres could report,
\* SQLite takes every integer key for one, and an inline key is created as an integer.
Reportable(c) ==
  /\ c.auto => adapter \in {"mysql", "mssql", "oracle"}
  /\ (adapter = "sqlite" /\ c.pk) => c.type # "int"

\* A table that was created is described with the columns asked for, each with its name, its
\* nullability and its place in the primary key.
CreatedIsAsked ==
  reply = "created" =>
    /\ Len(described) = Len(request.columns)
    /\ \A i \in DOMAIN described :
         LET c == request.columns[i]
             d == described[i] IN
         Reportable(c) =>
           /\ d.name = c.name /\ d.pk = c.pk /\ d.auto = c.auto /\ d.dflt = c.dflt
           /\ d.nullable = (NullableOf(c) /\ (c.pk => adapter = "clickhouse"))

AnswersAreTrue == SavedIsAsked /\ PagesPartition /\ CreatedIsAsked

\* What a client of the row and table routes is told is so.
RowsAreTrue == RowsTypeOK /\ AnswersAreTrue
=============================================================================
