----------------------------- MODULE SchemaEditor -----------------------------
(***************************************************************************)
(* The table schema dialog (TableSchemaDialog.vue with its section editor) *)
(* of one SQL data source, the statements it sends and the server that     *)
(* runs them one after another.  The dialog loads a table, the user draws  *)
(* entries, Apply writes the difference; the statements have no            *)
(* transaction around them, so a failing one leaves the earlier ones done. *)
(***************************************************************************)
EXTENDS SqlDialects

CONSTANTS
  TableNames,      \* tables of the data source
  SchemaDialects,  \* the dialects of this instance
  Contents(_),     \* what a table of a dialect may hold at the start
  Focus,           \* which sections one user edits (a set of sets of sections)
  ItemNames, Bodies, ColumnNames,
  MaxSchemaSteps   \* bound: dialogs opened, edits made and tables dropped in one behaviour

VARIABLES
  dialect,    \* type of the data source
  focus,      \* the sections that this user edits
  tables,     \* server: the tables, NoTable when there is none of that name
  links,      \* source.config.virtualForeignKeys
  dialog,     \* visible, mode (one dialog creates, another edits), tableName, isSaving
  drawn,      \* state: the table name, the drawn schema and the original
  loads,      \* tables whose load is under way
  isLoading,
  running,    \* statements of the query still to run
  sent,       \* the dialog as it was when Apply was pressed last (bookkeeping)
  schemaSteps \* dialogs opened, edits made and tables dropped so far (bound)

schemaVars == <<dialect, focus, tables, links, dialog, drawn, loads, isLoading, running, sent, schemaSteps>>

NoTable == [columns |-> << >>, items |-> [s \in ItemSections |-> << >>]]
NoOriginal == [columns |-> << >>, items |-> [s \in ItemSections |-> << >>], links |-> << >>]

Exists(t) == tables[t] # NoTable

Loaded(t) == LoadTableSchemaState(dialect, tables[t], links[t])

NotSent == [mode |-> "none", table |-> "", schema |-> NoOriginal, original |-> NoOriginal,
            before |-> NoTable, fresh |-> FALSE, done |-> FALSE, same |-> FALSE]

\* createEmptyTableSchemaState: the default schema of no dialect in particular.
SchemaInit ==
  /\ dialect \in SchemaDialects
  /\ focus \in Focus
  /\ links = [t \in TableNames |-> << >>]
  /\ \E mode \in {"create", "edit"} :
       /\ dialog = [visible |-> FALSE, mode |-> mode, table |-> "", saving |-> FALSE]
       /\ focus \cap ShownSections(dialect, mode) # {}
       /\ tables \in [TableNames -> {NoTable} \cup Contents(dialect)]
       /\ Cardinality({t \in TableNames : tables[t] = NoTable}) = IF mode = "create" THEN 1 ELSE 0
  /\ drawn = [name |-> "", schema |-> CreateDefaultTableSchema, original |-> NoOriginal]
  /\ loads = {}
  /\ isLoading = FALSE
  /\ running = << >>
  /\ sent = NotSent
  /\ schemaSteps = 0

-----------------------------------------------------------------------------
(* The server (external): what a statement does to the table it is for.    *)

NamesOf(items) == {items[i].name : i \in DOMAIN items}

ColumnNamesOf(t) == NamesOf(tables[t].columns) \cup NamesOf(tables[t].items["virtualColumns"])

\* A name that a new entry of the section may not have: keys make indexes of their name.
TakenNames(t, section) ==
  CASE section = "virtualColumns" -> ColumnNamesOf(t)
    [] section \in {"keys", "indexes"} ->
         NamesOf(tables[t].items["keys"]) \cup NamesOf(tables[t].items["indexes"])
    [] section \notin {"virtualColumns", "keys", "indexes"} -> NamesOf(tables[t].items[section])

\* The key names of every other table, where they are unique in a schema.
KeysElsewhere(t) ==
  IF dialect \in {"postgres", "mssql", "oracle"}
  THEN UNION {NamesOf(tables[o].items["keys"]) : o \in TableNames \ {t}} ELSE {}

HasPrimary(t) == \E i \in DOMAIN tables[t].items["keys"] : tables[t].items["keys"][i].kind = "primary"

\* The statements that the server certainly refuses.
Refused(t, s) ==
  CASE s.op = "add" ->
         \/ s.name \in TakenNames(t, s.section)
         \/ s.section = "keys" /\ (s.kind = "primary" /\ HasPrimary(t))
         \/ s.section = "keys" /\ s.name \in KeysElsewhere(t)
    [] s.op = "drop" -> s.name \notin NamesOf(tables[t].items[s.section])
    [] s.op = "dropIfExists" -> FALSE
    [] s.op = "cutScript" -> TRUE
    [] s.op = "dropColumn" -> \/ s.name \notin NamesOf(tables[t].columns)
                              \/ Len(tables[t].columns) = 1
    [] s.op = "addColumn" -> s.column.name \in ColumnNamesOf(t)
    [] s.op = "alter" -> \/ s.name \notin NamesOf(tables[t].columns)
                         \/ s.to.name \in ColumnNamesOf(t) \ {s.name}
    [] s.op = "create" ->
         \/ Exists(t)
         \/ \E i, j \in DOMAIN s.parts : /\ i # j /\ s.parts[i].op = s.parts[j].op
                                         /\ \/ /\ s.parts[i].op = "addColumn"
                                               /\ s.parts[i].column.name = s.parts[j].column.name
                                            \/ /\ s.parts[i].op = "add"
                                               /\ s.parts[i].section = s.parts[j].section
                                               /\ s.parts[i].name = s.parts[j].name
         \/ \E i \in DOMAIN s.parts : /\ s.parts[i].op = "add" /\ s.parts[i].section = "keys"
                                      /\ s.parts[i].name \in KeysElsewhere(t)

StoredItem(s) == [name |-> s.name, kind |-> s.kind, body |-> s.body]

WithoutItem(items, name) == SelectSeq(items, LAMBDA item : item.name # name)

\* The table after a statement that is not refused.
After(tbl, s) ==
  CASE s.op = "add" -> [tbl EXCEPT !.items[s.section] = Append(@, StoredItem(s))]
    [] s.op \in {"drop", "dropIfExists"} -> [tbl EXCEPT !.items[s.section] = WithoutItem(@, s.name)]
    [] s.op = "dropColumn" -> [tbl EXCEPT !.columns = WithoutItem(@, s.name)]
    [] s.op = "addColumn" -> [tbl EXCEPT !.columns = Append(@, s.column)]
    [] s.op = "alter" ->
         [tbl EXCEPT !.columns = [i \in DOMAIN @ |->
            IF @[i].name = s.name
            THEN [f \in DOMAIN @[i] |-> IF f \in s.fields THEN s.to[f] ELSE @[i][f]] ELSE @[i]]]
    [] s.op = "create" ->
         [columns |-> LET cs == SelectSeq(s.parts, LAMBDA p : p.op = "addColumn") IN
                      [i \in DOMAIN cs |-> cs[i].column],
          items |-> [k \in ItemSections |->
                      LET ps == SelectSeq(s.parts, LAMBDA p : p.op = "add" /\ p.section = k) IN
                      [i \in DOMAIN ps |-> StoredItem(ps[i])]]]

-----------------------------------------------------------------------------
(* Opening, loading and drawing.                                           *)

UserStep == schemaSteps < MaxSchemaSteps /\ schemaSteps' = schemaSteps + 1

\* The watch on visible, tableName and mode: a new dialog starts from the default schema.
OpenCreateDialog ==
  /\ ~dialog.visible /\ dialog.mode = "create"
  /\ dialog' = [dialog EXCEPT !.visible = TRUE]
  /\ drawn' = [name |-> "", schema |-> DefaultSchema(dialect), original |-> NoOriginal]
  /\ UserStep
  /\ UNCHANGED <<dialect, focus, tables, links, loads, isLoading, running, sent>>

\* What an earlier load or Apply left in the dialog stays until the answer comes.
OpenEditDialog(t) ==
  /\ ~dialog.visible /\ dialog.mode = "edit"
  /\ Exists(t) /\ t \notin loads
  /\ dialog' = [dialog EXCEPT !.visible = TRUE, !.table = t]
  /\ loads' = loads \cup {t}
  /\ isLoading' = TRUE
  /\ UserStep
  /\ UNCHANGED <<dialect, focus, tables, links, drawn, running, sent>>

\* Nothing keeps the dialog open, neither a load nor a save.
CloseDialog ==
  /\ dialog.visible
  /\ dialog' = [dialog EXCEPT !.visible = FALSE]
  /\ UNCHANGED <<dialect, focus, tables, links, drawn, loads, isLoading, running, sent, schemaSteps>>

\* The answer is drawn whatever table the dialog is for by now.
LoadAnswered(t) ==
  /\ t \in loads /\ Exists(t)
  /\ drawn' = [name |-> t, schema |-> Loaded(t), original |-> Loaded(t)]
  /\ loads' = loads \ {t}
  /\ isLoading' = FALSE
  /\ UNCHANGED <<dialect, focus, tables, links, dialog, running, sent, schemaSteps>>

\* No catch: the finally block ends the loading, and what was drawn before is shown.
LoadFailed(t) ==
  /\ t \in loads
  /\ loads' = loads \ {t}
  /\ isLoading' = FALSE
  /\ UNCHANGED <<dialect, focus, tables, links, dialog, drawn, running, sent, schemaSteps>>

MayEdit(section) ==
  /\ dialog.visible /\ ~isLoading
  /\ section \in focus \cap ShownSections(dialect, dialog.mode)
  /\ UserStep
  /\ UNCHANGED <<dialect, focus, tables, links, dialog, loads, isLoading, running, sent>>

\* The name field, enabled in create mode only.
SetTableName(t) ==
  /\ dialog.visible /\ dialog.mode = "create" /\ drawn.name # t
  /\ drawn' = [drawn EXCEPT !.name = t]
  /\ UNCHANGED <<dialect, focus, tables, links, dialog, loads, isLoading, running, sent, schemaSteps>>

AddEntry(section) ==
  /\ MayEdit(section)
  /\ drawn' =
       CASE section = "columns" -> [drawn EXCEPT !.schema.columns = Append(@, CreateColumnDraft)]
         [] section = "virtualForeignKeys" ->
              [drawn EXCEPT !.schema.links = Append(@, [name |-> "", body |-> ""])]
         [] section \in ItemSections ->
              [drawn EXCEPT !.schema.items[section] = Append(@, CreateItemDraft(section))]

\* The last column's button is disabled.
RemoveEntry(section, i) ==
  /\ MayEdit(section)
  /\ CASE section = "columns" ->
            /\ i \in DOMAIN drawn.schema.columns /\ Len(drawn.schema.columns) # 1
            /\ drawn' = [drawn EXCEPT !.schema.columns = RemoveAt(@, i)]
       [] section = "virtualForeignKeys" ->
            /\ i \in DOMAIN drawn.schema.links
            /\ drawn' = [drawn EXCEPT !.schema.links = RemoveAt(@, i)]
       [] section \in ItemSections ->
            /\ i \in DOMAIN drawn.schema.items[section]
            /\ drawn' = [drawn EXCEPT !.schema.items[section] = RemoveAt(@, i)]

\* One field of one column.
EditColumn(i, field, value) ==
  /\ MayEdit("columns")
  /\ i \in DOMAIN drawn.schema.columns
  /\ drawn.schema.columns[i][field] # value
  /\ drawn' = [drawn EXCEPT !.schema.columns[i][field] = value]

\* The fields of one key, foreign key, index, check, trigger or virtual column.
EditItem(section, i, name, kind, body) ==
  /\ MayEdit(section) /\ section \in ItemSections
  /\ i \in DOMAIN drawn.schema.items[section]
  /\ (kind # "") <=> (section = "keys")
  /\ drawn' = [drawn EXCEPT !.schema.items[section][i] =
                 [@ EXCEPT !.name = name, !.kind = kind, !.body = body]]
  /\ drawn' # drawn

\* The fields of one virtual foreign key.
EditLink(i, name, body) ==
  /\ MayEdit("virtualForeignKeys")
  /\ i \in DOMAIN drawn.schema.links
  /\ drawn' = [drawn EXCEPT !.schema.links[i] = [name |-> name, body |-> body]]
  /\ drawn' # drawn

-----------------------------------------------------------------------------
(* Apply.                                                                  *)

\* The dialog was opened before any load answered: state.original is null.
NothingLoaded == dialog.mode = "edit" /\ drawn.name = ""

PreviewStatements ==
  IF dialog.mode = "create" THEN BuildCreateTableStatements(dialect, drawn.schema)
  ELSE IF NothingLoaded THEN << >>
  ELSE BuildEditTableStatements(dialect, drawn.original, drawn.schema)

CanSubmit == drawn.name # "" /\ Throw \notin ToSet(PreviewStatements)

VirtualForeignKeysChanged ==
  drawn.name # "" /\ SerializeVirtualForeignKeys(drawn.schema.links) # links[drawn.name]

\* Statements go to the table of the dialog's props, whatever table is drawn.
Target == IF dialog.mode = "create" THEN drawn.name ELSE dialog.table

Submission ==
  [mode |-> dialog.mode, table |-> Target, schema |-> drawn.schema, original |-> drawn.original,
   before |-> tables[Target],
   fresh |-> dialog.mode = "create" \/ (drawn.name = Target /\ drawn.original = Loaded(Target)),
   done |-> FALSE, same |-> FALSE]

\* "No changes: the table definition is already up to date."
ApplyNothing ==
  /\ dialog.visible /\ CanSubmit /\ ~isLoading /\ ~dialog.saving
  /\ PreviewStatements = << >> /\ ~VirtualForeignKeysChanged
  /\ dialog' = [dialog EXCEPT !.visible = FALSE]
  /\ sent' = [Submission EXCEPT !.done = TRUE, !.same = TRUE]
  /\ UNCHANGED <<dialect, focus, tables, links, drawn, loads, isLoading, running, schemaSteps>>

ApplySchema ==
  /\ dialog.visible /\ CanSubmit /\ ~isLoading /\ ~dialog.saving
  /\ PreviewStatements # << >> \/ VirtualForeignKeysChanged
  /\ dialog' = [dialog EXCEPT !.saving = TRUE]
  /\ running' = PreviewStatements
  /\ sent' = Submission
  /\ UNCHANGED <<dialect, focus, tables, links, drawn, loads, isLoading, schemaSteps>>

\* The query route runs the statements in their order, each on its own.
RunStatement ==
  /\ dialog.saving /\ running # << >>
  /\ ~Refused(sent.table, Head(running))
  /\ tables' = [tables EXCEPT ![sent.table] = After(@, Head(running))]
  /\ running' = Tail(running)
  /\ UNCHANGED <<dialect, focus, links, dialog, drawn, loads, isLoading, sent, schemaSteps>>

\* A statement fails, or the answer is lost: the dialog stays as it is, its original too.
StatementFailed ==
  /\ dialog.saving /\ running # << >>
  /\ running' = << >>
  /\ dialog' = [dialog EXCEPT !.saving = FALSE]
  /\ UNCHANGED <<dialect, focus, tables, links, drawn, loads, isLoading, sent, schemaSteps>>

\* updateDataSource, if the links drawn by now differ; then the dialog closes, whichever
\* table it may show by then.
SchemaApplied ==
  /\ dialog.saving /\ running = << >>
  /\ links' = IF VirtualForeignKeysChanged
              THEN [links EXCEPT ![drawn.name] = SerializeVirtualForeignKeys(drawn.schema.links)]
              ELSE links
  /\ dialog' = [dialog EXCEPT !.saving = FALSE, !.visible = FALSE]
  /\ sent' = [sent EXCEPT !.done = TRUE, !.same = drawn.name = sent.table /\ drawn.schema = sent.schema]
  /\ UNCHANGED <<dialect, focus, tables, drawn, loads, isLoading, running, schemaSteps>>

LinksNotSaved ==
  /\ dialog.saving /\ running = << >> /\ VirtualForeignKeysChanged
  /\ dialog' = [dialog EXCEPT !.saving = FALSE]
  /\ UNCHANGED <<dialect, focus, tables, links, drawn, loads, isLoading, running, sent, schemaSteps>>

\* Drop table from the sidebar's menu; the links of the table stay in the config.
DropTable(t) ==
  /\ ~dialog.visible /\ Exists(t)
  /\ tables' = [tables EXCEPT ![t] = NoTable]
  /\ sent' = IF sent.table = t THEN [sent EXCEPT !.fresh = FALSE] ELSE sent
  /\ UserStep
  /\ UNCHANGED <<dialect, focus, links, dialog, drawn, loads, isLoading, running>>

SchemaNext ==
  \/ OpenCreateDialog \/ CloseDialog
  \/ \E t \in TableNames : OpenEditDialog(t) \/ LoadAnswered(t) \/ LoadFailed(t) \/ DropTable(t)
  \/ \E t \in TableNames : SetTableName(t)
  \/ \E s \in Sections : AddEntry(s)
  \/ \E s \in Sections, i \in 1..3 : RemoveEntry(s, i)
  \/ \E i \in 1..3, name \in ColumnNames : EditColumn(i, "name", name)
  \/ \E i \in 1..3, type \in {"int", "text"} : EditColumn(i, "type", type)
  \/ \E i \in 1..3, f \in {"nullable", "pk", "auto"}, b \in BOOLEAN : EditColumn(i, f, b)
  \/ \E i \in 1..3, dflt \in {"", "d"} : EditColumn(i, "dflt", dflt)
  \/ \E s \in ItemSections, i \in 1..3, name \in ItemNames, kind \in {"", "primary", "unique"},
        body \in Bodies : EditItem(s, i, name, kind, body)
  \/ \E i \in 1..2, name \in ItemNames, body \in Bodies : EditLink(i, name, body)
  \/ ApplyNothing \/ ApplySchema \/ RunStatement \/ StatementFailed \/ SchemaApplied \/ LinksNotSaved

SchemaSpec == SchemaInit /\ [][SchemaNext]_schemaVars

-----------------------------------------------------------------------------
(* Properties.                                                             *)

SchemaTypeOK ==
  /\ dialect \in SchemaDialects /\ focus \in Focus
  /\ tables \in [TableNames -> [columns : Seq([name : STRING, type : STRING, nullable : BOOLEAN,
                                               pk : BOOLEAN, auto : BOOLEAN, dflt : STRING]),
                                items : [ItemSections -> Seq([name : STRING, kind : STRING, body : STRING])]]]
  /\ links \in [TableNames -> Seq([name : STRING, body : STRING])]
  /\ dialog \in [visible : BOOLEAN, mode : {"create", "edit"}, table : TableNames \cup {""}, saving : BOOLEAN]
  /\ drawn.name \in TableNames \cup {""}
  /\ \A s \in ItemSections : \A item \in ToSet(drawn.schema.items[s]) :
       item.kind \in IF s = "keys" THEN {"primary", "unique"} ELSE {""}
  /\ loads \subseteq TableNames /\ isLoading \in BOOLEAN
  /\ schemaSteps \in 0..MaxSchemaSteps

\* An entry is known by its old name, so two entries must not share one: diffNamedItems
\* takes a new entry named like a renamed one for that entry.
OldNamesDiffer(schema) ==
  \A s \in ItemSections : \A i, j \in DOMAIN schema.items[s] :
    OldName(schema.items[s][i]) = OldName(schema.items[s][j]) => i = j

\* ClickHouse keeps a default that the user clears.
ClearsDefault ==
  dialect = "clickhouse"
  /\ \E i \in DOMAIN sent.schema.columns, o \in ToSet(sent.original.columns) :
       /\ sent.schema.columns[i].orig = o.name
       /\ o.dflt # "" /\ sent.schema.columns[i].dflt = ""

\* The dialog wrote what it had loaded for the table that it wrote to.
WellDrawn == sent.fresh /\ OldNamesDiffer(sent.schema) /\ ~ClearsDefault

SameColumn(c, stored) ==
  /\ stored.name = c.name
  /\ \/ c.auto /\ c.orig = ""
     \/ /\ stored.type = IF dialect = "clickhouse" THEN NormalizeClickHouseType(c.type, c.nullable) ELSE c.type
        /\ stored.nullable = c.nullable /\ stored.dflt = c.dflt

ColumnsAsDrawn(columns, stored) ==
  /\ \A i \in DOMAIN columns : \E k \in DOMAIN stored : SameColumn(columns[i], stored[k])
  /\ \A k \in DOMAIN stored : \E i \in DOMAIN columns : columns[i].name = stored[k].name

SameItem(section, item, stored) ==
  IF section = "triggers" THEN stored.name = item.body
  ELSE /\ stored.kind = item.kind
       /\ stored.name = item.name \/ (stored.kind = "primary" /\ stored.name = "PRIMARY")
       /\ stored.body = item.body \/ (dialect = "sqlite" /\ item.body = "")

ItemsAsDrawn(section, items, stored) ==
  /\ \A i \in DOMAIN items : \E k \in DOMAIN stored : SameItem(section, items[i], stored[k])
  /\ \A k \in DOMAIN stored : \E i \in DOMAIN items : SameItem(section, items[i], stored[k])

\* When the dialog has closed on "Table created", "Table updated" or "No changes", every
\* section that the dialect writes is in the database as it was drawn, the virtual foreign
\* keys are in the data source's config, and the sections it does not write are untouched.
AppliedIsDrawn ==
  sent.done /\ WellDrawn =>
    /\ ColumnsAsDrawn(sent.schema.columns, tables[sent.table].columns)
    /\ \A s \in ItemSections :
         IF s \in EditableSections(dialect, sent.mode)
         THEN ItemsAsDrawn(s, sent.schema.items[s], tables[sent.table].items[s])
         ELSE tables[sent.table].items[s] = sent.before.items[s]
    /\ sent.same => links[sent.table] = SerializeVirtualForeignKeys(sent.schema.links)

\* However far the statements came, and also when one of them failed: a column that the
\* user kept is still there, under its old or its new name, and so is every entry that
\* was drawn as it had been loaded.
KeptStays ==
  sent.mode = "edit" /\ WellDrawn =>
    /\ \A i \in DOMAIN sent.schema.columns :
         LET c == sent.schema.columns[i] IN
         c.orig # "" => {c.orig, c.name} \cap NamesOf(tables[sent.table].columns) # {}
    /\ \A s \in ItemSections : \A i \in DOMAIN sent.schema.items[s] :
         LET item == sent.schema.items[s][i] IN
         item \in ToSet(sent.original.items[s]) => item.orig \in NamesOf(tables[sent.table].items[s])

\* "Create a simple ClickHouse table from columns only": once it has a name, the schema
\* that the create dialog starts from can be submitted.
CreateSubmits ==
  dialog.mode = "create" /\ dialog.visible /\ drawn.schema = DefaultSchema(dialect) /\ drawn.name # ""
  => CanSubmit

\* What the dialog reports as applied is in the database.
SchemaIsApplied == SchemaTypeOK /\ AppliedIsDrawn
=============================================================================
