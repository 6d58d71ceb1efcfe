--------------------------------- MODULE MCSql ---------------------------------
(***************************************************************************)
(* Two clients of one SQL data source: the schema dialog, or a client of   *)
(* the row and table routes.  They share nothing but the adapters, so a    *)
(* behaviour is about one of them and the other rests in its first state.  *)
(***************************************************************************)
EXTENDS SchemaEditor, SqlRows

VARIABLE scene

sqlVars == <<scene, schemaVars, rowVars>>

StartItem(d, s) ==
  [name |-> IF s = "keys" /\ d = "mysql" THEN "PRIMARY" ELSE "n1",
   kind |-> IF s = "keys" THEN "primary" ELSE "",
   body |-> IF s = "triggers" THEN "n1" ELSE "a"]

\* A table with one entry in every section.
MCContents(d) ==
  {[columns |-> << [name |-> "c", type |-> "int", nullable |-> FALSE, pk |-> FALSE, auto |-> FALSE, dflt |-> "d"],
                   [name |-> "e", type |-> IF d = "clickhouse" THEN "Nullable(text)" ELSE "text",
                    nullable |-> TRUE, pk |-> FALSE, auto |-> FALSE, dflt |-> ""] >>,
    items |-> [s \in ItemSections |-> <<StartItem(d, s)>>]]}

MCFocus == {{s} : s \in Sections}

Inputs(name) ==
  {[name |-> name, type |-> t, nullable |-> n, pk |-> p, auto |-> a, dflt |-> v] :
     t \in {"int", "text"}, n \in {"yes", "no", "unset"}, p, a \in BOOLEAN, v \in {"", "d"}}

MCColumnInputs ==
  {<<c>> : c \in Inputs("c")}
  \cup {<<c, d>> : c \in Inputs("c"), d \in {x \in Inputs("d") : x.type = "int" /\ x.nullable = "yes" /\ x.dflt = ""}}

RowsRest ==
  /\ adapter = "sqlite" /\ keyed = TRUE /\ request = NoRequest /\ rows = StartRows
  /\ began = FALSE /\ pending = << >> /\ left = << >> /\ reply = "none"
  /\ pagesRead = << >> /\ described = << >>

SchemaRest ==
  /\ dialect = "sqlite" /\ focus = {"columns"} /\ tables = [t \in TableNames |-> NoTable]
  /\ links = [t \in TableNames |-> << >>]
  /\ dialog = [visible |-> FALSE, mode |-> "create", table |-> "", saving |-> FALSE]
  /\ drawn = [name |-> "", schema |-> NoOriginal, original |-> NoOriginal]
  /\ loads = {} /\ isLoading = FALSE /\ running = << >> /\ sent = NotSent /\ schemaSteps = 0

SqlInit ==
  \/ scene = "schema" /\ SchemaInit /\ RowsRest
  \/ scene = "rows" /\ RowsInit /\ SchemaRest

SqlNext ==
  \/ scene = "schema" /\ SchemaNext /\ UNCHANGED <<scene, rowVars>>
  \/ scene = "rows" /\ RowsNext /\ UNCHANGED <<scene, schemaVars>>

SqlSpec == SqlInit /\ [][SqlNext]_sqlVars
=============================================================================
