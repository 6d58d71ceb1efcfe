----------------------------- MODULE QueryConsole -----------------------------
(***************************************************************************)
(* The query consoles: SQL, Redis and Convex.  The server's adapter cuts   *)
(* an SQL text into statements and awaits one after the other, the window  *)
(* cuts it again to name each result, and the Redis route cuts its text    *)
(* into words.  The editor's shortcut starts a run whatever is under way,  *)
(* and answers are shown in the order they arrive.                         *)
(*                                                                         *)
(* A text is a sequence of characters; "sq", "dq" and "bt" are the quotes, *)
(* "bs" is a backslash and "nl" the end of a line.                         *)
(* "s" stands for a word that reads, "u" for one that writes, "!" for what *)
(* the source refuses.  A Convex text is the kind of function, its path    *)
(* and its arguments, which a quote makes no JSON.  Of a result the number *)
(* of its rows is kept.                                                    *)
(***************************************************************************)
EXTENDS Naturals, Sequences, FiniteSets, SequencesExt

CONSTANTS
  Inputs,          \* texts that are cut and not run
  Texts,           \* texts the user runs
  RowCounts,       \* of a result
  PageSizes,
  LOG_LIMIT,       \* of the Redis console
  MaxRuns,         \* bound: runs started
  MaxConsoleSteps  \* bound: what the user does otherwise

ASSUME ConsoleAssumption ==
  /\ RowCounts \subseteq Nat /\ PageSizes \subseteq Nat \ {0}
  /\ LOG_LIMIT \in Nat \ {0} /\ MaxRuns \in Nat /\ MaxConsoleSteps \in Nat

VARIABLES
  console,         \* [kind, engine, grant]: of the tab, its source, its user
  text,            \* in the editor
  isRunning, results, logs,
  selectedTableTab, selectedTablePage, selectedTablePageSize,
  runs,            \* each run: [text, statements, state, answers, shown]
  applied,         \* history: what the source carried out: [run, statement]
  consoleSteps

editorVars == <<console, text>>
outputVars == <<results, logs>>
pagerVars == <<selectedTableTab, selectedTablePage, selectedTablePageSize>>
consoleVars == <<editorVars, isRunning, outputVars, pagerVars, runs, applied, consoleSteps>>

-----------------------------------------------------------------------------
(* sql-statements.ts of the server, statements.ts of the window *)

Blank == {" ", "nl"}
Quotes == {"sq", "dq", "bt"}
Comments == {<<"-", "-">>, <<"/", "*">>}

Trim(s) ==
  LET solid == {i \in DOMAIN s : s[i] \notin Blank} IN
  IF solid = {} THEN << >> ELSE SubSeq(s, Min(solid), Max(solid))
PushStatement(list, s) == IF Trim(s) = << >> THEN list ELSE Append(list, Trim(s))

\* The loop at position i: a pair of characters is consumed together.
ScanStep(input, st, i) ==
  LET char == input[i]
      pair == IF i < Len(input) THEN <<char, input[i + 1]>> ELSE <<char, "">>
  IN  IF st.skip THEN [st EXCEPT !.skip = FALSE]
      ELSE IF st.mode = "--" THEN [st EXCEPT !.mode = IF char = "nl" THEN "code" ELSE @]
      ELSE IF st.mode = "/*" /\ pair = <<"*", "/">> THEN [st EXCEPT !.mode = "code", !.skip = TRUE]
      ELSE IF st.mode = "/*" THEN st
      ELSE IF st.mode \in Quotes THEN [st EXCEPT !.mode = IF char = @ THEN "code" ELSE @]
      ELSE IF pair \in Comments THEN [st EXCEPT !.mode = IF char = "-" THEN "--" ELSE "/*", !.skip = TRUE]
      ELSE IF char \in Quotes THEN [st EXCEPT !.mode = char]
      ELSE IF char = ";"
      THEN [st EXCEPT !.list = PushStatement(@, SubSeq(input, st.from, i - 1)), !.from = i + 1]
      ELSE st

SplitSqlStatements(input) ==
  LET start == [mode |-> "code", skip |-> FALSE, list |-> << >>, from |-> 1]
      end == FoldLeftDomain(LAMBDA st, i : ScanStep(input, st, i), start, input)
  IN  PushStatement(end.list, SubSeq(input, end.from, Len(input)))

StatementsOfWindow_Plain(input) ==
  LET ends == {0} \cup {i \in DOMAIN input : input[i] = ";"} \cup {Len(input) + 1}
      cuts == SetToSortSeq(ends, <)
  IN  FoldLeft(PushStatement, << >>, [k \in 1 .. Len(cuts) - 1 |-> SubSeq(input, cuts[k] + 1, cuts[k + 1] - 1)])
StatementsOfWindow(input) == SplitSqlStatements(input)

-----------------------------------------------------------------------------
(* datasources/redis/command.ts *)

PushToken(tokens, word) == IF word = << >> THEN tokens ELSE Append(tokens, word)

ParseStep(st, char) ==
  IF st.escaped THEN [st EXCEPT !.word = Append(@, char), !.escaped = FALSE]
  ELSE IF char = "bs" THEN [st EXCEPT !.escaped = TRUE]
  ELSE IF st.quote # "" /\ char = st.quote THEN [st EXCEPT !.quote = ""]
  ELSE IF st.quote # "" THEN [st EXCEPT !.word = Append(@, char)]
  ELSE IF char \in {"sq", "dq"} THEN [st EXCEPT !.quote = char]
  ELSE IF char \in Blank THEN [st EXCEPT !.tokens = PushToken(@, st.word), !.word = << >>]
  ELSE [st EXCEPT !.word = Append(@, char)]

ParsedRedis(command) ==
  FoldLeft(ParseStep, [tokens |-> << >>, word |-> << >>, quote |-> "", escaped |-> FALSE], Trim(command))
IsTerminated(command) == ParsedRedis(command).quote = ""
ParseRedisCommand(command) ==
  LET end == ParsedRedis(command) IN
  PushToken(end.tokens, IF end.escaped THEN Append(end.word, "bs") ELSE end.word)

IsReadOnlyRedisTokens(tokens) == tokens = << >> \/ tokens[1][1] = "s"

-----------------------------------------------------------------------------
(* The sources' answers *)

Result(run, statement, type, tables) == [run |-> run, statement |-> statement, type |-> type, tables |-> tables]

\* SQLite and ClickHouse go by how the statement begins, the others by what
\* came back; a table for what was selected.
ReturnsRows(statement) ==
  IF console.engine = "prefix" THEN statement[1] = "s" ELSE "s" \in ToSet(statement)
SqlAnswers(n, statement) ==
  IF ReturnsRows(statement)
  THEN {Result(n, statement, "SELECT", <<rows>>) : rows \in RowCounts}
  ELSE {Result(n, statement, "RESULT", << >>)}

\* A cursor and what was found, a list, or one value.
RedisAnswers(n, tokens) ==
  {Result(n, tokens, "reply", tables) : tables \in {<<1>>} \cup {<<rows>> : rows \in RowCounts} \cup {<<1, rows>> : rows \in RowCounts}}
\* The fields of an object and a table for each list among them, or one value.
ConvexAnswers(n, call) ==
  {Result(n, call, "value", tables) : tables \in {<<1>>} \cup {<<rows>> : rows \in RowCounts} \cup {<<2, rows>> : rows \in RowCounts}}

ResultTables(list) == FlattenSeq([i \in DOMAIN list |-> list[i].tables])

-----------------------------------------------------------------------------
(* datasources/shared/components/GenericQueryView.vue *)

TotalPages(tables, tab, size) ==
  LET rows == IF tables = << >> THEN 0 ELSE tables[tab] IN
  IF rows = 0 THEN 1 ELSE (rows + size - 1) \div size
Capped(n, most) == IF n > most THEN most ELSE n

\* The watchers, after the shown results became next.
Watch(next) ==
  LET was == Len(ResultTables(results))
      now == Len(ResultTables(next))
      tab == IF now = 0 THEN 1 ELSE Capped(selectedTableTab, now)
  IN  /\ selectedTableTab' = IF now = was THEN selectedTableTab ELSE tab
      /\ selectedTablePage' = IF now = 0 /\ was = 0 THEN selectedTablePage ELSE 1
      /\ UNCHANGED selectedTablePageSize

-----------------------------------------------------------------------------
(* What the user does *)

ConsoleActs == consoleSteps < MaxConsoleSteps /\ consoleSteps' = consoleSteps + 1

Edit(t) ==
  /\ ConsoleActs /\ t # text
  /\ text' = t
  /\ UNCHANGED <<console, isRunning, outputVars, pagerVars, runs, applied>>

SelectTable(tab) ==
  /\ ConsoleActs /\ tab # selectedTableTab
  /\ selectedTableTab' = tab /\ selectedTablePage' = 1
  /\ UNCHANGED <<editorVars, isRunning, outputVars, selectedTablePageSize, runs, applied>>

ChangeSelectedResultPage(page) ==
  /\ ConsoleActs /\ page \in 1 .. TotalPages(ResultTables(results), selectedTableTab, selectedTablePageSize)
  /\ selectedTablePage' = page
  /\ UNCHANGED <<editorVars, isRunning, outputVars, selectedTableTab, selectedTablePageSize, runs, applied>>

ChangeSelectedResultPageSize(size) ==
  /\ ConsoleActs /\ size # selectedTablePageSize
  /\ selectedTablePageSize' = size /\ selectedTablePage' = 1
  /\ UNCHANGED <<editorVars, isRunning, outputVars, selectedTableTab, runs, applied>>

Entry(level, sql) == [level |-> level, sql |-> sql]
PushLog(entry) == SubSeq(<<entry>> \o logs, 1, Capped(Len(logs) + 1, LOG_LIMIT))

StartsRun ==
  /\ Len(runs) < MaxRuns
  /\ runs' = Append(runs, [text |-> text, statements |-> StatementsOfWindow(text), state |-> "sent",
                           answers |-> << >>, shown |-> FALSE])
  /\ isRunning' = TRUE
  /\ UNCHANGED <<editorVars, outputVars, pagerVars, applied, consoleSteps>>
Refuses(list) ==
  /\ ConsoleActs /\ logs # list /\ logs' = list
  /\ UNCHANGED <<editorVars, isRunning, results, pagerVars, runs, applied>>

MayRead == console.grant \in {"read", "write"}
MayCall(t) == IF t[1] = "s" THEN MayRead ELSE console.grant = "write"

RunQuery == console.kind = "sql" /\ IF MayRead THEN StartsRun ELSE Refuses(<<Entry("error", << >>)>>)
RunCommand == console.kind = "redis" /\ IF MayRead THEN StartsRun ELSE Refuses(PushLog(Entry("error", << >>)))

ParseArgs(t) == "sq" \notin ToSet(t)
RunFunction ==
  /\ console.kind = "convex"
  /\ IF MayCall(text) /\ Len(text) > 1 /\ ParseArgs(text)
     THEN StartsRun ELSE Refuses(<<Entry("error", << >>)>>)

-----------------------------------------------------------------------------
(* The server *)

\* POST /query, /redis/query and /convex/query, up to the adapter.
IsRefused(t) ==
  CASE console.kind = "sql" -> Trim(t) = << >> \/ ~MayRead
    [] console.kind = "redis" ->
         \/ ~IsTerminated(t) \/ ParseRedisCommand(t) = << >>
         \/ IF IsReadOnlyRedisTokens(ParseRedisCommand(t)) THEN ~MayRead ELSE console.grant # "write"
    [] console.kind = "convex" -> ~MayCall(t)

StatementsOf(t) ==
  CASE console.kind = "sql" -> SplitSqlStatements(t)
    [] console.kind = "redis" -> <<ParseRedisCommand(t)>>
    [] console.kind = "convex" -> <<t>>

AnswersTo(n, statement) ==
  CASE console.kind = "sql" -> SqlAnswers(n, statement)
    [] console.kind = "redis" -> RedisAnswers(n, statement)
    [] console.kind = "convex" -> ConvexAnswers(n, statement)

IsSent(n) == runs[n].state = "sent" /\ UNCHANGED <<editorVars, isRunning, outputVars, pagerVars, consoleSteps>>
NextStatement(n) == StatementsOf(runs[n].text)[Len(runs[n].answers) + 1]
Remain(n) == ~IsRefused(runs[n].text) /\ Len(runs[n].answers) < Len(StatementsOf(runs[n].text))

\* executeStatements: the next statement, once the one before is done.
Execute(n) ==
  /\ IsSent(n) /\ Remain(n)
  /\ "!" \notin ToSet(NextStatement(n))
  /\ applied' = Append(applied, [run |-> n, statement |-> NextStatement(n)])
  /\ \E a \in AnswersTo(n, NextStatement(n)) : runs' = [runs EXCEPT ![n].answers = Append(@, a)]

Succeeds(n) ==
  /\ IsSent(n) /\ ~IsRefused(runs[n].text) /\ ~Remain(n)
  /\ runs' = [runs EXCEPT ![n].state = "done"]
  /\ UNCHANGED applied

\* Refused, a statement that fails, or a source that is lost: what was
\* carried out stays, its answers are gone.
Fails(n) ==
  /\ IsSent(n) /\ (IsRefused(runs[n].text) \/ Remain(n))
  /\ runs' = [runs EXCEPT ![n].state = "failed"]
  /\ UNCHANGED applied

-----------------------------------------------------------------------------
(* Answers *)

Arrived(n) == runs' = [runs EXCEPT ![n].shown = TRUE] /\ isRunning' = FALSE /\ UNCHANGED <<editorVars, applied, consoleSteps>>

SqlLogs(n) ==
  LET run == runs[n] IN
  [i \in DOMAIN run.answers |->
     Entry("success", IF i \in DOMAIN run.statements THEN run.statements[i] ELSE Trim(text))]

\* Redis answers name their command, Convex answers their function.
ShowAnswer(n) ==
  /\ runs[n].state = "done" /\ ~runs[n].shown /\ Arrived(n)
  /\ results' = runs[n].answers
  /\ logs' = CASE console.kind = "sql" -> SqlLogs(n)
               [] console.kind = "redis" -> PushLog(Entry("success", runs[n].text))
               [] console.kind = "convex" -> <<Entry("success", runs[n].text)>>
  /\ Watch(results')

\* The SQL and Redis consoles log what is in the editor by then.
ShowError(n) ==
  /\ runs[n].state = "failed" /\ ~runs[n].shown /\ Arrived(n)
  /\ results' = << >>
  /\ logs' = CASE console.kind = "sql" -> <<Entry("error", Trim(text))>>
               [] console.kind = "redis" -> PushLog(Entry("error", Trim(text)))
               [] console.kind = "convex" -> <<Entry("error", runs[n].text)>>
  /\ Watch(<< >>)

-----------------------------------------------------------------------------
ConsoleInit ==
  /\ console \in [kind : {"sql", "redis", "convex"}, engine : {"prefix", "answer"}, grant : {"none", "read", "write"}]
  /\ console.kind # "sql" => console.engine = "answer"
  /\ text \in Texts \cup (IF console = [kind |-> "sql", engine |-> "answer", grant |-> "none"] THEN Inputs ELSE {})
  /\ console.kind = "convex" => text # << >>
  /\ isRunning = FALSE /\ results = << >> /\ logs = << >>
  /\ selectedTableTab = 1 /\ selectedTablePage = 1 /\ selectedTablePageSize = Max(PageSizes)
  /\ runs = << >> /\ applied = << >> /\ consoleSteps = 0

ConsoleActions ==
  \/ \E t \in Texts : (console.kind # "convex" \/ t # << >>) /\ Edit(t)
  \/ RunQuery \/ RunCommand \/ RunFunction
  \/ \E tab \in DOMAIN ResultTables(results) : SelectTable(tab)
  \/ \E d \in BOOLEAN : ChangeSelectedResultPage(IF d THEN selectedTablePage + 1 ELSE selectedTablePage - 1)
  \/ \E size \in PageSizes : ChangeSelectedResultPageSize(size)
  \/ \E n \in DOMAIN runs : Execute(n) \/ Succeeds(n) \/ Fails(n) \/ ShowAnswer(n) \/ ShowError(n)
ConsoleNext == text \in Texts /\ ConsoleActions

-----------------------------------------------------------------------------
ConsoleTypeOK ==
  /\ selectedTableTab \in 1 .. (IF ResultTables(results) = << >> THEN 1 ELSE Len(ResultTables(results)))
  /\ selectedTablePage \in 1 .. TotalPages(ResultTables(results), selectedTableTab, selectedTablePageSize)
  /\ console.kind = "redis" => Len(logs) <= LOG_LIMIT
  /\ isRunning => \E n \in DOMAIN runs : ~runs[n].shown

\* How SQL is read: quoted parts, comments and single characters follow one
\* another from the first position, and a semicolon that stands for itself
\* ends a statement.
LexemeEnd(s, i) ==
  LET pair == IF i < Len(s) THEN <<s[i], s[i + 1]>> ELSE <<s[i], "">>
      closing == CASE pair = <<"-", "-">> -> {j \in i + 2 .. Len(s) : s[j] = "nl"}
                   [] pair = <<"/", "*">> -> {j \in i + 3 .. Len(s) : s[j - 1] = "*" /\ s[j] = "/"}
                   [] s[i] \in Quotes -> {j \in i + 1 .. Len(s) : s[j] = s[i]}
                   [] OTHER -> {i}
  IN  IF closing = {} THEN Len(s) ELSE Min(closing)
LexemeStarts(s) ==
  LET begins[i \in DOMAIN s] == i = 1 \/ \E k \in 1 .. i - 1 : begins[k] /\ LexemeEnd(s, k) + 1 = i
  IN  {i \in DOMAIN s : begins[i]}
StatementsRead(s) ==
  LET cuts == SetToSortSeq({0, Len(s) + 1} \cup {i \in LexemeStarts(s) : s[i] = ";"}, <)
      parts == [k \in 1 .. Len(cuts) - 1 |-> Trim(SubSeq(s, cuts[k] + 1, cuts[k + 1] - 1))]
  IN  SelectSeq(parts, LAMBDA p : p # << >>)

\* How a Redis word is written: between quotes, or with escapes alone.
InQuotes(w) ==
  <<"dq">> \o FlattenSeq([i \in DOMAIN w |-> IF w[i] \in {"dq", "bs"} THEN <<"bs", w[i]>> ELSE <<w[i]>>]) \o <<"dq">>
Escapes(w) == FlattenSeq([i \in DOMAIN w |-> <<"bs", w[i]>>])

\* Every text is cut where its statements end (splitSqlStatements), and a
\* Redis word that is not empty is read as it was written (parseRedisCommand).
CutAsWritten ==
  /\ SplitSqlStatements(text) = StatementsRead(text)
  /\ text # << >> => ParseRedisCommand(<<" ">> \o Escapes(text) \o <<" ">> \o InQuotes(text)) = <<text, text>>

\* Whatever runs overlap and however texts are edited meanwhile: the source
\* carries out the statements of a run in order, each once, and all of them
\* when it answers (executeStatements); the results on the page are one run's,
\* and a log of success names the statement of the result at its place
\* (runQuery).
CarriedOut(n) ==
  LET mine == SelectSeq(applied, LAMBDA a : a.run = n) IN [i \in DOMAIN mine |-> mine[i].statement]
WrittenIn(t) ==
  CASE console.kind = "sql" -> StatementsRead(t) [] console.kind = "redis" -> <<ParseRedisCommand(t)>> [] OTHER -> <<t>>
ShownIsWhatRan ==
  /\ \A n \in DOMAIN runs :
       /\ IsPrefix(CarriedOut(n), WrittenIn(runs[n].text))
       /\ runs[n].state = "done" => CarriedOut(n) = WrittenIn(runs[n].text)
  /\ results # << >> =>
       LET n == results[1].run IN
       /\ [i \in DOMAIN results |-> results[i].statement] = CarriedOut(n)
       /\ \A i \in DOMAIN results : results[i].run = n
  /\ (console.kind = "sql" /\ logs # << >> /\ logs[1].level = "success") =>
       [i \in DOMAIN logs |-> logs[i].sql] = [i \in DOMAIN results |-> results[i].statement]
  /\ (console.kind # "sql" /\ logs # << >> /\ logs[1].level = "success") =>
       WrittenIn(logs[1].sql) = <<results[1].statement>>

\* What the page shows and logs is what was cut from the text and ran.
ConsoleIsTrue == ConsoleTypeOK /\ CutAsWritten /\ ShownIsWhatRan
=============================================================================
