------------------------------- MODULE MCPages -------------------------------
(***************************************************************************)
(* The tabs of the window and three kinds of pages in them.  A page knows  *)
(* nothing of the others but what its tab hands it when it opens: a        *)
(* behaviour is about the tabs or about one page, and the rest rests in a  *)
(* first state.                                                            *)
(***************************************************************************)
EXTENDS Tabs, ObjectBrowser, QueryConsole, ListBrowsers

VARIABLE view

pageVars == <<view, tabVars, browserVars, consoleVars, listVars>>

MCWorkspaceOf == [s \in TabSources |-> "p"]

MCPlace == ("b" :> 1) @@ ("d" :> 2) @@ ("dd" :> 3) @@ ("e" :> 4) @@ ("f" :> 5) @@ ("g" :> 6) @@ ("x" :> 7)
MCNameRank == [folder \in BOOLEAN |-> [n \in DOMAIN MCPlace |-> 2 * MCPlace[n] + IF folder THEN 1 ELSE 0]]
MCKeys == {<<"b", "d">>, <<"b", "d", "x">>, <<"b", "dd", "x">>, <<"b", "e">>, <<"b", "f">>, <<"b", "g">>}
MCHits == {<<"b", "dd">>, <<"b", "dd", "x">>, <<"b", "e">>, <<"b", "g">>}
MCNewKeys == {<<"b", "d", "x">>}
MCStarts == {[path |-> Root, bucket |-> "b"], [path |-> Folder(<<"b">>), bucket |-> "b"]}

MCInputs == UNION {[1 .. n -> {"s", ";", "sq", "dq", "-", "nl", "/", "*", "bs"}] : n \in 0 .. 4}
MCTexts == {<<"s", ";", "u", "sq", ";", "sq">>, <<"u", ";", "!">>, <<" ">>}

TabsRest == TabsInit /\ ~isDesktop /\ currentProject = "p"
BrowserRest == BrowserInit /\ currentFolderPath = Folder(<<"b">>) /\ selectedItemPath = Root
ConsoleRest ==
  ConsoleInit /\ text = <<" ">> /\ console = [kind |-> "redis", engine |-> "answer", grant |-> "none"]
ListRest == ListInit /\ browsed = "redis" /\ currentPath = << >>

\* The window begins in the workspace that has sources.
PagesInit ==
  \/ view = "tabs" /\ TabsInit /\ currentProject = "p" /\ BrowserRest /\ ConsoleRest /\ ListRest
  \/ view = "objects" /\ TabsRest /\ BrowserInit /\ ConsoleRest /\ ListRest
  \/ view = "console" /\ TabsRest /\ BrowserRest /\ ConsoleInit /\ ListRest
  \/ view = "list" /\ TabsRest /\ BrowserRest /\ ConsoleRest /\ ListInit

PagesNext ==
  /\ UNCHANGED view
  /\ \/ view = "tabs" /\ TabsNext /\ UNCHANGED <<browserVars, consoleVars, listVars>>
     \/ view = "objects" /\ BrowserNext /\ UNCHANGED <<tabVars, consoleVars, listVars>>
     \/ view = "console" /\ ConsoleNext /\ UNCHANGED <<tabVars, browserVars, listVars>>
     \/ view = "list" /\ ListNext /\ UNCHANGED <<tabVars, browserVars, consoleVars>>

PagesSpec == PagesInit /\ [][PagesNext]_pageVars

\* Closing tabs leaves the one in front in front, a deletion closes the tabs
\* of what is deleted and no other (FrontStays, ClosesTheDeleted of Tabs), and
\* takes only the objects that were confirmed (TakesTheConfirmed of
\* ObjectBrowser).
RemovalsAreExact == [][FrontStays /\ ClosesTheDeleted /\ TakesTheConfirmed]_pageVars
=============================================================================
