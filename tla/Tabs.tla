--------------------------------- MODULE Tabs ---------------------------------
(***************************************************************************)
(* The tabs of the workspace window and the sidebar that opens and closes  *)
(* them.  The store keeps the tabs by position, the pages know theirs by   *)
(* its id, the tab strip's menu remembers a position, and deletions close  *)
(* tabs when an answer arrives, whatever the user did meanwhile.           *)
(*                                                                         *)
(* Positions start at 1; with no tab the current position is 1.  A browser *)
(* tab shows a path: << >> (the whole source), a collection, a document.   *)
(* The sidebar waits for one request at a time; openings may wait as well, *)
(* for the address of the desktop's own server.                            *)
(***************************************************************************)
EXTENDS Naturals, Sequences, FiniteSets, SequencesExt, Positions

CONSTANTS
  Workspaces,
  SqlSources, ResourceSources,
  WorkspaceOf,    \* the workspace of each source
  Tables,         \* names of tables
  Collections,    \* names of collections
  MaxTabs,        \* bound: tabs that are open or being opened
  MaxTabSteps     \* bound: what the user does

TabSources == SqlSources \cup ResourceSources
ASSUME TabsAssumption ==
  /\ WorkspaceOf \in [TabSources -> Workspaces]
  /\ SqlSources \cap ResourceSources = {}
  /\ MaxTabs \in Nat /\ MaxTabSteps \in Nat

VARIABLES
  tabs, currentTab,
  selectedTabIndex,  \* of the tab strip's menu; 0: none
  isDesktop,         \* the window is the desktop app's, on its own server
  currentProject, dataSources,
  expanded, items,   \* of each source of the sidebar
  contents,          \* on the server: [sources, items]
  awaiting,          \* the sidebar's request
  opening,           \* tabs whose server is being resolved
  edited,            \* ids of the tabs whose page has pending changes
  tabSteps

barVars == <<tabs, currentTab, selectedTabIndex, edited>>
sideVars == <<currentProject, dataSources, expanded, items, contents, awaiting, opening>>
tabVars == <<barVars, sideVars, isDesktop, tabSteps>>

Path(c) == <<c>>
DocumentPath(c) == <<c, "_doc">>
Paths == {<< >>} \cup {Path(c) : c \in Collections} \cup {DocumentPath(c) : c \in Collections}
ItemsOf(s) == IF s \in SqlSources THEN Tables ELSE Collections

-----------------------------------------------------------------------------
(* stores/tabs-store.ts *)

IdOf(tab) == tab.id
Ids(list) == {list[i].id : i \in DOMAIN list}

Clamped(index, count) ==
  IF count = 0 THEN 1 ELSE IF index < 1 THEN 1 ELSE IF index > count THEN count ELSE index

\* A page lives as long as its tab.
ApplyTabsState(next, index) ==
  /\ tabs' = next
  /\ currentTab' = Clamped(index, Len(next))
  /\ edited' = edited \cap Ids(next)

PositionOf(list, id) == IF id \in Ids(list) THEN SelectInSeq(list, LAMBDA t : t.id = id) ELSE 0

OpenNewTab_Always(data) ==
  tabs' = Append(tabs, data) /\ currentTab' = Len(tabs) + 1 /\ UNCHANGED <<selectedTabIndex, edited>>
OpenNewTab(data) ==
  /\ IF data.id \in Ids(tabs)
     THEN LET at == PositionOf(tabs, data.id) IN
          tabs' = [tabs EXCEPT ![at] = [data EXCEPT !.dirty = tabs[at].dirty]] /\ currentTab' = at
     ELSE tabs' = Append(tabs, data) /\ currentTab' = Len(tabs) + 1
  /\ UNCHANGED <<selectedTabIndex, edited>>

IndexAfter(i) == IF i < currentTab THEN currentTab - 1 ELSE currentTab
CloseTab(i) ==
  IF i \in DOMAIN tabs
  THEN ApplyTabsState(At(tabs, DOMAIN tabs \ {i}), IndexAfter(i))
  ELSE UNCHANGED <<tabs, currentTab, edited>>

CloseTabsMatching(matching) ==
  LET remaining == At(tabs, {i \in DOMAIN tabs : tabs[i] \notin matching})
      kept == IF tabs = << >> THEN 0 ELSE PositionOf(remaining, tabs[currentTab].id)
  IN  IF Len(remaining) = Len(tabs) THEN UNCHANGED <<tabs, currentTab, edited>>
      ELSE ApplyTabsState(remaining, IF kept = 0 THEN currentTab ELSE kept)

CloseOtherTabs(i) ==
  IF i \in DOMAIN tabs THEN ApplyTabsState(<<tabs[i]>>, 1) ELSE UNCHANGED <<tabs, currentTab, edited>>

CloseTabsToRight(i) ==
  IF i \in DOMAIN tabs
  THEN ApplyTabsState(SubSeq(tabs, 1, i), IF currentTab < i THEN currentTab ELSE i)
  ELSE UNCHANGED <<tabs, currentTab, edited>>

-----------------------------------------------------------------------------
(* The tab strip, its menu, and the shortcut of the desktop's window *)

Acts == tabSteps < MaxTabSteps /\ tabSteps' = tabSteps + 1
Bar == UNCHANGED <<sideVars, isDesktop>>

SelectTab(i) ==
  /\ i # currentTab /\ UNCHANGED tabSteps
  /\ currentTab' = i
  /\ UNCHANGED <<tabs, selectedTabIndex, edited>> /\ Bar

CloseClicked(i) == Acts /\ CloseTab(i) /\ UNCHANGED selectedTabIndex /\ Bar

ShowTabMenu(i) ==
  /\ Acts /\ selectedTabIndex # i
  /\ selectedTabIndex' = i
  /\ UNCHANGED <<tabs, currentTab, edited>> /\ Bar

MenuCommand ==
  /\ Acts /\ selectedTabIndex # 0 /\ UNCHANGED selectedTabIndex /\ Bar
  /\ \/ CloseTab(selectedTabIndex)
     \/ Len(tabs) > 1 /\ CloseOtherTabs(selectedTabIndex)
     \/ selectedTabIndex < Len(tabs) /\ CloseTabsToRight(selectedTabIndex)

CloseShortcut ==
  /\ Acts /\ isDesktop /\ tabs # << >>
  /\ CloseTab(currentTab)
  /\ UNCHANGED selectedTabIndex /\ Bar

-----------------------------------------------------------------------------
(* The page of a table, which finds its tab by its id *)

TabIndex(id) == PositionOf(tabs, id)

PendingChanges(id, dirty) ==
  LET at == TabIndex(id) IN
  /\ edited' = IF dirty THEN edited \cup {id} ELSE edited \ {id}
  /\ tabs' = IF at = 0 THEN tabs ELSE [tabs EXCEPT ![at].dirty = dirty]
  /\ UNCHANGED <<currentTab, selectedTabIndex>>

\* Editing needs the page in front; a save that was sent earlier does not.
EditPage ==
  /\ Acts /\ currentTab \in DOMAIN tabs
  /\ tabs[currentTab].type = "table" /\ tabs[currentTab].id \notin edited
  /\ PendingChanges(tabs[currentTab].id, TRUE) /\ Bar

PageSaved(id) == id \in edited /\ PendingChanges(id, FALSE) /\ Bar /\ UNCHANGED tabSteps

-----------------------------------------------------------------------------
(* Opening: the workspace is looked at again after the server is known *)

Side == UNCHANGED isDesktop
Request(type, s, item) == [type |-> type, source |-> s, item |-> item]

\* resolveCurrentServer waits only for the desktop's own server.
Opens(request) == currentProject # "" /\ opening' = opening \cup {request}

FreshId(type) ==
  <<type, CHOOSE n \in 1 .. MaxTabs + 1 : <<type, n>> \notin Ids(tabs)
                    /\ \A m \in 1 .. n - 1 : <<type, m>> \in Ids(tabs)>>

TabData(r, id) ==
  [id |-> id, type |-> r.type, project |-> currentProject, source |-> r.source, item |-> r.item, dirty |-> FALSE]

OpenTable(r) == r.type = "table" /\ OpenNewTab(TabData(r, FreshId("table")))
OpenSqlConsole(r) == r.type = "query" /\ r.source \in SqlSources /\ OpenNewTab(TabData(r, FreshId("query")))
OpenResourceConsole(r) ==
  r.type = "query" /\ r.source \in ResourceSources /\ OpenNewTab(TabData(r, FreshId("query")))
OpenBrowser(r) ==
  r.type = "browser" /\ OpenNewTab(TabData(r, <<"browser", currentProject, r.source, r.item>>))

Opened(r) ==
  /\ opening' = opening \ {r}
  /\ OpenTable(r) \/ OpenSqlConsole(r) \/ OpenResourceConsole(r) \/ OpenBrowser(r)
  /\ UNCHANGED <<currentProject, dataSources, expanded, items, contents, awaiting, tabSteps>> /\ Side

\* The desktop's server has no address.
NotResolved(r) ==
  /\ isDesktop
  /\ opening' = opening \ {r}
  /\ UNCHANGED <<barVars, currentProject, dataSources, expanded, items, contents, awaiting, tabSteps>> /\ Side

HasRoom == Len(tabs) + Cardinality(opening) < MaxTabs

\* What a source of the sidebar offers: its tables or paths, and its console.
ClickItem(s) ==
  /\ Acts /\ HasRoom /\ s \in dataSources
  /\ IF s \in SqlSources
     THEN \/ \E t \in items[s] : Opens(Request("table", s, Path(t)))
          \/ Opens(Request("query", s, << >>))
     ELSE \/ Opens(Request("query", s, << >>))
          \/ Opens(Request("browser", s, << >>))
          \/ \E c \in items[s] : Opens(Request("browser", s, Path(c)))
                              \/ Opens(Request("browser", s, DocumentPath(c)))
  /\ UNCHANGED <<barVars, currentProject, dataSources, expanded, items, contents, awaiting>> /\ Side

-----------------------------------------------------------------------------
(* The sidebar's requests *)

Idle == [op |-> "idle"]
Awaits(op, s, item) == [op |-> op, source |-> s, item |-> item]
Ask(op, s, item) == Acts /\ awaiting = Idle /\ s \in dataSources /\ awaiting' = Awaits(op, s, item)
Asked == UNCHANGED <<barVars, dataSources, contents, opening>> /\ Side

\* The workspace is another at once, the old one's sources stay listed.
SetCurrentProject(p) ==
  /\ Acts /\ awaiting = Idle /\ p # currentProject
  /\ currentProject' = p
  /\ awaiting' = Awaits("switch", "none", "none")
  /\ UNCHANGED <<expanded, items>> /\ Asked

ToggleExpanded(s) ==
  /\ IF s \in expanded
     THEN Acts /\ awaiting = Idle /\ s \in dataSources /\ expanded' = expanded \ {s} /\ UNCHANGED awaiting
     ELSE Ask("load", s, "none") /\ expanded' = expanded \cup {s}
  /\ UNCHANGED <<currentProject, items>> /\ Asked

AskCreate(s, item) ==
  Ask("create", s, item) /\ item \notin contents.items[s] /\ UNCHANGED <<currentProject, expanded, items>> /\ Asked
AskDrop(s, item) ==
  Ask("drop", s, item) /\ item \in items[s] /\ UNCHANGED <<currentProject, expanded, items>> /\ Asked
AskDelete(s) == Ask("delete", s, "none") /\ UNCHANGED <<currentProject, expanded, items>> /\ Asked

Answer == awaiting # Idle /\ UNCHANGED <<currentProject, isDesktop, tabSteps>>

\* Requests name the current workspace, which may not be the source's any more.
Reaches(s) == s \in contents.sources /\ WorkspaceOf[s] = currentProject
Served(op) == Answer /\ awaiting.op = op /\ Reaches(awaiting.source)

\* The sources of the workspace that is current now; the components of the
\* others are gone, with what they showed.
RefreshDataSources ==
  /\ dataSources' = {s \in contents.sources : WorkspaceOf[s] = currentProject}
  /\ expanded' = expanded \cap dataSources'
  /\ items' = [s \in TabSources |-> IF s \in dataSources' THEN items[s] ELSE {}]

Switched ==
  /\ Answer /\ awaiting.op = "switch" /\ awaiting' = Idle
  /\ RefreshDataSources
  /\ UNCHANGED <<barVars, contents, opening>>

LoadItems(s) ==
  /\ items' = [items EXCEPT ![s] = contents.items[s]]
  /\ UNCHANGED <<dataSources, expanded, contents>>

Loaded ==
  /\ Served("load") /\ awaiting' = Idle
  /\ LoadItems(awaiting.source) /\ UNCHANGED <<barVars, opening>>

\* The server's answer to a deletion, and then the list without the source.
SourceDeleted ==
  /\ Served("delete")
  /\ contents' = [contents EXCEPT !.sources = @ \ {awaiting.source}]
  /\ awaiting' = [awaiting EXCEPT !.op = "refresh"]
  /\ UNCHANGED <<barVars, dataSources, expanded, items, opening>>

CloseTabsOf(s) == CloseTabsMatching({t \in ToSet(tabs) : t.source = s})

DeleteDataSource ==
  /\ Answer /\ awaiting.op = "refresh" /\ awaiting' = Idle
  /\ RefreshDataSources
  /\ CloseTabsOf(awaiting.source)
  /\ UNCHANGED <<selectedTabIndex, contents, opening>>

IsOfTable(t, s, item) == t.type = "table" /\ t.source = s /\ t.item = Path(item)
IsWithin_Exactly(t, s, item) == t.type = "browser" /\ t.source = s /\ t.item = Path(item)
IsWithin(t, s, item) == t.type = "browser" /\ t.source = s /\ t.item \in {Path(item), DocumentPath(item)}

DropTable ==
  /\ awaiting.source \in SqlSources
  /\ CloseTabsMatching({t \in ToSet(tabs) : IsOfTable(t, awaiting.source, awaiting.item)})
  /\ awaiting' = Awaits("load", awaiting.source, "none")

\* Only an expanded source is loaded anew.
DeleteCollection ==
  /\ awaiting.source \in ResourceSources
  /\ CloseTabsMatching({t \in ToSet(tabs) : IsWithin(t, awaiting.source, awaiting.item)})
  /\ awaiting' = IF awaiting.source \in expanded THEN Awaits("load", awaiting.source, "none") ELSE Idle

Dropped ==
  /\ Served("drop")
  /\ contents' = [contents EXCEPT !.items[awaiting.source] = @ \ {awaiting.item}]
  /\ DropTable \/ DeleteCollection
  /\ UNCHANGED <<selectedTabIndex, dataSources, expanded, items, opening>>

\* A new table or collection is listed, then opened.
Created ==
  /\ Served("create")
  /\ contents' = [contents EXCEPT !.items[awaiting.source] = @ \cup {awaiting.item}]
  /\ awaiting' = [awaiting EXCEPT !.op = "show"]
  /\ UNCHANGED <<barVars, dataSources, expanded, items, opening>>

CreateTable(s, item) == s \in SqlSources /\ LoadItems(s) /\ Opens(Request("table", s, Path(item)))
CreateCollection(s, item) ==
  /\ s \in ResourceSources
  /\ IF s \in expanded THEN LoadItems(s) ELSE UNCHANGED <<dataSources, expanded, items, contents>>
  /\ Opens(Request("browser", s, Path(item)))

ShowCreated ==
  /\ Served("show") /\ awaiting' = Idle /\ HasRoom
  /\ CreateTable(awaiting.source, awaiting.item) \/ CreateCollection(awaiting.source, awaiting.item)
  /\ UNCHANGED barVars

\* A request fails, carried out or not: the handler goes no further.
RequestFails ==
  /\ Answer /\ awaiting' = Idle
  /\ \/ UNCHANGED contents
     \/ Served("delete") /\ contents' = [contents EXCEPT !.sources = @ \ {awaiting.source}]
     \/ Served("drop") /\ contents' = [contents EXCEPT !.items[awaiting.source] = @ \ {awaiting.item}]
  /\ UNCHANGED <<barVars, dataSources, expanded, items, opening>>

-----------------------------------------------------------------------------
TabsInit ==
  /\ tabs = << >> /\ currentTab = 1 /\ selectedTabIndex = 0 /\ edited = {}
  /\ isDesktop \in BOOLEAN
  /\ currentProject \in Workspaces
  /\ contents = [sources |-> TabSources, items |-> [s \in TabSources |-> ItemsOf(s)]]
  /\ dataSources = {s \in TabSources : WorkspaceOf[s] = currentProject}
  /\ expanded = dataSources
  /\ items = [s \in TabSources |-> IF s \in dataSources THEN ItemsOf(s) ELSE {}]
  /\ awaiting = Idle /\ opening = {} /\ tabSteps = 0

TabStrip ==
  \/ \E i \in DOMAIN tabs : SelectTab(i) \/ CloseClicked(i) \/ ShowTabMenu(i)
  \/ MenuCommand \/ CloseShortcut \/ EditPage
  \/ \E id \in edited : PageSaved(id)

Sidebar ==
  \/ \E s \in TabSources : ClickItem(s) \/ ToggleExpanded(s) \/ AskDelete(s)
  \/ \E s \in TabSources : \E item \in ItemsOf(s) : AskCreate(s, item) \/ AskDrop(s, item)
  \/ \E p \in Workspaces : SetCurrentProject(p)
  \/ Switched \/ Loaded \/ SourceDeleted \/ DeleteDataSource \/ Dropped \/ Created \/ ShowCreated \/ RequestFails

\* In a page of the web, and on other servers, an opening waits for nothing.
TabsNext ==
  \/ \E r \in opening : Opened(r) \/ NotResolved(r)
  \/ (isDesktop \/ opening = {}) /\ (TabStrip \/ Sidebar)

-----------------------------------------------------------------------------
TabsTypeOK ==
  /\ \A i \in DOMAIN tabs :
       /\ tabs[i].source \in TabSources /\ tabs[i].project \in Workspaces
       /\ tabs[i].item \in CASE tabs[i].type = "table" -> {Path(t) : t \in Tables} [] tabs[i].type = "query" -> {<< >>}
                             [] tabs[i].type = "browser" -> Paths
  /\ currentTab \in 1 .. (IF tabs = << >> THEN 1 ELSE Len(tabs))
  /\ selectedTabIndex \in 0 .. MaxTabs
  /\ edited \subseteq Ids(tabs)

\* No two tabs have one id: the window's pages are keyed by it, and pages and
\* deletions find their tab by it (openNewTab, tabIndex of SQLTableView).
UniqueTabs == Cardinality(Ids(tabs)) = Len(tabs)

\* The dot of unsaved changes is on the tabs whose page has pending changes,
\* however tabs were opened, merged and closed meanwhile.
DirtyFlagIsTrue == \A i \in DOMAIN tabs : tabs[i].dirty <=> tabs[i].id \in edited

\* Closing other tabs leaves the tab that was in front in front.
FrontStays ==
  (Ids(tabs') \subseteq Ids(tabs) /\ tabs' # << >> /\ Len(tabs') < Len(tabs))
    => (tabs[currentTab].id \in Ids(tabs') => tabs'[currentTab'].id = tabs[currentTab].id)

\* When the deletion of a source, table or collection is over, none of its
\* tabs is left, and the tabs of others are.
OfDeleted(t) ==
  CASE awaiting.op = "refresh" -> t.source = awaiting.source
    [] awaiting.op = "drop" ->
         /\ t.source = awaiting.source /\ t.type \in {"table", "browser"}
         /\ t.item \in {Path(awaiting.item), DocumentPath(awaiting.item)}
    [] OTHER -> FALSE
ClosesTheDeleted ==
  (DeleteDataSource \/ Dropped) => tabs' = At(tabs, {i \in DOMAIN tabs : ~OfDeleted(tabs[i])})

\* Each tab is one page, the one in front exists, and its mark is its page's.
TabsAreTrue == TabsTypeOK /\ UniqueTabs /\ DirtyFlagIsTrue
=============================================================================
