----------------------------- MODULE ListBrowsers -----------------------------
(***************************************************************************)
(* The browsers of Redis keys and of Convex tables: their adapters and the *)
(* two pages that show what those answer.  Nothing on the pages waits for  *)
(* a load, so that loads overlap and are applied as they arrive; other     *)
(* clients change the source between two requests, and between the batches *)
(* of one scan of Redis.                                                   *)
(*                                                                         *)
(* A path is << >>, a key or a table <<n>>, or a document <<t, d>>.  Keys  *)
(* and documents are numbers, in the order the source goes through them;   *)
(* scanning the keys twice while Redis moves them is left out.  Convex     *)
(* keeps every snapshot of its one table.                                  *)
(***************************************************************************)
EXTENDS Naturals, Sequences, FiniteSets, SequencesExt, Positions

CONSTANTS
  RedisKeys, Documents,   \* numbers from 1
  Found,                  \* those that hold the searched word
  KEY_LIMIT,              \* keys of a listing
  ChunkSize,              \* documents of a page of Convex
  SCAN_GUARD,             \* pages a search reads in one request
  MaxListFlights,         \* bound: requests under way
  MaxListSteps,           \* bound: what the user does
  MaxOutside              \* bound: what other clients do

ASSUME ListAssumption ==
  /\ IsFiniteSet(RedisKeys) /\ RedisKeys = 1 .. Cardinality(RedisKeys)
  /\ IsFiniteSet(Documents) /\ Documents \subseteq Nat \ {0}
  /\ KEY_LIMIT \in Nat \ {0} /\ ChunkSize \in Nat \ {0} /\ SCAN_GUARD \in Nat
  /\ MaxListFlights \in Nat /\ MaxListSteps \in Nat /\ MaxOutside \in Nat

VARIABLES
  browsed,          \* "redis" or "convex"
  keys, snapshots,  \* in the source
  shownList,        \* the listing on the page
  currentPath, currentSearch,
  page, cursorStack,
  isLoadingList,
  asked,            \* requests under way
  undisturbed,      \* history: since the view was reset nothing failed and
                    \* nothing was started while something was under way
  firstSnapshot,    \* history: of the first page that was last shown
  listSteps, outside

sourceDataVars == <<keys, snapshots, outside>>
listViewVars == <<shownList, currentPath, currentSearch, page, cursorStack, isLoadingList>>
listVars == <<browsed, sourceDataVars, listViewVars, asked, undisturbed, firstSnapshot, listSteps>>

Table == <<"t">>
Searches == {"", "word", "word*"}
NoCursor == [snapshot |-> 0, at |-> 0]
MaxPages == Cardinality(Documents) + 1

-----------------------------------------------------------------------------
(* datasources/redis/adapter.ts *)

EmptyList == [path |-> << >>, items |-> << >>, more |-> FALSE, next |-> NoCursor, of |-> 0, steady |-> {}]

\* Redis takes the text for a pattern, the adapter then for a part of the name.
MatchesPattern(search, k) == search = "" \/ k \in Found
MatchesName(search, k) == search = "" \/ (search = "word" /\ k \in Found)

Matching(search, list) == At(list, {i \in DOMAIN list : MatchesName(search, list[i])})
FirstOf(list, n) == SubSeq(list, 1, IF Len(list) < n THEN Len(list) ELSE n)

\* A scan: how far it came and what it found.
ScanIsOver(r, batch) == Len(r.keys \o batch) >= KEY_LIMIT \/ r.scanned >= Cardinality(RedisKeys)

ListKeys(r, names) ==
  [EmptyList EXCEPT !.items = Matching(r.search, FirstOf(names, KEY_LIMIT)),
                    !.more = r.scanned < Cardinality(RedisKeys), !.steady = r.steady]

\* A key that is gone has no type, and no value.
GetKey(k) == [EmptyList EXCEPT !.path = <<k>>]

-----------------------------------------------------------------------------
(* datasources/convex/adapter.ts *)

Chunk(snapshot, at) ==
  LET documents == snapshots[snapshot] IN
  SubSeq(documents, at + 1, IF at + ChunkSize < Len(documents) THEN at + ChunkSize ELSE Len(documents))
HasMore(snapshot, at) == at + ChunkSize < Len(snapshots[snapshot])

\* A search reads on while a page holds no match.
ListDocuments(search, cursor) ==
  LET snapshot == IF cursor = NoCursor THEN Len(snapshots) ELSE cursor.snapshot
      from == cursor.at
      IsRead(n) == n <= SCAN_GUARD /\ \A m \in 0 .. n - 1 :
                     /\ Matching(search, Chunk(snapshot, from + m * ChunkSize)) = << >>
                     /\ HasMore(snapshot, from + m * ChunkSize)
      n == Max({m \in 0 .. IF search = "" THEN 0 ELSE Cardinality(Documents) : IsRead(m)})
      at == from + n * ChunkSize
  IN  [EmptyList EXCEPT !.path = Table, !.of = snapshot, !.items = Matching(search, Chunk(snapshot, at)),
                        !.more = HasMore(snapshot, at),
                        !.next = IF HasMore(snapshot, at) THEN [snapshot |-> snapshot, at |-> at + ChunkSize]
                                 ELSE NoCursor]

ListTables(search) == [EmptyList EXCEPT !.items = IF search = "" THEN Table ELSE << >>]
GetDocument(path) == [EmptyList EXCEPT !.path = path]

-----------------------------------------------------------------------------
(* Requests *)

Load(path, search, n, cursor) ==
  [path |-> path, search |-> search, page |-> n, cursor |-> cursor,
   scanned |-> 0, keys |-> << >>, steady |-> {k \in RedisKeys : MatchesName(search, k)}, answer |-> << >>]

ListActs ==
  /\ listSteps < MaxListSteps /\ listSteps' = listSteps + 1
  /\ Cardinality(asked) < MaxListFlights
  /\ UNCHANGED <<browsed, sourceDataVars, shownList, currentSearch, firstSnapshot>>
Asks(r) == asked' = asked \cup {r} /\ isLoadingList' = TRUE
Undisturbed(reset) == undisturbed' = ((undisturbed \/ reset) /\ asked = {})

Steady == UNCHANGED <<page, cursorStack>>
FirstCursor == [n \in 1 .. MaxPages + 1 |-> NoCursor]
ResetPaging == page' = 1 /\ cursorStack' = FirstCursor

\* The Redis page: a key is loaded without the search, the list with it.
LoadRedisData(path, search) ==
  /\ browsed = "redis" /\ ListActs /\ Undisturbed(TRUE) /\ Steady
  /\ Asks(Load(path, IF path = << >> THEN search ELSE "", 1, NoCursor))

RefreshKeys == LoadRedisData(currentPath, currentSearch) /\ UNCHANGED currentPath
ApplyKeySearch(search) ==
  currentPath = << >> /\ LoadRedisData(<< >>, search) /\ currentPath' = << >>
OpenKey(k) == currentPath = << >> /\ LoadRedisData(<<k>>, "") /\ UNCHANGED currentPath
GoToRoot == currentPath # << >> /\ LoadRedisData(<< >>, currentSearch) /\ currentPath' = << >>

\* The Convex page.
LoadConvexData(path, search, n, cursor) ==
  browsed = "convex" /\ ListActs /\ Asks(Load(path, search, n, cursor)) /\ UNCHANGED currentPath
Restart(path, search) == LoadConvexData(path, search, 1, NoCursor) /\ ResetPaging /\ Undisturbed(TRUE)
Turn(n) == LoadConvexData(currentPath, currentSearch, n, cursorStack[n]) /\ Steady /\ Undisturbed(FALSE)

IsTable == Len(currentPath) = 1
RefreshPage == Turn(page)
SearchTable(search) == Len(currentPath) < 2 /\ Restart(currentPath, search)
OpenRow(path) == Len(currentPath) < 2 /\ Restart(path, "")
\* The name of the table is known while its documents are shown only.
GoBack == currentPath # << >> /\ Restart(<< >>, "")
GoToPreviousPage == IsTable /\ page > 1 /\ Turn(page - 1)
GoToNextPage == IsTable /\ shownList.more /\ page < MaxPages /\ Turn(page + 1)

-----------------------------------------------------------------------------
(* The server, and other clients *)

OnServer(r) == r.answer = << >> /\ UNCHANGED <<browsed, sourceDataVars, listViewVars, undisturbed, firstSnapshot, listSteps>>
Becomes(r, next) == asked' = (asked \ {r}) \cup {next}

\* One batch of the scan, and the answer after the last one.
ScanBatch(r, to) ==
  /\ browsed = "redis" /\ OnServer(r) /\ r.path = << >> /\ r.scanned < to
  /\ LET batch == InOrder({k \in keys : k > r.scanned /\ k <= to /\ MatchesPattern(r.search, k)})
         read == [r EXCEPT !.scanned = to, !.steady = @ \cap keys]
     IN  Becomes(r, IF ScanIsOver(read, batch) THEN [read EXCEPT !.answer = <<ListKeys(read, read.keys \o batch)>>]
                    ELSE [read EXCEPT !.keys = @ \o batch])

ReadKey(r) ==
  /\ browsed = "redis" /\ OnServer(r) /\ r.path # << >>
  /\ Becomes(r, [r EXCEPT !.answer = <<GetKey(r.path[1])>>])

ReadConvex(r) ==
  /\ browsed = "convex" /\ OnServer(r)
  /\ Becomes(r, [r EXCEPT !.answer = << IF r.path = << >> THEN ListTables(r.search)
                                       ELSE IF Len(r.path) = 1 THEN ListDocuments(r.search, r.cursor)
                                       ELSE GetDocument(r.path) >>])

Outside ==
  /\ outside < MaxOutside /\ outside' = outside + 1
  /\ UNCHANGED <<browsed, listViewVars, undisturbed, firstSnapshot, listSteps>>
ChangeKey(k) ==
  /\ browsed = "redis" /\ Outside
  /\ keys' = IF k \in keys THEN keys \ {k} ELSE keys \cup {k}
  /\ asked' = {[r EXCEPT !.steady = @ \cap keys'] : r \in asked}
  /\ UNCHANGED snapshots
ChangeDocument(d) ==
  /\ browsed = "convex" /\ Outside
  /\ LET now == ToSet(Last(snapshots)) IN
     snapshots' = Append(snapshots, InOrder(IF d \in now THEN now \ {d} ELSE now \cup {d}))
  /\ UNCHANGED <<keys, asked>>

-----------------------------------------------------------------------------
(* Answers *)

ListEnds(r) == asked' = asked \ {r} /\ isLoadingList' = FALSE /\ UNCHANGED <<browsed, sourceDataVars, listSteps>>

ShowKeys(r) ==
  /\ currentSearch' = IF r.path = << >> THEN r.search ELSE currentSearch
  /\ UNCHANGED <<page, cursorStack, firstSnapshot>>

\* The place of the cursor that leads on from page n.
PlaceAfter_Own(n) == n
PlaceAfter(n) == n + 1
ShowPage(r) ==
  LET answer == r.answer[1] IN
  /\ page' = r.page
  /\ currentSearch' = IF r.page = 1 THEN r.search ELSE currentSearch
  /\ cursorStack' = IF answer.next # NoCursor THEN [cursorStack EXCEPT ![PlaceAfter(r.page)] = answer.next]
                    ELSE [n \in DOMAIN cursorStack |-> IF n <= r.page THEN cursorStack[n] ELSE NoCursor]
  /\ firstSnapshot' = IF r.page = 1 THEN answer.of ELSE firstSnapshot

ListAnswer(r) ==
  /\ r.answer # << >> /\ ListEnds(r)
  /\ shownList' = r.answer[1]
  /\ currentPath' = r.answer[1].path
  /\ (browsed = "redis" /\ ShowKeys(r)) \/ (browsed = "convex" /\ ShowPage(r))
  /\ UNCHANGED undisturbed

\* The load fails, wherever it is: the page is left as it is.
ListFails(r) ==
  /\ ListEnds(r)
  /\ undisturbed' = FALSE
  /\ UNCHANGED <<shownList, currentPath, currentSearch, page, cursorStack, firstSnapshot>>

-----------------------------------------------------------------------------
ListInit ==
  /\ browsed \in {"redis", "convex"}
  /\ keys = RedisKeys /\ snapshots = <<InOrder(Documents)>>
  /\ shownList = EmptyList
  /\ currentPath \in IF browsed = "redis" THEN {<< >>, <<1>>} ELSE {<< >>, Table, Append(Table, 1)}
  /\ currentSearch = "" /\ page = 1 /\ cursorStack = FirstCursor
  /\ isLoadingList = TRUE /\ asked = {Load(currentPath, "", 1, NoCursor)}
  /\ undisturbed = TRUE /\ firstSnapshot = 0 /\ listSteps = 0 /\ outside = 0

ListUser ==
  \/ RefreshKeys \/ GoToRoot
  \/ \E search \in Searches : ApplyKeySearch(search) \/ SearchTable(search)
  \/ \E i \in DOMAIN shownList.items : OpenKey(shownList.items[i])
                                       \/ OpenRow(Append(currentPath, shownList.items[i]))
  \/ RefreshPage \/ GoBack \/ GoToPreviousPage \/ GoToNextPage

ListNext ==
  \/ ListUser
  \/ \E r \in asked : ReadKey(r) \/ ReadConvex(r) \/ ListAnswer(r) \/ ListFails(r)
  \/ \E r \in asked : \E to \in RedisKeys : ScanBatch(r, to)
  \/ \E k \in RedisKeys : ChangeKey(k)
  \/ \E d \in Documents : ChangeDocument(d)

-----------------------------------------------------------------------------
ListTypeOK ==
  /\ keys \subseteq RedisKeys
  /\ page \in 1 .. MaxPages /\ cursorStack[1] = NoCursor
  /\ Len(currentPath) <= 2
  /\ isLoadingList => asked # {}

AtRest == undisturbed /\ asked = {}

\* While the user lets each load end and none fails, the list of keys holds
\* keys that match, once each, and when it is shorter than the limit none that
\* was there during the whole scan is missing (listKeys).
KeysAreListed ==
  (AtRest /\ browsed = "redis" /\ currentPath = << >>) =>
    /\ Cardinality(ToSet(shownList.items)) = Len(shownList.items)
    /\ \A i \in DOMAIN shownList.items : MatchesName(currentSearch, shownList.items[i])
    /\ (Len(shownList.items) < KEY_LIMIT /\ currentSearch # "word*") =>
         shownList.steady \subseteq ToSet(shownList.items)

\* Then, too, page n of a table shows the n-th part of what is in one
\* snapshot, that of its first page, and the last page is the last: however
\* the user went forward and back and others changed the documents
\* (goToNextPage, goToPreviousPage, the stack of cursors).
PartsOf(search, documents) ==
  LET parts == [k \in 1 .. (Len(documents) + ChunkSize - 1) \div ChunkSize |->
                  Matching(search, SubSeq(documents, (k - 1) * ChunkSize + 1,
                             IF k * ChunkSize < Len(documents) THEN k * ChunkSize ELSE Len(documents)))]
  IN  IF search = "" THEN parts ELSE At(parts, {k \in DOMAIN parts : parts[k] # << >>})
PagesAreOfOneSnapshot ==
  (AtRest /\ browsed = "convex" /\ IsTable) =>
    LET parts == PartsOf(currentSearch, snapshots[firstSnapshot]) IN
    /\ shownList.path = currentPath
    /\ shownList.items = IF page \in DOMAIN parts THEN parts[page] ELSE << >>
    /\ shownList.more \/ page >= Len(parts)

\* Keys and documents are listed whole and once.
ListsAreTrue == ListTypeOK /\ KeysAreListed /\ PagesAreOfOneSnapshot
=============================================================================
