----------------------------- MODULE PagesProofs -----------------------------
(***************************************************************************)
(* Theorems about the pages of the window: the invariant of the tabs, what *)
(* a removal takes, what the object browser shows, and what the lists of   *)
(* keys and documents show.                                                *)
(*                                                                         *)
(* The tabs.  TabsInv says that ids differ, that the current position is   *)
(* one of a tab, that a mark is of a tab whose page has changes (BarOK),   *)
(* that there is room for what is being opened (RoomOK), and that what the *)
(* sidebar lists and asks for exists (SideOK).  A tab shows what its kind  *)
(* of source has (ShowsItsSource): that is why closing the table tabs of a *)
(* source closes what was dropped and nothing else.  Closing leaves some   *)
(* positions, each of an earlier tab (Remains), and the tab in front is    *)
(* found among them by its id (FrontPlace).                                *)
(*                                                                         *)
(* The objects.  Only the store's own steps remove any, a deletion what    *)
(* its paths name; for that a request must keep its form while other       *)
(* clients' changes are noted in it (IsFlight).  A batch gives its objects *)
(* and then its folders (QueryIs); what is walked of it covers, between    *)
(* its cursor and the next, the entries that stay in the folder, but for   *)
(* the folders it skips, and repeats only objects (BatchLists, Covers);    *)
(* the next batch or page goes on where it ends (AppendedCovers).  As long *)
(* the user waits, the one request under way is about what the page shows, *)
(* and its answer stays true of the store (InStep, Whole, NextPage).       *)
(*                                                                         *)
(* The lists.  ListInv follows a request from its start to the page: a     *)
(* scan of the keys has found all that stayed, as far as it came (ScanOK), *)
(* and a cursor leads on from a chunk of one snapshot, with as many pages  *)
(* before it as there are full chunks (Leads).  A load begins a listing or *)
(* goes on with the one that is shown (Begins, GoesOn), so that what is    *)
(* shown is a part of one snapshot (ShowsPart, TableOK).                   *)
(***************************************************************************)
EXTENDS MCPages, PositionsProofs

-----------------------------------------------------------------------------
(* What a tab is, and what is asked to be opened.                          *)

\* createTransientTabId numbers the tabs of a kind; a browser's id is what it shows.
TabKeys ==
  ({"table", "query"} \X Nat)
    \cup {<<"browser", p, s, path>> : p \in Workspaces, s \in TabSources, path \in Paths}
TableItems == {Path(t) : t \in Tables}

\* A table is one of an SQL source, a console shows no item, a browser tab is one of a resource.
ShowsItsSource(r) ==
  /\ r.type = "table" => r.source \in SqlSources /\ r.item \in TableItems
  /\ r.type = "query" => r.item = << >>
  /\ r.type = "browser" => r.source \in ResourceSources /\ r.item \in Paths
TabKinds == {"table", "query", "browser"}
Rows ==
  {t \in [id : TabKeys, type : TabKinds, project : Workspaces, source : TabSources,
          item : TableItems \cup Paths, dirty : BOOLEAN] : ShowsItsSource(t)}
Openings ==
  {r \in [type : TabKinds, source : TabSources, item : TableItems \cup Paths] : ShowsItsSource(r)}

-----------------------------------------------------------------------------
(* The inductive invariant.                                                *)

\* Tabs differ in their ids, and the marked ones are those with changes.
BarOK ==
  /\ tabs \in Seq(Rows)
  /\ currentTab \in Nat /\ currentTab >= 1 /\ (tabs = << >> => currentTab = 1)
  /\ tabs # << >> => currentTab <= Len(tabs)
  /\ \A i, j \in DOMAIN tabs : tabs[i].id = tabs[j].id => i = j
  /\ \A i \in DOMAIN tabs : tabs[i].dirty <=> tabs[i].id \in edited
  /\ edited \subseteq Ids(tabs)
  /\ selectedTabIndex \in 0..MaxTabs

\* Each tab that is asked for has its place.
RoomOK == IsFiniteSet(opening) /\ Len(tabs) + Cardinality(opening) <= MaxTabs

Calls == {"switch", "load", "delete", "refresh", "create", "show", "drop"}
AwaitingOK ==
  \/ awaiting = Idle
  \/ /\ awaiting = Awaits(awaiting.op, awaiting.source, awaiting.item)
     /\ awaiting.op \in Calls
     /\ awaiting.op # "switch" => awaiting.source \in TabSources
     /\ awaiting.op \in {"create", "show", "drop"} => awaiting.item \in ItemsOf(awaiting.source)

ListedOK(list) == DOMAIN list = TabSources /\ \A s \in TabSources : list[s] \subseteq ItemsOf(s)
SideOK ==
  /\ opening \subseteq Openings /\ currentProject \in Workspaces
  /\ dataSources \subseteq TabSources
  /\ ListedOK(items)
  /\ contents = [sources |-> contents.sources, items |-> contents.items]
  /\ contents.sources \subseteq TabSources /\ ListedOK(contents.items)
  /\ AwaitingOK

TabsInv == BarOK /\ RoomOK /\ SideOK

LEMMA Bounds == MaxTabs \in Nat /\ MaxTabSteps \in Nat /\ SqlSources \cap ResourceSources = {}
BY TabsAssumption

LEMMA TabsInitInv == TabsInit => TabsInv
<1> SUFFICES ASSUME TabsInit PROVE TabsInv
  OBVIOUS
<1>1. BarOK
  BY Bounds DEF TabsInit, BarOK, Ids
<1>2. RoomOK
  <2>1. IsFiniteSet({}) /\ Cardinality({}) = 0
    BY FS_EmptySet
  <2> QED BY <2>1, Bounds DEF TabsInit, RoomOK
<1>3. SideOK
  BY DEF TabsInit, SideOK, ListedOK, AwaitingOK
<1> QED BY <1>1, <1>2, <1>3 DEF TabsInv

-----------------------------------------------------------------------------
(* Closing tabs.                                                           *)

\* What is left after closing: tabs of before, each once.
Remains(next, pos) ==
  /\ next \in Seq(Rows) /\ Len(next) <= Len(tabs)
  /\ \A k \in DOMAIN next : pos[k] \in DOMAIN tabs /\ next[k] = tabs[pos[k]]
  /\ \A k, l \in DOMAIN next : pos[k] = pos[l] => k = l

LEMMA ClampedIs ==
  ASSUME NEW n \in Nat, NEW i \in Nat
  PROVE  /\ Clamped(i, n) \in Nat /\ Clamped(i, n) >= 1
         /\ n = 0 => Clamped(i, n) = 1
         /\ n # 0 => Clamped(i, n) <= n
         /\ i \in 1..n => Clamped(i, n) = i
BY DEF Clamped

LEMMA ApplyKeeps ==
  ASSUME BarOK, RoomOK, NEW next, NEW pos, Remains(next, pos), NEW index \in Nat,
         ApplyTabsState(next, index), UNCHANGED <<selectedTabIndex, opening>>
  PROVE  BarOK' /\ RoomOK'
<1>1. /\ tabs' = next /\ currentTab' = Clamped(index, Len(next)) /\ edited' = edited \cap Ids(next)
  BY DEF ApplyTabsState
<1>2. next \in Seq(Rows) /\ Len(next) \in Nat /\ Len(next) <= Len(tabs) /\ Len(tabs) \in Nat
  BY DEF Remains, BarOK
<1>3. /\ currentTab' \in Nat /\ currentTab' >= 1 /\ (next = << >> => currentTab' = 1)
      /\ next # << >> => currentTab' <= Len(next)
  <2>1. next = << >> <=> Len(next) = 0
    BY <1>2
  <2>2. /\ Clamped(index, Len(next)) \in Nat /\ Clamped(index, Len(next)) >= 1
        /\ Len(next) = 0 => Clamped(index, Len(next)) = 1
        /\ Len(next) # 0 => Clamped(index, Len(next)) <= Len(next)
    BY ONLY <1>2, index \in Nat, ClampedIs
  <2> QED BY ONLY <1>1, <2>1, <2>2
<1>4. \A i, j \in DOMAIN next : next[i].id = next[j].id => i = j
  <2> SUFFICES ASSUME NEW i \in DOMAIN next, NEW j \in DOMAIN next, next[i].id = next[j].id PROVE i = j
    OBVIOUS
  <2>1. pos[i] \in DOMAIN tabs /\ pos[j] \in DOMAIN tabs /\ tabs[pos[i]].id = tabs[pos[j]].id
    BY DEF Remains
  <2>2. pos[i] = pos[j]
    BY <2>1 DEF BarOK
  <2> QED BY <2>2 DEF Remains
<1>5. \A i \in DOMAIN next : next[i].dirty <=> next[i].id \in edited'
  <2> SUFFICES ASSUME NEW i \in DOMAIN next PROVE next[i].dirty <=> next[i].id \in edited'
    OBVIOUS
  <2>1. pos[i] \in DOMAIN tabs /\ next[i] = tabs[pos[i]]
    BY DEF Remains
  <2>2. next[i].dirty <=> next[i].id \in edited
    BY <2>1 DEF BarOK
  <2>3. next[i].id \in Ids(next)
    BY DEF Ids
  <2> QED BY <1>1, <2>2, <2>3
<1>6. BarOK'
  BY <1>1, <1>2, <1>3, <1>4, <1>5 DEF BarOK
<1>7. RoomOK'
  <2>1. Cardinality(opening) \in Nat
    BY FS_CardinalityType DEF RoomOK
  <2> QED BY <1>1, <1>2, <2>1, Bounds DEF RoomOK
<1> QED BY <1>6, <1>7

LEMMA AtRemains ==
  ASSUME BarOK, NEW S \in SUBSET DOMAIN tabs
  PROVE  Remains(At(tabs, S), [k \in DOMAIN At(tabs, S) |-> Nth(S, k)])
<1>1. tabs \in Seq(Rows)
  BY DEF BarOK
<1> DEFINE next == At(tabs, S)
<1>2. /\ Cardinality(S) \in Nat /\ Cardinality(S) <= Len(tabs)
      /\ next \in Seq(Rows) /\ Len(next) = Cardinality(S) /\ DOMAIN next = 1..Cardinality(S)
      /\ \A k \in 1..Cardinality(S) : Nth(S, k) \in S /\ next[k] = tabs[Nth(S, k)]
      /\ \A k, l \in 1..Cardinality(S) : Nth(S, k) = Nth(S, l) => k = l
  BY <1>1, AtIs
<1> HIDE DEF next
<1>3. Remains(next, [k \in DOMAIN next |-> Nth(S, k)])
  BY <1>2 DEF Remains
<1> QED BY <1>3 DEF next

\* The first tab with an id is one.
LEMMA PositionIs ==
  ASSUME NEW list \in Seq(Rows), NEW id
  PROVE  /\ id \in Ids(list) => PositionOf(list, id) \in DOMAIN list /\ list[PositionOf(list, id)].id = id
         /\ id \notin Ids(list) => PositionOf(list, id) = 0
         /\ PositionOf(list, id) \in Nat
<1> DEFINE I == {i \in 1..Len(list) : list[i].id = id}
<1>1. ASSUME id \in Ids(list)
      PROVE  PositionOf(list, id) \in DOMAIN list /\ list[PositionOf(list, id)].id = id
  <2>1. I # {} /\ I \in SUBSET Nat
    BY <1>1 DEF Ids
  <2>2. PositionOf(list, id) = Min(I)
    BY <1>1, <2>1 DEF PositionOf, SelectInSeq
  <2> HIDE DEF I
  <2>3. PICK c \in I : \A d \in I : c <= d
    BY <2>1, LeastExists
  <2>4. Min(I) \in I
    BY <2>3 DEF Min
  <2> QED BY <2>2, <2>4 DEF I
<1>2. id \notin Ids(list) => PositionOf(list, id) = 0
  BY DEF PositionOf
<1> QED BY <1>1, <1>2

\* The place of a member is the number of members up to it.
LEMMA NthRank ==
  ASSUME NEW S \in SUBSET Nat, IsFiniteSet(S), NEW k \in 1..Cardinality(S)
  PROVE  Cardinality(UpTo(S, Nth(S, k))) = k
<1>1. \E i \in S : Cardinality(UpTo(S, i)) = k
  BY Ranks
<1>2. Nth(S, k) = CHOOSE i \in S : Cardinality(UpTo(S, i)) = k
  BY DEF Nth, UpTo
<1> QED BY ONLY <1>1, <1>2, Zenon

\* Leaving out one position moves those behind it by one.
LEMMA NthWithout ==
  ASSUME NEW n \in Nat, NEW i \in 1..n, NEW S, S = (1..n) \ {i}, NEW k \in 1..Cardinality(S)
  PROVE  Nth(S, k) = IF k < i THEN k ELSE k + 1
<1>1. S \in SUBSET Nat /\ IsFiniteSet(S) /\ Cardinality(S) \in Nat
  <2>1. IsFiniteSet(1..n) /\ S \in SUBSET (1..n)
    BY FirstNumbers
  <2>2. IsFiniteSet(S)
    BY <2>1, FS_Subset
  <2> QED BY <2>1, <2>2, FS_CardinalityType
<1> DEFINE c == Nth(S, k)
<1>2. c \in S /\ Cardinality(UpTo(S, c)) = k
  BY <1>1, NthIs, NthRank
<1>3. c \in 1..n /\ c # i /\ c \in Nat /\ k \in Nat /\ k >= 1
  BY <1>1, <1>2
<1>4. CASE c < i
  <2>1. UpTo(S, c) = 1..c
    BY <1>3, <1>4 DEF UpTo
  <2>2. k = c
    BY <1>2, <1>3, <2>1, FirstNumbers
  <2> QED BY <1>4, <2>2
<1>5. CASE c > i
  <2>1. UpTo(S, c) = (1..c) \ {i} /\ i \in 1..c
    BY <1>3, <1>5 DEF UpTo
  <2> DEFINE b == 1..c
  <2>2. IsFiniteSet(b) /\ Cardinality(b) = c /\ i \in b /\ UpTo(S, c) = b \ {i}
    BY <1>3, <2>1, FirstNumbers
  <2> HIDE DEF b
  <2>3. Cardinality(UpTo(S, c)) = c - 1
    BY <2>2, FS_RemoveElement
  <2>4. k = c - 1
    BY <1>2, <2>3
  <2> QED BY <1>3, <1>5, <2>4
<1> QED BY <1>3, <1>4, <1>5

LEMMA NthAll ==
  ASSUME NEW n \in Nat, NEW k \in 1..n
  PROVE  Nth(1..n, k) = k
<1>1. (1..n) \in SUBSET Nat /\ IsFiniteSet(1..n) /\ Cardinality(1..n) = n
  BY FirstNumbers
<1> DEFINE c == Nth(1..n, k)
<1>2. c \in 1..n /\ Cardinality(UpTo(1..n, c)) = k
  BY <1>1, NthIs, NthRank
<1>3. UpTo(1..n, c) = 1..c /\ c \in Nat
  BY <1>2 DEF UpTo
<1> QED BY <1>2, <1>3, FirstNumbers

\* Every position taken is the sequence itself.
LEMMA AtAll ==
  ASSUME NEW T, NEW seq \in Seq(T), NEW S \in SUBSET DOMAIN seq, Cardinality(S) = Len(seq)
  PROVE  At(seq, S) = seq
<1> DEFINE n == Len(seq)
<1>1. n \in Nat /\ DOMAIN seq = 1..n /\ IsFiniteSet(1..n) /\ Cardinality(1..n) = n
  BY FirstNumbers
<1>2. S \in SUBSET (1..n)
  BY <1>1
<1>3. S = 1..n
  BY <1>1, <1>2, FS_Subset
<1>4. At(seq, S) = [k \in 1..n |-> seq[Nth(1..n, k)]]
  BY <1>1, <1>3 DEF At
<1>5. At(seq, S) = [k \in 1..n |-> seq[k]]
  BY <1>1, <1>4, NthAll
<1> QED BY <1>1, <1>5

\* The tab in front is found again where the current one is put.
Fronted(next, index) ==
  (next # << >> /\ tabs[currentTab].id \in Ids(next)) => next[Clamped(index, Len(next))].id = tabs[currentTab].id

LEMMA FrontIs ==
  ASSUME NEW next, NEW index, ApplyTabsState(next, index), Fronted(next, index)
  PROVE  FrontStays
BY DEF ApplyTabsState, Fronted, FrontStays

LEMMA FrontPlace ==
  ASSUME BarOK, NEW next, NEW pos, Remains(next, pos), tabs[currentTab].id \in Ids(next)
  PROVE  \E k \in DOMAIN next : pos[k] = currentTab /\ next[k] = tabs[currentTab]
<1>1. PICK k \in DOMAIN next : next[k].id = tabs[currentTab].id
  BY DEF Ids
<1>2. pos[k] \in DOMAIN tabs /\ next[k] = tabs[pos[k]]
  BY DEF Remains
<1>3. currentTab \in DOMAIN tabs
  <2>1. Len(tabs) \in Nat /\ DOMAIN tabs = 1..Len(tabs) /\ tabs # << >>
    BY <1>2 DEF BarOK
  <2> QED BY <2>1 DEF BarOK
<1>4. pos[k] = currentTab
  BY <1>1, <1>2, <1>3 DEF BarOK
<1> QED BY <1>2, <1>4

LEMMA Still ==
  ASSUME BarOK, RoomOK, UNCHANGED <<tabs, currentTab, edited, selectedTabIndex, opening>>
  PROVE  BarOK' /\ RoomOK' /\ FrontStays
<1>1. Len(tabs) \in Nat
  BY DEF BarOK
<1> QED BY <1>1 DEF BarOK, RoomOK, FrontStays

LEMMA CloseKeeps ==
  ASSUME BarOK, RoomOK, NEW i, CloseTab(i), UNCHANGED <<selectedTabIndex, opening>>
  PROVE  BarOK' /\ RoomOK' /\ FrontStays
<1>1. CASE i \notin DOMAIN tabs
  BY <1>1, Still DEF CloseTab
<1>2. CASE i \in DOMAIN tabs
  <2> DEFINE S == DOMAIN tabs \ {i}
             next == At(tabs, S)
             pos == [k \in DOMAIN next |-> Nth(S, k)]
  <2>0. /\ tabs \in Seq(Rows) /\ Len(tabs) \in Nat /\ DOMAIN tabs = 1..Len(tabs) /\ tabs # << >>
        /\ i \in 1..Len(tabs) /\ currentTab \in 1..Len(tabs)
    BY <1>2 DEF BarOK
  <2>1. Remains(next, pos)
    BY AtRemains
  <2>2. ApplyTabsState(next, IndexAfter(i))
    BY <1>2 DEF CloseTab
  <2>3. DOMAIN next = 1..Cardinality(S) /\ Cardinality(S) \in Nat /\ Len(next) = Cardinality(S)
    BY <2>0, AtIs
  <2>4. \A k \in DOMAIN next : pos[k] = IF k < i THEN k ELSE k + 1
    <3> TAKE k \in DOMAIN next
    <3>1. S = (1..Len(tabs)) \ {i}
      BY <2>0
    <3> HIDE DEF S, next
    <3>2. Nth(S, k) = IF k < i THEN k ELSE k + 1
      BY <2>0, <2>3, <3>1, NthWithout
    <3> QED BY <3>2
  <2> HIDE DEF next, pos, S
  <2>5. IndexAfter(i) \in Nat
    BY <2>0 DEF IndexAfter
  <2>6. Fronted(next, IndexAfter(i))
    <3> SUFFICES ASSUME tabs[currentTab].id \in Ids(next)
                 PROVE  next[Clamped(IndexAfter(i), Len(next))].id = tabs[currentTab].id
      BY DEF Fronted
    <3>1. PICK k \in DOMAIN next : pos[k] = currentTab /\ next[k] = tabs[currentTab]
      BY <2>1, FrontPlace
    <3>2. k \in Nat /\ IndexAfter(i) = k
      BY <2>0, <2>3, <2>4, <3>1 DEF IndexAfter
    <3>3. Clamped(IndexAfter(i), Len(next)) = k
      BY <2>3, <3>2, ClampedIs
    <3> QED BY <3>1, <3>3
  <2>7. BarOK' /\ RoomOK'
    BY <2>1, <2>2, <2>5, ApplyKeeps
  <2> QED BY <2>2, <2>6, <2>7, FrontIs
<1> QED BY <1>1, <1>2

LEMMA MatchingKeeps ==
  ASSUME BarOK, RoomOK, NEW matching, CloseTabsMatching(matching), UNCHANGED <<selectedTabIndex, opening>>
  PROVE  /\ BarOK' /\ RoomOK' /\ FrontStays
         /\ tabs' = At(tabs, {i \in DOMAIN tabs : tabs[i] \notin matching})
<1> DEFINE S == {i \in DOMAIN tabs : tabs[i] \notin matching}
           next == At(tabs, S)
           pos == [k \in DOMAIN next |-> Nth(S, k)]
           kept == IF tabs = << >> THEN 0 ELSE PositionOf(next, tabs[currentTab].id)
           index == IF kept = 0 THEN currentTab ELSE kept
<1>0. tabs \in Seq(Rows) /\ Len(tabs) \in Nat /\ S \in SUBSET DOMAIN tabs
  BY DEF BarOK
<1>1. Remains(next, pos)
  BY <1>0, AtRemains
<1>2. Len(next) = Cardinality(S) /\ next \in Seq(Rows)
  BY <1>0, AtIs
<1>3. CASE Len(next) = Len(tabs)
  <2>1. UNCHANGED <<tabs, currentTab, edited>>
    BY <1>3 DEF CloseTabsMatching
  <2> HIDE DEF S
  <2>2. At(tabs, S) = tabs
    BY <1>0, <1>2, <1>3, AtAll
  <2> QED BY <2>1, <2>2, Still DEF S
<1>4. CASE Len(next) # Len(tabs)
  <2>1. ApplyTabsState(next, index)
    BY <1>4 DEF CloseTabsMatching
  <2>2. kept \in Nat
    BY <1>2, PositionIs
  <2>3. index \in Nat
    BY <2>2 DEF BarOK
  <2>4. Fronted(next, index)
    <3> SUFFICES ASSUME next # << >>, tabs[currentTab].id \in Ids(next)
                 PROVE  next[Clamped(index, Len(next))].id = tabs[currentTab].id
      BY DEF Fronted
    <3>1. tabs # << >>
      <4>1. Len(next) # 0 /\ Len(next) \in Nat /\ Len(next) <= Len(tabs)
        BY <1>1, <1>2 DEF Remains
      <4> QED BY <4>1
    <3>2. kept = PositionOf(next, tabs[currentTab].id)
      BY <3>1
    <3> HIDE DEF kept, next
    <3>3. kept \in DOMAIN next /\ next[kept].id = tabs[currentTab].id
      BY <1>2, <3>2, PositionIs
    <3>4. kept \in 1..Len(next) /\ Len(next) \in Nat
      BY <1>2, <3>3
    <3>5. index = kept
      BY <3>4
    <3>6. Clamped(index, Len(next)) = kept
      BY <3>4, <3>5, ClampedIs
    <3> QED BY <3>3, <3>6
  <2> HIDE DEF next, pos, index
  <2>5. BarOK' /\ RoomOK'
    BY <1>1, <2>1, <2>3, ApplyKeeps
  <2>6. FrontStays
    BY <2>1, <2>4, FrontIs
  <2>7. tabs' = next
    BY <2>1 DEF ApplyTabsState
  <2> QED BY <2>5, <2>6, <2>7 DEF next
<1> QED BY <1>3, <1>4

LEMMA OthersKeeps ==
  ASSUME BarOK, RoomOK, NEW i, CloseOtherTabs(i), UNCHANGED <<selectedTabIndex, opening>>
  PROVE  BarOK' /\ RoomOK' /\ FrontStays
<1>1. CASE i \notin DOMAIN tabs
  BY <1>1, Still DEF CloseOtherTabs
<1>2. CASE i \in DOMAIN tabs
  <2> DEFINE next == <<tabs[i]>>
             pos == <<i>>
  <2>0. tabs \in Seq(Rows) /\ tabs[i] \in Rows /\ Len(tabs) \in Nat /\ Len(tabs) >= 1
    BY <1>2 DEF BarOK
  <2>1. next \in Seq(Rows) /\ Len(next) = 1 /\ DOMAIN next = {1} /\ next[1] = tabs[i] /\ pos[1] = i
    BY <2>0
  <2>2. ApplyTabsState(next, 1)
    BY <1>2 DEF CloseOtherTabs
  <2> HIDE DEF next, pos
  <2>3. Remains(next, pos)
    BY <1>2, <2>0, <2>1 DEF Remains
  <2>4. Fronted(next, 1)
    <3> SUFFICES ASSUME tabs[currentTab].id \in Ids(next)
                 PROVE  next[Clamped(1, Len(next))].id = tabs[currentTab].id
      BY DEF Fronted
    <3>1. next[1].id = tabs[currentTab].id
      BY <2>1 DEF Ids
    <3>2. Clamped(1, Len(next)) = 1
      BY <2>1 DEF Clamped
    <3> QED BY <3>1, <3>2
  <2>5. BarOK' /\ RoomOK'
    <3> DEFINE one == 1
    <3>1. one \in Nat /\ ApplyTabsState(next, one)
      BY <2>2
    <3> HIDE DEF one
    <3> QED BY <2>3, <3>1, ApplyKeeps
  <2> QED BY <2>2, <2>4, <2>5, FrontIs
<1> QED BY <1>1, <1>2

LEMMA RightKeeps ==
  ASSUME BarOK, RoomOK, NEW i, CloseTabsToRight(i), UNCHANGED <<selectedTabIndex, opening>>
  PROVE  BarOK' /\ RoomOK' /\ FrontStays
<1>1. CASE i \notin DOMAIN tabs
  BY <1>1, Still DEF CloseTabsToRight
<1>2. CASE i \in DOMAIN tabs
  <2> DEFINE next == SubSeq(tabs, 1, i)
             pos == [k \in 1..i |-> k]
             index == IF currentTab < i THEN currentTab ELSE i
  <2>0. /\ tabs \in Seq(Rows) /\ Len(tabs) \in Nat /\ DOMAIN tabs = 1..Len(tabs) /\ i \in 1..Len(tabs)
        /\ currentTab \in Nat /\ currentTab >= 1
    BY <1>2 DEF BarOK
  <2>1. next \in Seq(Rows) /\ Len(next) = i /\ DOMAIN next = 1..i /\ \A k \in 1..i : next[k] = tabs[k]
    BY <2>0, SubSeqProperties
  <2>2. ApplyTabsState(next, index)
    BY <1>2 DEF CloseTabsToRight
  <2>3. index \in Nat
    BY <2>0
  <2> HIDE DEF next
  <2>4. Remains(next, pos)
    BY <2>0, <2>1 DEF Remains
  <2> HIDE DEF pos
  <2>5. Fronted(next, index)
    <3> SUFFICES ASSUME tabs[currentTab].id \in Ids(next)
                 PROVE  next[Clamped(index, Len(next))].id = tabs[currentTab].id
      BY DEF Fronted
    <3>1. PICK k \in DOMAIN next : pos[k] = currentTab /\ next[k] = tabs[currentTab]
      BY <2>4, FrontPlace
    <3>2. k = currentTab /\ k \in 1..i
      BY <2>1, <3>1 DEF pos
    <3>3. index = k
      BY <2>0, <3>2
    <3>4. index \in 1..Len(next) /\ Len(next) \in Nat /\ index \in Nat
      BY <2>0, <2>1, <3>2, <3>3
    <3>5. Clamped(index, Len(next)) = index
      BY ONLY <3>4, ClampedIs
    <3> QED BY <3>1, <3>3, <3>5
  <2> HIDE DEF index
  <2>6. BarOK' /\ RoomOK'
    BY <2>2, <2>3, <2>4, ApplyKeeps
  <2> QED BY <2>2, <2>5, <2>6, FrontIs
<1> QED BY <1>1, <1>2

-----------------------------------------------------------------------------
(* Opening tabs, and what their pages tell them.                           *)

\* One of MaxTabs + 1 numbers is free.
LEMMA FreshIs ==
  ASSUME BarOK, RoomOK, NEW type \in {"table", "query"}
  PROVE  FreshId(type) \in TabKeys
<1> DEFINE N == 1..MaxTabs + 1
           D == DOMAIN tabs
           F == {n \in N : <<type, n>> \notin Ids(tabs)}
<1>1. /\ IsFiniteSet(N) /\ Cardinality(N) = MaxTabs + 1
      /\ IsFiniteSet(D) /\ Cardinality(D) = Len(tabs) /\ Len(tabs) <= MaxTabs /\ Len(tabs) \in Nat
  <2>1. Len(tabs) \in Nat /\ D = 1..Len(tabs) /\ Cardinality(opening) \in Nat
    BY FS_CardinalityType DEF BarOK, RoomOK
  <2> QED BY <2>1, Bounds, FirstNumbers DEF RoomOK
<1>2. F # {}
  <2> SUFFICES ASSUME F = {} PROVE FALSE
    OBVIOUS
  <2> DEFINE f == [n \in N |-> CHOOSE i \in D : tabs[i].id = <<type, n>>]
  <2>1. \A n \in N : f[n] \in D /\ tabs[f[n]].id = <<type, n>>
    <3> TAKE n \in N
    <3>1. \E i \in D : tabs[i].id = <<type, n>>
      BY DEF Ids
    <3> QED BY <3>1
  <2>2. f \in Injection(N, D)
    <3>1. f \in [N -> D]
      BY <2>1
    <3>2. ASSUME NEW m \in N, NEW n \in N, f[m] = f[n] PROVE m = n
      <4> HIDE DEF f
      <4>1. tabs[f[m]].id = <<type, m>> /\ tabs[f[n]].id = <<type, n>>
        BY <2>1
      <4>2. <<type, m>> = <<type, n>>
        BY <3>2, <4>1
      <4> QED BY <4>2
    <3> QED BY <3>1, <3>2 DEF Injection, IsInjective
  <2> HIDE DEF f, N, D
  <2>3. Cardinality(N) <= Cardinality(D)
    BY <1>1, <2>2, FS_Injection
  <2> QED BY <1>1, <2>3, Bounds
<1>3. F \in SUBSET Nat
  BY Bounds
<1>4. PICK c \in F : \A d \in F : c <= d
  BY <1>2, <1>3, LeastExists
<1> DEFINE Free(n) == <<type, n>> \notin Ids(tabs) /\ \A m \in 1..n - 1 : <<type, m>> \in Ids(tabs)
<1>5. c \in N /\ Free(c)
  BY <1>4, Bounds
<1>6. FreshId(type) = <<type, CHOOSE n \in N : Free(n)>>
  BY DEF FreshId
<1> HIDE DEF Free, N
<1>7. (CHOOSE n \in N : Free(n)) \in N
  BY <1>5
<1> DEFINE n == CHOOSE k \in N : Free(k)
<1>8. FreshId(type) = <<type, n>> /\ n \in Nat
  BY <1>6, <1>7, Bounds DEF N
<1> HIDE DEF n
<1>9. <<type, n>> \in {"table", "query"} \X Nat
  BY <1>8
<1> QED BY <1>8, <1>9 DEF TabKeys

LEMMA OpenKeeps ==
  ASSUME BarOK, NEW data \in Rows, data.dirty = FALSE, OpenNewTab(data)
  PROVE  BarOK' /\ Len(tabs') \in Nat /\ Len(tabs') >= Len(tabs) /\ Len(tabs') <= Len(tabs) + 1
<1>0. tabs \in Seq(Rows) /\ Len(tabs) \in Nat /\ DOMAIN tabs = 1..Len(tabs)
  BY DEF BarOK
<1>1. CASE data.id \in Ids(tabs)
  <2> DEFINE at == PositionOf(tabs, data.id)
             row == [data EXCEPT !.dirty = tabs[at].dirty]
  <2>1. at \in DOMAIN tabs /\ tabs[at].id = data.id
    BY <1>0, <1>1, PositionIs
  <2>2. tabs' = [tabs EXCEPT ![at] = row] /\ currentTab' = at /\ UNCHANGED <<selectedTabIndex, edited>>
    BY <1>1 DEF OpenNewTab
  <2> HIDE DEF at
  <2>3. row \in Rows /\ row.id = data.id /\ row.dirty = tabs[at].dirty
    <3>1. tabs[at].dirty \in BOOLEAN
      BY <1>0, <2>1 DEF Rows
    <3> QED BY <3>1 DEF Rows, ShowsItsSource
  <2> HIDE DEF row
  <2>4. /\ tabs' \in Seq(Rows) /\ Len(tabs') = Len(tabs) /\ DOMAIN tabs' = DOMAIN tabs
        /\ \A i \in DOMAIN tabs : tabs'[i] = IF i = at THEN row ELSE tabs[i]
    BY <1>0, <2>1, <2>2, <2>3
  <2>5. \A i \in DOMAIN tabs : tabs'[i].id = tabs[i].id /\ tabs'[i].dirty = tabs[i].dirty
    BY <2>1, <2>3, <2>4
  <2>6. Ids(tabs') = Ids(tabs)
    BY <2>4, <2>5 DEF Ids
  <2>7. at \in Nat /\ at >= 1 /\ at <= Len(tabs) /\ tabs' # << >>
    BY <1>0, <2>1, <2>4
  <2>8. BarOK'
    BY <2>2, <2>4, <2>5, <2>6, <2>7 DEF BarOK
  <2> QED BY <1>0, <2>4, <2>8
<1>2. CASE data.id \notin Ids(tabs)
  <2>1. tabs' = Append(tabs, data) /\ currentTab' = Len(tabs) + 1 /\ UNCHANGED <<selectedTabIndex, edited>>
    BY <1>2 DEF OpenNewTab
  <2>2. /\ tabs' \in Seq(Rows) /\ Len(tabs') = Len(tabs) + 1 /\ DOMAIN tabs' = 1..Len(tabs) + 1
        /\ \A i \in DOMAIN tabs : tabs'[i] = tabs[i]
        /\ tabs'[Len(tabs) + 1] = data
    BY <1>0, <2>1
  <2>3. \A i \in DOMAIN tabs : tabs[i].id # data.id
    BY <1>2 DEF Ids
  <2>4. \A i \in DOMAIN tabs' : i \in DOMAIN tabs \/ i = Len(tabs) + 1
    BY <1>0, <2>2
  <2>5. \A i, j \in DOMAIN tabs' : tabs'[i].id = tabs'[j].id => i = j
    BY <2>2, <2>3, <2>4 DEF BarOK
  <2>6. data.id \notin edited
    BY <1>2 DEF BarOK
  <2>7. ASSUME NEW i \in DOMAIN tabs' PROVE tabs'[i].dirty <=> tabs'[i].id \in edited'
    <3>1. CASE i \in DOMAIN tabs
      BY <2>1, <2>2, <3>1 DEF BarOK
    <3>2. CASE i = Len(tabs) + 1
      <4>1. tabs'[i] = data
        BY <2>2, <3>2
      <4>2. data.dirty = FALSE /\ edited' = edited
        BY <2>1
      <4>3. tabs'[i].dirty = FALSE
        BY <4>1, <4>2
      <4>4. ~(tabs'[i].id \in edited')
        BY <2>6, <4>1, <4>2
      <4> QED BY <4>3, <4>4
    <3> QED BY <2>4, <3>1, <3>2
  <2>8. Ids(tabs) \subseteq Ids(tabs')
    BY <1>0, <2>2 DEF Ids
  <2>9. Len(tabs) + 1 \in Nat /\ Len(tabs) + 1 >= 1 /\ tabs' # << >>
    BY <1>0, <2>2
  <2>10. BarOK'
    BY <2>1, <2>2, <2>5, <2>7, <2>8, <2>9 DEF BarOK
  <2> QED BY <1>0, <2>2, <2>10
<1> QED BY <1>1, <1>2

LEMMA PendingKeeps ==
  ASSUME BarOK, NEW id \in Ids(tabs), NEW dirty \in BOOLEAN, PendingChanges(id, dirty)
  PROVE  BarOK' /\ Len(tabs') = Len(tabs)
<1> DEFINE at == TabIndex(id)
           row == [tabs[at] EXCEPT !.dirty = dirty]
<1>0. tabs \in Seq(Rows) /\ Len(tabs) \in Nat /\ DOMAIN tabs = 1..Len(tabs)
  BY DEF BarOK
<1>1. at \in DOMAIN tabs /\ tabs[at].id = id /\ at # 0
  BY <1>0, PositionIs DEF TabIndex
<1>2. /\ tabs' = [tabs EXCEPT ![at] = row] /\ UNCHANGED <<currentTab, selectedTabIndex>>
      /\ edited' = IF dirty THEN edited \cup {id} ELSE edited \ {id}
  BY <1>1 DEF PendingChanges
<1> HIDE DEF at
<1>3. row \in Rows /\ row.id = id /\ row.dirty = dirty
  <2>1. tabs[at] \in Rows
    BY <1>0, <1>1
  <2> QED BY <1>1, <2>1 DEF Rows, ShowsItsSource
<1> HIDE DEF row
<1>4. /\ tabs' \in Seq(Rows) /\ Len(tabs') = Len(tabs) /\ DOMAIN tabs' = DOMAIN tabs
      /\ \A i \in DOMAIN tabs : tabs'[i] = IF i = at THEN row ELSE tabs[i]
  BY <1>0, <1>1, <1>2, <1>3
<1>5. \A i \in DOMAIN tabs : tabs'[i].id = tabs[i].id
  BY <1>1, <1>3, <1>4
<1>6. Ids(tabs') = Ids(tabs)
  BY <1>4, <1>5 DEF Ids
<1>7. \A i \in DOMAIN tabs : tabs'[i].dirty <=> tabs'[i].id \in edited'
  <2> TAKE i \in DOMAIN tabs
  <2>1. CASE i = at
    BY <1>2, <1>3, <1>4, <2>1
  <2>2. CASE i # at
    <3>1. tabs[i].id # id
      BY <1>1, <2>2 DEF BarOK
    <3>2. tabs'[i] = tabs[i] /\ (tabs[i].dirty <=> tabs[i].id \in edited)
      BY <1>4, <2>2 DEF BarOK
    <3> QED BY <1>2, <3>1, <3>2
  <2> QED BY <2>1, <2>2
<1>8. edited' \subseteq Ids(tabs')
  BY <1>2, <1>6 DEF BarOK
<1>9. tabs' = << >> <=> tabs = << >>
  BY <1>0, <1>4
<1>10. \A i, j \in DOMAIN tabs' : tabs'[i].id = tabs'[j].id => i = j
  BY <1>4, <1>5 DEF BarOK
<1>11. /\ currentTab' \in Nat /\ currentTab' >= 1 /\ (tabs' = << >> => currentTab' = 1)
       /\ tabs' # << >> => currentTab' <= Len(tabs')
  BY <1>2, <1>4, <1>9 DEF BarOK
<1>12. selectedTabIndex' \in 0..MaxTabs
  BY <1>2 DEF BarOK
<1>13. BarOK'
  BY <1>4, <1>7, <1>8, <1>10, <1>11, <1>12 DEF BarOK
<1> QED BY <1>4, <1>13

-----------------------------------------------------------------------------
(* The steps.                                                              *)

LEMMA StripStep ==
  ASSUME TabsInv, TabStrip
  PROVE  BarOK' /\ RoomOK' /\ FrontStays /\ UNCHANGED sideVars
<1>0. BarOK /\ RoomOK /\ tabs \in Seq(Rows) /\ Len(tabs) \in Nat /\ DOMAIN tabs = 1..Len(tabs)
  BY DEF TabsInv, BarOK
<1>a. ASSUME UNCHANGED <<tabs, edited, opening>>, currentTab' \in DOMAIN tabs \/ currentTab' = currentTab,
             selectedTabIndex' \in DOMAIN tabs \/ selectedTabIndex' = selectedTabIndex
      PROVE  BarOK' /\ RoomOK' /\ FrontStays
  <2>1. Cardinality(opening) \in Nat
    BY <1>0, FS_CardinalityType DEF RoomOK
  <2>2. selectedTabIndex' \in 0..MaxTabs
    BY <1>0, <1>a, <2>1, Bounds DEF BarOK, RoomOK
  <2>3. /\ currentTab' \in Nat /\ currentTab' >= 1 /\ (tabs = << >> => currentTab' = 1)
        /\ tabs # << >> => currentTab' <= Len(tabs)
    BY <1>0, <1>a DEF BarOK
  <2>4. BarOK' /\ RoomOK'
    BY <1>0, <1>a, <2>2, <2>3 DEF BarOK, RoomOK
  <2> QED BY <1>0, <1>a, <2>4 DEF FrontStays
<1>b. ASSUME NEW id \in Ids(tabs), NEW dirty \in BOOLEAN, PendingChanges(id, dirty), UNCHANGED opening
      PROVE  BarOK' /\ RoomOK' /\ FrontStays
  <2>1. BarOK' /\ Len(tabs') = Len(tabs)
    BY <1>0, <1>b, PendingKeeps
  <2> QED BY <1>0, <1>b, <2>1 DEF RoomOK, FrontStays
<1>1. CASE \E i \in DOMAIN tabs : SelectTab(i)
  BY <1>1, <1>a DEF SelectTab, Bar, sideVars
<1>2. CASE \E i \in DOMAIN tabs : CloseClicked(i)
  BY <1>0, <1>2, CloseKeeps DEF CloseClicked, Bar, sideVars
<1>3. CASE \E i \in DOMAIN tabs : ShowTabMenu(i)
  BY <1>3, <1>a DEF ShowTabMenu, Bar, sideVars
<1>4. CASE MenuCommand
  BY <1>0, <1>4, CloseKeeps, OthersKeeps, RightKeeps DEF MenuCommand, Bar, sideVars
<1>5. CASE CloseShortcut
  BY <1>0, <1>5, CloseKeeps DEF CloseShortcut, Bar, sideVars
<1>6. CASE EditPage
  <2>1. tabs[currentTab].id \in Ids(tabs) /\ PendingChanges(tabs[currentTab].id, TRUE)
        /\ UNCHANGED sideVars
    BY <1>6 DEF EditPage, Ids, Bar
  <2> QED BY <2>1, <1>b DEF sideVars
<1>7. CASE \E id \in edited : PageSaved(id)
  <2>1. PICK id \in edited : PendingChanges(id, FALSE) /\ UNCHANGED sideVars
    BY <1>7 DEF PageSaved, Bar
  <2>2. id \in Ids(tabs)
    BY <1>0, <2>1 DEF BarOK
  <2> QED BY <2>1, <2>2, <1>b DEF sideVars
<1> QED BY <1>1, <1>2, <1>3, <1>4, <1>5, <1>6, <1>7 DEF TabStrip

\* An opening takes its place in the row of tabs.
LEMMA OpenedStep ==
  ASSUME TabsInv, NEW r \in opening, Opened(r)
  PROVE  TabsInv' /\ FrontStays
<1>0. BarOK /\ RoomOK /\ SideOK /\ Len(tabs) \in Nat
  BY DEF TabsInv, BarOK
<1>1. r \in Openings /\ currentProject \in Workspaces
  BY <1>0 DEF SideOK
<1>2. PICK id : OpenNewTab(TabData(r, id)) /\ id \in TabKeys
  <2>1. CASE OpenTable(r)
    BY <1>0, <2>1, FreshIs DEF OpenTable
  <2>2. CASE OpenSqlConsole(r) \/ OpenResourceConsole(r)
    BY <1>0, <2>2, FreshIs DEF OpenSqlConsole, OpenResourceConsole
  <2>3. CASE OpenBrowser(r)
    <3>1. r.source \in TabSources /\ r.item \in Paths
      BY <1>1, <2>3 DEF Openings, ShowsItsSource, OpenBrowser
    <3>2. <<"browser", currentProject, r.source, r.item>> \in TabKeys
      BY <1>1, <3>1 DEF TabKeys
    <3> QED BY <2>3, <3>2 DEF OpenBrowser
  <2> QED BY <2>1, <2>2, <2>3 DEF Opened
<1>3. TabData(r, id) \in Rows /\ TabData(r, id).dirty = FALSE
  BY <1>1, <1>2 DEF TabData, Rows, Openings, ShowsItsSource
<1>4. BarOK' /\ Len(tabs') \in Nat /\ Len(tabs') >= Len(tabs) /\ Len(tabs') <= Len(tabs) + 1
  BY <1>0, <1>2, <1>3, OpenKeeps
<1>5. opening' = opening \ {r} /\ UNCHANGED <<currentProject, dataSources, expanded, items, contents, awaiting, tabSteps>>
  BY DEF Opened
<1>6. RoomOK'
  <2>1. IsFiniteSet(opening \ {r}) /\ Cardinality(opening \ {r}) = Cardinality(opening) - 1
        /\ Cardinality(opening) \in Nat
    BY <1>0, FS_RemoveElement, FS_CardinalityType DEF RoomOK
  <2> QED BY <1>0, <1>4, <1>5, <2>1, Bounds DEF RoomOK
<1>7. SideOK'
  BY <1>0, <1>5 DEF SideOK, ListedOK, AwaitingOK
<1>8. FrontStays
  BY <1>0, <1>4 DEF FrontStays
<1> QED BY <1>4, <1>6, <1>7, <1>8 DEF TabsInv

LEMMA NotResolvedStep ==
  ASSUME TabsInv, NEW r \in opening, NotResolved(r)
  PROVE  TabsInv' /\ FrontStays
<1>0. BarOK /\ RoomOK /\ SideOK /\ Len(tabs) \in Nat
  BY DEF TabsInv, BarOK
<1>1. opening' = opening \ {r} /\ UNCHANGED <<currentProject, dataSources, expanded, items, contents, awaiting>>
      /\ UNCHANGED barVars
  BY DEF NotResolved
<1>2. RoomOK'
  <2>1. IsFiniteSet(opening \ {r}) /\ Cardinality(opening \ {r}) = Cardinality(opening) - 1
        /\ Cardinality(opening) \in Nat
    BY <1>0, FS_RemoveElement, FS_CardinalityType DEF RoomOK
  <2> QED BY <1>0, <1>1, <2>1, Bounds DEF RoomOK, barVars
<1>3. BarOK'
  BY <1>0, <1>1 DEF BarOK, barVars
<1>4. SideOK'
  BY <1>0, <1>1 DEF SideOK, ListedOK, AwaitingOK
<1>5. FrontStays
  BY <1>0, <1>1 DEF FrontStays, barVars
<1> QED BY <1>2, <1>3, <1>4, <1>5 DEF TabsInv

LEMMA BarRests ==
  ASSUME TabsInv, UNCHANGED barVars
  PROVE  BarOK' /\ FrontStays /\ (UNCHANGED opening => RoomOK')
<1>0. BarOK /\ RoomOK /\ Len(tabs) \in Nat
  BY DEF TabsInv, BarOK
<1> QED BY <1>0 DEF barVars, BarOK, RoomOK, FrontStays

LEMMA OneMore ==
  ASSUME TabsInv, HasRoom, NEW r, opening' = opening \cup {r}, UNCHANGED tabs
  PROVE  RoomOK'
<1>0. IsFiniteSet(opening) /\ Cardinality(opening) \in Nat /\ Len(tabs) \in Nat
  BY FS_CardinalityType DEF TabsInv, RoomOK, BarOK
<1>1. IsFiniteSet(opening \cup {r}) /\ Cardinality(opening \cup {r}) \in Nat
      /\ Cardinality(opening \cup {r}) <= Cardinality(opening) + 1
  BY <1>0, FS_AddElement
<1> QED BY <1>0, <1>1, Bounds DEF RoomOK, HasRoom

LEMMA ClickStep ==
  ASSUME TabsInv, NEW s \in TabSources, ClickItem(s)
  PROVE  TabsInv' /\ FrontStays
<1>0. SideOK
  BY DEF TabsInv
<1>1. PICK r : r \in Openings /\ Opens(r)
  <2>1. CASE s \in SqlSources
    <3>1. CASE \E t \in items[s] : Opens(Request("table", s, Path(t)))
      <4>1. PICK t \in items[s] : Opens(Request("table", s, Path(t)))
        BY <3>1
      <4>2. t \in Tables
        BY <1>0, <2>1 DEF SideOK, ListedOK, ItemsOf
      <4>3. Request("table", s, Path(t)) \in Openings
        BY <2>1, <4>2 DEF Request, Openings, ShowsItsSource, TableItems, TabKinds
      <4> QED BY <4>1, <4>3
    <3>2. CASE Opens(Request("query", s, << >>))
      <4>1. Request("query", s, << >>) \in Openings
        BY DEF Request, Openings, ShowsItsSource, Paths, TabKinds
      <4> QED BY <3>2, <4>1
    <3> QED BY <2>1, <3>1, <3>2 DEF ClickItem
  <2>2. CASE s \notin SqlSources
    <3>0. s \in ResourceSources
      BY <2>2 DEF TabSources
    <3>1. CASE Opens(Request("query", s, << >>))
      <4>1. Request("query", s, << >>) \in Openings
        BY DEF Request, Openings, ShowsItsSource, Paths, TabKinds
      <4> QED BY <3>1, <4>1
    <3>2. CASE Opens(Request("browser", s, << >>))
      <4>1. Request("browser", s, << >>) \in Openings
        BY <3>0 DEF Request, Openings, ShowsItsSource, Paths, TabKinds
      <4> QED BY <3>2, <4>1
    <3>3. CASE \E c \in items[s] : Opens(Request("browser", s, Path(c))) \/ Opens(Request("browser", s, DocumentPath(c)))
      <4>1. PICK c \in items[s] : Opens(Request("browser", s, Path(c))) \/ Opens(Request("browser", s, DocumentPath(c)))
        BY <3>3
      <4>2. c \in Collections
        BY <1>0, <2>2 DEF SideOK, ListedOK, ItemsOf
      <4>3. Path(c) \in Paths /\ DocumentPath(c) \in Paths
        BY <4>2 DEF Paths
      <4>4. Request("browser", s, Path(c)) \in Openings /\ Request("browser", s, DocumentPath(c)) \in Openings
        BY <3>0, <4>3 DEF Request, Openings, ShowsItsSource, TabKinds
      <4> QED BY <4>1, <4>4
    <3> QED BY <2>2, <3>1, <3>2, <3>3 DEF ClickItem
  <2> QED BY <2>1, <2>2
<1>2. /\ UNCHANGED barVars /\ UNCHANGED <<currentProject, dataSources, expanded, items, contents, awaiting>>
      /\ HasRoom
  BY DEF ClickItem
<1>3. opening' = opening \cup {r}
  BY <1>1 DEF Opens
<1>4. BarOK' /\ FrontStays
  BY <1>2, BarRests
<1>5. RoomOK'
  BY <1>2, <1>3, OneMore DEF barVars
<1>6. SideOK'
  BY <1>0, <1>1, <1>2, <1>3 DEF SideOK, ListedOK, AwaitingOK
<1> QED BY <1>4, <1>5, <1>6 DEF TabsInv

\* What the sidebar asks for.
LEMMA AskingStep ==
  ASSUME TabsInv, NEW s \in TabSources, NEW p \in Workspaces,
         \/ ToggleExpanded(s) \/ AskDelete(s) \/ SetCurrentProject(p)
         \/ \E item \in ItemsOf(s) : AskCreate(s, item) \/ AskDrop(s, item)
  PROVE  TabsInv' /\ FrontStays
<1>0. SideOK
  BY DEF TabsInv
<1>1. UNCHANGED <<barVars, dataSources, contents, opening, items>> /\ currentProject' \in Workspaces
  BY <1>0 DEF ToggleExpanded, AskDelete, SetCurrentProject, AskCreate, AskDrop, Asked, SideOK
<1>2. AwaitingOK'
  <2>1. CASE awaiting' = awaiting
    BY <1>0, <2>1 DEF SideOK, AwaitingOK
  <2>2. CASE awaiting' = Awaits("load", s, "none") \/ awaiting' = Awaits("delete", s, "none")
             \/ awaiting' = Awaits("switch", "none", "none")
    BY <2>2 DEF AwaitingOK, Awaits, Calls
  <2>3. CASE \E item \in ItemsOf(s) : awaiting' = Awaits("create", s, item) \/ awaiting' = Awaits("drop", s, item)
    BY <2>3 DEF AwaitingOK, Awaits, Calls
  <2> QED BY <2>1, <2>2, <2>3 DEF ToggleExpanded, AskDelete, SetCurrentProject, AskCreate, AskDrop, Ask
<1>3. SideOK'
  BY <1>0, <1>1, <1>2 DEF SideOK, ListedOK
<1>4. BarOK' /\ RoomOK' /\ FrontStays
  BY <1>1, BarRests
<1> QED BY <1>3, <1>4 DEF TabsInv

-----------------------------------------------------------------------------
(* Answers to the sidebar.                                                 *)

LEMMA ListsRefreshed ==
  ASSUME SideOK, RefreshDataSources
  PROVE  dataSources' \subseteq TabSources /\ ListedOK(items')
BY DEF SideOK, RefreshDataSources, ListedOK

LEMMA ItemsLoaded ==
  ASSUME SideOK, NEW s \in TabSources, LoadItems(s)
  PROVE  dataSources' \subseteq TabSources /\ ListedOK(items') /\ UNCHANGED contents
BY DEF SideOK, LoadItems, ListedOK

LEMMA ContentsChanged ==
  ASSUME SideOK, NEW s \in TabSources, NEW item \in ItemsOf(s),
         \/ contents' = contents
         \/ contents' = [contents EXCEPT !.sources = @ \ {s}]
         \/ contents' = [contents EXCEPT !.items[s] = @ \ {item}]
         \/ contents' = [contents EXCEPT !.items[s] = @ \cup {item}]
  PROVE  /\ contents' = [sources |-> contents'.sources, items |-> contents'.items]
         /\ contents'.sources \subseteq TabSources /\ ListedOK(contents'.items)
<1>1. contents = [sources |-> contents.sources, items |-> contents.items]
      /\ contents.sources \subseteq TabSources /\ ListedOK(contents.items)
  BY DEF SideOK
<1>2. CASE contents' = contents
  BY <1>1, <1>2
<1>3. CASE contents' = [contents EXCEPT !.sources = @ \ {s}]
  BY <1>1, <1>3
<1>4. ASSUME NEW now \in SUBSET ItemsOf(s), contents' = [contents EXCEPT !.items[s] = now]
      PROVE  /\ contents' = [sources |-> contents'.sources, items |-> contents'.items]
             /\ contents'.sources \subseteq TabSources /\ ListedOK(contents'.items)
  <2>1. contents'.sources = contents.sources /\ contents'.items = [contents.items EXCEPT ![s] = now]
        /\ contents' = [sources |-> contents'.sources, items |-> contents'.items]
    BY <1>1, <1>4
  <2> QED BY <1>1, <2>1 DEF ListedOK
<1>5. contents.items[s] \ {item} \in SUBSET ItemsOf(s) /\ contents.items[s] \cup {item} \in SUBSET ItemsOf(s)
  BY <1>1 DEF ListedOK
<1> QED BY <1>2, <1>3, <1>4, <1>5

LEMMA SourceGone ==
  ASSUME SideOK, NEW s \in TabSources,
         contents' = contents \/ contents' = [contents EXCEPT !.sources = @ \ {s}]
  PROVE  /\ contents' = [sources |-> contents'.sources, items |-> contents'.items]
         /\ contents'.sources \subseteq TabSources /\ ListedOK(contents'.items)
BY DEF SideOK

\* What is awaited has its source and item.
LEMMA AwaitedIs ==
  ASSUME SideOK, awaiting # Idle
  PROVE  /\ awaiting = Awaits(awaiting.op, awaiting.source, awaiting.item)
         /\ awaiting.op \in Calls
         /\ awaiting.op # "switch" => awaiting.source \in TabSources
         /\ awaiting.op \in {"create", "show", "drop"} => awaiting.item \in ItemsOf(awaiting.source)
BY DEF SideOK, AwaitingOK

LEMMA PlainAnswerStep ==
  ASSUME TabsInv, Switched \/ Loaded \/ SourceDeleted \/ Created \/ RequestFails
  PROVE  TabsInv' /\ FrontStays
<1>0. SideOK /\ awaiting # Idle
  BY DEF TabsInv, Switched, Loaded, SourceDeleted, Created, RequestFails, Served, Answer
<1>1. /\ UNCHANGED <<barVars, opening>> /\ currentProject' = currentProject
  BY DEF Switched, Loaded, SourceDeleted, Created, RequestFails, Served, Answer
<1>2. BarOK' /\ RoomOK' /\ FrontStays
  BY <1>1, BarRests
<1>3. SideOK'
  <2>1. CASE Switched
    <3>1. awaiting' = Idle /\ contents' = contents /\ RefreshDataSources
      BY <2>1 DEF Switched
    <3>2. dataSources' \subseteq TabSources /\ ListedOK(items')
      BY <1>0, <3>1, ListsRefreshed
    <3> QED BY <1>0, <1>1, <3>1, <3>2 DEF SideOK, AwaitingOK
  <2>2. CASE Loaded
    <3>1. awaiting' = Idle /\ LoadItems(awaiting.source) /\ awaiting.op = "load"
      BY <2>2 DEF Loaded, Served
    <3>2. awaiting.source \in TabSources
      BY <1>0, <3>1, AwaitedIs
    <3>3. dataSources' \subseteq TabSources /\ ListedOK(items') /\ UNCHANGED contents
      BY <1>0, <3>1, <3>2, ItemsLoaded
    <3> QED BY <1>0, <1>1, <3>1, <3>3 DEF SideOK, AwaitingOK
  <2>3. CASE SourceDeleted
    <3>1. /\ awaiting.op = "delete" /\ awaiting' = [awaiting EXCEPT !.op = "refresh"]
          /\ contents' = [contents EXCEPT !.sources = @ \ {awaiting.source}]
          /\ UNCHANGED <<dataSources, items>>
      BY <2>3 DEF SourceDeleted, Served
    <3>2. awaiting.source \in TabSources /\ awaiting = Awaits(awaiting.op, awaiting.source, awaiting.item)
      BY <1>0, <3>1, AwaitedIs
    <3>3. AwaitingOK'
      BY <3>1, <3>2 DEF AwaitingOK, Awaits, Calls
    <3>4. /\ contents' = [sources |-> contents'.sources, items |-> contents'.items]
          /\ contents'.sources \subseteq TabSources /\ ListedOK(contents'.items)
      BY <1>0, <3>1, <3>2, SourceGone
    <3> QED BY <1>0, <1>1, <3>1, <3>3, <3>4 DEF SideOK, ListedOK
  <2>4. CASE Created
    <3>1. /\ awaiting.op = "create" /\ awaiting' = [awaiting EXCEPT !.op = "show"]
          /\ contents' = [contents EXCEPT !.items[awaiting.source] = @ \cup {awaiting.item}]
          /\ UNCHANGED <<dataSources, items>>
      BY <2>4 DEF Created, Served
    <3>2. /\ awaiting.source \in TabSources /\ awaiting = Awaits(awaiting.op, awaiting.source, awaiting.item)
          /\ awaiting.item \in ItemsOf(awaiting.source)
      BY <1>0, <3>1, AwaitedIs
    <3>3. AwaitingOK'
      BY <3>1, <3>2 DEF AwaitingOK, Awaits, Calls
    <3>4. /\ contents' = [sources |-> contents'.sources, items |-> contents'.items]
          /\ contents'.sources \subseteq TabSources /\ ListedOK(contents'.items)
      BY <1>0, <3>1, <3>2, ContentsChanged
    <3> QED BY <1>0, <1>1, <3>1, <3>3, <3>4 DEF SideOK, ListedOK
  <2>5. CASE RequestFails
    <3>1. awaiting' = Idle /\ UNCHANGED <<dataSources, items>>
      BY <2>5 DEF RequestFails
    <3>2. /\ contents' = [sources |-> contents'.sources, items |-> contents'.items]
          /\ contents'.sources \subseteq TabSources /\ ListedOK(contents'.items)
      <4>1. CASE contents' = contents
        BY <1>0, <4>1 DEF SideOK
      <4>2. CASE awaiting.op = "delete" /\ contents' = [contents EXCEPT !.sources = @ \ {awaiting.source}]
        BY <1>0, <4>2, AwaitedIs, SourceGone
      <4>3. CASE awaiting.op = "drop" /\ contents' = [contents EXCEPT !.items[awaiting.source] = @ \ {awaiting.item}]
        <5>1. awaiting.source \in TabSources /\ awaiting.item \in ItemsOf(awaiting.source)
          BY <1>0, <4>3, AwaitedIs
        <5> QED BY <1>0, <4>3, <5>1, ContentsChanged
      <4> QED BY <2>5, <4>1, <4>2, <4>3 DEF RequestFails, Served
    <3> QED BY <1>0, <1>1, <3>1, <3>2 DEF SideOK, AwaitingOK, ListedOK
  <2> QED BY <2>1, <2>2, <2>3, <2>4, <2>5
<1> QED BY <1>2, <1>3 DEF TabsInv

LEMMA ShowStep ==
  ASSUME TabsInv, ShowCreated
  PROVE  TabsInv' /\ FrontStays
<1>0. SideOK /\ awaiting # Idle /\ awaiting.op = "show"
  BY DEF TabsInv, ShowCreated, Served, Answer
<1> DEFINE s == awaiting.source  item == awaiting.item
<1>1. s \in TabSources /\ item \in ItemsOf(s)
  BY <1>0, AwaitedIs
<1>2. awaiting' = Idle /\ HasRoom /\ UNCHANGED barVars /\ currentProject' = currentProject
      /\ (CreateTable(s, item) \/ CreateCollection(s, item))
  BY DEF ShowCreated, Served, Answer
<1> HIDE DEF s, item
<1>3. PICK r : r \in Openings /\ Opens(r)
  <2>1. CASE CreateTable(s, item)
    <3>1. Request("table", s, Path(item)) \in Openings
      BY <1>1, <2>1 DEF CreateTable, Request, Openings, ShowsItsSource, TableItems, TabKinds, ItemsOf
    <3> QED BY <2>1, <3>1 DEF CreateTable
  <2>2. CASE CreateCollection(s, item)
    <3>1. s \in ResourceSources /\ item \in Collections
      BY <1>1, <2>2, Bounds DEF CreateCollection, ItemsOf
    <3>2. Request("browser", s, Path(item)) \in Openings
      BY <1>1, <3>1 DEF Request, Openings, ShowsItsSource, Paths, TabKinds
    <3> QED BY <2>2, <3>2 DEF CreateCollection
  <2> QED BY <1>2, <2>1, <2>2
<1>4. opening' = opening \cup {r}
  BY <1>3 DEF Opens
<1>5. dataSources' \subseteq TabSources /\ ListedOK(items') /\ UNCHANGED contents
  <2>1. LoadItems(s) \/ UNCHANGED <<dataSources, expanded, items, contents>>
    BY <1>2 DEF CreateTable, CreateCollection
  <2>2. CASE LoadItems(s)
    BY <1>0, <1>1, <2>2, ItemsLoaded
  <2>3. CASE UNCHANGED <<dataSources, expanded, items, contents>>
    BY <1>0, <2>3 DEF SideOK
  <2> QED BY <2>1, <2>2, <2>3
<1>6. BarOK' /\ FrontStays
  BY <1>2, BarRests
<1>7. RoomOK'
  BY <1>2, <1>4, OneMore DEF barVars
<1>8. SideOK'
  BY <1>0, <1>2, <1>3, <1>4, <1>5 DEF SideOK, AwaitingOK
<1> QED BY <1>6, <1>7, <1>8 DEF TabsInv

\* What was closed is what was deleted.
LEMMA ClosedIs ==
  ASSUME NEW matching, \A i \in DOMAIN tabs : tabs[i] \in matching <=> OfDeleted(tabs[i]),
         tabs' = At(tabs, {i \in DOMAIN tabs : tabs[i] \notin matching})
  PROVE  tabs' = At(tabs, {i \in DOMAIN tabs : ~OfDeleted(tabs[i])})
<1>1. {i \in DOMAIN tabs : tabs[i] \notin matching} = {i \in DOMAIN tabs : ~OfDeleted(tabs[i])}
  BY Zenon
<1> QED BY <1>1

LEMMA InTabs ==
  ASSUME tabs \in Seq(Rows), NEW i \in DOMAIN tabs
  PROVE  tabs[i] \in ToSet(tabs) /\ tabs[i] \in Rows
BY DEF ToSet

LEMMA DeletedStep ==
  ASSUME TabsInv, DeleteDataSource
  PROVE  TabsInv' /\ FrontStays /\ ClosesTheDeleted
<1> DEFINE s == awaiting.source
           matching == {t \in ToSet(tabs) : t.source = s}
<1>0. BarOK /\ RoomOK /\ SideOK /\ tabs \in Seq(Rows)
  BY DEF TabsInv, BarOK
<1>1. /\ awaiting # Idle /\ awaiting.op = "refresh" /\ awaiting' = Idle /\ RefreshDataSources
      /\ CloseTabsMatching(matching) /\ UNCHANGED <<selectedTabIndex, contents, opening, currentProject>>
  BY DEF DeleteDataSource, Answer, CloseTabsOf
<1>2. \A i \in DOMAIN tabs : tabs[i] \in matching <=> OfDeleted(tabs[i])
  BY <1>0, <1>1, InTabs DEF OfDeleted
<1> HIDE DEF matching
<1>3. /\ BarOK' /\ RoomOK' /\ FrontStays
      /\ tabs' = At(tabs, {i \in DOMAIN tabs : tabs[i] \notin matching})
  BY <1>0, <1>1, MatchingKeeps
<1>4. dataSources' \subseteq TabSources /\ ListedOK(items')
  BY <1>0, <1>1, ListsRefreshed
<1>5. SideOK'
  BY <1>0, <1>1, <1>4 DEF SideOK, AwaitingOK
<1>6. tabs' = At(tabs, {i \in DOMAIN tabs : ~OfDeleted(tabs[i])})
  BY <1>2, <1>3, ClosedIs
<1> QED BY <1>3, <1>5, <1>6 DEF TabsInv, ClosesTheDeleted

\* A table's tabs are of an SQL source, those of a collection of a resource.
LEMMA DroppedIs ==
  ASSUME SideOK, awaiting.op = "drop", NEW t \in Rows
  PROVE  /\ awaiting.source \in SqlSources =>
              (IsOfTable(t, awaiting.source, awaiting.item) <=> OfDeleted(t))
         /\ awaiting.source \in ResourceSources =>
              (IsWithin(t, awaiting.source, awaiting.item) <=> OfDeleted(t))
<1> DEFINE s == awaiting.source  c == awaiting.item
<1>1. OfDeleted(t) <=> /\ t.source = s /\ t.type \in {"table", "browser"}
                       /\ t.item \in {Path(c), DocumentPath(c)}
  BY DEF OfDeleted
<1>2. t.type \in TabKinds /\ ShowsItsSource(t)
  BY DEF Rows
<1> HIDE DEF s, c
<1>3. ASSUME s \in SqlSources PROVE IsOfTable(t, s, c) <=> OfDeleted(t)
  <2>1. t.source = s => t.type # "browser"
    BY <1>2, <1>3, Bounds DEF ShowsItsSource
  <2>2. ASSUME t.type = "table" PROVE t.item # DocumentPath(c)
    <3>1. PICK x \in Tables : t.item = Path(x)
      BY <1>2, <2>2 DEF ShowsItsSource, TableItems
    <3> QED BY <3>1 DEF Path, DocumentPath
  <2> QED BY <1>1, <2>1, <2>2 DEF IsOfTable
<1>4. ASSUME s \in ResourceSources PROVE IsWithin(t, s, c) <=> OfDeleted(t)
  <2>1. t.source = s => t.type # "table"
    BY <1>2, <1>4, Bounds DEF ShowsItsSource
  <2> QED BY <1>1, <2>1 DEF IsWithin
<1> QED BY <1>3, <1>4 DEF s, c

LEMMA DroppedStep ==
  ASSUME TabsInv, Dropped
  PROVE  TabsInv' /\ FrontStays /\ ClosesTheDeleted
<1> DEFINE s == awaiting.source  c == awaiting.item
<1>0. BarOK /\ RoomOK /\ SideOK /\ tabs \in Seq(Rows)
  BY DEF TabsInv, BarOK
<1>1. /\ awaiting # Idle /\ awaiting.op = "drop" /\ (DropTable \/ DeleteCollection)
      /\ contents' = [contents EXCEPT !.items[s] = @ \ {c}]
      /\ UNCHANGED <<selectedTabIndex, dataSources, items, opening, currentProject>>
  BY DEF Dropped, Served, Answer
<1>2. s \in TabSources /\ c \in ItemsOf(s)
  BY <1>0, <1>1, AwaitedIs
<1>3. PICK matching : /\ CloseTabsMatching(matching)
                      /\ \A i \in DOMAIN tabs : tabs[i] \in matching <=> OfDeleted(tabs[i])
  <2>1. CASE DropTable
    <3> DEFINE matching == {t \in ToSet(tabs) : IsOfTable(t, s, c)}
    <3>1. s \in SqlSources /\ CloseTabsMatching(matching)
      BY <2>1 DEF DropTable
    <3>2. \A i \in DOMAIN tabs : tabs[i] \in matching <=> OfDeleted(tabs[i])
      <4> TAKE i \in DOMAIN tabs
      <4>1. tabs[i] \in ToSet(tabs) /\ tabs[i] \in Rows
        BY <1>0, InTabs
      <4>2. IsOfTable(tabs[i], s, c) <=> OfDeleted(tabs[i])
        BY <1>0, <1>1, <3>1, <4>1, DroppedIs
      <4> QED BY <4>1, <4>2
    <3> HIDE DEF matching
    <3> QED BY <3>1, <3>2
  <2>2. CASE DeleteCollection
    <3> DEFINE matching == {t \in ToSet(tabs) : IsWithin(t, s, c)}
    <3>1. s \in ResourceSources /\ CloseTabsMatching(matching)
      BY <2>2 DEF DeleteCollection
    <3>2. \A i \in DOMAIN tabs : tabs[i] \in matching <=> OfDeleted(tabs[i])
      <4> TAKE i \in DOMAIN tabs
      <4>1. tabs[i] \in ToSet(tabs) /\ tabs[i] \in Rows
        BY <1>0, InTabs
      <4>2. IsWithin(tabs[i], s, c) <=> OfDeleted(tabs[i])
        BY <1>0, <1>1, <3>1, <4>1, DroppedIs
      <4> QED BY <4>1, <4>2
    <3> HIDE DEF matching
    <3> QED BY <3>1, <3>2
  <2> QED BY <1>1, <2>1, <2>2
<1>4. /\ BarOK' /\ RoomOK' /\ FrontStays
      /\ tabs' = At(tabs, {i \in DOMAIN tabs : tabs[i] \notin matching})
  BY <1>0, <1>1, <1>3, MatchingKeeps
<1>5. AwaitingOK'
  <2>1. awaiting' = Awaits("load", s, "none") \/ awaiting' = Idle
    BY <1>1 DEF DropTable, DeleteCollection
  <2> QED BY <1>2, <2>1 DEF AwaitingOK, Awaits, Calls
<1>6. /\ contents' = [sources |-> contents'.sources, items |-> contents'.items]
      /\ contents'.sources \subseteq TabSources /\ ListedOK(contents'.items)
  BY <1>0, <1>1, <1>2, ContentsChanged
<1>7. SideOK'
  BY <1>0, <1>1, <1>5, <1>6 DEF SideOK, ListedOK
<1>8. tabs' = At(tabs, {i \in DOMAIN tabs : ~OfDeleted(tabs[i])})
  BY <1>3, <1>4, ClosedIs
<1> QED BY <1>4, <1>7, <1>8 DEF TabsInv, ClosesTheDeleted


LEMMA TabsStep ==
  ASSUME TabsInv, TabsNext
  PROVE  TabsInv' /\ FrontStays
<1>1. CASE \E r \in opening : Opened(r) \/ NotResolved(r)
  BY <1>1, OpenedStep, NotResolvedStep
<1>2. CASE TabStrip
  <2>1. BarOK' /\ RoomOK' /\ FrontStays /\ UNCHANGED sideVars
    BY <1>2, StripStep
  <2>2. SideOK /\ UNCHANGED <<currentProject, dataSources, items, contents, awaiting, opening>>
    BY <2>1 DEF TabsInv, sideVars
  <2>3. SideOK'
    BY <2>2 DEF SideOK, ListedOK, AwaitingOK
  <2> QED BY <2>1, <2>3 DEF TabsInv
<1>3. CASE Sidebar
  <2>0. currentProject \in Workspaces
    BY DEF TabsInv, SideOK
  <2>1. CASE \E s \in TabSources : ClickItem(s)
    BY <2>1, ClickStep
  <2>2. CASE DeleteDataSource
    BY <2>2, DeletedStep
  <2>3. CASE Dropped
    BY <2>3, DroppedStep
  <2>4. CASE \E s \in TabSources : ToggleExpanded(s) \/ AskDelete(s)
    BY <2>0, <2>4, AskingStep
  <2>5. CASE \E s \in TabSources : \E item \in ItemsOf(s) : AskCreate(s, item) \/ AskDrop(s, item)
    BY <2>0, <2>5, AskingStep
  <2>6. ASSUME NEW p \in Workspaces, SetCurrentProject(p) PROVE TabsInv' /\ FrontStays
    <3>1. CASE TabSources # {}
      BY <2>6, <3>1, AskingStep
    <3>2. CASE TabSources = {}
      <4>1. TabsInv /\ UNCHANGED <<barVars, dataSources, contents, opening, items>>
            /\ currentProject' \in Workspaces /\ awaiting' = Awaits("switch", "none", "none")
        BY <2>6 DEF SetCurrentProject, Asked
      <4>2. AwaitingOK'
        BY <4>1 DEF AwaitingOK, Awaits, Calls
      <4>3. SideOK'
        BY <4>1, <4>2 DEF TabsInv, SideOK, ListedOK
      <4> QED BY <4>1, <4>3, BarRests DEF TabsInv
    <3> QED BY <3>1, <3>2
  <2>7. CASE Switched \/ Loaded \/ SourceDeleted \/ Created \/ RequestFails
    BY <2>7, PlainAnswerStep
  <2>8. CASE ShowCreated
    BY <2>8, ShowStep
  <2> QED BY <1>3, <2>1, <2>2, <2>3, <2>4, <2>5, <2>6, <2>7, <2>8 DEF Sidebar
<1> QED BY <1>1, <1>2, <1>3 DEF TabsNext

LEMMA TabsStill ==
  ASSUME TabsInv, UNCHANGED tabVars
  PROVE  TabsInv' /\ FrontStays
<1>1. TabsInv /\ UNCHANGED barVars /\ UNCHANGED <<currentProject, dataSources, items, contents, awaiting, opening>>
  BY DEF tabVars, sideVars
<1>2. SideOK'
  BY <1>1 DEF TabsInv, SideOK, ListedOK, AwaitingOK
<1> QED BY <1>1, <1>2, BarRests DEF TabsInv

LEMMA DeletedClosed ==
  ASSUME TabsInv
  PROVE  ClosesTheDeleted
BY DeletedStep, DroppedStep DEF ClosesTheDeleted

\* Different ids make as many pages as there are tabs.
LEMMA TabsInvTrue ==
  ASSUME TabsInv
  PROVE  TabsAreTrue
<1>0. BarOK /\ RoomOK /\ tabs \in Seq(Rows) /\ Len(tabs) \in Nat /\ DOMAIN tabs = 1..Len(tabs)
  BY DEF TabsInv, BarOK
<1>1. UniqueTabs
  <2> DEFINE f == [i \in 1..Len(tabs) |-> tabs[i].id]
             b == 1..Len(tabs)
             ids == Ids(tabs)
  <2>1. IsFiniteSet(b) /\ Cardinality(b) = Len(tabs)
    BY <1>0, FirstNumbers
  <2>2. f \in Bijection(b, ids)
    <3>1. f \in [b -> ids]
      BY <1>0 DEF Ids
    <3>2. \A i, j \in b : f[i] = f[j] => i = j
      BY <1>0 DEF BarOK
    <3>3. \A id \in ids : \E i \in b : f[i] = id
      BY <1>0 DEF Ids
    <3> HIDE DEF f, b, ids
    <3> QED BY <3>1, <3>2, <3>3 DEF Bijection, Injection, Surjection, IsInjective
  <2> HIDE DEF b, ids, f
  <2>3. Cardinality(ids) = Cardinality(b)
    <3>1. ExistsBijection(b, ids)
      BY <2>2 DEF ExistsBijection
    <3> QED BY <2>1, <3>1, FS_Bijection
  <2> QED BY <2>1, <2>3 DEF UniqueTabs, ids
<1>2. TabsTypeOK
  <2>1. ASSUME NEW i \in DOMAIN tabs
        PROVE  /\ tabs[i].source \in TabSources /\ tabs[i].project \in Workspaces
               /\ tabs[i].item \in CASE tabs[i].type = "table" -> {Path(t) : t \in Tables} [] tabs[i].type = "query" -> {<< >>}
                                     [] tabs[i].type = "browser" -> Paths
    <3>1. tabs[i] \in Rows
      BY <1>0
    <3>2. tabs[i].source \in TabSources /\ tabs[i].project \in Workspaces /\ tabs[i].type \in TabKinds /\ ShowsItsSource(tabs[i])
      BY <3>1 DEF Rows
    <3>3. CASE tabs[i].type = "table"
      BY <3>2, <3>3 DEF ShowsItsSource, TableItems
    <3>4. CASE tabs[i].type = "query"
      BY <3>2, <3>4 DEF ShowsItsSource
    <3>5. CASE tabs[i].type = "browser"
      BY <3>2, <3>5 DEF ShowsItsSource
    <3> QED BY <3>2, <3>3, <3>4, <3>5 DEF TabKinds
  <2>2. currentTab \in 1 .. (IF tabs = << >> THEN 1 ELSE Len(tabs))
    BY <1>0 DEF BarOK
  <2> QED BY <1>0, <2>1, <2>2 DEF TabsTypeOK, BarOK
<1>3. DirtyFlagIsTrue
  BY <1>0 DEF BarOK, DirtyFlagIsTrue
<1> QED BY <1>1, <1>2, <1>3 DEF TabsAreTrue

-----------------------------------------------------------------------------
(* Entries of a folder in their order, and what one page lists of them.    *)

Places == [at : Seq(Names), folder : BOOLEAN]
EntrySet == {p \in Places : p.at # << >>}
Below(folder) == {p \in EntrySet : \E n \in Names : p.at = Append(folder.at, n)}

\* What is in a folder, and what of it a search finds.
Inside(folder, stored) ==
  IF folder = Root THEN {Folder(<<b>>) : b \in Buckets} ELSE Entries(folder, stored)
Now(folder, search, stored) == {e \in Inside(folder, stored) : MatchesSearch(e, search)}

Ascending(s) == \A i, j \in DOMAIN s : i < j => Rank(s[i]) < Rank(s[j])

\* A page that begins after the cursor holds what it says of the entries that
\* are there all the time, but for what a batch skips or repeats.
Covers(a, always, cursor) ==
  /\ a.cursor \in Nat
  /\ \A i \in DOMAIN a.items : Rank(a.items[i]) > cursor /\ a.items[i] \in a.ever
  /\ \A i, j \in DOMAIN a.items : i < j /\ a.items[i] = a.items[j] => MayRepeat(a.items[i], a.stops)
  /\ a.more => /\ a.cursor > cursor
               /\ \A i \in DOMAIN a.items : Rank(a.items[i]) <= a.cursor \/ MayRepeat(a.items[i], a.stops)
               /\ a.path = Root => \E e \in a.ever : Rank(e) = a.cursor
  /\ \A e \in always : Rank(e) > cursor =>
       e \in ToSet(a.items) \/ (a.more /\ Rank(e) > a.cursor) \/ IsSkipped(e, a.stops)

LEMMA BrowserBounds ==
  /\ IsFiniteSet(Keys) /\ NewKeys \subseteq Keys
  /\ \A k \in Keys : k \in Seq(Names) /\ Len(k) > 1
  /\ IsFiniteSet(Buckets) /\ Buckets \subseteq Names
  /\ LIST_PAGE_SIZE \in Nat \ {0} /\ BATCH_SIZE \in Nat \ {0}
  /\ \A start \in Starts :
       (start.path = Root \/ start.path.at \in Seq(Names) \ {<< >>}) /\ start.bucket \in Names \cup {""}
BY BrowserAssumption

LEMMA RootIs == Root \in Places /\ Root.folder /\ Root.at = << >> /\ \A p \in Places : p.folder => (p = Root <=> p.at = << >>)
BY DEF Root, Folder, Places

LEMMA RankIs ==
  /\ \A e \in EntrySet : Rank(e) \in Nat /\ Rank(e) > 0
  /\ \A folder \in Places : \A e, g \in Below(folder) : Rank(e) = Rank(g) => e = g
<1>0. /\ \A f \in BOOLEAN : \A n \in Names : NameRank[f][n] \in Nat \ {0}
      /\ \A m, n \in Names : \A f, g \in BOOLEAN : NameRank[f][m] = NameRank[g][n] => m = n /\ f = g
  <2>1. NameRank \in [BOOLEAN -> [Names -> Nat \ {0}]]
    BY BrowserAssumption
  <2>2. \A m, n \in Names : \A f, g \in BOOLEAN : NameRank[f][m] = NameRank[g][n] => m = n /\ f = g
    BY BrowserAssumption, Zenon
  <2>3. \A f \in BOOLEAN : \A n \in Names : NameRank[f][n] \in Nat \ {0}
    BY <2>1
  <2> QED BY <2>2, <2>3
<1>1. ASSUME NEW e \in EntrySet PROVE Rank(e) \in Nat /\ Rank(e) > 0
  <2>1. e.at \in Seq(Names) /\ e.at # << >> /\ e.folder \in BOOLEAN
    BY DEF EntrySet, Places
  <2>2. e.at[Len(e.at)] \in Names
    BY <2>1
  <2> QED BY <1>0, <2>1, <2>2 DEF Rank, Last
<1>2. ASSUME NEW folder \in Places, NEW e \in Below(folder), NEW g \in Below(folder), Rank(e) = Rank(g) PROVE e = g
  <2>1. PICK m \in Names : e.at = Append(folder.at, m)
    BY DEF Below
  <2>2. PICK n \in Names : g.at = Append(folder.at, n)
    BY DEF Below
  <2>3. folder.at \in Seq(Names) /\ e \in Places /\ g \in Places
    BY DEF Below, EntrySet, Places
  <2>4. Last(e.at) = m /\ Last(g.at) = n
    BY <2>1, <2>2, <2>3 DEF Last
  <2>5. e.folder \in BOOLEAN /\ g.folder \in BOOLEAN
    BY <2>3 DEF Places
  <2>6. m = n /\ e.folder = g.folder
    BY <1>0, <1>2, <2>4, <2>5 DEF Rank
  <2> QED BY <2>1, <2>2, <2>3, <2>6 DEF Places
<1> QED BY <1>1, <1>2

\* What is in a folder lies below it.
LEMMA InsideIs ==
  ASSUME NEW folder \in Places, folder.folder, NEW stored \in SUBSET Keys
  PROVE  Inside(folder, stored) \subseteq Below(folder) /\ IsFiniteSet(Inside(folder, stored))
<1>1. CASE folder = Root
  <2> DEFINE S == {Folder(<<b>>) : b \in Buckets}
             g == [b \in Buckets |-> Folder(<<b>>)]
  <2>1. Inside(folder, stored) = S
    BY <1>1 DEF Inside
  <2>2. S \subseteq Below(folder)
    <3> SUFFICES ASSUME NEW b \in Buckets PROVE Folder(<<b>>) \in Below(folder)
      OBVIOUS
    <3>1. b \in Names
      BY BrowserBounds
    <3>2. <<b>> \in Seq(Names) /\ <<b>> # << >> /\ <<b>> = Append(<< >>, b)
      BY <3>1
    <3>3. folder.at = << >>
      BY <1>1, RootIs
    <3> QED BY <3>1, <3>2, <3>3 DEF Below, EntrySet, Places, Folder
  <2>3. g \in Surjection(Buckets, S)
    BY DEF Surjection
  <2> HIDE DEF S, g
  <2>4. IsFiniteSet(S)
    BY <2>3, BrowserBounds, FS_Surjection DEF ExistsSurjection
  <2> QED BY <2>1, <2>2, <2>4
<1>2. CASE folder # Root
  <2> DEFINE d == Len(folder.at)
             below == {k \in stored : Len(k) > d /\ SubSeq(k, 1, d) = folder.at}
             g == [k \in below |-> IF Len(k) = d + 1 THEN Object(k) ELSE Folder(SubSeq(k, 1, d + 1))]
             S == {IF Len(k) = d + 1 THEN Object(k) ELSE Folder(SubSeq(k, 1, d + 1)) : k \in below}
  <2>1. Inside(folder, stored) = S
    BY <1>2 DEF Inside, Entries
  <2>2. ASSUME NEW k \in below
        PROVE  (IF Len(k) = d + 1 THEN Object(k) ELSE Folder(SubSeq(k, 1, d + 1))) \in Below(folder)
    <3>1. k \in Seq(Names) /\ folder.at \in Seq(Names) /\ d \in Nat /\ Len(k) > d /\ SubSeq(k, 1, d) = folder.at
      <4>1. k \in Keys /\ Len(k) > d /\ SubSeq(k, 1, d) = folder.at
        BY <2>2
      <4>2. k \in Seq(Names)
        BY <4>1, BrowserBounds
      <4>3. folder.at \in Seq(Names)
        BY DEF Places
      <4> QED BY <4>1, <4>2, <4>3
    <3>2. k[d + 1] \in Names
      BY <3>1
    <3> DEFINE n == k[d + 1]  t == SubSeq(k, 1, d + 1)
    <3>3. t = Append(folder.at, n)
      <4>1. t \in Seq(Names) /\ Len(t) = d + 1 /\ \A i \in 1..d + 1 : t[i] = k[i]
        BY <3>1
      <4>2. Append(folder.at, n) \in Seq(Names) /\ Len(Append(folder.at, n)) = d + 1
        BY <3>1, <3>2
      <4>3. \A i \in 1..d : folder.at[i] = k[i]
        <5>1. \A i \in 1..d : SubSeq(k, 1, d)[i] = k[i]
          BY <3>1
        <5> QED BY <3>1, <5>1
      <4>4. \A i \in 1..d + 1 : Append(folder.at, n)[i] = k[i]
        BY <3>1, <3>2, <4>3
      <4> HIDE DEF t, d, n
      <4> QED BY <4>1, <4>2, <4>4
    <3>4. t \in Seq(Names) /\ t # << >>
      BY <3>1, <3>2, <3>3
    <3>5. Len(k) = d + 1 => k = t
      BY <3>1
    <3> HIDE DEF t, n
    <3>6. Folder(t) \in Below(folder) /\ Object(t) \in Below(folder)
      BY <3>2, <3>3, <3>4 DEF Below, EntrySet, Places, Folder, Object, n
    <3>7. SubSeq(k, 1, d + 1) = t
      BY DEF t
    <3> QED BY <3>5, <3>6, <3>7
  <2>3. S \subseteq Below(folder)
    BY <2>2
  <2>4. g \in Surjection(below, S)
    BY DEF Surjection
  <2>5. IsFiniteSet(below)
    <3>1. below \subseteq Keys
      OBVIOUS
    <3> QED BY <3>1, BrowserBounds, FS_Subset
  <2> HIDE DEF S, g, below
  <2>6. IsFiniteSet(S)
    BY <2>4, <2>5, FS_Surjection DEF ExistsSurjection
  <2> QED BY <2>1, <2>3, <2>6
<1> QED BY <1>1, <1>2

\* Entries of one folder in the order of their ranks, each once.
LEMMA RankOrderIs ==
  ASSUME NEW folder \in Places, NEW S \in SUBSET Below(folder), IsFiniteSet(S)
  PROVE  /\ InRankOrder(S) \in Seq(S)
         /\ Ascending(InRankOrder(S))
         /\ ToSet(InRankOrder(S)) = S
<1> DEFINE R == {Rank(e) : e \in S}
           ranks == InOrder(R)
           s == InRankOrder(S)
<1>1. R \in SUBSET Nat /\ \A e, g \in S : Rank(e) = Rank(g) => e = g
  <2>1. Below(folder) \subseteq EntrySet
    BY DEF Below
  <2> QED BY <2>1, RankIs
<1>2. IsFiniteSet(R)
  <2> DEFINE g == [e \in S |-> Rank(e)]
  <2>1. g \in Surjection(S, R)
    BY DEF Surjection
  <2> HIDE DEF g, R
  <2> QED BY <2>1, FS_Surjection DEF ExistsSurjection
<1>3. s = [i \in DOMAIN ranks |-> CHOOSE e \in S : Rank(e) = ranks[i]]
  BY DEF InRankOrder
<1> HIDE DEF R
<1>4. /\ Cardinality(R) \in Nat
      /\ \A k \in 1..Cardinality(R) : Nth(R, k) \in R
      /\ \A k, l \in 1..Cardinality(R) : k < l => Nth(R, k) < Nth(R, l)
      /\ \A i \in R : \E k \in 1..Cardinality(R) : Nth(R, k) = i
  BY <1>1, <1>2, NthIs
<1>5. DOMAIN ranks = 1..Cardinality(R) /\ \A k \in 1..Cardinality(R) : ranks[k] = Nth(R, k)
  BY DEF InOrder
<1> HIDE DEF ranks
<1>6. \A k \in 1..Cardinality(R) : s[k] \in S /\ Rank(s[k]) = Nth(R, k)
  <2> TAKE k \in 1..Cardinality(R)
  <2>1. s[k] = CHOOSE e \in S : Rank(e) = Nth(R, k)
    BY <1>3, <1>5
  <2>2. \E e \in S : Rank(e) = Nth(R, k)
    BY <1>4 DEF R
  <2> QED BY <2>1, <2>2
<1>7. s \in [1..Cardinality(R) -> S]
  BY <1>3, <1>5, <1>6
<1> HIDE DEF s
<1>8. s \in Seq(S) /\ DOMAIN s = 1..Cardinality(R)
  BY <1>4, <1>7
<1>9. Ascending(s)
  BY <1>4, <1>6, <1>8 DEF Ascending
<1>10. ToSet(s) = S
  <2>1. \A e \in S : \E k \in 1..Cardinality(R) : s[k] = e
    <3> TAKE e \in S
    <3>1. Rank(e) \in R
      BY DEF R
    <3>2. PICK k \in 1..Cardinality(R) : Nth(R, k) = Rank(e)
      BY <1>4, <3>1
    <3>3. s[k] = e
      BY <1>1, <1>6, <3>2
    <3> QED BY <3>3
  <2> QED BY <1>6, <1>8, <2>1 DEF ToSet
<1> QED BY <1>8, <1>9, <1>10 DEF s

\* A page is the first entries after the cursor.
LEMMA PageIs ==
  ASSUME NEW rest \in Seq(EntrySet), Ascending(rest), NEW all, NEW cursor \in Nat,
         \A i \in DOMAIN rest : Rank(rest[i]) > cursor /\ rest[i] \in all,
         \A e \in all : Rank(e) > cursor => e \in ToSet(rest),
         NEW a, a.ever = all,
         \/ a.items = rest /\ ~a.more /\ a.cursor = 0
         \/ /\ Len(rest) >= LIST_PAGE_SIZE /\ a.items = SubSeq(rest, 1, LIST_PAGE_SIZE)
            /\ a.cursor = Rank(rest[LIST_PAGE_SIZE])
            /\ Len(rest) > LIST_PAGE_SIZE => a.more
  PROVE  Covers(a, all, cursor) /\ a.items \in Seq(EntrySet)
<1>0. LIST_PAGE_SIZE \in Nat \ {0}
  BY BrowserBounds
<1> DEFINE L == LIST_PAGE_SIZE
<1>1. \A i \in DOMAIN rest : Rank(rest[i]) \in Nat
  BY RankIs
<1>2. CASE a.items = rest /\ ~a.more /\ a.cursor = 0
  <2>1. \A i, j \in DOMAIN rest : i < j => rest[i] # rest[j]
    BY <1>1 DEF Ascending
  <2> QED BY <1>2, <2>1 DEF Covers
<1>3. CASE /\ Len(rest) >= L /\ a.items = SubSeq(rest, 1, L)
           /\ a.cursor = Rank(rest[L])
           /\ Len(rest) > L => a.more
  <2>1. /\ a.items \in Seq(EntrySet) /\ DOMAIN a.items = 1..L /\ L \in 1..L /\ 1..L \subseteq DOMAIN rest
        /\ \A i \in 1..L : a.items[i] = rest[i]
    BY <1>0, <1>3
  <2>2. \A i, j \in DOMAIN a.items : i < j => a.items[i] # a.items[j]
    BY <1>1, <2>1 DEF Ascending
  <2>3. \A i \in DOMAIN a.items : Rank(a.items[i]) > cursor /\ a.items[i] \in a.ever
    BY <2>1
  <2>4. \A i \in 1..L : Rank(rest[i]) <= Rank(rest[L])
    <3> TAKE i \in 1..L
    <3>1. i \in DOMAIN rest /\ L \in DOMAIN rest /\ (i < L \/ i = L)
      BY <1>0, <2>1
    <3>2. i < L => Rank(rest[i]) < Rank(rest[L])
      BY <3>1 DEF Ascending
    <3> QED BY <1>1, <3>1, <3>2
  <2>5. a.cursor \in Nat
    BY <1>1, <1>3, <2>1
  <2>6. ASSUME NEW e \in all, Rank(e) > cursor PROVE e \in ToSet(a.items) \/ (a.more /\ Rank(e) > a.cursor)
    <3>1. PICK i \in DOMAIN rest : rest[i] = e
      BY <2>6 DEF ToSet
    <3>2. i \in Nat /\ DOMAIN rest = 1..Len(rest) /\ Len(rest) \in Nat
      OBVIOUS
    <3>3. CASE i <= L
      <4>1. i \in 1..L
        BY <3>2, <3>3
      <4>2. a.items[i] = e
        BY <2>1, <3>1, <4>1
      <4> QED BY <2>1, <4>1, <4>2 DEF ToSet
    <3>4. CASE L < i
      <4>1. Len(rest) > L
        BY <1>0, <3>2, <3>4
      <4>2. Rank(rest[L]) < Rank(rest[i])
        BY <2>1, <3>4 DEF Ascending
      <4> QED BY <1>3, <3>1, <4>1, <4>2
    <3> QED BY <1>0, <3>2, <3>3, <3>4
  <2>7. a.cursor > cursor /\ \E e \in a.ever : Rank(e) = a.cursor
    BY <1>3, <2>1
  <2>8. \A i \in DOMAIN a.items : Rank(a.items[i]) <= a.cursor
    BY <1>3, <2>1, <2>4
  <2> QED BY <2>1, <2>2, <2>3, <2>5, <2>6, <2>7, <2>8 DEF Covers
<1> QED BY <1>2, <1>3

\* A sequence whose places all differ has as many members as places.
LEMMA Differing ==
  ASSUME NEW T, NEW s \in Seq(T), \A i, j \in DOMAIN s : s[i] = s[j] => i = j
  PROVE  Cardinality(ToSet(s)) = Len(s)
<1>1. DOMAIN s = 1..Len(s) /\ Len(s) \in Nat /\ s \in [1..Len(s) -> T]
  OBVIOUS
<1>2. ToSet(s) = {s[i] : i \in 1..Len(s)}
  BY <1>1 DEF ToSet
<1>3. s \in Bijection(1..Len(s), ToSet(s))
  BY <1>1, <1>2 DEF Bijection, Injection, Surjection, IsInjective
<1> QED BY <1>1, <1>3, FS_CountingElements DEF ExistsBijection

ListingParts == {"path", "items", "more", "cursor", "always", "ever", "stops", "ok"}
IsListing(a) ==
  DOMAIN a = ListingParts /\ a.path \in Places /\ a.path.folder /\ a.items \in Seq(EntrySet) /\ a.cursor \in Nat

LEMMA ListingIs ==
  ASSUME NEW path, NEW shown, NEW more, NEW cursor, NEW all
  PROVE  LET a == Listing(path, shown, more, cursor, all) IN
         /\ DOMAIN a = ListingParts /\ a.ok /\ a.path = path /\ a.items = shown /\ a.more = more
         /\ a.cursor = cursor /\ a.always = all /\ a.ever = all
BY DEF Listing, ListingParts

LEMMA FirstOnes ==
  ASSUME NEW T, NEW s \in Seq(T), Len(s) >= LIST_PAGE_SIZE
  PROVE  SubSeq(s, 1, LIST_PAGE_SIZE) \in Seq(T)
<1>1. LIST_PAGE_SIZE \in Nat
  BY BrowserBounds
<1> QED BY <1>1

\* What the store gives: entries after the cursor, the objects and then the
\* folders, each kind in its order and nothing before what is left for later.
IsGiven(found, rest, isTruncated) ==
  /\ found \in Seq(EntrySet) /\ ToSet(found) \subseteq rest
  /\ \A i, j \in DOMAIN found : i < j =>
       /\ found[i].folder => found[j].folder
       /\ (found[i].folder <=> found[j].folder) => Rank(found[i]) < Rank(found[j])
  /\ \A e \in rest \ ToSet(found) : isTruncated /\ \A i \in DOMAIN found : Rank(e) > Rank(found[i])
  /\ isTruncated => found # << >>

LEMMA QueryIs ==
  ASSUME NEW folder \in Places, NEW entries \in SUBSET Below(folder), IsFiniteSet(entries), NEW cursor
  PROVE  LET r == ListObjectsV2Query(entries, cursor) IN IsGiven(r.objects, After(entries, cursor), r.isTruncated)
<1> DEFINE W == After(entries, cursor)
           rest == InRankOrder(W)
           B == {rest[i] : i \in {j \in DOMAIN rest : j <= BATCH_SIZE}}
           O == {e \in B : ~e.folder}
           D == {e \in B : e.folder}
           os == InRankOrder(O)
           ds == InRankOrder(D)
           r == ListObjectsV2Query(entries, cursor)
           truncated == Len(rest) > BATCH_SIZE
<1>1. r.objects = os \o ds /\ r.isTruncated = truncated
  BY DEF ListObjectsV2Query
<1>2. W \in SUBSET Below(folder) /\ IsFiniteSet(W)
  <2>1. W \subseteq entries
    BY DEF After
  <2> QED BY <2>1, FS_Subset
<1> HIDE DEF W, r
<1>3. rest \in Seq(W) /\ Ascending(rest) /\ ToSet(rest) = W
  BY <1>2, RankOrderIs
<1> HIDE DEF rest
<1>4. /\ DOMAIN rest = 1..Len(rest) /\ Len(rest) \in Nat /\ BATCH_SIZE \in Nat \ {0}
      /\ \A i \in DOMAIN rest : rest[i] \in W
  <2>1. rest \in Seq(W)
    BY <1>3
  <2>2. BATCH_SIZE \in Nat \ {0}
    BY BrowserBounds
  <2> QED BY <2>1, <2>2
<1>5. B \subseteq W
  BY <1>4
<1>6. /\ \A e \in W \ B : truncated /\ \A g \in B : Rank(e) > Rank(g)
      /\ truncated => B # {}
  <2>1. ASSUME NEW e \in W \ B, NEW g \in B PROVE Rank(e) > Rank(g)
    <3>1. PICK i \in DOMAIN rest : rest[i] = e
      BY <1>3 DEF ToSet
    <3>2. PICK j \in DOMAIN rest : j <= BATCH_SIZE /\ rest[j] = g
      OBVIOUS
    <3>3. ~(i <= BATCH_SIZE)
      BY <3>1
    <3>4. j < i
      BY <1>4, <3>2, <3>3
    <3>5. Rank(g) < Rank(e)
      BY <1>3, <3>1, <3>2, <3>4 DEF Ascending
    <3>6. e \in EntrySet /\ g \in EntrySet
      BY <1>2, <1>5 DEF Below
    <3> QED BY <3>5, <3>6, RankIs
  <2>2. ASSUME NEW e \in W \ B PROVE truncated
    <3>1. PICK i \in DOMAIN rest : rest[i] = e
      BY <1>3 DEF ToSet
    <3>2. ~(i <= BATCH_SIZE)
      BY <3>1
    <3> QED BY <1>4, <3>2
  <2>3. ASSUME truncated PROVE rest[1] \in B
    <3>1. 1 \in DOMAIN rest /\ 1 <= BATCH_SIZE
      BY <1>4, <2>3
    <3> QED BY <3>1
  <2> QED BY <2>1, <2>2, <2>3
<1>7. O \in SUBSET Below(folder) /\ IsFiniteSet(O) /\ D \in SUBSET Below(folder) /\ IsFiniteSet(D) /\ O \cup D = B
  <2>1. O \subseteq W /\ D \subseteq W
    BY <1>5
  <2> QED BY <1>2, <2>1, FS_Subset
<1>8. \A e \in O : ~e.folder
  OBVIOUS
<1>9. \A e \in D : e.folder
  OBVIOUS
<1> HIDE DEF B, O, D
<1>10. os \in Seq(O) /\ Ascending(os) /\ ToSet(os) = O
  BY <1>7, RankOrderIs
<1>11. ds \in Seq(D) /\ Ascending(ds) /\ ToSet(ds) = D
  BY <1>7, RankOrderIs
<1> HIDE DEF os, ds
<1> DEFINE found == os \o ds  n == Len(os)
<1>12. O \subseteq EntrySet /\ D \subseteq EntrySet
  BY <1>7 DEF Below
<1>13. os \in Seq(EntrySet) /\ ds \in Seq(EntrySet) /\ n \in Nat /\ Len(ds) \in Nat
  BY <1>10, <1>11, <1>12
<1>14. /\ found \in Seq(EntrySet) /\ DOMAIN found = 1..n + Len(ds)
       /\ \A i \in 1..n : found[i] = os[i] /\ found[i] \in O
       /\ \A i \in n + 1..n + Len(ds) : found[i] = ds[i - n] /\ found[i] \in D /\ i - n \in 1..Len(ds)
  <2>1. /\ found \in Seq(EntrySet) /\ Len(found) = n + Len(ds)
        /\ \A i \in 1..n : found[i] = os[i]
        /\ \A i \in n + 1..n + Len(ds) : found[i] = ds[i - n]
    BY <1>13, Joined
  <2>2. (\A i \in 1..n : os[i] \in O) /\ \A i \in 1..Len(ds) : ds[i] \in D
    BY <1>10, <1>11
  <2>3. \A i \in n + 1..n + Len(ds) : i - n \in 1..Len(ds)
    BY <1>13
  <2> HIDE DEF found
  <2> QED BY <2>1, <2>2, <2>3
<1> HIDE DEF found
<1>15. \A i \in DOMAIN found : i \in 1..n \/ i \in n + 1..n + Len(ds)
  BY <1>13, <1>14
<1>16. ToSet(found) = B
  <2>1. ToSet(found) \subseteq B
    BY <1>7, <1>14, <1>15 DEF ToSet
  <2>2. \A e \in O : \E i \in DOMAIN found : found[i] = e
    <3> TAKE e \in O
    <3>1. PICK i \in 1..n : os[i] = e
      BY <1>10 DEF ToSet
    <3> QED BY <1>13, <1>14, <3>1
  <2>3. \A e \in D : \E i \in DOMAIN found : found[i] = e
    <3> TAKE e \in D
    <3>1. PICK i \in 1..Len(ds) : ds[i] = e
      BY <1>11 DEF ToSet
    <3>2. n + i \in n + 1..n + Len(ds) /\ (n + i) - n = i
      BY <1>13
    <3>3. found[n + i] = e
      BY <1>14, <3>1, <3>2
    <3> QED BY <1>13, <1>14, <3>2, <3>3
  <2> QED BY <1>7, <2>1, <2>2, <2>3 DEF ToSet
<1>17. ASSUME NEW i \in DOMAIN found, NEW j \in DOMAIN found, i < j
       PROVE  /\ found[i].folder => found[j].folder
              /\ (found[i].folder <=> found[j].folder) => Rank(found[i]) < Rank(found[j])
  <2>0. i \in Nat /\ j \in Nat
    BY <1>13, <1>14
  <2>1. CASE j \in 1..n
    <3>1. i \in 1..n /\ i \in DOMAIN os /\ j \in DOMAIN os
      BY <1>10, <1>15, <1>17, <2>0, <2>1
    <3>2. Rank(os[i]) < Rank(os[j])
      BY <1>10, <1>17, <3>1 DEF Ascending
    <3> QED BY <1>8, <1>14, <2>1, <3>1, <3>2
  <2>2. CASE i \in 1..n /\ j \in n + 1..n + Len(ds)
    BY <1>8, <1>9, <1>14, <2>2
  <2>3. CASE i \in n + 1..n + Len(ds)
    <3>1. j \in n + 1..n + Len(ds)
      BY <1>13, <1>15, <1>17, <2>0, <2>3
    <3>2. i - n \in DOMAIN ds /\ j - n \in DOMAIN ds /\ i - n < j - n
      BY <1>11, <1>13, <1>14, <1>17, <2>0, <2>3, <3>1
    <3>3. Rank(ds[i - n]) < Rank(ds[j - n])
      BY <1>11, <3>2 DEF Ascending
    <3> QED BY <1>9, <1>14, <2>3, <3>1, <3>3
  <2> QED BY <1>15, <2>1, <2>2, <2>3
<1>18. \A e \in W \ ToSet(found) : truncated /\ \A i \in DOMAIN found : Rank(e) > Rank(found[i])
  BY <1>6, <1>16 DEF ToSet
<1>19. truncated => found # << >>
  BY <1>6, <1>16 DEF ToSet
<1> HIDE DEF truncated
<1>20. IsGiven(found, W, truncated)
  BY <1>5, <1>14, <1>16, <1>17, <1>18, <1>19 DEF IsGiven
<1> QED BY <1>1, <1>20 DEF found, r, W

\* A batch that is walked lists what is in the folder.
LEMMA BatchLists ==
  ASSUME objects \subseteq Keys, NEW folder \in Places, folder.folder, folder # Root, NEW search, NEW cursor \in Nat,
         NEW room \in Nat \ {0}
  PROVE  LET b == Batch(folder, search, cursor, room) IN
         /\ b.ok /\ IsListing(b) /\ b.path = folder
         /\ b.always = Now(folder, search, objects) /\ b.ever = b.always
         /\ Covers(b, b.always, cursor)
<1> DEFINE E == Entries(folder, objects)
           response == ListObjectsV2Query(E, cursor)
           found == response.objects
           truncated == response.isTruncated
           matching == {i \in DOMAIN found : MatchesSearch(found[i], search)}
           full == Cardinality(matching) >= room
           last == IF full THEN Nth(matching, room) ELSE Len(found)
           more == truncated \/ (full /\ last < Len(found))
           taken == {i \in matching : i <= last}
           shown == At(found, taken)
           next == IF full \/ more THEN Rank(found[last]) ELSE 0
           now == {e \in E : MatchesSearch(e, search)}
           stops == {found[i] : i \in {j \in DOMAIN found : j = last /\ (full \/ found[j].folder)}}
           a == Listing(folder, shown, more, next, now)
           b == Batch(folder, search, cursor, room)
<1>1. b = [a EXCEPT !.stops = stops]
  BY DEF Batch
<1>2. E \in SUBSET Below(folder) /\ IsFiniteSet(E) /\ Below(folder) \subseteq EntrySet
  BY InsideIs DEF Inside, Below
<1>3. IsGiven(found, After(E, cursor), truncated)
  <2> HIDE DEF E
  <2> QED BY <1>2, QueryIs
<1>4. \A e : e \in now /\ Rank(e) > cursor => e \in After(E, cursor) /\ MatchesSearch(e, search)
  BY DEF After
<1>5. \A e \in After(E, cursor) : Rank(e) > cursor /\ e \in Below(folder) /\ (MatchesSearch(e, search) => e \in now)
  BY <1>2 DEF After
<1>6. now = Now(folder, search, objects)
  BY DEF Now, Inside
<1>7. now \subseteq Below(folder)
  BY <1>2
<1> HIDE DEF E, response, b, now
<1>8. /\ DOMAIN a = ListingParts /\ a.ok /\ a.path = folder /\ a.items = shown /\ a.more = more
      /\ a.cursor = next /\ a.always = now /\ a.ever = now
  <2> HIDE DEF shown, more, next, found, truncated, matching, full, last, taken
  <2> QED BY ListingIs
<1>9. /\ DOMAIN b = ListingParts /\ b.ok /\ b.path = folder /\ b.items = shown /\ b.more = more
      /\ b.cursor = next /\ b.always = now /\ b.ever = now /\ b.stops = stops
  <2> HIDE DEF shown, more, next, found, truncated, matching, full, last, taken, stops, a
  <2> QED BY <1>1, <1>8 DEF ListingParts
<1> HIDE DEF a, found, truncated
<1>10. /\ found \in Seq(EntrySet) /\ DOMAIN found = 1..Len(found) /\ Len(found) \in Nat
       /\ \A i \in DOMAIN found : /\ found[i] \in After(E, cursor) /\ found[i] \in EntrySet
                                  /\ Rank(found[i]) \in Nat /\ Rank(found[i]) > cursor
  <2>1. found \in Seq(EntrySet) /\ ToSet(found) \subseteq After(E, cursor)
    BY <1>3 DEF IsGiven
  <2>2. \A i \in DOMAIN found : found[i] \in After(E, cursor) /\ found[i] \in EntrySet
    BY <2>1 DEF ToSet
  <2> QED BY <1>5, <2>1, <2>2, RankIs
<1>11. matching \in SUBSET Nat /\ matching \subseteq DOMAIN found /\ IsFiniteSet(matching)
  <2>1. matching \subseteq 1..Len(found)
    BY <1>10
  <2>2. IsFiniteSet(1..Len(found))
    BY <1>10, FirstNumbers
  <2> QED BY <1>10, <2>1, <2>2, FS_Subset
<1>12. \A i \in DOMAIN found : i \in matching <=> MatchesSearch(found[i], search)
  OBVIOUS
<1> HIDE DEF matching
<1>13. Cardinality(matching) \in Nat /\ (full => Nth(matching, room) \in matching)
  <2>1. Cardinality(matching) \in Nat /\ \A k \in 1..Cardinality(matching) : Nth(matching, k) \in matching
    BY <1>11, NthIs
  <2>2. full => room \in 1..Cardinality(matching)
    BY <2>1
  <2> QED BY <2>1, <2>2
<1>14. /\ last \in Nat
       /\ full => last \in matching
       /\ ~full => last = Len(found)
  BY <1>10, <1>11, <1>13
<1>15. full \/ more => last \in DOMAIN found
  <2>1. ASSUME more, ~full PROVE last \in DOMAIN found
    <3>1. truncated
      BY <2>1
    <3>2. found # << >>
      BY <1>3, <3>1 DEF IsGiven
    <3>3. Len(found) \in DOMAIN found
      BY <1>10, <3>2
    <3> QED BY <1>14, <2>1, <3>3
  <2> QED BY <1>11, <1>14, <2>1
<1>16. /\ more <=> truncated \/ (full /\ last < Len(found))
       /\ full \/ more => next = Rank(found[last])
       /\ ~(full \/ more) => next = 0
  OBVIOUS
<1>17. /\ taken \in SUBSET DOMAIN found /\ taken \in SUBSET Nat /\ IsFiniteSet(taken)
       /\ \A i : i \in taken <=> i \in matching /\ i <= last
  <2>1. taken \subseteq matching
    OBVIOUS
  <2> QED BY <1>11, <2>1, FS_Subset
<1>18. last \in DOMAIN found /\ (full \/ found[last].folder) => found[last] \in stops
  OBVIOUS
<1> HIDE DEF full, last, more, next, taken, stops
<1>19. /\ shown \in Seq(EntrySet) /\ DOMAIN shown = 1..Cardinality(taken)
       /\ \A k \in DOMAIN shown : Nth(taken, k) \in taken /\ shown[k] = found[Nth(taken, k)]
       /\ \A k, l \in DOMAIN shown : k < l => Nth(taken, k) < Nth(taken, l)
       /\ \A i \in taken : \E k \in DOMAIN shown : shown[k] = found[i]
  <2>1. /\ shown \in Seq(EntrySet) /\ DOMAIN shown = 1..Cardinality(taken)
        /\ \A k \in 1..Cardinality(taken) : Nth(taken, k) \in taken /\ shown[k] = found[Nth(taken, k)]
        /\ \A i \in taken : \E k \in 1..Cardinality(taken) : Nth(taken, k) = i
    BY <1>10, <1>17, AtIs
  <2>2. \A k, l \in 1..Cardinality(taken) : k < l => Nth(taken, k) < Nth(taken, l)
    BY <1>17, NthIs
  <2> HIDE DEF shown
  <2> QED BY <2>1, <2>2
<1> HIDE DEF shown
<1>20. \A i, j \in DOMAIN found : i < j =>
         /\ found[i].folder => found[j].folder
         /\ (found[i].folder <=> found[j].folder) => Rank(found[i]) < Rank(found[j])
  BY <1>3 DEF IsGiven
<1>21. next \in Nat /\ (more => next > cursor)
  BY <1>10, <1>15, <1>16
<1>22. \A k \in DOMAIN shown : Rank(shown[k]) > cursor /\ shown[k] \in now
  <2> TAKE k \in DOMAIN shown
  <2>1. PICK i \in DOMAIN found : i \in matching /\ shown[k] = found[i]
    BY <1>17, <1>19
  <2> QED BY <1>5, <1>10, <1>12, <2>1
<1>23. \A k, l \in DOMAIN shown : k < l => shown[k] # shown[l]
  <2> SUFFICES ASSUME NEW k \in DOMAIN shown, NEW l \in DOMAIN shown, k < l, shown[k] = shown[l] PROVE FALSE
    OBVIOUS
  <2>1. PICK i \in DOMAIN found, j \in DOMAIN found : i < j /\ shown[k] = found[i] /\ shown[l] = found[j]
    BY <1>17, <1>19
  <2>2. found[i] = found[j]
    BY <2>1
  <2>3. Rank(found[i]) < Rank(found[j])
    BY <1>20, <2>1, <2>2
  <2> QED BY <1>10, <2>2, <2>3
<1>24. ASSUME more, NEW k \in DOMAIN shown PROVE Rank(shown[k]) <= next \/ MayRepeat(shown[k], stops)
  <2>1. PICK i \in DOMAIN found : i <= last /\ shown[k] = found[i]
    BY <1>17, <1>19
  <2>2. last \in DOMAIN found /\ next = Rank(found[last])
    BY <1>15, <1>16, <1>24
  <2>3. Rank(found[i]) \in Nat /\ Rank(found[last]) \in Nat
    BY <1>10, <2>2
  <2>4. CASE i = last
    BY <2>1, <2>2, <2>3, <2>4
  <2>5. CASE i < last /\ (found[i].folder <=> found[last].folder)
    <3>1. Rank(found[i]) < Rank(found[last])
      BY <1>20, <2>2, <2>5
    <3> QED BY <2>1, <2>2, <2>3, <3>1
  <2>6. CASE i < last /\ ~(found[i].folder <=> found[last].folder)
    <3>1. ~found[i].folder /\ found[last].folder
      BY <1>20, <2>2, <2>6
    <3>2. found[last] \in stops
      BY <1>18, <2>2, <3>1
    <3>3. Rank(found[i]) <= Rank(found[last]) \/ Rank(found[last]) < Rank(found[i])
      BY <2>3
    <3> QED BY <2>1, <2>2, <3>1, <3>2, <3>3 DEF MayRepeat
  <2> QED BY <1>10, <1>14, <2>1, <2>4, <2>5, <2>6
<1>25. ASSUME NEW e \in now, Rank(e) > cursor
       PROVE  e \in ToSet(shown) \/ (more /\ Rank(e) > next) \/ IsSkipped(e, stops)
  <2>0. e \in After(E, cursor) /\ MatchesSearch(e, search)
    BY <1>4, <1>25
  <2>1. CASE e \notin ToSet(found)
    <3>1. truncated /\ \A i \in DOMAIN found : Rank(e) > Rank(found[i])
      BY <1>3, <2>0, <2>1 DEF IsGiven
    <3> QED BY <1>15, <1>16, <3>1
  <2>2. CASE e \in ToSet(found)
    <3>1. PICK i \in DOMAIN found : found[i] = e
      BY <2>2 DEF ToSet
    <3>0. i \in Nat /\ last \in Nat /\ Len(found) \in Nat /\ i <= Len(found)
      <4>1. i \in 1..Len(found) /\ Len(found) \in Nat
        BY <1>10, <3>1
      <4>2. last \in Nat
        BY <1>14
      <4> QED BY <4>1, <4>2
    <3>2. i \in matching
      BY <1>12, <2>0, <3>1
    <3>3. CASE i <= last
      <4>1. i \in taken
        BY <1>17, <3>2, <3>3
      <4>2. PICK k \in DOMAIN shown : shown[k] = e
        BY <1>19, <3>1, <4>1
      <4> QED BY <4>2 DEF ToSet
    <3>4. CASE last < i
      <4>1. full /\ last < Len(found)
        <5>1. last < Len(found) /\ last # Len(found)
          BY <3>0, <3>4
        <5> QED BY <1>14, <5>1, Zenon
      <4>2. more /\ last \in DOMAIN found /\ next = Rank(found[last])
        BY <1>15, <1>16, <4>1
      <4>3. CASE found[last].folder <=> e.folder
        <5>1. Rank(found[last]) < Rank(found[i])
          BY <1>20, <3>1, <3>4, <4>2, <4>3
        <5> QED BY <1>10, <3>1, <4>2, <5>1
      <4>4. CASE ~(found[last].folder <=> e.folder)
        <5>1. ~found[last].folder /\ e.folder
          BY <1>20, <3>1, <3>4, <4>2, <4>4
        <5>2. found[last] \in stops
          BY <1>18, <4>1, <4>2
        <5>3. Rank(e) # Rank(found[last])
          <6>1. e \in Below(folder) /\ found[last] \in Below(folder)
            BY <1>5, <1>10, <2>0, <4>2
          <6>2. e # found[last]
            BY <5>1
          <6> QED BY <6>1, <6>2, RankIs
        <5>4. Rank(e) > next \/ Rank(e) < Rank(found[last])
          <6>1. Rank(e) \in Nat /\ Rank(found[last]) \in Nat
            BY <1>10, <3>1, <4>2
          <6> QED BY <4>2, <5>3, <6>1
        <5> QED BY <4>2, <5>1, <5>2, <5>4 DEF IsSkipped
      <4> QED BY <4>3, <4>4
    <3> QED BY <3>0, <3>3, <3>4
  <2> QED BY <2>1, <2>2
<1>26. Covers(b, now, cursor)
  BY <1>9, <1>21, <1>22, <1>23, <1>24, <1>25 DEF Covers
<1>27. IsListing(b)
  BY <1>9, <1>19, <1>21 DEF IsListing
<1> QED BY <1>6, <1>9, <1>26, <1>27 DEF b

\* The answer for the root lists the buckets.
LEMMA BucketsAreListed ==
  ASSUME objects \subseteq Keys, NEW search, NEW cursor, NEW soFar
  PROVE  LET a == List(Root, search, cursor, soFar) IN
         /\ a.ok /\ IsListing(a) /\ a.path = Root
         /\ a.always = Now(Root, search, objects) /\ a.ever = a.always
         /\ cursor \in Nat /\ (cursor # 0 => \E e \in a.always : Rank(e) = cursor) => Covers(a, a.always, cursor)
<1> DEFINE all == {Folder(<<b>>) : b \in Buckets}
           matching == {e \in all : MatchesSearch(e, search)}
           found == InRankOrder(matching)
           known == {i \in DOMAIN found : Rank(found[i]) = cursor}
           rest == IF known = {} THEN found ELSE SubSeq(found, (CHOOSE i \in known : TRUE) + 1, Len(found))
           more == Len(rest) > LIST_PAGE_SIZE
           shown == IF more THEN SubSeq(rest, 1, LIST_PAGE_SIZE) ELSE rest
           last == IF more THEN Rank(rest[LIST_PAGE_SIZE]) ELSE 0
           a == Listing(Root, shown, more, last, ToSet(found))
<1>1. List(Root, search, cursor, soFar) = a
  <2>1. Len(Root.at) = 0
    BY RootIs
  <2> QED BY <2>1 DEF List, ListBuckets
<1>2. matching = Now(Root, search, objects)
  BY DEF Now, Inside
<1>3. matching \in SUBSET Below(Root) /\ IsFiniteSet(matching) /\ Below(Root) \subseteq EntrySet
  <2>1. Inside(Root, objects) = all
    BY DEF Inside
  <2>2. all \subseteq Below(Root) /\ IsFiniteSet(all)
    BY <2>1, InsideIs, RootIs
  <2>3. matching \subseteq all
    OBVIOUS
  <2> QED BY <2>2, <2>3, FS_Subset DEF Below
<1>4. found \in Seq(matching) /\ Ascending(found) /\ ToSet(found) = matching
  <2> HIDE DEF matching
  <2> QED BY <1>3, RankOrderIs, RootIs
<1>5. /\ DOMAIN a = ListingParts /\ a.ok /\ a.path = Root /\ a.items = shown /\ a.more = more
      /\ a.cursor = last /\ a.always = ToSet(found) /\ a.ever = ToSet(found)
  <2> HIDE DEF shown, more, last, found
  <2> DEFINE members == ToSet(found)
  <2> HIDE DEF members
  <2>1. LET b == Listing(Root, shown, more, last, members) IN
        /\ DOMAIN b = ListingParts /\ b.ok /\ b.path = Root /\ b.items = shown /\ b.more = more
        /\ b.cursor = last /\ b.always = members /\ b.ever = members
    BY ListingIs
  <2> QED BY <2>1 DEF members
<1> HIDE DEF a, matching, found
<1>6. found \in Seq(EntrySet) /\ \A i \in DOMAIN found : found[i] \in matching /\ Rank(found[i]) \in Nat /\ Rank(found[i]) > 0
  <2>1. matching \subseteq EntrySet
    BY <1>3
  <2>2. \A i \in DOMAIN found : found[i] \in matching
    BY <1>4
  <2> QED BY <1>4, <2>1, <2>2, RankIs
<1> DEFINE fits == cursor \in Nat /\ (cursor # 0 => \E e \in matching : Rank(e) = cursor)
<1>7. /\ rest \in Seq(EntrySet) /\ Ascending(rest)
      /\ \A i \in DOMAIN rest : rest[i] \in matching
      /\ fits => /\ \A i \in DOMAIN rest : Rank(rest[i]) > cursor
                 /\ \A e \in matching : Rank(e) > cursor => e \in ToSet(rest)
  <2>1. CASE known = {}
    <3>1. ASSUME fits PROVE cursor = 0
      <4> SUFFICES ASSUME cursor # 0 PROVE FALSE
        OBVIOUS
      <4>1. PICK e \in matching : Rank(e) = cursor
        BY <3>1
      <4>2. PICK i \in DOMAIN found : found[i] = e
        BY <1>4 DEF ToSet
      <4>3. i \in known
        BY <4>1, <4>2
      <4> QED BY <2>1, <4>3
    <3>2. rest = found
      BY <2>1
    <3> HIDE DEF rest, fits
    <3> QED BY <1>4, <1>6, <3>1, <3>2
  <2>2. CASE known # {}
    <3> DEFINE c == CHOOSE i \in known : TRUE
    <3>1. c \in known
      BY <2>2
    <3>2. c \in DOMAIN found /\ Rank(found[c]) = cursor
      BY <3>1
    <3>3. rest = SubSeq(found, c + 1, Len(found))
      BY <2>2
    <3> HIDE DEF c, known, rest
    <3>4. /\ c \in Nat /\ c <= Len(found) /\ Len(found) \in Nat /\ DOMAIN found = 1..Len(found)
      BY <1>6, <3>2
    <3>5. /\ rest \in Seq(EntrySet) /\ Len(rest) = Len(found) - c /\ DOMAIN rest = 1..Len(found) - c
          /\ \A i \in 1..Len(found) - c : rest[i] = found[c + i]
      <4>1. \A i \in c + 1..Len(found) : found[i] \in EntrySet
        BY <1>6, <3>4
      <4>2. c + 1 \in Int /\ Len(found) \in Int
        BY <3>4
      <4>3. /\ rest \in Seq(EntrySet)
            /\ Len(rest) = IF c + 1 <= Len(found) THEN Len(found) - (c + 1) + 1 ELSE 0
            /\ \A i \in 1..Len(found) - (c + 1) + 1 : rest[i] = found[c + 1 + i - 1]
        BY <3>3, <4>1, <4>2, SubSeqProperties
      <4>4. Len(rest) = Len(found) - c /\ Len(found) - (c + 1) + 1 = Len(found) - c
        <5> DEFINE N == Len(found)  M == Len(rest)
        <5>1. N \in Nat /\ c \in Nat /\ c <= N /\ M = IF c + 1 <= N THEN N - (c + 1) + 1 ELSE 0
          BY <3>4, <4>3
        <5> HIDE DEF N, M
        <5>2. M = N - c /\ N - (c + 1) + 1 = N - c
          BY <5>1
        <5> QED BY <5>2 DEF N, M
      <4>5. DOMAIN rest = 1..Len(found) - c
        BY <4>3, <4>4
      <4>6. ASSUME NEW i \in 1..Len(found) - c PROVE rest[i] = found[c + i]
        <5>1. c + 1 + i - 1 = c + i
          BY <3>4
        <5> QED BY <4>3, <4>4, <5>1
      <4> QED BY <4>3, <4>4, <4>5, <4>6
    <3>6. Ascending(rest)
      <4> SUFFICES ASSUME NEW i \in DOMAIN rest, NEW j \in DOMAIN rest, i < j PROVE Rank(rest[i]) < Rank(rest[j])
        BY DEF Ascending
      <4>1. c + i \in DOMAIN found /\ c + j \in DOMAIN found /\ c + i < c + j
        BY <3>4, <3>5
      <4> QED BY <1>4, <3>5, <4>1 DEF Ascending
    <3>7. \A i \in DOMAIN rest : Rank(rest[i]) > cursor /\ rest[i] \in matching
      <4> TAKE i \in DOMAIN rest
      <4>1. c + i \in DOMAIN found /\ c < c + i /\ rest[i] = found[c + i]
        BY <3>4, <3>5
      <4>2. Rank(found[c]) < Rank(found[c + i])
        BY <1>4, <3>2, <4>1 DEF Ascending
      <4> QED BY <1>6, <3>2, <4>1, <4>2
    <3>8. ASSUME NEW e \in matching, Rank(e) > cursor PROVE e \in ToSet(rest)
      <4>1. PICK i \in DOMAIN found : found[i] = e
        BY <1>4 DEF ToSet
      <4>2. c < i
        <5>1. i \in Nat
          BY <3>4
        <5>2. i < c => Rank(found[i]) < Rank(found[c])
          BY <1>4, <3>2 DEF Ascending
        <5> QED BY <1>6, <3>2, <3>4, <3>8, <4>1, <5>1, <5>2
      <4>3. i - c \in 1..Len(found) - c /\ c + (i - c) = i
        BY <3>4, <4>2
      <4>4. rest[i - c] = e /\ i - c \in DOMAIN rest
        BY <3>5, <4>1, <4>3
      <4> QED BY <4>4 DEF ToSet
    <3> HIDE DEF fits
    <3> QED BY <3>5, <3>6, <3>7, <3>8
  <2> QED BY <2>1, <2>2
<1> HIDE DEF rest, known
<1>8. \/ a.items = rest /\ ~a.more /\ a.cursor = 0
      \/ /\ Len(rest) >= LIST_PAGE_SIZE /\ a.items = SubSeq(rest, 1, LIST_PAGE_SIZE)
         /\ a.cursor = Rank(rest[LIST_PAGE_SIZE])
         /\ Len(rest) > LIST_PAGE_SIZE => a.more
  <2>1. rest \in Seq(EntrySet)
    BY <1>7
  <2>2. Len(rest) \in Nat
    BY <2>1
  <2>3. LIST_PAGE_SIZE \in Nat
    BY BrowserBounds
  <2>4. CASE more
    <3>1. Len(rest) > LIST_PAGE_SIZE /\ shown = SubSeq(rest, 1, LIST_PAGE_SIZE) /\ last = Rank(rest[LIST_PAGE_SIZE])
      BY <2>4
    <3> HIDE DEF more, shown, last
    <3>2. a.more /\ a.items = shown /\ a.cursor = last
      BY <1>5, <2>4, Zenon
    <3> QED BY <2>2, <2>3, <3>1, <3>2
  <2>5. CASE ~more
    <3>1. shown = rest /\ last = 0
      BY <2>5
    <3> HIDE DEF more, shown, last
    <3>2. ~a.more /\ a.items = shown /\ a.cursor = last
      BY <1>5, <2>5, Zenon
    <3> QED BY <3>1, <3>2
  <2> QED BY <2>4, <2>5
<1> HIDE DEF shown, more, last
<1>9. a.items \in Seq(EntrySet) /\ a.cursor \in Nat
  <2>1. LIST_PAGE_SIZE \in Nat \ {0} /\ \A i \in DOMAIN rest : Rank(rest[i]) \in Nat
    <3>1. LIST_PAGE_SIZE \in Nat \ {0}
      BY BrowserBounds
    <3>2. \A i \in DOMAIN rest : rest[i] \in EntrySet
      BY <1>7
    <3> QED BY <3>1, <3>2, RankIs
  <2>2. Len(rest) >= LIST_PAGE_SIZE => LIST_PAGE_SIZE \in DOMAIN rest
    BY <1>7, <2>1
  <2> QED BY <1>7, <1>8, <2>1, <2>2, FirstOnes
<1>10. fits => Covers(a, matching, cursor)
  <2> SUFFICES ASSUME fits PROVE Covers(a, matching, cursor)
    OBVIOUS
  <2>1. cursor \in Nat
    OBVIOUS
  <2> HIDE DEF fits
  <2> QED BY <1>4, <1>5, <1>7, <1>8, <2>1, PageIs
<1> QED BY <1>1, <1>2, <1>4, <1>5, <1>9, <1>10, RootIs DEF IsListing

\* What the server answers when an object is to be shown.
Shows(p) == IF Len(p.at) = 1 THEN Root ELSE p
Selectable(p) == p = Root \/ (p \in EntrySet /\ ~p.folder)

LEMMA PreviewIs ==
  ASSUME NEW p, Selectable(p), NEW search, NEW cursor, NEW soFar
  PROVE  LET a == List(p, search, cursor, soFar) IN DOMAIN a = ListingParts /\ (a.ok => a.path = Shows(p))
<1> DEFINE a == List(p, search, cursor, soFar)
<1> SUFFICES DOMAIN a = ListingParts /\ (a.ok => a.path = Shows(p))
  OBVIOUS
<1>1. Len(Root.at) = 0 /\ Shows(Root) = Root
  BY RootIs DEF Shows
<1>2. ASSUME p = Root \/ (Len(p.at) = 1 /\ ~p.folder)
      PROVE  List(p, search, cursor, soFar) = ListBuckets(search, cursor) /\ Shows(p) = Root
  BY <1>1, <1>2 DEF List, Shows
<1>3. CASE p = Root \/ (Len(p.at) = 1 /\ ~p.folder)
  <2>1. PICK shown, more, last, all : ListBuckets(search, cursor) = Listing(Root, shown, more, last, all)
    BY DEF ListBuckets
  <2>2. DOMAIN Listing(Root, shown, more, last, all) = ListingParts /\ Listing(Root, shown, more, last, all).path = Root
    BY ListingIs
  <2> QED BY <1>2, <1>3, <2>1, <2>2
<1>4. CASE p # Root /\ Len(p.at) # 1
  <2>1. ~p.folder /\ Len(p.at) # 1 /\ Len(p.at) # 0
    BY <1>4 DEF Selectable, EntrySet, Places
  <2>2. List(p, search, cursor, soFar) = GetObjectListing(p) /\ Shows(p) = p
    BY <2>1 DEF List, Shows
  <2>3. GetObjectListing(p) = Listing(p, << >>, FALSE, 0, {}) \/ GetObjectListing(p) = Failed
    BY DEF GetObjectListing
  <2>4. DOMAIN Failed = ListingParts /\ ~Failed.ok
    BY DEF Failed, ListingParts
  <2>5. DOMAIN Listing(p, << >>, FALSE, 0, {}) = ListingParts /\ Listing(p, << >>, FALSE, 0, {}).path = p
    BY DEF Listing, ListingParts
  <2> QED BY <2>2, <2>3, <2>4, <2>5
<1>5. CASE p # Root /\ Len(p.at) = 1
  BY <1>3, <1>5 DEF Selectable
<1> HIDE DEF a
<1> QED BY <1>3, <1>4, <1>5
-----------------------------------------------------------------------------
(* The requests of the object browser.                                     *)

FlightParts == {"kind", "path", "paths", "search", "cursor", "append", "then", "answer"}
Afterwards == {"nothing", "refresh", "sync", "deleted", "written"}

\* An object is written to where objects may be, a loaded folder has a handler.
IsFlight(f) ==
  /\ DOMAIN f = FlightParts
  /\ f.kind = "put" => f.path.at \in NewKeys
  /\ f.kind = "list" => f.then \in Afterwards

\* What is stored, and what may change it.
StoreInv ==
  /\ objects \subseteq Keys
  /\ elsewhere \in Nat
  /\ \A f \in flights : IsFlight(f)

LEMMA FlightIs ==
  ASSUME NEW kind, NEW path
  PROVE  /\ DOMAIN Flight(kind, path) = FlightParts
         /\ Flight(kind, path).kind = kind /\ Flight(kind, path).path = path
         /\ Flight(kind, path).then = "nothing"
BY DEF Flight, FlightParts

LEMMA LoadIs ==
  ASSUME NEW path, NEW search, NEW then \in Afterwards
  PROVE  /\ IsFlight(LoadFolder(path, search, then)) /\ IsFlight(LoadSelection(path))
         /\ DOMAIN LoadFolder(path, search, then) = FlightParts /\ DOMAIN LoadSelection(path) = FlightParts
         /\ LoadFolder(path, search, then).kind = "list" /\ LoadFolder(path, search, then).then = then
         /\ LoadSelection(path).kind = "preview"
BY DEF LoadFolder, LoadSelection, Flight, FlightParts, IsFlight

LEMMA NotedIs ==
  ASSUME NEW f, IsFlight(f), NEW stored
  PROVE  IsFlight(Noted(f, stored))
BY DEF Noted, IsFlight, FlightParts

LEMMA AnsweredIs ==
  ASSUME NEW f, IsFlight(f), NEW answer
  PROVE  IsFlight([f EXCEPT !.answer = answer])
BY DEF IsFlight, FlightParts

LEMMA ActsKeep ==
  ASSUME StoreInv, UserActs
  PROVE  StoreInv' /\ TakesTheConfirmed
<1>1. UNCHANGED <<objects, elsewhere>>
  BY DEF UserActs, NavigateTo, OpenItem, PreviewItem, PickItem, ApplySearch, LoadMoreItems, RefreshCurrentView,
         DeleteResources, CreateObject, HandleFileSelection, Puts, Acting
<1>2. flights' = flights \/ \E f : IsFlight(f) /\ flights' = flights \cup {f}
  <2>0. "nothing" \in Afterwards /\ "refresh" \in Afterwards
    BY DEF Afterwards
  <2>1. ASSUME NEW path, NavigateTo(path) PROVE \E f : IsFlight(f) /\ flights' = flights \cup {f}
    BY <2>0, <2>1, LoadIs DEF NavigateTo, Sends
  <2>2. ASSUME NEW item, PreviewItem(item) PROVE \E f : IsFlight(f) /\ flights' = flights \cup {f}
    BY <2>0, <2>2, LoadIs DEF PreviewItem, Sends
  <2>3. ASSUME NEW item, PickItem(item) PROVE flights' = flights
    BY <2>3 DEF PickItem
  <2>4. ASSUME NEW search, ApplySearch(search) PROVE \E f : IsFlight(f) /\ flights' = flights \cup {f}
    BY <2>0, <2>4, LoadIs DEF ApplySearch, Sends
  <2>5. ASSUME LoadMoreItems PROVE \E f : IsFlight(f) /\ flights' = flights \cup {f}
    <3> DEFINE f == LoadFolder(currentFolderPath, appliedSearch, "nothing")
               g == [f EXCEPT !.append = TRUE, !.cursor = listing.cursor]
    <3>1. flights' = flights \cup {g}
      BY <2>5 DEF LoadMoreItems, Sends
    <3>2. IsFlight(f)
      BY <2>0, LoadIs
    <3> HIDE DEF f
    <3>3. IsFlight(g)
      BY <3>2 DEF IsFlight, FlightParts
    <3> QED BY <3>1, <3>3
  <2>6. ASSUME RefreshCurrentView PROVE \E f : IsFlight(f) /\ flights' = flights \cup {f}
    BY <2>0, <2>6, LoadIs DEF RefreshCurrentView, Sends
  <2>7. ASSUME NEW rows, DeleteResources(rows) PROVE \E f : IsFlight(f) /\ flights' = flights \cup {f}
    <3> DEFINE f == [Flight("delete", Root) EXCEPT !.paths = SetToSeq(DeleteTargets(rows))]
    <3>1. flights' = flights \cup {f}
      BY <2>7 DEF DeleteResources, Sends
    <3>2. IsFlight(f)
      BY FlightIs DEF IsFlight, FlightParts
    <3> QED BY <3>1, <3>2
  <2>8. ASSUME NEW path, NEW then, path.at \in NewKeys, Puts(path, then)
        PROVE  \E f : IsFlight(f) /\ flights' = flights \cup {f}
    <3> DEFINE f == [Flight("put", path) EXCEPT !.then = then]
    <3>1. flights' = flights \cup {f}
      BY <2>8 DEF Puts, Sends
    <3>2. IsFlight(f)
      BY <2>8, FlightIs DEF IsFlight, FlightParts
    <3> QED BY <3>1, <3>2
  <2>9. ASSUME NEW k \in NewKeys, CreateObject(k) PROVE \E f : IsFlight(f) /\ flights' = flights \cup {f}
    <3>1. Object(k).at \in NewKeys
      BY DEF Object
    <3> QED BY <2>8, <2>9, <3>1 DEF CreateObject
  <2>10. ASSUME NEW name, HandleFileSelection(name) PROVE \E f : IsFlight(f) /\ flights' = flights \cup {f}
    BY <2>8, <2>10 DEF HandleFileSelection
  <2> QED BY <2>1, <2>2, <2>3, <2>4, <2>5, <2>6, <2>7, <2>9, <2>10 DEF UserActs, OpenItem
<1>3. StoreInv'
  BY <1>1, <1>2 DEF StoreInv
<1> QED BY <1>1, <1>3 DEF TakesTheConfirmed

LEMMA WrittenKeeps ==
  ASSUME StoreInv, NEW f \in flights, NEW stored \in SUBSET Keys, NEW ok, Written(f, stored, ok)
  PROVE  StoreInv' /\ objects' = stored
<1>1. objects' = stored /\ elsewhere' = elsewhere
  BY DEF Written, Store
<1>2. flights' = {Noted(g, stored) : g \in flights \ {f}} \cup {[f EXCEPT !.answer = <<[None EXCEPT !.ok = ok]>>]}
  BY DEF Written
<1>3. \A g \in flights : IsFlight(g)
  BY DEF StoreInv
<1>4. \A g \in flights : IsFlight(Noted(g, stored))
  BY <1>3, NotedIs
<1>5. IsFlight([f EXCEPT !.answer = <<[None EXCEPT !.ok = ok]>>])
  BY <1>3, AnsweredIs
<1>6. \A g \in flights' : IsFlight(g)
  BY <1>2, <1>4, <1>5
<1> QED BY <1>1, <1>6 DEF StoreInv

\* An object that a path takes was named by it.
LEMMA TakenIsConfirmed ==
  ASSUME StoreInv, NEW paths, NEW i \in DOMAIN paths, NEW k \in DeletePath(paths[i])
  PROVE  IsConfirmed(k, paths)
<1>1. k \in objects /\ k \in Seq(Names) /\ k # << >>
  <2>1. k \in Keys /\ k \in objects
    BY DEF StoreInv, DeletePath
  <2>2. k \in Seq(Names) /\ Len(k) > 1
    BY <2>1, BrowserBounds
  <2> QED BY <2>1, <2>2
<1>2. CASE paths[i].folder
  <2>1. HasPrefix(k, paths[i].at)
    BY <1>2 DEF DeletePath
  <2>2. Len(k) \in DOMAIN k
    BY <1>1
  <2> QED BY <1>2, <2>1, <2>2 DEF IsConfirmed, HasPrefix
<1>3. CASE ~paths[i].folder
  BY <1>3 DEF DeletePath, IsConfirmed
<1> QED BY <1>2, <1>3

LEMMA ServedKeep ==
  ASSUME StoreInv, NEW f \in flights, Read(f) \/ PutObject(f) \/ Delete(f)
  PROVE  StoreInv' /\ TakesTheConfirmed
<1>0. IsFlight(f) /\ objects \subseteq Keys
  BY DEF StoreInv
<1>1. CASE Read(f)
  <2>1. UNCHANGED <<objects, elsewhere>>
    BY <1>1 DEF Read
  <2>2. PICK answer : flights' = (flights \ {f}) \cup {[f EXCEPT !.answer = answer]}
    BY <1>1 DEF Read, Answered
  <2>3. IsFlight([f EXCEPT !.answer = answer])
    BY <1>0, AnsweredIs
  <2>4. StoreInv'
    BY <2>1, <2>2, <2>3 DEF StoreInv
  <2> QED BY <2>1, <2>4 DEF TakesTheConfirmed
<1>2. CASE PutObject(f)
  <2>1. f.path.at \in Keys
    BY <1>0, <1>2, BrowserBounds DEF PutObject, IsFlight
  <2>2. PICK stored, ok : Written(f, stored, ok) /\ (stored = objects \cup {f.path.at} \/ stored = objects)
    BY <1>2 DEF PutObject
  <2>3. stored \in SUBSET Keys /\ objects \subseteq stored
    BY <1>0, <2>1, <2>2
  <2>4. StoreInv' /\ objects' = stored
    BY <2>2, <2>3, WrittenKeeps
  <2> QED BY <2>3, <2>4 DEF TakesTheConfirmed
<1>3. CASE Delete(f)
  <2>1. PICK taken, ok : /\ Written(f, objects \ taken, ok)
                         /\ \A k \in taken : \E i \in DOMAIN f.paths : k \in DeletePath(f.paths[i])
    <3>1. CASE Written(f, objects \ DeletePaths(f.paths), Refused(f.paths) = {})
      <4>1. \A k \in DeletePaths(f.paths) : \E i \in DOMAIN f.paths : k \in DeletePath(f.paths[i])
        BY DEF DeletePaths, Deletable
      <4> QED BY <3>1, <4>1
    <3>2. ASSUME NEW n \in Deletable(f.paths), NEW part \in SUBSET DeletePath(f.paths[n]),
                 Written(f, objects \ (part \cup UNION {DeletePath(f.paths[i]) : i \in {j \in DOMAIN f.paths : j < n}}), FALSE)
          PROVE  \E taken, ok : /\ Written(f, objects \ taken, ok)
                                /\ \A k \in taken : \E i \in DOMAIN f.paths : k \in DeletePath(f.paths[i])
      <4> DEFINE gone == part \cup UNION {DeletePath(f.paths[i]) : i \in {j \in DOMAIN f.paths : j < n}}
      <4>1. \A k \in gone : \E i \in DOMAIN f.paths : k \in DeletePath(f.paths[i])
        BY DEF Deletable
      <4> HIDE DEF gone
      <4> QED BY <3>2, <4>1 DEF gone
    <3> QED BY <1>3, <3>1, <3>2 DEF Delete
  <2>2. objects \ taken \in SUBSET Keys
    BY <1>0
  <2>3. StoreInv' /\ objects' = objects \ taken
    BY <2>1, <2>2, WrittenKeeps
  <2>5. \A k \in taken : IsConfirmed(k, f.paths)
    BY <2>1, TakenIsConfirmed
  <2>6. f.kind = "delete"
    BY <1>3 DEF Delete
  <2> QED BY <2>3, <2>5, <2>6 DEF TakesTheConfirmed
<1> QED BY <1>1, <1>2, <1>3

LEMMA ElsewhereKeeps ==
  ASSUME StoreInv, NEW k \in NewKeys, Elsewhere(k)
  PROVE  StoreInv' /\ TakesTheConfirmed
<1> DEFINE stored == IF k \in objects THEN objects \ {k} ELSE objects \cup {k}
<1>1. /\ elsewhere' = elsewhere + 1 /\ objects' = stored
      /\ flights' = {Noted(g, stored) : g \in flights}
  BY DEF Elsewhere, Store
<1>2. stored \subseteq Keys
  BY BrowserBounds DEF StoreInv
<1> HIDE DEF stored
<1>3. \A g \in flights : IsFlight(Noted(g, stored))
  BY NotedIs DEF StoreInv
<1>4. StoreInv'
  BY <1>1, <1>2, <1>3 DEF StoreInv
<1>5. elsewhere' # elsewhere
  BY <1>1 DEF StoreInv
<1> QED BY <1>4, <1>5 DEF TakesTheConfirmed

LEMMA ArrivalsKeep ==
  ASSUME StoreInv, NEW f \in flights, NEW lost,
         ListArrives(f, lost) \/ PreviewArrives(f, lost) \/ PutArrives(f, lost) \/ DeleteArrives(f, lost)
  PROVE  StoreInv' /\ TakesTheConfirmed
<1>0. IsFlight(f) /\ Ended(f) \subseteq flights
  BY DEF StoreInv, Ended
<1>1. UNCHANGED <<objects, elsewhere>>
  BY DEF ListArrives, PreviewArrives, PutArrives, DeleteArrives, Arrives
<1>2. flights' = Ended(f) \/ \E g : IsFlight(g) /\ flights' = Ended(f) \cup {g}
  <2>0. {"nothing", "deleted", "written"} \subseteq Afterwards
    BY DEF Afterwards
  <2>1. CASE ListArrives(f, lost)
    <3>1. f.then \in Afterwards /\ Continues(f, selectedItemPath)
      BY <1>0, <2>1 DEF ListArrives, Arrives, IsFlight
    <3>2. CASE f.then = "nothing" \/ f.then = "deleted"
      BY <3>1, <3>2 DEF Continues
    <3>3. CASE f.then \in {"refresh", "sync"}
      <4>1. flights' = Ended(f) \/ flights' = Ended(f) \cup {LoadSelection(selectedItemPath)}
        BY <3>1, <3>3 DEF Continues
      <4>2. IsFlight(LoadSelection(selectedItemPath))
        BY <2>0, LoadIs
      <4> QED BY <4>1, <4>2
    <3>4. CASE f.then = "written"
      <4> DEFINE l == LoadSelection(f.paths[1])
                 g == [l EXCEPT !.then = "written"]
      <4>1. flights' = Ended(f) \cup {g}
        BY <3>1, <3>4 DEF Continues
      <4>2. DOMAIN l = FlightParts /\ l.kind = "preview"
        BY <2>0, LoadIs
      <4> HIDE DEF l
      <4>3. IsFlight(g)
        BY <4>2 DEF IsFlight, FlightParts
      <4> QED BY <4>1, <4>3
    <3> QED BY <3>1, <3>2, <3>3, <3>4 DEF Afterwards
  <2>2. CASE PreviewArrives(f, lost)
    BY <2>2 DEF PreviewArrives
  <2>3. CASE PutArrives(f, lost)
    <3> DEFINE l == LoadFolder(currentFolderPath', appliedSearch, "written")
               g == [l EXCEPT !.paths = <<f.path>>]
    <3>1. flights' = Ended(f) \/ flights' = Ended(f) \cup {g}
      BY <2>3 DEF PutArrives
    <3>2. IsFlight(l)
      BY <2>0, LoadIs
    <3> HIDE DEF l
    <3>3. IsFlight(g)
      BY <3>2 DEF IsFlight, FlightParts
    <3> QED BY <3>1, <3>3
  <2>4. CASE DeleteArrives(f, lost)
    <3>1. flights' = Ended(f) \/ flights' = Ended(f) \cup {LoadFolder(currentFolderPath, appliedSearch, "deleted")}
      BY <2>4 DEF DeleteArrives
    <3>2. IsFlight(LoadFolder(currentFolderPath, appliedSearch, "deleted"))
      BY <2>0, LoadIs
    <3> QED BY <3>1, <3>2
  <2> QED BY <2>1, <2>2, <2>3, <2>4
<1>3. StoreInv'
  BY <1>0, <1>1, <1>2 DEF StoreInv
<1> QED BY <1>1, <1>3 DEF TakesTheConfirmed

LEMMA StoreStep ==
  ASSUME StoreInv, BrowserNext
  PROVE  StoreInv' /\ TakesTheConfirmed
BY ActsKeep, ServedKeep, ArrivalsKeep, ElsewhereKeeps DEF BrowserNext

LEMMA StoreStill ==
  ASSUME StoreInv, UNCHANGED browserVars
  PROVE  StoreInv' /\ TakesTheConfirmed
BY DEF StoreInv, browserVars, TakesTheConfirmed

LEMMA StoreInitInv == BrowserInit => StoreInv
<1> SUFFICES ASSUME BrowserInit PROVE StoreInv
  OBVIOUS
<1>1. PICK start : flights = {LoadFolder(ResolveInitialState(start.path, start.bucket).container, FALSE, "sync")}
  BY DEF BrowserInit, SyncFromPath
<1>2. "sync" \in Afterwards
  BY DEF Afterwards
<1>3. \A f \in flights : IsFlight(f)
  <2> DEFINE no == FALSE
             container == ResolveInitialState(start.path, start.bucket).container
  <2>1. flights = {LoadFolder(container, no, "sync")}
    BY <1>1
  <2> HIDE DEF no, container
  <2>2. IsFlight(LoadFolder(container, no, "sync"))
    BY <1>2, LoadIs
  <2> QED BY <2>1, <2>2
<1>4. objects = Keys /\ elsewhere = 0
  BY DEF BrowserInit
<1> QED BY <1>3, <1>4 DEF StoreInv
-----------------------------------------------------------------------------
(* What a request carries, and what a calm page has got to.                *)

Folders == {p \in Places : p.folder}
ObjectPaths == {p \in EntrySet : ~p.folder}
Good(f) == f.answer # << >> /\ f.answer[1].ok
Reloads(f) == f.kind = "list" /\ ~f.append

\* A load names a folder and answers with a list of it; only what was written
\* or previewed is shown.
Carries(f) ==
  /\ f.kind \in {"list", "preview", "put", "delete"}
  /\ f.kind = "list" => f.path \in Folders /\ f.cursor \in Nat /\ (f.then = "written" => f.paths[1] \in ObjectPaths)
  /\ f.kind = "preview" => Selectable(f.path) /\ f.then \in {"nothing", "written"}
  /\ f.kind = "put" => f.path \in ObjectPaths /\ f.then \in {"uploaded", "created"}
  /\ f.kind = "delete" => f.then = "nothing"
  /\ f.answer # << >> => f.answer = <<f.answer[1]>> /\ DOMAIN f.answer[1] = ListingParts
  /\ (f.kind = "list" /\ f.answer # << >>) => Good(f) /\ IsListing(f.answer[1]) /\ f.answer[1].path = f.path

PlaceOK ==
  /\ currentFolderPath \in Folders
  /\ Selectable(selectedItemPath)
  /\ IsListing(listing)
  /\ \A f \in flights : Carries(f)

\* What is shown as under way is.
BusyOK ==
  /\ isLoadingMore => \E f \in flights : f.kind = "list"
  /\ isUploading => \E f \in flights : f.kind = "put" \/ f.then = "written"
  /\ isDeleting => \E f \in flights : f.kind = "delete" \/ f.then = "deleted"

\* The pages so far list what stayed in the folder; the root does not change.
Whole(l, folder, search, stored) ==
  /\ l.path = folder
  /\ Covers(l, l.always, 0)
  /\ l.always \subseteq Now(folder, search, stored)
  /\ folder = Root => l.ever \subseteq Now(Root, search, stored)
NextPage(a, l, search, stored) ==
  /\ a.path = l.path
  /\ Covers(a, l.always, l.cursor)
  /\ l.path = Root => a.ever \subseteq Now(Root, search, stored)

\* A request asks for what the page shows, and its answer is still about it.
InStep(f) ==
  /\ f.kind = "list" => f.path = currentFolderPath /\ f.search = appliedSearch
  /\ Reloads(f) => f.cursor = 0 /\ (Good(f) => Whole(f.answer[1], currentFolderPath, appliedSearch, objects))
  /\ (f.kind = "list" /\ f.append) =>
       /\ listing.more /\ f.cursor = listing.cursor
       /\ Good(f) => NextPage(f.answer[1], listing, appliedSearch, objects)
  /\ f.kind = "preview" => f.path = selectedItemPath /\ (Good(f) => f.answer[1].path = Shows(selectedItemPath))

ListingOK == Whole(listing, currentFolderPath, appliedSearch, objects)
PreviewOK == selectedListing = None \/ selectedListing.path = Shows(selectedItemPath)

CalmOK ==
  calm => /\ \A f, g \in flights : f = g
          /\ \A f \in flights : InStep(f)
          /\ (\A f \in flights : ~Reloads(f)) => ListingOK
          /\ (\A f \in flights : f.kind # "preview") => PreviewOK

BrowserInv == StoreInv /\ PlaceOK /\ BusyOK /\ CalmOK

\* What other clients change leaves a page what it lists, takes from what was
\* always there and adds to what was ever there.
LEMMA ChangedIs ==
  ASSUME NEW a, DOMAIN a = ListingParts, NEW stored
  PROVE  /\ DOMAIN Changed(a, stored) = ListingParts
         /\ Changed(a, stored).path = a.path /\ Changed(a, stored).items = a.items
         /\ Changed(a, stored).more = a.more /\ Changed(a, stored).cursor = a.cursor
         /\ Changed(a, stored).stops = a.stops /\ Changed(a, stored).ok = a.ok
         /\ Changed(a, stored).always \subseteq a.always /\ a.ever \subseteq Changed(a, stored).ever
         /\ a.path = Root => Changed(a, stored) = a
         /\ a.path \in Folders /\ a.path # Root => Changed(a, stored).always \subseteq Entries(a.path, stored)
<1> DEFINE now == {e \in Entries(a.path, stored) : e \in a.ever \/ MatchesSearch(e, appliedSearch)}
           b == [a EXCEPT !.always = @ \cap now, !.ever = @ \cup now]
<1>1. CASE a.path.folder /\ Len(a.path.at) > 0
  <2>1. Changed(a, stored) = b
    BY <1>1 DEF Changed
  <2>2. now \subseteq Entries(a.path, stored)
    OBVIOUS
  <2> HIDE DEF now
  <2>3. /\ DOMAIN b = ListingParts /\ b.path = a.path /\ b.items = a.items /\ b.more = a.more
        /\ b.cursor = a.cursor /\ b.stops = a.stops /\ b.ok = a.ok /\ b.always = a.always \cap now /\ b.ever = a.ever \cup now
    BY DEF ListingParts
  <2>4. a.path # Root
    <3>1. Len(Root.at) = 0
      BY RootIs
    <3> QED BY <1>1, <3>1
  <2> HIDE DEF b
  <2> QED BY <2>1, <2>2, <2>3, <2>4
<1>2. CASE ~(a.path.folder /\ Len(a.path.at) > 0)
  <2>1. Changed(a, stored) = a
    BY <1>2 DEF Changed
  <2>2. ASSUME a.path \in Folders, a.path # Root PROVE FALSE
    <3>1. a.path.at \in Seq(Names) /\ a.path.at # << >> /\ a.path.folder
      BY <2>2, RootIs DEF Folders, Places
    <3>2. Len(a.path.at) > 0
      BY <3>1
    <3> QED BY <1>2, <3>1, <3>2
  <2> QED BY <2>1, <2>2
<1> QED BY <1>1, <1>2

\* A page covers less of what stayed, and may show more that came.
LEMMA CoversLess ==
  ASSUME NEW a, NEW always, NEW cursor, Covers(a, always, cursor), NEW b,
         b.path = a.path, b.items = a.items, b.more = a.more, b.cursor = a.cursor, b.stops = a.stops,
         a.ever \subseteq b.ever, NEW fewer \in SUBSET always
  PROVE  Covers(b, fewer, cursor)
BY DEF Covers

LEMMA NowIs ==
  ASSUME NEW folder, NEW search, NEW old, NEW stored
  PROVE  /\ Now(Root, search, old) = Now(Root, search, stored)
         /\ folder # Root =>
              \A e : /\ e \in Now(folder, search, old) => MatchesSearch(e, search)
                     /\ e \in Entries(folder, stored) /\ MatchesSearch(e, search) => e \in Now(folder, search, stored)
BY DEF Now, Inside

LEMMA WholeStays ==
  ASSUME NEW l, DOMAIN l = ListingParts, NEW folder \in Folders, NEW search, NEW old, NEW stored,
         Whole(l, folder, search, old)
  PROVE  Whole(Changed(l, stored), folder, search, stored)
<1> DEFINE c == Changed(l, stored)
<1>1. /\ c.path = folder /\ l.path = folder /\ c.items = l.items /\ c.more = l.more /\ c.cursor = l.cursor /\ c.stops = l.stops
      /\ c.always \subseteq l.always /\ l.ever \subseteq c.ever
      /\ folder = Root => c = l
      /\ folder # Root => c.always \subseteq Entries(folder, stored)
  BY ChangedIs DEF Whole
<1> HIDE DEF c
<1>2. Covers(l, l.always, 0) /\ l.always \subseteq Now(folder, search, old)
  BY DEF Whole
<1>3. Covers(c, c.always, 0)
  BY <1>1, <1>2, CoversLess
<1>4. c.always \subseteq Now(folder, search, stored)
  BY <1>1, <1>2, NowIs
<1>5. folder = Root => c.ever \subseteq Now(Root, search, stored)
  BY <1>1, NowIs DEF Whole
<1>6. Whole(c, folder, search, stored)
  BY <1>1, <1>3, <1>4, <1>5 DEF Whole
<1> QED BY <1>6 DEF c

LEMMA NextPageStays ==
  ASSUME NEW a, DOMAIN a = ListingParts, NEW l, DOMAIN l = ListingParts, NEW search, NEW old, NEW stored,
         NextPage(a, l, search, old)
  PROVE  NextPage(Changed(a, stored), Changed(l, stored), search, stored)
<1> DEFINE c == Changed(a, stored)  d == Changed(l, stored)
<1>1. /\ c.path = a.path /\ c.items = a.items /\ c.more = a.more /\ c.cursor = a.cursor /\ c.stops = a.stops
      /\ a.ever \subseteq c.ever /\ (a.path = Root => c = a)
  BY ChangedIs
<1>2. d.path = l.path /\ d.cursor = l.cursor /\ d.always \subseteq l.always
  BY ChangedIs
<1> HIDE DEF c, d
<1>3. a.path = l.path /\ Covers(a, l.always, l.cursor)
  BY DEF NextPage
<1>4. Covers(c, d.always, l.cursor)
  BY <1>1, <1>2, <1>3, CoversLess
<1>5. d.path = Root => c.ever \subseteq Now(Root, search, stored)
  BY <1>1, <1>2, <1>3, NowIs DEF NextPage
<1>6. NextPage(c, d, search, stored)
  BY <1>1, <1>2, <1>3, <1>4, <1>5 DEF NextPage
<1> QED BY <1>6 DEF c, d

\* What goes on where a page ends makes a longer page with it.
LEMMA AppendedCovers ==
  ASSUME NEW l, IsListing(l), NEW a, IsListing(a), a.path = l.path, NEW always, NEW cursor \in Nat,
         Covers(l, always, cursor), l.more, Covers(a, always, l.cursor)
  PROVE  Covers(Appended(l, a), always, cursor)
<1> DEFINE b == Appended(l, a)
<1>1. /\ b.path = a.path /\ b.items = l.items \o a.items /\ b.more = a.more /\ b.cursor = a.cursor
      /\ b.ever = l.ever \cup a.ever /\ b.stops = l.stops \cup a.stops
  <2>1. DOMAIN a = ListingParts
    BY DEF IsListing
  <2> QED BY <2>1 DEF Appended, ListingParts
<1> HIDE DEF b
<1> DEFINE s == l.items  t == a.items  n == Len(s)
<1>2. s \in Seq(EntrySet) /\ t \in Seq(EntrySet) /\ n \in Nat
  BY DEF IsListing
<1>3. /\ l.cursor \in Nat /\ a.cursor \in Nat /\ l.cursor > cursor
      /\ \A i \in DOMAIN s : /\ Rank(s[i]) \in Nat /\ Rank(s[i]) > cursor /\ s[i] \in l.ever
                             /\ Rank(s[i]) <= l.cursor \/ MayRepeat(s[i], l.stops)
      /\ \A i \in DOMAIN t : Rank(t[i]) \in Nat /\ Rank(t[i]) > l.cursor /\ t[i] \in a.ever
      /\ a.more => /\ a.cursor > l.cursor
                   /\ \A i \in DOMAIN t : Rank(t[i]) <= a.cursor \/ MayRepeat(t[i], a.stops)
                   /\ a.path = Root => \E e \in a.ever : Rank(e) = a.cursor
  BY <1>2, RankIs DEF Covers
<1>4. /\ \A i, j \in DOMAIN s : i < j /\ s[i] = s[j] => MayRepeat(s[i], l.stops)
      /\ \A i, j \in DOMAIN t : i < j /\ t[i] = t[j] => MayRepeat(t[i], a.stops)
  BY DEF Covers
<1>5. \A e : /\ MayRepeat(e, l.stops) \/ MayRepeat(e, a.stops) => MayRepeat(e, b.stops)
             /\ IsSkipped(e, l.stops) \/ IsSkipped(e, a.stops) => IsSkipped(e, b.stops)
  BY <1>1 DEF MayRepeat, IsSkipped
<1>6. \A e \in always : Rank(e) > cursor => e \in ToSet(s) \/ Rank(e) > l.cursor \/ IsSkipped(e, l.stops)
  BY DEF Covers
<1>7. \A e \in always : Rank(e) > l.cursor => e \in ToSet(t) \/ (a.more /\ Rank(e) > a.cursor) \/ IsSkipped(e, a.stops)
  BY DEF Covers
<1> HIDE DEF s, t
<1>8. /\ DOMAIN b.items = 1..n + Len(t) /\ Len(t) \in Nat /\ DOMAIN s = 1..n /\ DOMAIN t = 1..Len(t)
      /\ \A i \in DOMAIN b.items : \/ i \in DOMAIN s /\ b.items[i] = s[i]
                                   \/ i > n /\ i - n \in DOMAIN t /\ b.items[i] = t[i - n]
      /\ \A i \in DOMAIN s : i \in DOMAIN b.items /\ b.items[i] = s[i]
      /\ \A i \in DOMAIN t : n + i \in DOMAIN b.items /\ b.items[n + i] = t[i]
  <2>1. b.items = s \o t
    BY <1>1 DEF s, t
  <2> HIDE DEF n
  <2>2. n = Len(s)
    BY DEF n
  <2> QED BY <1>2, <2>1, <2>2
<1> HIDE DEF n
<1>9. ASSUME NEW i \in DOMAIN b.items, NEW j \in DOMAIN b.items, i < j, b.items[i] = b.items[j]
      PROVE  MayRepeat(b.items[i], b.stops)
  <2>0. n \in Nat /\ i \in Nat /\ j \in Nat
    BY <1>2, <1>8
  <2>1. CASE i \in DOMAIN s /\ j \in DOMAIN s
    BY <1>4, <1>5, <1>8, <1>9, <2>1
  <2>2. CASE i > n
    <3>1. j > n
      BY <1>9, <2>0, <2>2
    <3>2. i - n \in DOMAIN t /\ j - n \in DOMAIN t /\ b.items[i] = t[i - n] /\ b.items[j] = t[j - n] /\ i - n < j - n
      BY <1>8, <1>9, <2>0, <2>2, <3>1
    <3> QED BY <1>4, <1>5, <1>9, <3>2
  <2>3. CASE i \in DOMAIN s /\ j > n
    <3>1. b.items[i] = s[i] /\ j - n \in DOMAIN t /\ b.items[j] = t[j - n]
      BY <1>8, <2>0, <2>3
    <3>2. Rank(s[i]) \in Nat /\ Rank(s[i]) > l.cursor
      BY <1>3, <1>9, <2>3, <3>1
    <3> QED BY <1>3, <1>5, <2>3, <3>1, <3>2
  <2> QED BY <1>8, <2>0, <2>1, <2>2, <2>3
<1>10. \A i \in DOMAIN b.items : Rank(b.items[i]) > cursor /\ b.items[i] \in b.ever
  <2> TAKE i \in DOMAIN b.items
  <2>1. ASSUME i \in DOMAIN s, b.items[i] = s[i] PROVE Rank(b.items[i]) > cursor /\ b.items[i] \in b.ever
    BY <1>1, <1>3, <2>1
  <2>2. ASSUME i - n \in DOMAIN t, b.items[i] = t[i - n] PROVE Rank(b.items[i]) > cursor /\ b.items[i] \in b.ever
    <3>1. Rank(t[i - n]) \in Nat /\ Rank(t[i - n]) > l.cursor /\ t[i - n] \in a.ever
      BY <1>3, <2>2
    <3> QED BY <1>1, <1>3, <2>2, <3>1
  <2> QED BY <1>8, <2>1, <2>2
<1>11. ASSUME b.more
       PROVE  /\ b.cursor > cursor
              /\ \A i \in DOMAIN b.items : Rank(b.items[i]) <= b.cursor \/ MayRepeat(b.items[i], b.stops)
              /\ b.path = Root => \E e \in b.ever : Rank(e) = b.cursor
  <2>1. a.more /\ a.cursor > l.cursor /\ a.cursor > cursor
    BY <1>1, <1>3, <1>11
  <2>2. \A i \in DOMAIN s : Rank(s[i]) <= a.cursor \/ MayRepeat(s[i], b.stops)
    BY <1>3, <1>5, <2>1
  <2>3. \A i \in DOMAIN t : Rank(t[i]) <= a.cursor \/ MayRepeat(t[i], b.stops)
    BY <1>3, <1>5, <2>1
  <2>4. \A i \in DOMAIN b.items : Rank(b.items[i]) <= a.cursor \/ MayRepeat(b.items[i], b.stops)
    BY <1>8, <2>2, <2>3
  <2>5. a.path = Root => \E e \in b.ever : Rank(e) = a.cursor
    BY <1>1, <1>3, <2>1
  <2> QED BY <1>1, <2>1, <2>4, <2>5
<1>12. ASSUME NEW e \in always, Rank(e) > cursor
       PROVE  e \in ToSet(b.items) \/ (b.more /\ Rank(e) > b.cursor) \/ IsSkipped(e, b.stops)
  <2>1. ToSet(s) \subseteq ToSet(b.items) /\ ToSet(t) \subseteq ToSet(b.items)
    BY <1>8 DEF ToSet
  <2> QED BY <1>1, <1>5, <1>6, <1>7, <1>12, <2>1
<1>13. Covers(b, always, cursor)
  BY <1>1, <1>3, <1>9, <1>10, <1>11, <1>12 DEF Covers
<1> QED BY <1>13 DEF b

\* The next page goes on where the pages before it end.
LEMMA AppendedIsWhole ==
  ASSUME NEW l, IsListing(l), NEW a, IsListing(a), NEW folder, NEW search, NEW stored,
         Whole(l, folder, search, stored), l.more, NextPage(a, l, search, stored)
  PROVE  Whole(Appended(l, a), folder, search, stored)
<1> DEFINE b == Appended(l, a)
<1>1. b.path = folder /\ a.path = folder /\ l.path = folder /\ b.always = l.always /\ b.ever = l.ever \cup a.ever
  <2>1. a.path = folder /\ l.path = folder
    BY DEF Whole, NextPage
  <2>2. DOMAIN a = ListingParts
    BY DEF IsListing
  <2> QED BY <2>1, <2>2 DEF Appended, ListingParts
<1> HIDE DEF b
<1>2. Covers(l, l.always, 0) /\ Covers(a, l.always, l.cursor)
  BY DEF Whole, NextPage
<1>3. Covers(b, l.always, 0)
  BY <1>1, <1>2, AppendedCovers DEF b
<1>4. folder = Root => b.ever \subseteq Now(Root, search, stored)
  BY <1>1 DEF Whole, NextPage
<1>5. Whole(b, folder, search, stored)
  BY <1>1, <1>3, <1>4 DEF Whole
<1> QED BY <1>5 DEF b

LEMMA AppendedIs ==
  ASSUME NEW l, IsListing(l), NEW a, IsListing(a)
  PROVE  IsListing(Appended(l, a)) /\ Appended(l, a).path = a.path
<1>1. DOMAIN a = ListingParts /\ a.items \in Seq(EntrySet) /\ l.items \in Seq(EntrySet)
  BY DEF IsListing
<1>2. l.items \o a.items \in Seq(EntrySet)
  BY <1>1
<1> QED BY <1>1, <1>2 DEF Appended, IsListing, ListingParts
-----------------------------------------------------------------------------
(* What the user starts.                                                   *)

LEMMA RequestIs ==
  ASSUME NEW path, NEW search, NEW then
  PROVE  /\ LoadFolder(path, search, then).kind = "list" /\ LoadFolder(path, search, then).path = path
         /\ LoadFolder(path, search, then).search = search /\ LoadFolder(path, search, then).then = then
         /\ LoadFolder(path, search, then).cursor = 0 /\ ~LoadFolder(path, search, then).append
         /\ LoadFolder(path, search, then).answer = << >>
         /\ LoadSelection(path).kind = "preview" /\ LoadSelection(path).path = path
         /\ LoadSelection(path).then = "nothing" /\ LoadSelection(path).answer = << >>
BY DEF LoadFolder, LoadSelection, Flight

LEMMA LoadCarries ==
  ASSUME NEW path \in Folders, NEW search, NEW then, then # "written"
  PROVE  Carries(LoadFolder(path, search, then))
<1> DEFINE f == LoadFolder(path, search, then)
<1>1. f.kind = "list" /\ f.path = path /\ f.then = then /\ f.cursor = 0 /\ f.answer = << >>
  BY RequestIs
<1> HIDE DEF f
<1>2. Carries(f)
  BY <1>1 DEF Carries, Good
<1> QED BY <1>2 DEF f

LEMMA SelectionCarries ==
  ASSUME NEW path, Selectable(path)
  PROVE  Carries(LoadSelection(path))
<1> DEFINE f == LoadSelection(path)
<1>1. f.kind = "preview" /\ f.path = path /\ f.then = "nothing" /\ f.answer = << >>
  BY RequestIs
<1> HIDE DEF f
<1>2. Carries(f)
  BY <1>1 DEF Carries, Good
<1> QED BY <1>2 DEF f

LEMMA RootIsSelectable == Selectable(Root) /\ Shows(Root) = Root /\ Root \in Folders
BY RootIs DEF Selectable, Shows, Folders

\* The listing before the first answer, and an answer without one.
LEMMA NothingIs == IsListing(None) /\ None.ok /\ None.path = Root
<1>1. DOMAIN None = ListingParts /\ None.items = << >> /\ None.path = Root /\ None.cursor = 0 /\ None.ok
  BY DEF None, Failed, ListingParts
<1>2. << >> \in Seq(EntrySet)
  OBVIOUS
<1> QED BY <1>1, <1>2, RootIs DEF IsListing

LEMMA FolderIs ==
  ASSUME NEW path, path = Root \/ path.at \in Seq(Names) \ {<< >>}, path = Folder(path.at) \/ path = Object(path.at)
  PROVE  GetContainerResourcePath(path) \in Folders
<1>1. path.at \in Seq(Names) /\ (path = Root \/ path.at # << >>)
  BY RootIs DEF Folders, Places
<1>2. CASE path.folder
  BY <1>1, <1>2 DEF GetContainerResourcePath, Folders, Places, Folder, Object
<1>3. CASE ~path.folder
  <2>1. path.at # << >>
    BY <1>1, <1>3, RootIs
  <2>2. Front(path.at) \in Seq(Names)
    BY <1>1, <2>1 DEF Front
  <2> QED BY <1>1, <1>3, <2>2 DEF GetContainerResourcePath, Folders, Places, Folder
<1> QED BY <1>2, <1>3

LEMMA Parent ==
  ASSUME NEW path \in Folders
  PROVE  GetParentResourcePath(path) \in Folders /\ GetContainerResourcePath(path) = path
<1>1. GetContainerResourcePath(path) = path /\ path.at \in Seq(Names)
  BY DEF GetContainerResourcePath, Folders, Places
<1>2. CASE Len(path.at) <= 1
  BY <1>1, <1>2, RootIsSelectable DEF GetParentResourcePath
<1>3. CASE ~(Len(path.at) <= 1)
  <2>1. path.at # << >> /\ Len(path.at) \in Nat
    BY <1>1, <1>3
  <2>2. Front(path.at) \in Seq(Names)
    BY <1>1, <2>1 DEF Front
  <2> QED BY <1>1, <1>3, <2>2 DEF GetParentResourcePath, Folders, Places, Folder
<1> QED BY <1>1, <1>2, <1>3

LEMMA NavigateKeeps ==
  ASSUME PlaceOK, BusyOK, CalmOK, NEW path \in Folders, NavigateTo(path)
  PROVE  PlaceOK' /\ BusyOK' /\ CalmOK'
<1>1. currentFolderPath' = path
  BY Parent DEF NavigateTo
<1>2. PICK f : f = LoadFolder(path, appliedSearch, "nothing")
  OBVIOUS
<1>3. /\ flights' = flights \cup {f} /\ calm' = (flights = {}) /\ selectedItemPath' = Root /\ selectedListing' = None
      /\ UNCHANGED <<objects, listing, appliedSearch, isLoadingMore, isUploading, isDeleting>>
  BY <1>1, <1>2 DEF NavigateTo, ForgetSelection, Acting, Sends
<1>4. Carries(f) /\ f.kind = "list" /\ f.path = path /\ f.search = appliedSearch /\ f.cursor = 0 /\ ~f.append /\ f.answer = << >>
  BY <1>2, LoadCarries, RequestIs
<1>5. PlaceOK'
  BY <1>1, <1>3, <1>4, RootIsSelectable DEF PlaceOK
<1>6. BusyOK'
  BY <1>3 DEF BusyOK
<1>7. CalmOK'
  <2> SUFFICES ASSUME flights = {} PROVE CalmOK'
    BY <1>3 DEF CalmOK
  <2>1. flights' = {f}
    BY <1>3
  <2>2. InStep(f)'
    BY <1>1, <1>3, <1>4 DEF InStep, Good, Reloads
  <2>3. Reloads(f)
    BY <1>4 DEF Reloads
  <2>4. PreviewOK'
    BY <1>3 DEF PreviewOK
  <2>5. (\A g \in flights : InStep(g))' /\ ~(\A g \in flights : ~Reloads(g))'
    BY <2>1, <2>2, <2>3
  <2> QED BY <2>1, <2>4, <2>5 DEF CalmOK
<1> QED BY <1>5, <1>6, <1>7

\* A request that asks for what the page shows keeps it in step.
LEMMA SentKeeps ==
  ASSUME PlaceOK, CalmOK, NEW f, Carries(f), f.answer = << >>, flights' = flights \cup {f},
         UNCHANGED <<objects, currentFolderPath, listing, selectedListing>>,
         calm' = (calm /\ flights = {}), Selectable(selectedItemPath)',
         f.kind = "list" => f.path = currentFolderPath /\ f.search = appliedSearch',
         Reloads(f) => f.cursor = 0, Reloads(f) \/ appliedSearch' = appliedSearch,
         (f.kind = "list" /\ f.append) => listing.more /\ f.cursor = listing.cursor,
         f.kind = "preview" => f.path = selectedItemPath',
         f.kind = "preview" \/ selectedItemPath' = selectedItemPath
  PROVE  PlaceOK' /\ CalmOK'
<1>1. PlaceOK'
  BY DEF PlaceOK
<1>2. CalmOK'
  <2> SUFFICES ASSUME calm, flights = {} PROVE CalmOK'
    BY DEF CalmOK
  <2>1. flights' = {f} /\ ListingOK /\ PreviewOK
    BY DEF CalmOK
  <2>2. InStep(f)'
    BY DEF InStep, Good, Reloads
  <2>3. ~Reloads(f) => ListingOK'
    BY <2>1 DEF ListingOK
  <2>4. f.kind # "preview" => PreviewOK'
    BY <2>1 DEF PreviewOK
  <2>5. (\A g \in flights : InStep(g))'
    BY <2>1, <2>2
  <2> QED BY <2>1, <2>3, <2>4, <2>5 DEF CalmOK
<1> QED BY <1>1, <1>2

LEMMA PreviewKeeps ==
  ASSUME PlaceOK, BusyOK, CalmOK, NEW item \in ToSet(listing.items), PreviewItem(item)
  PROVE  PlaceOK' /\ BusyOK' /\ CalmOK'
<1>1. item \in ObjectPaths
  <2>1. listing.items \in Seq(EntrySet)
    BY DEF PlaceOK, IsListing
  <2>2. item \in EntrySet
    BY <2>1 DEF ToSet
  <2> QED BY <2>2 DEF PreviewItem, ObjectPaths
<1>2. PICK f : f = LoadSelection(item)
  OBVIOUS
<1>3. Carries(f) /\ f.kind = "preview" /\ f.path = item /\ f.answer = << >> /\ Selectable(item)
  <2>1. Selectable(item)
    BY <1>1 DEF Selectable, ObjectPaths
  <2> QED BY <1>2, <2>1, RequestIs, SelectionCarries
<1>4. /\ flights' = flights \cup {f} /\ calm' = (calm /\ flights = {}) /\ selectedItemPath' = item
      /\ UNCHANGED <<objects, currentFolderPath, listing, selectedListing, appliedSearch>>
      /\ UNCHANGED <<isLoadingMore, isUploading, isDeleting>>
  BY <1>2 DEF PreviewItem, Acting, Calmly, Sends, busyVars
<1>5. ~Reloads(f)
  BY <1>3 DEF Reloads
<1>6. PlaceOK' /\ CalmOK'
  BY <1>3, <1>4, <1>5, SentKeeps
<1>7. BusyOK'
  BY <1>4 DEF BusyOK
<1> QED BY <1>6, <1>7

LEMMA PickKeeps ==
  ASSUME PlaceOK, BusyOK, CalmOK, NEW item, PickItem(item)
  PROVE  PlaceOK' /\ BusyOK' /\ CalmOK'
<1>1. UNCHANGED <<objects, currentFolderPath, listing, appliedSearch, selectedItemPath, selectedListing,
                  isLoadingMore, isUploading, isDeleting, flights, calm>>
  BY DEF PickItem, Acting, busyVars
<1> QED BY <1>1 DEF PlaceOK, BusyOK, CalmOK, InStep, ListingOK, PreviewOK

LEMMA SearchKeeps ==
  ASSUME PlaceOK, BusyOK, CalmOK, NEW search, ApplySearch(search)
  PROVE  PlaceOK' /\ BusyOK' /\ CalmOK'
<1>1. PICK f : f = LoadFolder(currentFolderPath, search, "nothing")
  OBVIOUS
<1>2. /\ flights' = flights \cup {f} /\ calm' = (calm /\ flights = {}) /\ appliedSearch' = search
      /\ UNCHANGED <<objects, currentFolderPath, listing, selectedItemPath, selectedListing>>
      /\ UNCHANGED <<isLoadingMore, isUploading, isDeleting>>
  BY <1>1 DEF ApplySearch, Acting, Calmly, Sends
<1>3. /\ Carries(f) /\ f.kind = "list" /\ f.path = currentFolderPath /\ f.search = search /\ f.cursor = 0
      /\ ~f.append /\ f.answer = << >>
  BY <1>1, LoadCarries, RequestIs DEF PlaceOK
<1>4. Reloads(f)
  BY <1>3 DEF Reloads
<1>5. Selectable(selectedItemPath)'
  BY <1>2 DEF PlaceOK
<1>6. PlaceOK' /\ CalmOK'
  BY <1>2, <1>3, <1>4, <1>5, SentKeeps
<1>7. BusyOK'
  BY <1>2 DEF BusyOK
<1> QED BY <1>6, <1>7

LEMMA MoreKeeps ==
  ASSUME PlaceOK, BusyOK, CalmOK, LoadMoreItems
  PROVE  PlaceOK' /\ BusyOK' /\ CalmOK'
<1>1. PICK g : g = LoadFolder(currentFolderPath, appliedSearch, "nothing")
  OBVIOUS
<1>2. PICK f : f = [g EXCEPT !.append = TRUE, !.cursor = listing.cursor]
  OBVIOUS
<1>3. /\ flights' = flights \cup {f} /\ calm' = (calm /\ flights = {}) /\ listing.more
      /\ UNCHANGED <<objects, currentFolderPath, listing, appliedSearch, selectedItemPath, selectedListing>>
      /\ UNCHANGED <<isUploading, isDeleting>>
  BY <1>1, <1>2 DEF LoadMoreItems, Acting, Calmly, Sends, shownVars
<1>4. /\ Carries(g) /\ g.kind = "list" /\ g.path = currentFolderPath /\ g.search = appliedSearch
      /\ g.answer = << >> /\ g.then = "nothing" /\ DOMAIN g = FlightParts
  <2>1. "nothing" \in Afterwards
    BY DEF Afterwards
  <2> QED BY <1>1, <2>1, LoadCarries, LoadIs, RequestIs DEF PlaceOK
<1>5. /\ f.kind = "list" /\ f.path = currentFolderPath /\ f.search = appliedSearch /\ f.cursor = listing.cursor
      /\ f.append /\ f.answer = << >> /\ f.then = "nothing"
  BY <1>2, <1>4 DEF FlightParts
<1>6. Carries(f)
  BY <1>5 DEF Carries, Good, PlaceOK, IsListing
<1>7. ~Reloads(f) /\ Selectable(selectedItemPath)'
  BY <1>3, <1>5 DEF Reloads, PlaceOK
<1>8. PlaceOK' /\ CalmOK'
  BY <1>3, <1>5, <1>6, <1>7, SentKeeps
<1>9. BusyOK'
  BY <1>3, <1>5 DEF BusyOK
<1> QED BY <1>8, <1>9

LEMMA RefreshKeeps ==
  ASSUME PlaceOK, BusyOK, CalmOK, RefreshCurrentView
  PROVE  PlaceOK' /\ BusyOK' /\ CalmOK'
<1>1. PICK f : f = LoadFolder(currentFolderPath, appliedSearch, "refresh")
  OBVIOUS
<1>2. /\ flights' = flights \cup {f} /\ calm' = (calm /\ flights = {})
      /\ UNCHANGED <<objects, currentFolderPath, listing, appliedSearch, selectedItemPath, selectedListing>>
      /\ UNCHANGED <<isLoadingMore, isUploading, isDeleting>>
  BY <1>1 DEF RefreshCurrentView, Acting, Calmly, Sends, shownVars
<1>3. /\ Carries(f) /\ f.kind = "list" /\ f.path = currentFolderPath /\ f.search = appliedSearch /\ f.cursor = 0
      /\ ~f.append /\ f.answer = << >>
  BY <1>1, LoadCarries, RequestIs DEF PlaceOK
<1>4. Reloads(f) /\ Selectable(selectedItemPath)'
  BY <1>2, <1>3 DEF Reloads, PlaceOK
<1>5. PlaceOK' /\ CalmOK'
  BY <1>2, <1>3, <1>4, SentKeeps
<1>6. BusyOK'
  BY <1>2 DEF BusyOK
<1> QED BY <1>5, <1>6

LEMMA DeletionKeeps ==
  ASSUME PlaceOK, BusyOK, CalmOK, NEW rows, DeleteResources(rows)
  PROVE  PlaceOK' /\ BusyOK' /\ CalmOK'
<1>1. PICK f : f = [Flight("delete", Root) EXCEPT !.paths = SetToSeq(DeleteTargets(rows))]
  OBVIOUS
<1>2. /\ flights' = flights \cup {f} /\ calm' = (calm /\ flights = {})
      /\ UNCHANGED <<objects, currentFolderPath, listing, appliedSearch, selectedItemPath, selectedListing>>
      /\ UNCHANGED <<isLoadingMore, isUploading>>
  BY <1>1 DEF DeleteResources, Acting, Calmly, Sends, shownVars
<1>3. f.kind = "delete" /\ f.answer = << >> /\ f.then = "nothing"
  BY <1>1 DEF Flight
<1>4. Carries(f) /\ ~Reloads(f) /\ Selectable(selectedItemPath)'
  BY <1>2, <1>3 DEF Carries, Good, Reloads, PlaceOK
<1>5. PlaceOK' /\ CalmOK'
  BY <1>2, <1>3, <1>4, SentKeeps
<1>6. BusyOK'
  BY <1>2, <1>3 DEF BusyOK
<1> QED BY <1>5, <1>6

LEMMA PutKeeps ==
  ASSUME PlaceOK, BusyOK, CalmOK, NEW path \in ObjectPaths, NEW then \in {"uploaded", "created"}, Puts(path, then)
  PROVE  PlaceOK' /\ BusyOK' /\ CalmOK'
<1>1. PICK f : f = [Flight("put", path) EXCEPT !.then = then]
  OBVIOUS
<1>2. /\ flights' = flights \cup {f} /\ calm' = (calm /\ flights = {})
      /\ UNCHANGED <<objects, currentFolderPath, listing, appliedSearch, selectedItemPath, selectedListing>>
      /\ UNCHANGED <<isLoadingMore, isDeleting>>
  BY <1>1 DEF Puts, Acting, Calmly, Sends, shownVars
<1>3. f.kind = "put" /\ f.path = path /\ f.answer = << >> /\ f.then = then
  BY <1>1 DEF Flight
<1>4. Carries(f) /\ ~Reloads(f) /\ Selectable(selectedItemPath)'
  BY <1>2, <1>3 DEF Carries, Good, Reloads, PlaceOK
<1>5. PlaceOK' /\ CalmOK'
  BY <1>2, <1>3, <1>4, SentKeeps
<1>6. BusyOK'
  BY <1>2, <1>3 DEF BusyOK
<1> QED BY <1>5, <1>6

LEMMA UserKeeps ==
  ASSUME PlaceOK, BusyOK, CalmOK, UserActs
  PROVE  PlaceOK' /\ BusyOK' /\ CalmOK'
<1>0. currentFolderPath \in Folders /\ listing.items \in Seq(EntrySet)
  BY DEF PlaceOK, IsListing
<1>1. ASSUME NEW n \in 0 .. Len(currentFolderPath.at) PROVE Folder(SubSeq(currentFolderPath.at, 1, n)) \in Folders
  <2>1. currentFolderPath.at \in Seq(Names)
    BY <1>0 DEF Folders, Places
  <2>2. SubSeq(currentFolderPath.at, 1, n) \in Seq(Names)
    BY <2>1
  <2> QED BY <2>2 DEF Folder, Folders, Places
<1>2. ASSUME NEW item \in ToSet(listing.items), OpenItem(item) PROVE PlaceOK' /\ BusyOK' /\ CalmOK'
  <2>1. item \in EntrySet
    BY <1>0 DEF ToSet
  <2>2. item \in Folders
    BY <1>2, <2>1 DEF OpenItem, EntrySet, Folders
  <2> QED BY <1>2, <2>2, NavigateKeeps DEF OpenItem
<1>3. ASSUME NEW k \in NewKeys PROVE Object(k) \in ObjectPaths
  <2>1. k \in Seq(Names) /\ Len(k) > 1
    BY BrowserBounds
  <2> QED BY <2>1 DEF Object, ObjectPaths, EntrySet, Places
<1>4. ASSUME NEW name, HandleFileSelection(name) PROVE PlaceOK' /\ BusyOK' /\ CalmOK'
  <2>1. JoinResourcePath(currentFolderPath, name) = Object(JoinResourcePath(currentFolderPath, name).at)
    BY DEF JoinResourcePath, Object
  <2>2. JoinResourcePath(currentFolderPath, name) \in ObjectPaths
    BY <1>3, <1>4, <2>1 DEF HandleFileSelection
  <2> QED BY <1>4, <2>2, PutKeeps DEF HandleFileSelection
<1>5. ASSUME NEW k \in NewKeys, CreateObject(k) PROVE PlaceOK' /\ BusyOK' /\ CalmOK'
  BY <1>3, <1>5, PutKeeps DEF CreateObject
<1>6. GetParentResourcePath(currentFolderPath) \in Folders
  BY <1>0, Parent
<1> QED BY <1>1, <1>2, <1>4, <1>5, <1>6, NavigateKeeps, PreviewKeeps, PickKeeps, SearchKeeps, MoreKeeps,
           RefreshKeeps, DeletionKeeps DEF UserActs
-----------------------------------------------------------------------------
(* What the server does with a request, and what others do meanwhile.      *)

LEMMA GivenIs ==
  ASSUME NEW f, IsFlight(f), NEW a
  PROVE  LET g == [f EXCEPT !.answer = <<a>>] IN
         /\ g.kind = f.kind /\ g.path = f.path /\ g.paths = f.paths /\ g.search = f.search /\ g.cursor = f.cursor
         /\ (g.append <=> f.append) /\ g.then = f.then /\ g.answer = <<a>> /\ g.answer # << >> /\ g.answer[1] = a
<1>1. DOMAIN f = FlightParts
  BY DEF IsFlight
<1> QED BY <1>1 DEF FlightParts

\* The answer to a load or a preview: a list of its own or, for a folder of a
\* bucket, one that goes on with the unfinished list before it.
Answers(a, f) ==
  /\ a.ok /\ IsListing(a) /\ a.path = f.path
  /\ a.always = Now(f.path, f.search, objects) /\ a.ever = a.always
Begun(a, f) ==
  /\ Answers(a, f)
  /\ f.path # Root \/ f.cursor = 0 \/ (\E e \in a.always : Rank(e) = f.cursor) => Covers(a, a.always, f.cursor)
GoneOn(a, f, b) ==
  /\ f.path # Root /\ f.answer # << >> /\ f.answer[1].more /\ a = Appended(f.answer[1], b)
  /\ Answers(b, f) /\ Covers(b, b.always, f.answer[1].cursor)

LEMMA ListIs ==
  ASSUME objects \subseteq Keys, NEW f, f.kind \in {"list", "preview"}, Carries(f), f.answer = << >> \/ IsUnfinished(f)
  PROVE  LET a == List(f.path, f.search, f.cursor, f.answer) IN
         /\ f.kind = "preview" => DOMAIN a = ListingParts /\ (a.ok => a.path = Shows(f.path))
         /\ f.kind = "list" => Begun(a, f) \/ \E b : GoneOn(a, f, b)
<1> DEFINE a == List(f.path, f.search, f.cursor, f.answer)
<1>0. objects \subseteq Keys
  OBVIOUS
<1>1. CASE f.kind = "list" /\ f.path = Root
  <2>1. a = List(Root, f.search, f.cursor, f.answer) /\ f.cursor \in Nat
    BY <1>1 DEF Carries
  <2>2. Begun(a, f)
    <3> HIDE DEF a
    <3> QED BY <1>0, <1>1, <2>1, BucketsAreListed DEF Begun, Answers
  <2> QED BY <1>1, <2>2
<1>2. CASE f.kind = "list" /\ f.path # Root
  <2>1. f.path \in Places /\ f.path.folder /\ f.cursor \in Nat
    BY <1>2 DEF Carries, Folders
  <2>2. a = ListBucketPath(f.path, f.search, f.cursor, f.answer)
    <3>1. f.path.at # << >> /\ f.path.at \in Seq(Names)
      BY <1>2, <2>1, RootIs DEF Places
    <3>2. Len(f.path.at) # 0
      BY <3>1
    <3> QED BY <2>1, <3>2 DEF List
  <2>3. LIST_PAGE_SIZE \in Nat \ {0}
    BY BrowserBounds
  <2>4. CASE f.answer = << >>
    <3>1. a = Batch(f.path, f.search, f.cursor, LIST_PAGE_SIZE)
      BY <2>2, <2>4 DEF ListBucketPath
    <3>2. PICK n : n = LIST_PAGE_SIZE
      OBVIOUS
    <3>3. PICK b : b = Batch(f.path, f.search, f.cursor, n)
      OBVIOUS
    <3>4. Answers(b, f) /\ Covers(b, b.always, f.cursor)
      <4>1. PICK c, p, s : c = f.cursor /\ p = f.path /\ s = f.search
        OBVIOUS
      <4>2. /\ b = Batch(p, s, c, n) /\ c \in Nat /\ n \in Nat \ {0}
            /\ p \in Places /\ p.folder /\ p # Root
        BY <1>2, <2>1, <2>3, <3>2, <3>3, <4>1
      <4>3. /\ b.ok /\ IsListing(b) /\ b.path = p /\ b.always = Now(p, s, objects) /\ b.ever = b.always
            /\ Covers(b, b.always, c)
        BY ONLY <1>0, <4>2, BatchLists
      <4> QED BY ONLY <4>1, <4>3 DEF Answers
    <3>5. a = b
      BY <3>1, <3>2, <3>3
    <3> QED BY <1>2, <3>4, <3>5 DEF Begun
  <2>5. CASE f.answer # << >>
    <3>1. PICK old : old = f.answer[1]
      OBVIOUS
    <3>2. PICK room : room = LIST_PAGE_SIZE - Len(old.items)
      OBVIOUS
    <3>3. PICK b : b = Batch(f.path, f.search, old.cursor, room)
      OBVIOUS
    <3>4. IsListing(old) /\ old.more /\ ~IsFull(old.items)
      BY <1>2, <2>5, <3>1 DEF Carries, IsUnfinished
    <3>5. old.cursor \in Nat /\ room \in Nat \ {0}
      <4>1. Len(old.items) \in Nat /\ old.cursor \in Nat
        BY <3>4 DEF IsListing
      <4> QED BY <2>3, <3>2, <3>4, <4>1 DEF IsFull
    <3>6. a = Appended(old, b)
      BY <2>2, <2>5, <3>1, <3>2, <3>3 DEF ListBucketPath
    <3> HIDE DEF a
    <3>7. Answers(b, f) /\ Covers(b, b.always, old.cursor)
      BY <1>0, <1>2, <2>1, <3>3, <3>5, BatchLists DEF Answers
    <3>8. GoneOn(a, f, b)
      BY <1>2, <2>5, <3>1, <3>4, <3>6, <3>7 DEF GoneOn
    <3> QED BY <1>2, <3>8 DEF a
  <2> QED BY <2>4, <2>5
<1>3. CASE f.kind = "preview"
  BY <1>3, PreviewIs DEF Carries
<1> QED BY <1>1, <1>2, <1>3

LEMMA ReadKeeps ==
  ASSUME StoreInv, PlaceOK, BusyOK, CalmOK, NEW f \in flights, Read(f)
  PROVE  PlaceOK' /\ BusyOK' /\ CalmOK'
<1>0. IsFlight(f) /\ Carries(f) /\ objects \subseteq Keys /\ f.kind \in {"list", "preview"}
      /\ (f.answer = << >> \/ IsUnfinished(f))
  BY DEF StoreInv, PlaceOK, Read
<1>1. PICK a : a = List(f.path, f.search, f.cursor, f.answer)
  OBVIOUS
<1>2. PICK g : g = [f EXCEPT !.answer = <<a>>]
  OBVIOUS
<1>3. /\ flights' = (flights \ {f}) \cup {g}
      /\ UNCHANGED <<objects, currentFolderPath, listing, appliedSearch, selectedItemPath, selectedListing, calm>>
      /\ UNCHANGED <<isLoadingMore, isUploading, isDeleting>>
  BY <1>1, <1>2 DEF Read, Answered, shownVars, busyVars
<1>4. /\ g.kind = f.kind /\ g.path = f.path /\ g.paths = f.paths /\ g.search = f.search /\ g.cursor = f.cursor
      /\ (g.append <=> f.append) /\ g.then = f.then /\ g.answer = <<a>> /\ g.answer # << >> /\ g.answer[1] = a
  BY <1>0, <1>2, GivenIs
<1>5. /\ f.kind = "preview" => DOMAIN a = ListingParts /\ (a.ok => a.path = Shows(f.path))
      /\ f.kind = "list" => Begun(a, f) \/ \E b : GoneOn(a, f, b)
  BY <1>0, <1>1, ListIs
<1> DEFINE old == f.answer[1]
<1>6. ASSUME f.kind = "list", NEW b, GoneOn(a, f, b)
      PROVE  /\ a = Appended(old, b) /\ IsListing(old) /\ IsListing(b) /\ old.more /\ Good(f)
             /\ old.path = f.path /\ b.path = f.path /\ f.path # Root
             /\ b.always = Now(f.path, f.search, objects) /\ Covers(b, b.always, old.cursor)
  BY <1>0, <1>6 DEF Carries, GoneOn, Answers
<1> HIDE DEF old
<1>7. DOMAIN a = ListingParts /\ (f.kind = "list" => a.ok /\ IsListing(a) /\ a.path = f.path)
  <2>1. ASSUME f.kind = "list", NEW b, GoneOn(a, f, b) PROVE a.ok /\ IsListing(a) /\ a.path = f.path
    <3>1. a = Appended(old, b) /\ IsListing(old) /\ IsListing(b) /\ b.path = f.path /\ b.ok
      BY <1>6, <2>1 DEF GoneOn, Answers
    <3>2. a.ok = b.ok
      BY <3>1 DEF Appended, IsListing, ListingParts
    <3> QED BY <3>1, <3>2, AppendedIs
  <2>2. f.kind = "list" => a.ok /\ IsListing(a) /\ a.path = f.path
    BY <1>5, <2>1 DEF Begun, Answers
  <2> QED BY <1>0, <1>5, <2>2 DEF IsListing
<1>8. Carries(g)
  BY <1>0, <1>4, <1>7 DEF Carries, Good
<1>9. PlaceOK'
  BY <1>3, <1>8 DEF PlaceOK
<1>10. BusyOK'
  BY <1>3, <1>4 DEF BusyOK
<1>11. CalmOK'
  <2> SUFFICES ASSUME calm PROVE CalmOK'
    BY <1>3 DEF CalmOK
  <2>1. /\ flights = {f} /\ InStep(f) /\ (~Reloads(f) => ListingOK) /\ (f.kind # "preview" => PreviewOK)
    BY DEF CalmOK
  <2>2. flights' = {g}
    BY <1>3, <2>1
  <2>3. (~Reloads(g) => ListingOK') /\ (g.kind # "preview" => PreviewOK')
    BY <1>3, <1>4, <2>1 DEF Reloads, ListingOK, PreviewOK
  <2>4. f.kind = "list" => f.path = currentFolderPath /\ f.search = appliedSearch
    BY <2>1 DEF InStep
  <2>5. Reloads(g) => g.cursor = 0 /\ Whole(a, currentFolderPath, appliedSearch, objects)
    <3> SUFFICES ASSUME Reloads(f) PROVE f.cursor = 0 /\ Whole(a, currentFolderPath, appliedSearch, objects)
      BY <1>4 DEF Reloads
    <3>1. f.kind = "list" /\ f.cursor = 0 /\ (Good(f) => Whole(old, currentFolderPath, appliedSearch, objects))
      BY <2>1 DEF InStep, Reloads, old
    <3>2. CASE Begun(a, f)
      <4>1. Covers(a, a.always, 0)
        BY <3>1, <3>2 DEF Begun
      <4> QED BY <2>4, <3>1, <3>2, <4>1 DEF Whole, Begun, Answers
    <3>3. ASSUME NEW b, GoneOn(a, f, b) PROVE Whole(a, currentFolderPath, appliedSearch, objects)
      <4>1. /\ a = Appended(old, b) /\ IsListing(old) /\ IsListing(b) /\ old.more /\ Good(f)
            /\ old.path = f.path /\ b.path = f.path /\ f.path # Root
            /\ b.always = Now(f.path, f.search, objects) /\ Covers(b, b.always, old.cursor)
        BY <1>6, <3>1, <3>3
      <4>2. Whole(old, currentFolderPath, appliedSearch, objects)
        BY <3>1, <4>1
      <4>3. old.always \subseteq b.always
        BY <2>4, <3>1, <4>1, <4>2 DEF Whole
      <4>4. Covers(b, old.always, old.cursor)
        BY <4>1, <4>3, CoversLess
      <4>5. NextPage(b, old, appliedSearch, objects)
        BY <4>1, <4>4 DEF NextPage
      <4> QED BY <4>1, <4>2, <4>5, AppendedIsWhole
    <3> QED BY <1>5, <3>1, <3>2, <3>3
  <2>6. g.kind = "list" /\ g.append =>
          listing.more /\ g.cursor = listing.cursor /\ NextPage(a, listing, appliedSearch, objects)
    <3> SUFFICES ASSUME f.kind = "list", f.append
                 PROVE  listing.more /\ f.cursor = listing.cursor /\ NextPage(a, listing, appliedSearch, objects)
      BY <1>4
    <3>1. /\ listing.more /\ f.cursor = listing.cursor /\ ListingOK
          /\ Good(f) => NextPage(old, listing, appliedSearch, objects)
      BY <2>1 DEF InStep, Reloads, old
    <3>2. /\ listing.path = currentFolderPath /\ Covers(listing, listing.always, 0)
          /\ listing.always \subseteq Now(f.path, f.search, objects)
          /\ listing.path = Root => listing.ever \subseteq Now(f.path, f.search, objects)
      BY <2>4, <3>1 DEF ListingOK, Whole
    <3>3. listing.cursor \in Nat /\ (listing.path = Root => \E e \in listing.ever : Rank(e) = listing.cursor)
      BY <3>1, <3>2 DEF Covers
    <3>4. CASE Begun(a, f)
      <4>1. a.always = Now(f.path, f.search, objects) /\ a.ever = a.always /\ a.path = f.path
        BY <3>4 DEF Begun, Answers
      <4>2. f.path = Root => \E e \in a.always : Rank(e) = f.cursor
        BY <2>4, <3>1, <3>2, <3>3, <4>1
      <4>3. Covers(a, a.always, f.cursor)
        BY <3>4, <4>2 DEF Begun
      <4>4. Covers(a, listing.always, listing.cursor)
        BY <3>1, <3>2, <4>1, <4>3, CoversLess
      <4> QED BY <2>4, <3>1, <3>2, <4>1, <4>4 DEF NextPage
    <3>5. ASSUME NEW b, GoneOn(a, f, b) PROVE NextPage(a, listing, appliedSearch, objects)
      <4>1. /\ a = Appended(old, b) /\ IsListing(old) /\ IsListing(b) /\ old.more /\ Good(f)
            /\ old.path = f.path /\ b.path = f.path /\ f.path # Root
            /\ b.always = Now(f.path, f.search, objects) /\ Covers(b, b.always, old.cursor)
        BY <1>6, <3>5
      <4>2. Covers(old, listing.always, listing.cursor)
        BY <3>1, <4>1 DEF NextPage
      <4>3. Covers(b, listing.always, old.cursor)
        BY <3>2, <4>1, CoversLess
      <4>4. Covers(a, listing.always, listing.cursor)
        BY <3>3, <4>1, <4>2, <4>3, AppendedCovers
      <4> QED BY <1>7, <2>4, <3>2, <4>1, <4>4 DEF NextPage
    <3> QED BY <1>5, <3>1, <3>4, <3>5
  <2>7. InStep(g)'
    <3>1. g.kind = "list" => g.path = currentFolderPath /\ g.search = appliedSearch
      BY <1>4, <2>4
    <3>2. g.kind = "preview" => g.path = selectedItemPath /\ (Good(g) => a.path = Shows(selectedItemPath))
      BY <1>4, <1>5, <2>1 DEF InStep, Good
    <3> QED BY <1>3, <1>4, <2>5, <2>6, <3>1, <3>2 DEF InStep
  <2> QED BY <2>2, <2>3, <2>7 DEF CalmOK
<1> QED BY <1>9, <1>10, <1>11

\* A request in which the change is noted.
LEMMA NotedParts ==
  ASSUME NEW f, IsFlight(f), Carries(f), NEW stored
  PROVE  LET g == Noted(f, stored) IN
         /\ g.kind = f.kind /\ g.path = f.path /\ g.paths = f.paths /\ g.search = f.search /\ g.cursor = f.cursor
         /\ (g.append <=> f.append) /\ g.then = f.then
         /\ f.answer = << >> => g = f
         /\ f.answer # << >> => g.answer = <<Changed(f.answer[1], stored)>> /\ DOMAIN f.answer[1] = ListingParts
<1>1. CASE f.answer = << >>
  <2>1. Noted(f, stored) = f
    BY <1>1 DEF Noted
  <2> QED BY <1>1, <2>1
<1>2. CASE f.answer # << >>
  <2>1. PICK a : f.answer = <<a>> /\ f.answer[1] = a /\ DOMAIN a = ListingParts
    BY <1>2 DEF Carries
  <2>2. Noted(f, stored) = [f EXCEPT !.answer[1] = Changed(f.answer[1], stored)]
    BY <1>2 DEF Noted
  <2>3. [f EXCEPT !.answer[1] = Changed(f.answer[1], stored)] = [f EXCEPT !.answer = <<Changed(a, stored)>>]
    <3>1. [f.answer EXCEPT ![1] = Changed(f.answer[1], stored)] = <<Changed(a, stored)>>
      BY <2>1
    <3> QED BY <3>1
  <2>4. Noted(f, stored) = [f EXCEPT !.answer = <<Changed(a, stored)>>]
    BY <2>2, <2>3
  <2> QED BY <1>2, <2>1, <2>4, GivenIs
<1> QED BY <1>1, <1>2

LEMMA NotedCarries ==
  ASSUME NEW f, IsFlight(f), Carries(f), NEW stored
  PROVE  Carries(Noted(f, stored))
<1> DEFINE g == Noted(f, stored)
<1>1. /\ g.kind = f.kind /\ g.path = f.path /\ g.paths = f.paths /\ g.then = f.then /\ g.cursor = f.cursor
      /\ f.answer = << >> => g = f
      /\ f.answer # << >> => g.answer = <<Changed(f.answer[1], stored)>> /\ DOMAIN f.answer[1] = ListingParts
  BY NotedParts
<1> HIDE DEF g
<1>2. CASE f.answer = << >>
  <2>1. g = f
    BY <1>1, <1>2
  <2> QED BY <2>1 DEF g
<1>3. CASE f.answer # << >>
  <2>1. PICK c : c = Changed(f.answer[1], stored)
    OBVIOUS
  <2>2. /\ DOMAIN c = ListingParts /\ c.path = f.answer[1].path /\ c.items = f.answer[1].items
        /\ c.cursor = f.answer[1].cursor /\ c.ok = f.answer[1].ok
    BY <1>1, <1>3, <2>1, ChangedIs
  <2>3. g.answer = <<c>> /\ g.answer[1] = c /\ g.answer # << >>
    <3>1. g.answer = <<c>>
      BY <1>1, <1>3, <2>1
    <3> QED BY <3>1
  <2>4. f.kind = "list" => c.ok /\ IsListing(c) /\ c.path = f.path
    BY <1>3, <2>2 DEF Carries, Good, IsListing
  <2>5. Carries(g)
    BY <1>1, <2>2, <2>3, <2>4 DEF Carries, Good
  <2> QED BY <2>5 DEF g
<1> QED BY <1>2, <1>3

\* The page that is shown and the answer to come keep what they list.
LEMMA StoredKeeps ==
  ASSUME PlaceOK, NEW stored, Store(stored),
         UNCHANGED <<currentFolderPath, appliedSearch, selectedItemPath, selectedListing>>
  PROVE  /\ IsListing(listing)'
         /\ ListingOK => ListingOK'
         /\ \A f \in flights : IsFlight(f) /\ InStep(f) => \A g : g = Noted(f, stored) => InStep(g)'
<1>1. objects' = stored /\ listing' = Changed(listing, stored)
  BY DEF Store
<1>2. DOMAIN listing = ListingParts /\ currentFolderPath \in Folders
  BY DEF PlaceOK, IsListing
<1>3. PICK l : l = Changed(listing, stored)
  OBVIOUS
<1>4. l.path = listing.path /\ l.items = listing.items /\ l.more = listing.more /\ l.cursor = listing.cursor /\ DOMAIN l = ListingParts
  BY <1>2, <1>3, ChangedIs
<1>5. IsListing(listing)'
  BY <1>1, <1>3, <1>4 DEF PlaceOK, IsListing
<1>6. ListingOK => ListingOK'
  BY <1>1, <1>2, WholeStays DEF ListingOK
<1>7. ASSUME NEW f \in flights, IsFlight(f), InStep(f), NEW g, g = Noted(f, stored) PROVE InStep(g)'
  <2>0. Carries(f)
    BY DEF PlaceOK
  <2>1. /\ g.kind = f.kind /\ g.path = f.path /\ g.search = f.search /\ g.cursor = f.cursor /\ (g.append <=> f.append)
        /\ f.answer = << >> => g = f
        /\ f.answer # << >> => g.answer = <<Changed(f.answer[1], stored)>> /\ DOMAIN f.answer[1] = ListingParts
    BY <1>7, <2>0, NotedParts
  <2>2. PICK c : c = Changed(f.answer[1], stored)
    OBVIOUS
  <2>3. Good(g) => Good(f) /\ g.answer[1] = c /\ DOMAIN f.answer[1] = ListingParts /\ c.path = f.answer[1].path
    <3> SUFFICES ASSUME Good(g) PROVE Good(f) /\ g.answer[1] = c /\ DOMAIN f.answer[1] = ListingParts /\ c.path = f.answer[1].path
      OBVIOUS
    <3>1. f.answer # << >>
      BY <2>1 DEF Good
    <3>2. g.answer[1] = c /\ DOMAIN f.answer[1] = ListingParts
      BY <2>1, <2>2, <3>1
    <3>3. c.ok = f.answer[1].ok /\ c.path = f.answer[1].path
      BY <2>2, <3>2, ChangedIs
    <3> QED BY <3>1, <3>2, <3>3 DEF Good
  <2>4. g.kind = "list" => g.path = currentFolderPath' /\ g.search = appliedSearch'
    BY <1>7, <2>1 DEF InStep
  <2>5. Reloads(g) => g.cursor = 0 /\ (Good(g) => Whole(c, currentFolderPath, appliedSearch, stored))
    <3> SUFFICES ASSUME Reloads(g) PROVE g.cursor = 0 /\ (Good(g) => Whole(c, currentFolderPath, appliedSearch, stored))
      OBVIOUS
    <3>1. Reloads(f)
      BY <2>1 DEF Reloads
    <3>2. f.cursor = 0 /\ (Good(f) => Whole(f.answer[1], currentFolderPath, appliedSearch, objects))
      BY <1>7, <3>1 DEF InStep
    <3> QED BY <1>2, <2>1, <2>2, <2>3, <3>2, WholeStays
  <2>6. g.kind = "list" /\ g.append =>
          l.more /\ g.cursor = l.cursor /\ (Good(g) => NextPage(c, l, appliedSearch, stored))
    <3> SUFFICES ASSUME f.kind = "list", f.append
                 PROVE  l.more /\ f.cursor = l.cursor /\ (Good(g) => NextPage(c, l, appliedSearch, stored))
      BY <2>1
    <3>1. listing.more /\ f.cursor = listing.cursor /\ (Good(f) => NextPage(f.answer[1], listing, appliedSearch, objects))
      BY <1>7 DEF InStep
    <3> QED BY <1>2, <1>3, <1>4, <2>2, <2>3, <3>1, NextPageStays
  <2>7. g.kind = "preview" => g.path = selectedItemPath /\ (Good(g) => c.path = Shows(selectedItemPath))
    BY <1>7, <2>1, <2>3 DEF InStep
  <2> QED BY <1>1, <1>3, <2>3, <2>4, <2>5, <2>6, <2>7 DEF InStep
<1> QED BY <1>5, <1>6, <1>7

LEMMA WriteKeeps ==
  ASSUME StoreInv, PlaceOK, BusyOK, CalmOK, NEW f \in flights, f.kind \in {"put", "delete"}, f.answer = << >>,
         NEW stored, NEW ok, Written(f, stored, ok)
  PROVE  PlaceOK' /\ BusyOK' /\ CalmOK'
<1>0. (\A h \in flights : IsFlight(h) /\ Carries(h)) /\ ~Reloads(f) /\ f.kind # "preview" /\ f.kind # "list"
  BY DEF StoreInv, PlaceOK, Reloads
<1>1. PICK a : a = [None EXCEPT !.ok = ok]
  OBVIOUS
<1>2. PICK g : g = [f EXCEPT !.answer = <<a>>]
  OBVIOUS
<1>3. /\ Store(stored) /\ flights' = {Noted(h, stored) : h \in flights \ {f}} \cup {g}
      /\ UNCHANGED <<currentFolderPath, appliedSearch, selectedItemPath, selectedListing, calm>>
      /\ UNCHANGED <<isLoadingMore, isUploading, isDeleting>>
  BY <1>1, <1>2 DEF Written, busyVars
<1>4. /\ g.kind = f.kind /\ g.path = f.path /\ g.then = f.then /\ g.answer = <<a>> /\ g.answer # << >> /\ g.answer[1] = a
  BY <1>0, <1>2, GivenIs
<1>5. DOMAIN a = ListingParts
  BY <1>1, NothingIs DEF IsListing
<1>6. Carries(g)
  BY <1>0, <1>4, <1>5 DEF Carries
<1>7. IsListing(listing)' /\ (ListingOK => ListingOK')
  BY <1>3, StoredKeeps
<1>8. PlaceOK'
  <2>1. \A h \in flights : Carries(Noted(h, stored))
    BY <1>0, NotedCarries
  <2> QED BY <1>3, <1>6, <1>7, <2>1 DEF PlaceOK
<1>9. BusyOK'
  <2>1. \A h \in flights : \E k \in flights' : k.kind = h.kind /\ k.then = h.then
    <3> TAKE h \in flights
    <3>1. CASE h = f
      BY <1>3, <1>4, <3>1
    <3>2. CASE h # f
      <4>1. Noted(h, stored).kind = h.kind /\ Noted(h, stored).then = h.then
        BY <1>0, NotedParts
      <4> QED BY <1>3, <3>2, <4>1
    <3> QED BY <3>1, <3>2
  <2> QED BY <1>3, <2>1 DEF BusyOK
<1>10. CalmOK'
  <2> SUFFICES ASSUME calm PROVE CalmOK'
    BY <1>3 DEF CalmOK
  <2>1. flights = {f} /\ ListingOK /\ PreviewOK
    BY <1>0 DEF CalmOK
  <2>2. flights' = {g}
    BY <1>3, <2>1
  <2>3. InStep(g)'
    BY <1>0, <1>4 DEF InStep, Reloads
  <2>4. ListingOK' /\ PreviewOK'
    BY <1>3, <1>7, <2>1 DEF PreviewOK
  <2> QED BY <2>2, <2>3, <2>4 DEF CalmOK
<1> QED BY <1>8, <1>9, <1>10

LEMMA OthersKeep ==
  ASSUME StoreInv, PlaceOK, BusyOK, CalmOK, NEW k, Elsewhere(k)
  PROVE  PlaceOK' /\ BusyOK' /\ CalmOK'
<1>0. \A h \in flights : IsFlight(h) /\ Carries(h)
  BY DEF StoreInv, PlaceOK
<1>1. PICK stored : stored = IF k \in objects THEN objects \ {k} ELSE objects \cup {k}
  OBVIOUS
<1>2. /\ Store(stored) /\ flights' = {Noted(h, stored) : h \in flights}
      /\ UNCHANGED <<currentFolderPath, appliedSearch, selectedItemPath, selectedListing, calm>>
      /\ UNCHANGED <<isLoadingMore, isUploading, isDeleting>>
  BY <1>1 DEF Elsewhere, busyVars
<1>3. /\ IsListing(listing)' /\ (ListingOK => ListingOK')
      /\ \A f \in flights : InStep(f) => \A g : g = Noted(f, stored) => InStep(g)'
  BY <1>0, <1>2, StoredKeeps
<1>4. \A h \in flights : /\ Noted(h, stored).kind = h.kind /\ Noted(h, stored).then = h.then
                         /\ (Noted(h, stored).append <=> h.append)
  BY <1>0, NotedParts
<1>5. PlaceOK'
  <2>1. \A h \in flights : Carries(Noted(h, stored))
    BY <1>0, NotedCarries
  <2> QED BY <1>2, <1>3, <2>1 DEF PlaceOK
<1>6. BusyOK'
  <2>1. \A h \in flights : \E g \in flights' : g.kind = h.kind /\ g.then = h.then
    BY <1>2, <1>4
  <2> QED BY <1>2, <2>1 DEF BusyOK
<1>7. CalmOK'
  <2> SUFFICES ASSUME calm PROVE CalmOK'
    BY <1>2 DEF CalmOK
  <2>1. /\ \A f, g \in flights : f = g
        /\ \A f \in flights : InStep(f)
        /\ (\A f \in flights : ~Reloads(f)) => ListingOK
        /\ (\A f \in flights : f.kind # "preview") => PreviewOK
    BY DEF CalmOK
  <2>2. (\A f, g \in flights : f = g)'
    BY <1>2, <2>1
  <2>3. (\A f \in flights : InStep(f))'
    BY <1>2, <1>3, <2>1
  <2>4. ((\A f \in flights : ~Reloads(f)) => ListingOK)'
    BY <1>2, <1>3, <1>4, <2>1 DEF Reloads
  <2>5. ((\A f \in flights : f.kind # "preview") => PreviewOK)'
    <3>1. PreviewOK => PreviewOK'
      BY <1>2 DEF PreviewOK
    <3> QED BY <1>2, <1>4, <2>1, <3>1
  <2> QED BY <2>2, <2>3, <2>4, <2>5 DEF CalmOK
<1> QED BY <1>5, <1>6, <1>7

-----------------------------------------------------------------------------
(* What the page does when an answer arrives.                              *)

\* After a load nothing is under way but a preview of what is selected.
LEMMA ContinuesIs ==
  ASSUME StoreInv, PlaceOK, NEW f \in flights, f.kind = "list", Continues(f, selectedItemPath)
  PROVE  /\ isUploading' = isUploading
         /\ IF f.then = "deleted" THEN isDeleting' = FALSE ELSE isDeleting' = isDeleting
         /\ \/ /\ flights' = Ended(f) /\ selectedItemPath' = selectedItemPath /\ f.then # "written"
               /\ selectedListing' = selectedListing \/ selectedListing' = None
            \/ \E g : /\ flights' = Ended(f) \cup {g} /\ Carries(g) /\ g.kind = "preview" /\ g.answer = << >>
                      /\ g.path = selectedItemPath' /\ Selectable(selectedItemPath)'
                      /\ f.then = "written" => g.then = "written"
<1>1. f.then \in Afterwards /\ Carries(f) /\ Selectable(selectedItemPath)
  BY DEF StoreInv, IsFlight, PlaceOK
<1>2. CASE f.then = "nothing" \/ f.then = "deleted"
  BY <1>2 DEF Continues
<1>3. CASE f.then \in {"refresh", "sync"}
  <2>1. /\ UNCHANGED <<selectedItemPath, isUploading, isDeleting>>
        /\ IF selectedItemPath # Root THEN flights' = Ended(f) \cup {LoadSelection(selectedItemPath)} ELSE flights' = Ended(f)
        /\ selectedListing' = selectedListing \/ selectedListing' = None
    BY <1>3 DEF Continues
  <2>2. CASE selectedItemPath # Root
    <3>1. PICK g : g = LoadSelection(selectedItemPath)
      OBVIOUS
    <3>2. Carries(g) /\ g.kind = "preview" /\ g.answer = << >> /\ g.path = selectedItemPath
      BY <1>1, <3>1, SelectionCarries, RequestIs
    <3> QED BY <1>1, <1>3, <2>1, <2>2, <3>1, <3>2
  <2>3. CASE selectedItemPath = Root
    BY <1>3, <2>1, <2>3
  <2> QED BY <2>2, <2>3
<1>4. CASE f.then = "written"
  <2>1. PICK p : p = f.paths[1]
    OBVIOUS
  <2>2. Selectable(p)
    BY <1>1, <1>4, <2>1 DEF Carries, Selectable, ObjectPaths
  <2>3. PICK h : h = LoadSelection(p)
    OBVIOUS
  <2>4. PICK g : g = [h EXCEPT !.then = "written"]
    OBVIOUS
  <2>5. /\ selectedItemPath' = p /\ flights' = Ended(f) \cup {g}
        /\ UNCHANGED <<selectedListing, isUploading, isDeleting>>
    BY <1>4, <2>1, <2>3, <2>4 DEF Continues
  <2>6. g.kind = "preview" /\ g.path = p /\ g.then = "written" /\ g.answer = << >>
    BY <2>3, <2>4 DEF LoadSelection, Flight
  <2>7. Carries(g)
    BY <2>2, <2>6 DEF Carries, Good
  <2> QED BY <1>4, <2>2, <2>5, <2>6, <2>7
<1> QED BY <1>1, <1>2, <1>3, <1>4 DEF Afterwards

LEMMA ListArrivesKeeps ==
  ASSUME StoreInv, PlaceOK, BusyOK, CalmOK, NEW f \in flights, NEW lost, ListArrives(f, lost)
  PROVE  PlaceOK' /\ BusyOK' /\ CalmOK'
<1>0. f.kind = "list" /\ f.answer # << >> /\ Carries(f) /\ IsListing(listing) /\ isLoadingMore' = FALSE
  BY DEF ListArrives, Arrives, PlaceOK
<1>1. UNCHANGED <<objects, appliedSearch>>
  BY DEF ListArrives, Arrives
<1>2. PICK a : a = f.answer[1]
  OBVIOUS
<1>3. Continues(f, selectedItemPath)
  BY DEF ListArrives
<1>4. /\ isUploading' = isUploading
      /\ IF f.then = "deleted" THEN isDeleting' = FALSE ELSE isDeleting' = isDeleting
      /\ \/ /\ flights' = Ended(f) /\ selectedItemPath' = selectedItemPath /\ f.then # "written"
            /\ selectedListing' = selectedListing \/ selectedListing' = None
         \/ \E g : /\ flights' = Ended(f) \cup {g} /\ Carries(g) /\ g.kind = "preview" /\ g.answer = << >>
                   /\ g.path = selectedItemPath' /\ Selectable(selectedItemPath)'
                   /\ f.then = "written" => g.then = "written"
  BY <1>0, <1>3, ContinuesIs
<1>5. \/ /\ Good(f) /\ currentFolderPath' = a.path /\ calm' = calm
         /\ listing' = IF f.append THEN Appended(listing, a) ELSE a
      \/ UNCHANGED <<currentFolderPath, listing>> /\ calm' = FALSE
  BY <1>0, <1>2 DEF ListArrives, Good
<1>6. IsListing(a) /\ a.path = f.path /\ f.path \in Folders
  BY <1>0, <1>2 DEF Carries
<1>7. PlaceOK'
  <2>1. currentFolderPath' \in Folders /\ IsListing(listing)'
    BY <1>0, <1>5, <1>6, AppendedIs DEF PlaceOK
  <2>2. Selectable(selectedItemPath)'
    BY <1>4 DEF PlaceOK
  <2>3. \A g \in flights' : Carries(g)
    BY <1>4 DEF PlaceOK, Ended
  <2> QED BY <2>1, <2>2, <2>3 DEF PlaceOK
<1>8. BusyOK'
  <2>1. ASSUME isUploading' PROVE \E g \in flights' : g.kind = "put" \/ g.then = "written"
    <3>1. PICK h \in flights : h.kind = "put" \/ h.then = "written"
      BY <1>4, <2>1 DEF BusyOK
    <3>2. CASE h = f
      BY <1>0, <1>4, <3>1, <3>2
    <3>3. CASE h # f
      BY <1>4, <3>1, <3>3 DEF Ended
    <3> QED BY <3>2, <3>3
  <2>2. ASSUME isDeleting' PROVE \E g \in flights' : g.kind = "delete" \/ g.then = "deleted"
    <3>1. f.then # "deleted" /\ isDeleting
      BY <1>4, <2>2
    <3>2. PICK h \in flights : h.kind = "delete" \/ h.then = "deleted"
      BY <3>1 DEF BusyOK
    <3> QED BY <1>0, <1>4, <3>1, <3>2 DEF Ended
  <2> QED BY <1>0, <2>1, <2>2 DEF BusyOK
<1>9. CalmOK'
  <2> SUFFICES ASSUME calm, Good(f), currentFolderPath' = a.path, calm' = calm,
                      listing' = IF f.append THEN Appended(listing, a) ELSE a
               PROVE  CalmOK'
    BY <1>5 DEF CalmOK
  <2>1. flights = {f} /\ InStep(f) /\ PreviewOK /\ (~Reloads(f) => ListingOK)
    BY <1>0 DEF CalmOK
  <2>2. Ended(f) = {}
    BY <2>1 DEF Ended
  <2>3. f.path = currentFolderPath /\ a.path = f.path
    BY <1>0, <1>6, <2>1 DEF InStep
  <2>4. ListingOK'
    <3>1. CASE Reloads(f)
      <4>1. Whole(a, currentFolderPath, appliedSearch, objects) /\ listing' = a
        BY <1>2, <2>1, <3>1 DEF InStep, Reloads
      <4> QED BY <1>1, <2>3, <4>1 DEF ListingOK
    <3>2. CASE ~Reloads(f)
      <4>1. f.append
        BY <1>0, <3>2 DEF Reloads
      <4>2. listing.more /\ NextPage(a, listing, appliedSearch, objects)
        BY <1>0, <1>2, <2>1, <4>1 DEF InStep
      <4>3. Whole(listing, currentFolderPath, appliedSearch, objects)
        BY <2>1, <3>2 DEF ListingOK
      <4>4. Whole(Appended(listing, a), currentFolderPath, appliedSearch, objects)
        BY <1>0, <1>6, <4>2, <4>3, AppendedIsWhole
      <4> QED BY <1>1, <2>3, <4>1, <4>4 DEF ListingOK
    <3> QED BY <3>1, <3>2
  <2>5. CASE flights' = Ended(f) /\ selectedItemPath' = selectedItemPath
               /\ (selectedListing' = selectedListing \/ selectedListing' = None)
    <3>1. PreviewOK'
      BY <2>1, <2>5 DEF PreviewOK
    <3>2. flights' = {}
      BY <2>2, <2>5
    <3> QED BY <2>4, <3>1, <3>2 DEF CalmOK
  <2>6. ASSUME NEW g, flights' = Ended(f) \cup {g}, g.kind = "preview", g.answer = << >>, g.path = selectedItemPath'
        PROVE  CalmOK'
    <3>1. flights' = {g}
      BY <2>2, <2>6
    <3>2. InStep(g)'
      BY <2>6 DEF InStep, Reloads, Good
    <3> QED BY <2>4, <2>6, <3>1, <3>2 DEF CalmOK
  <2> QED BY <1>4, <2>5, <2>6
<1> QED BY <1>7, <1>8, <1>9

LEMMA PreviewArrivesKeeps ==
  ASSUME PlaceOK, BusyOK, CalmOK, NEW f \in flights, NEW lost, PreviewArrives(f, lost)
  PROVE  PlaceOK' /\ BusyOK' /\ CalmOK'
<1>0. /\ f.kind = "preview" /\ f.answer # << >> /\ Carries(f)
      /\ flights' = Ended(f) /\ isUploading' = IF f.then = "written" THEN FALSE ELSE isUploading
      /\ UNCHANGED <<objects, appliedSearch, currentFolderPath, listing, selectedItemPath, isLoadingMore, isDeleting>>
  BY DEF PreviewArrives, Arrives, PlaceOK
<1>1. PICK a : a = f.answer[1]
  OBVIOUS
<1>2. \/ Good(f) /\ selectedListing' = a /\ calm' = calm
      \/ selectedListing' = selectedListing /\ calm' = FALSE
  BY <1>0, <1>1 DEF PreviewArrives, Good
<1>3. PlaceOK'
  BY <1>0 DEF PlaceOK, Ended
<1>4. BusyOK'
  BY <1>0 DEF BusyOK, Ended, Carries
<1>5. CalmOK'
  <2> SUFFICES ASSUME calm, Good(f), selectedListing' = a PROVE CalmOK'
    BY <1>2 DEF CalmOK
  <2>1. flights = {f} /\ InStep(f) /\ ListingOK
    BY <1>0 DEF CalmOK, Reloads
  <2>2. flights' = {}
    BY <1>0, <2>1 DEF Ended
  <2>3. PreviewOK'
    BY <1>0, <1>1, <2>1 DEF InStep, PreviewOK
  <2>4. ListingOK'
    BY <1>0, <2>1 DEF ListingOK
  <2> QED BY <2>2, <2>3, <2>4 DEF CalmOK
<1> QED BY <1>3, <1>4, <1>5

\* The load that follows asks for what the page shows.
LEMMA ReloadKeeps ==
  ASSUME PlaceOK, CalmOK, NEW f \in flights, ~Reloads(f), f.kind # "preview", NEW g, Carries(g),
         g.kind = "list", ~g.append, g.cursor = 0, g.answer = << >>, g.path = currentFolderPath', g.search = appliedSearch,
         flights' = Ended(f) \cup {g}, currentFolderPath' \in Folders,
         UNCHANGED <<objects, appliedSearch, listing, calm>>,
         \/ UNCHANGED <<selectedItemPath, selectedListing>>
         \/ selectedItemPath' = Root /\ selectedListing' = None
  PROVE  PlaceOK' /\ CalmOK'
<1>1. PlaceOK'
  <2>1. Selectable(selectedItemPath)'
    BY RootIsSelectable DEF PlaceOK
  <2> QED BY <2>1 DEF PlaceOK, Ended
<1>2. CalmOK'
  <2> SUFFICES ASSUME calm PROVE CalmOK'
    BY DEF CalmOK
  <2>1. flights = {f} /\ PreviewOK
    BY DEF CalmOK
  <2>2. flights' = {g} /\ Reloads(g)
    BY <2>1 DEF Ended, Reloads
  <2>3. InStep(g)'
    BY DEF InStep, Reloads, Good
  <2>4. PreviewOK'
    BY <2>1 DEF PreviewOK
  <2> QED BY <2>2, <2>3, <2>4 DEF CalmOK
<1> QED BY <1>1, <1>2

\* A request that is over and was no load leaves the page as it is.
LEMMA EndKeeps ==
  ASSUME PlaceOK, CalmOK, NEW f \in flights, ~Reloads(f), f.kind # "preview", flights' = Ended(f),
         UNCHANGED <<objects, appliedSearch, currentFolderPath, listing, calm, selectedItemPath, selectedListing>>
  PROVE  PlaceOK' /\ CalmOK'
<1>1. PlaceOK'
  BY DEF PlaceOK, Ended
<1>2. CalmOK'
  <2> SUFFICES ASSUME calm PROVE CalmOK'
    BY DEF CalmOK
  <2>1. flights = {f} /\ ListingOK /\ PreviewOK
    BY DEF CalmOK
  <2>2. flights' = {}
    BY <2>1 DEF Ended
  <2> QED BY <2>1, <2>2 DEF CalmOK, ListingOK, PreviewOK
<1> QED BY <1>1, <1>2

LEMMA PutArrivesKeeps ==
  ASSUME PlaceOK, BusyOK, CalmOK, NEW f \in flights, NEW lost, PutArrives(f, lost)
  PROVE  PlaceOK' /\ BusyOK' /\ CalmOK'
<1>0. /\ f.kind = "put" /\ Carries(f) /\ ~Reloads(f) /\ currentFolderPath \in Folders
      /\ UNCHANGED <<objects, appliedSearch, listing, selectedItemPath, selectedListing, isLoadingMore, isDeleting, calm>>
  BY DEF PutArrives, Arrives, PlaceOK, Reloads
<1>1. f.path \in ObjectPaths /\ f.then \in {"uploaded", "created"}
  BY <1>0 DEF Carries
<1>2. CASE f.answer[1].ok /\ ~lost
  <2>1. PICK h : h = LoadFolder(currentFolderPath', appliedSearch, "written")
    OBVIOUS
  <2>2. PICK g : g = [h EXCEPT !.paths = <<f.path>>]
    OBVIOUS
  <2>3. /\ currentFolderPath' = IF f.then = "created" THEN GetContainerResourcePath(f.path) ELSE currentFolderPath
        /\ flights' = Ended(f) \cup {g} /\ isUploading' = isUploading
    BY <1>2, <2>1, <2>2 DEF PutArrives
  <2>4. /\ g.kind = "list" /\ ~g.append /\ g.cursor = 0 /\ g.answer = << >> /\ g.then = "written"
        /\ g.path = currentFolderPath' /\ g.search = appliedSearch /\ g.paths[1] = f.path
    <3>1. "written" \in Afterwards
      BY DEF Afterwards
    <3>2. /\ h.kind = "list" /\ ~h.append /\ h.cursor = 0 /\ h.answer = << >> /\ h.then = "written"
          /\ h.path = currentFolderPath' /\ h.search = appliedSearch /\ DOMAIN h = FlightParts
      BY <2>1, <3>1, RequestIs, LoadIs
    <3> QED BY <2>2, <3>2 DEF FlightParts
  <2>5. GetContainerResourcePath(f.path) \in Folders
    <3>1. f.path = Object(f.path.at) /\ f.path.at \in Seq(Names) \ {<< >>}
      BY <1>1 DEF ObjectPaths, EntrySet, Places, Object
    <3> QED BY <3>1, FolderIs
  <2>6. currentFolderPath' \in Folders
    BY <1>0, <2>3, <2>5
  <2>7. Carries(g)
    BY <1>1, <2>4, <2>6 DEF Carries, Good
  <2>8. PlaceOK' /\ CalmOK'
    BY <1>0, <2>3, <2>4, <2>6, <2>7, ReloadKeeps
  <2>9. BusyOK'
    BY <1>0, <1>1, <2>3, <2>4 DEF BusyOK, Ended
  <2> QED BY <2>8, <2>9
<1>3. CASE ~(f.answer[1].ok /\ ~lost)
  <2>1. flights' = Ended(f) /\ isUploading' = FALSE /\ currentFolderPath' = currentFolderPath
    BY <1>3 DEF PutArrives
  <2>2. PlaceOK' /\ CalmOK'
    BY <1>0, <2>1, EndKeeps
  <2>3. BusyOK'
    BY <1>0, <1>1, <2>1 DEF BusyOK, Ended
  <2> QED BY <2>2, <2>3
<1> QED BY <1>2, <1>3

LEMMA DeleteArrivesKeeps ==
  ASSUME PlaceOK, BusyOK, CalmOK, NEW f \in flights, NEW lost, DeleteArrives(f, lost)
  PROVE  PlaceOK' /\ BusyOK' /\ CalmOK'
<1>0. /\ f.kind = "delete" /\ f.then = "nothing" /\ ~Reloads(f) /\ currentFolderPath \in Folders
      /\ UNCHANGED <<objects, appliedSearch, currentFolderPath, listing, isLoadingMore, isUploading, calm>>
  BY DEF DeleteArrives, Arrives, PlaceOK, Carries, Reloads
<1>1. CASE f.answer[1].ok /\ ~lost
  <2>1. PICK g : g = LoadFolder(currentFolderPath, appliedSearch, "deleted")
    OBVIOUS
  <2>2. /\ flights' = Ended(f) \cup {g} /\ isDeleting' = isDeleting
        /\ \/ UNCHANGED <<selectedItemPath, selectedListing>>
           \/ selectedItemPath' = Root /\ selectedListing' = None
    BY <1>1, <2>1 DEF DeleteArrives
  <2>3. /\ g.kind = "list" /\ ~g.append /\ g.cursor = 0 /\ g.answer = << >> /\ g.then = "deleted"
        /\ g.path = currentFolderPath /\ g.search = appliedSearch /\ Carries(g)
    BY <1>0, <2>1, RequestIs, LoadCarries
  <2>4. PlaceOK' /\ CalmOK'
    BY <1>0, <2>2, <2>3, ReloadKeeps
  <2>5. BusyOK'
    BY <1>0, <2>2, <2>3 DEF BusyOK, Ended
  <2> QED BY <2>4, <2>5
<1>2. CASE ~(f.answer[1].ok /\ ~lost)
  <2>1. flights' = Ended(f) /\ isDeleting' = FALSE /\ UNCHANGED <<selectedItemPath, selectedListing>>
    BY <1>2 DEF DeleteArrives
  <2>2. PlaceOK' /\ CalmOK'
    BY <1>0, <2>1, EndKeeps
  <2>3. BusyOK'
    BY <1>0, <2>1 DEF BusyOK, Ended
  <2> QED BY <2>2, <2>3
<1> QED BY <1>1, <1>2

-----------------------------------------------------------------------------
(* The invariant of the object browser.                                    *)

LEMMA BrowserInitInv == BrowserInit => BrowserInv
<1> SUFFICES ASSUME BrowserInit PROVE BrowserInv
  OBVIOUS
<1>1. PICK start \in Starts : SyncFromPath(start.path, start.bucket)
  BY DEF BrowserInit
<1>2. PICK next : next = IF start.path # Root THEN Object(start.path.at)
                         ELSE IF start.bucket = "" THEN Root ELSE Folder(<<start.bucket>>)
  OBVIOUS
<1>3. PICK g : g = LoadFolder(GetContainerResourcePath(next), FALSE, "sync")
  OBVIOUS
<1>4. /\ currentFolderPath = GetContainerResourcePath(next)
      /\ selectedItemPath = IF next.folder THEN Root ELSE next
      /\ flights = {g}
  BY <1>1, <1>2, <1>3 DEF SyncFromPath, ResolveInitialState
<1>5. /\ next = Root \/ next.at \in Seq(Names) \ {<< >>}
      /\ next = Folder(next.at) \/ next = Object(next.at)
      /\ next.folder \in BOOLEAN
  <2>1. CASE start.path # Root
    <3>1. start.path.at \in Seq(Names) \ {<< >>} /\ next = Object(start.path.at)
      BY <1>2, <2>1, BrowserBounds
    <3> QED BY <3>1 DEF Object
  <2>2. CASE start.path = Root /\ start.bucket = ""
    BY <1>2, <2>2 DEF Root, Folder
  <2>3. CASE start.path = Root /\ start.bucket # ""
    <3>1. start.bucket \in Names /\ next = Folder(<<start.bucket>>)
      BY <1>2, <2>3, BrowserBounds
    <3>2. <<start.bucket>> \in Seq(Names) \ {<< >>}
      BY <3>1
    <3> QED BY <3>1, <3>2 DEF Folder
  <2> QED BY <2>1, <2>2, <2>3
<1>6. currentFolderPath \in Folders
  BY <1>4, <1>5, FolderIs
<1>7. Selectable(selectedItemPath)
  <2>1. CASE next.folder
    BY <1>4, <2>1, RootIsSelectable
  <2>2. CASE ~next.folder
    <3>1. next.at \in Seq(Names) \ {<< >>} /\ next = Object(next.at)
      BY <1>5, <2>2, RootIs DEF Folder
    <3>2. PICK at : at \in Seq(Names) \ {<< >>} /\ next = Object(at)
      BY <3>1
    <3>4. next \in EntrySet
      BY <3>2 DEF EntrySet, Places, Object
    <3>3. selectedItemPath = next
      BY <1>4, <2>2
    <3> QED BY <2>2, <3>3, <3>4 DEF Selectable
  <2> QED BY <2>1, <2>2
<1>8. /\ g.kind = "list" /\ g.path = currentFolderPath /\ ~g.search /\ g.search = FALSE /\ g.cursor = 0 /\ ~g.append
      /\ g.answer = << >> /\ Carries(g)
  <2>1. PICK no : no = FALSE
    OBVIOUS
  <2>2. g = LoadFolder(currentFolderPath, no, "sync")
    BY <1>3, <1>4, <2>1
  <2>3. g.search = no
    BY <2>2, RequestIs
  <2> QED BY <1>6, <2>1, <2>2, <2>3, RequestIs, LoadCarries
<1>9. /\ listing = None /\ appliedSearch = FALSE /\ selectedListing = None
      /\ isLoadingMore = FALSE /\ isUploading = FALSE /\ isDeleting = FALSE
  BY DEF BrowserInit
<1>10. PlaceOK
  BY <1>4, <1>6, <1>7, <1>8, <1>9, NothingIs DEF PlaceOK
<1>11. BusyOK
  BY <1>9 DEF BusyOK
<1>12. CalmOK
  <2>1. InStep(g) /\ Reloads(g)
    BY <1>8, <1>9 DEF InStep, Reloads, Good
  <2> QED BY <1>4, <1>9, <2>1 DEF CalmOK, PreviewOK
<1> QED BY <1>10, <1>11, <1>12, StoreInitInv DEF BrowserInv

LEMMA BrowserStep ==
  ASSUME BrowserInv, BrowserNext
  PROVE  BrowserInv'
<1>0. StoreInv /\ PlaceOK /\ BusyOK /\ CalmOK
  BY DEF BrowserInv
<1>1. StoreInv'
  BY <1>0, StoreStep
<1>2. CASE UserActs
  BY <1>0, <1>1, <1>2, UserKeeps DEF BrowserInv
<1>3. ASSUME NEW f \in flights, Read(f) PROVE BrowserInv'
  BY <1>0, <1>1, <1>3, ReadKeeps DEF BrowserInv
<1>4. ASSUME NEW f \in flights, PutObject(f) \/ Delete(f) PROVE BrowserInv'
  <2>1. f.answer = << >> /\ f.kind \in {"put", "delete"}
    BY <1>4 DEF PutObject, Delete
  <2>2. PICK stored, ok : Written(f, stored, ok)
    <3>1. CASE PutObject(f)
      BY <3>1 DEF PutObject
    <3>2. CASE Delete(f)
      BY <3>2 DEF Delete
    <3> QED BY <1>4, <3>1, <3>2
  <2> QED BY <1>0, <1>1, <2>1, <2>2, WriteKeeps DEF BrowserInv
<1>5. ASSUME NEW f \in flights, NEW lost \in BOOLEAN,
             ListArrives(f, lost) \/ PreviewArrives(f, lost) \/ PutArrives(f, lost) \/ DeleteArrives(f, lost)
      PROVE  BrowserInv'
  BY <1>0, <1>1, <1>5, ListArrivesKeeps, PreviewArrivesKeeps, PutArrivesKeeps, DeleteArrivesKeeps DEF BrowserInv
<1>6. ASSUME NEW k \in NewKeys, Elsewhere(k) PROVE BrowserInv'
  BY <1>0, <1>1, <1>6, OthersKeep DEF BrowserInv
<1> QED BY <1>2, <1>3, <1>4, <1>5, <1>6 DEF BrowserNext

LEMMA BrowserStill ==
  ASSUME BrowserInv, UNCHANGED browserVars
  PROVE  BrowserInv'
<1>1. UNCHANGED <<objects, currentFolderPath, listing, appliedSearch, selectedItemPath, selectedListing,
                  isLoadingMore, isUploading, isDeleting, flights, calm, elsewhere>>
  BY DEF browserVars, shownVars, busyVars
<1> QED BY <1>1 DEF BrowserInv, StoreInv, PlaceOK, BusyOK, CalmOK, InStep, ListingOK, PreviewOK

LEMMA BrowserHolds == BrowserInv => BrowserIsTrue
<1> SUFFICES ASSUME BrowserInv PROVE BrowserIsTrue
  OBVIOUS
<1>1. BrowserTypeOK
  BY DEF BrowserInv, StoreInv, PlaceOK, BusyOK, BrowserTypeOK, Folders, Selectable
<1>2. ASSUME calm, flights = {} PROVE ListingOK /\ PreviewOK
  BY <1>2 DEF BrowserInv, CalmOK
<1>3. ListingIsWhole
  <2> SUFFICES ASSUME calm, flights = {}
               PROVE  /\ listing.path = currentFolderPath
                      /\ ToSet(listing.items) \subseteq listing.ever
                      /\ \A e \in listing.always : \/ e \in ToSet(listing.items)
                                                   \/ listing.more /\ Rank(e) > listing.cursor
                                                   \/ IsSkipped(e, listing.stops)
                      /\ \A i, j \in DOMAIN listing.items :
                           i < j /\ listing.items[i] = listing.items[j] => MayRepeat(listing.items[i], listing.stops)
    BY DEF ListingIsWhole
  <2>1. /\ listing.path = currentFolderPath /\ Covers(listing, listing.always, 0)
        /\ listing.always \subseteq Now(currentFolderPath, appliedSearch, objects)
    BY <1>2 DEF ListingOK, Whole
  <2>4. ToSet(listing.items) \subseteq listing.ever
    BY <2>1 DEF Covers, ToSet
  <2>5. \A e \in listing.always : Rank(e) > 0
    <3>1. currentFolderPath \in Places /\ currentFolderPath.folder /\ objects \in SUBSET Keys
      BY DEF BrowserInv, PlaceOK, StoreInv, Folders
    <3>2. Now(currentFolderPath, appliedSearch, objects) \subseteq EntrySet
      BY <3>1, InsideIs DEF Now, Below
    <3> QED BY <2>1, <3>2, RankIs
  <2>6. \A e \in listing.always : \/ e \in ToSet(listing.items)
                                  \/ listing.more /\ Rank(e) > listing.cursor
                                  \/ IsSkipped(e, listing.stops)
    BY <2>1, <2>5 DEF Covers
  <2>7. \A i, j \in DOMAIN listing.items :
          i < j /\ listing.items[i] = listing.items[j] => MayRepeat(listing.items[i], listing.stops)
    BY <2>1 DEF Covers
  <2> QED BY <2>1, <2>4, <2>6, <2>7
<1>4. PreviewIsOfSelected
  BY <1>2 DEF PreviewOK, Shows, PreviewIsOfSelected
<1> QED BY <1>1, <1>3, <1>4 DEF BrowserIsTrue

-----------------------------------------------------------------------------
(* The lists of Redis keys and of Convex documents.                        *)

\* A path is of at most two names.
IsPath(p) == (\E S : p \in Seq(S)) /\ Len(p) <= 2

\* The scan for a listing of keys has found all that stayed, as far as it came.
ScanOK(r) ==
  /\ r.scanned \in Nat /\ r.search \in Searches
  /\ r.keys \in Seq(RedisKeys)
  /\ \A i \in DOMAIN r.keys : r.keys[i] <= r.scanned /\ MatchesPattern(r.search, r.keys[i])
  /\ \A i, j \in DOMAIN r.keys : r.keys[i] = r.keys[j] => i = j
  /\ \A k \in r.steady : k \in RedisKeys /\ MatchesName(r.search, k) /\ (k <= r.scanned => k \in ToSet(r.keys))

\* A listing of keys that match, once each, and of all that stayed when it is short.
KeysOK(a, search) ==
  /\ a.items \in Seq(RedisKeys)
  /\ \A i \in DOMAIN a.items : MatchesName(search, a.items[i])
  /\ \A i, j \in DOMAIN a.items : a.items[i] = a.items[j] => i = j
  /\ Len(a.items) < KEY_LIMIT /\ search # "word*" => a.steady \subseteq ToSet(a.items)

\* The chunks of a snapshot, and those among the first m that hold a match.
Chunks(D) == (Len(D) + ChunkSize - 1) \div ChunkSize
PartAt(search, D, k) ==
  Matching(search, SubSeq(D, (k - 1) * ChunkSize + 1, IF k * ChunkSize < Len(D) THEN k * ChunkSize ELSE Len(D)))
FullTo(search, D, m) == {k \in 1..m : PartAt(search, D, k) # << >>}

\* The cursor leads on from chunk m of the snapshot, with n - 1 pages before.
Leads(c, n, search, of) ==
  /\ c.snapshot = of
  /\ \E m \in 1..Chunks(snapshots[of]) : m < Chunks(snapshots[of])
       /\ c.at = m * ChunkSize /\ Cardinality(FullTo(search, snapshots[of], m)) = n - 1

\* The answer is page n of a search in a snapshot.
ShowsPart(a, n, search, of) ==
  LET parts == PartsOf(search, snapshots[of]) IN
  /\ a.items = IF n \in DOMAIN parts THEN parts[n] ELSE << >>
  /\ a.more \/ n >= Len(parts)
  /\ a.more => Leads(a.next, n + 1, search, of)
  /\ ~a.more => a.next = NoCursor

LoadParts == {"path", "search", "page", "cursor", "scanned", "keys", "steady", "answer"}
LoadOK(r) ==
  /\ DOMAIN r = LoadParts
  /\ IsPath(r.path) /\ r.page \in 1..MaxPages /\ r.search \in Searches
  /\ r.answer # << >> =>
       /\ IsPath(r.answer[1].path) /\ (Len(r.answer[1].path) = 0 <=> Len(r.path) = 0)
       /\ browsed = "convex" => Len(r.answer[1].path) = Len(r.path)
  /\ browsed = "redis" /\ Len(r.path) = 0 =>
       IF r.answer = << >> THEN ScanOK(r) ELSE KeysOK(r.answer[1], r.search)

\* A load that begins a listing, and one that goes on with the listing on the page.
Begins(r) ==
  /\ r.page = 1 /\ r.cursor = NoCursor
  /\ r.answer # << >> => LET a == r.answer[1] IN
       IF Len(r.path) = 1 THEN a.of \in DOMAIN snapshots /\ ShowsPart(a, 1, r.search, a.of)
       ELSE a.next = NoCursor
GoesOn(r) ==
  /\ r.page > 1 /\ Len(r.path) = 1 /\ r.search = currentSearch
  /\ firstSnapshot \in DOMAIN snapshots
  /\ Leads(r.cursor, r.page, currentSearch, firstSnapshot)
  /\ \A n \in 2..r.page : Leads(cursorStack[n], n, currentSearch, firstSnapshot)
  /\ r.answer # << >> => ShowsPart(r.answer[1], r.page, currentSearch, firstSnapshot)

\* The table on the page, and the cursors that lead back and on.
TableOK ==
  /\ firstSnapshot \in DOMAIN snapshots
  /\ shownList.path = currentPath
  /\ ShowsPart(shownList, page, currentSearch, firstSnapshot)
  /\ \A n \in 2..page : Leads(cursorStack[n], n, currentSearch, firstSnapshot)
  /\ shownList.more => Leads(cursorStack[page + 1], page + 1, currentSearch, firstSnapshot)

SourceOK ==
  /\ keys \subseteq RedisKeys
  /\ snapshots \in Seq(Seq(Documents)) /\ Len(snapshots) > 0
  /\ \A i \in DOMAIN snapshots : Len(snapshots[i]) <= Cardinality(Documents)
PageOK ==
  /\ IsPath(currentPath) /\ currentSearch \in Searches
  /\ page \in 1..MaxPages /\ DOMAIN cursorStack = 1..MaxPages + 1 /\ cursorStack[1] = NoCursor
  /\ isLoadingList => asked # {}
ListInv ==
  /\ browsed \in {"redis", "convex"}
  /\ SourceOK /\ PageOK
  /\ \A r \in asked : LoadOK(r)
  /\ undisturbed /\ asked = {} /\ browsed = "redis" /\ Len(currentPath) = 0 => KeysOK(shownList, currentSearch)
  /\ undisturbed /\ browsed = "convex" =>
       /\ \A r, s \in asked : r = s
       /\ \A r \in asked : Begins(r) \/ GoesOn(r)
       /\ asked = {} => IF Len(currentPath) = 1 THEN TableOK ELSE page = 1

-----------------------------------------------------------------------------
(* What is listed.                                                         *)
LEMMA Times ==
  ASSUME NEW a \in Nat, NEW b \in Nat, NEW C \in Nat \ {0}
  PROVE  a * C \in Nat /\ (a * C < b * C <=> a < b) /\ (a + b) * C = a * C + b * C /\ a * C >= a
<1>1. a * C \in Nat /\ (a + b) * C = a * C + b * C /\ a * C >= a
  OBVIOUS
<1>2. ASSUME a < b PROVE a * C < b * C
  <2> DEFINE d == b - a
  <2>1. d \in Nat \ {0} /\ b = a + d
    BY <1>2
  <2>2. b * C = a * C + d * C /\ d * C >= 1 /\ d * C \in Nat
    BY <2>1
  <2> QED BY <2>2, <1>1
<1>3. ASSUME b <= a PROVE b * C <= a * C
  <2> DEFINE d == a - b
  <2>1. d \in Nat /\ a = b + d
    BY <1>3
  <2>2. a * C = b * C + d * C /\ d * C \in Nat /\ b * C \in Nat
    BY <2>1
  <2> QED BY <2>2
<1>4. b * C \in Nat
  OBVIOUS
<1> QED BY <1>1, <1>2, <1>3, <1>4

\* Chunk k begins inside the documents.
LEMMA ChunksAre ==
  ASSUME NEW L \in Nat, NEW C \in Nat \ {0}
  PROVE  /\ (L + C - 1) \div C \in Nat
         /\ \A k \in Nat : k < (L + C - 1) \div C <=> k * C < L
<1> DEFINE q == (L + C - 1) \div C
<1>1. q \in Nat /\ q * C <= L + C - 1 /\ L + C - 1 < q * C + C /\ q * C \in Nat
  OBVIOUS
<1> HIDE DEF q
<1>2. ASSUME NEW k \in Nat PROVE k < q <=> k * C < L
  <2>1. CASE k < q
    <3>1. (k + 1) * C <= q * C
      BY <2>1, <1>1, Times
    <3>2. (k + 1) * C = k * C + C /\ k * C \in Nat
      BY Times
    <3> QED BY <3>1, <3>2, <1>1, <2>1
  <2>2. CASE q <= k
    <3>1. q * C <= k * C /\ k * C \in Nat
      BY <2>2, <1>1, Times
    <3> QED BY <3>1, <2>2, <1>1
  <2> QED BY <2>1, <2>2, <1>1
<1> QED BY <1>1, <1>2 DEF q

LEMMA MatchingIs ==
  ASSUME NEW T, NEW list \in Seq(T), NEW search
  PROVE  /\ Matching(search, list) \in Seq(T) /\ Len(Matching(search, list)) <= Len(list)
         /\ \A k \in DOMAIN Matching(search, list) : MatchesName(search, Matching(search, list)[k])
         /\ \A i \in DOMAIN list : MatchesName(search, list[i]) =>
              \E k \in DOMAIN Matching(search, list) : Matching(search, list)[k] = list[i]
         /\ (\A i, j \in DOMAIN list : list[i] = list[j] => i = j) =>
              \A k, l \in DOMAIN Matching(search, list) :
                Matching(search, list)[k] = Matching(search, list)[l] => k = l
         /\ (\A i \in DOMAIN list : MatchesName(search, list[i])) => Len(Matching(search, list)) = Len(list)
<1> DEFINE S == {i \in DOMAIN list : MatchesName(search, list[i])}
           m == Matching(search, list)
<1>1. S \in SUBSET DOMAIN list
  OBVIOUS
<1>2. m = At(list, S)
  BY DEF Matching
<1>3. /\ Cardinality(S) \in Nat /\ Cardinality(S) <= Len(list)
      /\ m \in Seq(T) /\ Len(m) = Cardinality(S) /\ DOMAIN m = 1..Cardinality(S)
      /\ \A k \in 1..Cardinality(S) : Nth(S, k) \in S /\ m[k] = list[Nth(S, k)]
      /\ \A k, l \in 1..Cardinality(S) : Nth(S, k) = Nth(S, l) => k = l
      /\ \A i \in S : \E k \in 1..Cardinality(S) : Nth(S, k) = i
  <2> HIDE DEF S, m
  <2> QED BY <1>1, <1>2, AtIs
<1>4. ASSUME \A i \in DOMAIN list : MatchesName(search, list[i]) PROVE Len(m) = Len(list)
  <2>1. S = 1..Len(list)
    BY <1>4
  <2>2. Cardinality(1..Len(list)) = Len(list)
    BY FirstNumbers
  <2> QED BY <2>1, <2>2, <1>3, Zenon
<1>5. \A i \in S : i \in DOMAIN list /\ MatchesName(search, list[i])
  OBVIOUS
<1>6. \A i \in DOMAIN list : MatchesName(search, list[i]) => i \in S
  OBVIOUS
<1> HIDE DEF S, m
<1>7. \A k \in DOMAIN m : MatchesName(search, m[k])
  BY <1>3, <1>5
<1>8. \A i \in DOMAIN list : MatchesName(search, list[i]) => \E k \in DOMAIN m : m[k] = list[i]
  BY <1>3, <1>6
<1>9. (\A i, j \in DOMAIN list : list[i] = list[j] => i = j) => \A k, l \in DOMAIN m : m[k] = m[l] => k = l
  BY <1>3, <1>5
<1> QED BY <1>3, <1>4, <1>7, <1>8, <1>9 DEF m

LEMMA FirstOfIs ==
  ASSUME NEW T, NEW list \in Seq(T), NEW n \in Nat
  PROVE  /\ FirstOf(list, n) \in Seq(T)
         /\ Len(FirstOf(list, n)) = IF Len(list) < n THEN Len(list) ELSE n
         /\ \A i \in DOMAIN FirstOf(list, n) : i \in DOMAIN list /\ FirstOf(list, n)[i] = list[i]
<1> DEFINE m == IF Len(list) < n THEN Len(list) ELSE n
<1>1. m \in 0..Len(list) /\ Len(list) \in Nat
  OBVIOUS
<1>2. FirstOf(list, n) = SubSeq(list, 1, m)
  BY DEF FirstOf
<1> HIDE DEF m
<1>3. /\ SubSeq(list, 1, m) \in Seq(T) /\ Len(SubSeq(list, 1, m)) = m
      /\ \A i \in 1..m : SubSeq(list, 1, m)[i] = list[i]
  BY <1>1
<1>4. DOMAIN SubSeq(list, 1, m) = 1..m /\ DOMAIN list = 1..Len(list)
  BY <1>3, <1>1
<1>5. \A i \in 1..m : i \in 1..Len(list)
  BY <1>1
<1> QED BY <1>2, <1>3, <1>4, <1>5 DEF m

-----------------------------------------------------------------------------
(* The scan of the keys.                                                   *)
\* What a batch of a scan brings.
BatchOf(r, to) == InOrder({k \in keys : k > r.scanned /\ k <= to /\ MatchesPattern(r.search, k)})
\* The names found up to a place, with all of those that stayed.
NamesOK(names, search, to, stayed) ==
  /\ names \in Seq(RedisKeys)
  /\ \A i \in DOMAIN names : names[i] <= to /\ MatchesPattern(search, names[i])
  /\ \A i, j \in DOMAIN names : names[i] = names[j] => i = j
  /\ \A k \in stayed : k \in RedisKeys /\ MatchesName(search, k) /\ (k <= to => k \in ToSet(names))

LEMMA BatchIs ==
  ASSUME ListAssumption, SourceOK, NEW r, ScanOK(r), NEW to \in RedisKeys, r.scanned < to
  PROVE  NamesOK(r.keys \o BatchOf(r, to), r.search, to, r.steady \cap keys)
<1> DEFINE S == {k \in keys : k > r.scanned /\ k <= to /\ MatchesPattern(r.search, k)}
           b == BatchOf(r, to)
           f == r.keys
           names == f \o b
<1>0. /\ RedisKeys \in SUBSET Nat /\ IsFiniteSet(RedisKeys) /\ keys \in SUBSET RedisKeys
      /\ r.scanned \in Nat /\ to \in Nat
  <2>1. RedisKeys = 1..Cardinality(RedisKeys) /\ Cardinality(RedisKeys) \in Nat
    BY FS_CardinalityType DEF ListAssumption
  <2>2. RedisKeys \in SUBSET Nat
    BY <2>1
  <2> QED BY <2>2 DEF ListAssumption, SourceOK, ScanOK
<1>1. S \in SUBSET Nat /\ IsFiniteSet(S) /\ S \in SUBSET RedisKeys
  <2>1. S \in SUBSET RedisKeys
    BY <1>0
  <2> HIDE DEF S
  <2> QED BY <2>1, <1>0, FS_Subset
<1>2. b = InOrder(S)
  BY DEF BatchOf
<1>3. \A k \in S : k \in keys /\ k > r.scanned /\ k <= to /\ MatchesPattern(r.search, k)
  OBVIOUS
<1>4. \A k \in r.steady \cap keys : k > r.scanned /\ k <= to => k \in S
  BY DEF ScanOK, MatchesPattern, MatchesName
<1> HIDE DEF S, b
<1>5. /\ b \in Seq(S) /\ DOMAIN b = 1..Len(b) /\ Len(b) \in Nat
      /\ \A k, l \in DOMAIN b : b[k] = b[l] => k = l
      /\ \A k \in S : \E i \in DOMAIN b : b[i] = k
  <2>1. /\ Cardinality(S) \in Nat /\ b \in Seq(S) /\ Len(b) = Cardinality(S) /\ DOMAIN b = 1..Cardinality(S)
        /\ \A k, l \in DOMAIN b : b[k] = b[l] => k = l
    BY <1>1, <1>2, InOrderIs
  <2>2. \A i \in S : \E k \in 1..Cardinality(S) : Nth(S, k) = i
    BY <1>1, NthIs
  <2>3. \A k \in 1..Cardinality(S) : b[k] = Nth(S, k)
    BY <1>2, <2>1 DEF InOrder
  <2> QED BY <2>1, <2>2, <2>3
<1>6. b \in Seq(RedisKeys)
  BY <1>1, <1>5, SeqMonotonic
<1>7. /\ f \in Seq(RedisKeys) /\ DOMAIN f = 1..Len(f) /\ Len(f) \in Nat
      /\ \A i \in DOMAIN f : f[i] <= r.scanned /\ MatchesPattern(r.search, f[i]) /\ f[i] \in Nat
      /\ \A i, j \in DOMAIN f : f[i] = f[j] => i = j
  <2>1. f \in Seq(RedisKeys) /\ DOMAIN f = 1..Len(f) /\ Len(f) \in Nat
    BY DEF ScanOK
  <2>2. \A i \in DOMAIN f : f[i] \in RedisKeys
    BY <2>1
  <2> QED BY <2>1, <2>2, <1>0 DEF ScanOK
<1>8. /\ \A i \in DOMAIN b : b[i] \in S
      /\ \A i \in DOMAIN b : b[i] \in Nat /\ b[i] > r.scanned /\ b[i] <= to /\ MatchesPattern(r.search, b[i])
  <2>1. \A i \in DOMAIN b : b[i] \in S
    BY <1>5
  <2> QED BY <2>1, <1>3, <1>0
<1> HIDE DEF f
<1>9. /\ names \in Seq(RedisKeys) /\ Len(names) = Len(f) + Len(b)
      /\ \A j \in 1..Len(f) : names[j] = f[j]
      /\ \A j \in Len(f) + 1..Len(f) + Len(b) : names[j] = b[j - Len(f)]
  BY <1>6, <1>7, Joined
<1>10. DOMAIN names = 1..Len(f) + Len(b)
  BY <1>9, <1>6, <1>7
<1> HIDE DEF names
<1>11. \A i \in DOMAIN names : \/ i \in DOMAIN f /\ names[i] = f[i]
                               \/ i - Len(f) \in DOMAIN b /\ names[i] = b[i - Len(f)]
  BY <1>5, <1>7, <1>9, <1>10
<1>12. \A i \in DOMAIN names : names[i] <= to /\ MatchesPattern(r.search, names[i])
  BY <1>0, <1>7, <1>8, <1>11
<1>13. \A i, j \in DOMAIN names : names[i] = names[j] => i = j
  <2> SUFFICES ASSUME NEW i \in DOMAIN names, NEW j \in DOMAIN names, names[i] = names[j] PROVE i = j
    OBVIOUS
  <2>0. i \in Nat /\ j \in Nat /\ Len(f) \in Nat
    BY <1>10, <1>7, <1>5
  <2>1. CASE i \in DOMAIN f /\ names[i] = f[i] /\ j \in DOMAIN f /\ names[j] = f[j]
    BY <2>1, <1>7
  <2>2. CASE i - Len(f) \in DOMAIN b /\ names[i] = b[i - Len(f)] /\ j - Len(f) \in DOMAIN b /\ names[j] = b[j - Len(f)]
    <3>1. i - Len(f) = j - Len(f)
      BY <2>2, <1>5
    <3> QED BY <3>1, <2>0
  <2>3. CASE i \in DOMAIN f /\ names[i] = f[i] /\ j - Len(f) \in DOMAIN b /\ names[j] = b[j - Len(f)]
    <3>1. f[i] <= r.scanned /\ f[i] \in Nat /\ b[j - Len(f)] > r.scanned /\ b[j - Len(f)] \in Nat
      BY <2>3, <1>7, <1>8
    <3>2. f[i] = b[j - Len(f)] /\ r.scanned \in Nat
      BY <2>3, <1>0
    <3> QED BY <3>1, <3>2
  <2>4. CASE j \in DOMAIN f /\ names[j] = f[j] /\ i - Len(f) \in DOMAIN b /\ names[i] = b[i - Len(f)]
    <3>1. f[j] <= r.scanned /\ f[j] \in Nat /\ b[i - Len(f)] > r.scanned /\ b[i - Len(f)] \in Nat
      BY <2>4, <1>7, <1>8
    <3>2. f[j] = b[i - Len(f)] /\ r.scanned \in Nat
      BY <2>4, <1>0
    <3> QED BY <3>1, <3>2
  <2>5. /\ \/ i \in DOMAIN f /\ names[i] = f[i]
           \/ i - Len(f) \in DOMAIN b /\ names[i] = b[i - Len(f)]
        /\ \/ j \in DOMAIN f /\ names[j] = f[j]
           \/ j - Len(f) \in DOMAIN b /\ names[j] = b[j - Len(f)]
    BY <1>11
  <2> QED BY ONLY <2>1, <2>2, <2>3, <2>4, <2>5
<1>14. \A k \in r.steady \cap keys : k \in RedisKeys /\ MatchesName(r.search, k) /\ (k <= to => k \in ToSet(names))
  <2> SUFFICES ASSUME NEW k \in r.steady \cap keys
               PROVE  k \in RedisKeys /\ MatchesName(r.search, k) /\ (k <= to => k \in ToSet(names))
    OBVIOUS
  <2>1. k \in RedisKeys /\ MatchesName(r.search, k) /\ (k <= r.scanned => k \in ToSet(f)) /\ k \in Nat
    BY <1>0 DEF ScanOK, f
  <2>2. ASSUME k <= r.scanned PROVE k \in ToSet(names)
    <3>1. PICK i \in DOMAIN f : f[i] = k
      BY <2>1, <2>2 DEF ToSet
    <3>2. i \in DOMAIN names /\ names[i] = k
      BY <3>1, <1>7, <1>9, <1>10, <1>5
    <3> QED BY <3>2 DEF ToSet
  <2>3. ASSUME k > r.scanned, k <= to PROVE k \in ToSet(names)
    <3>1. PICK i \in DOMAIN b : b[i] = k
      BY <1>4, <1>5, <2>3
    <3>2. i + Len(f) \in DOMAIN names /\ names[i + Len(f)] = k
      <4>1. i \in 1..Len(b) /\ Len(f) \in Nat /\ Len(b) \in Nat
        BY <3>1, <1>5, <1>7
      <4>2. i + Len(f) \in Len(f) + 1..Len(f) + Len(b) /\ (i + Len(f)) - Len(f) = i
        BY <4>1
      <4> QED BY <3>1, <4>1, <4>2, <1>9, <1>10
    <3> QED BY <3>2 DEF ToSet
  <2> QED BY <2>1, <2>2, <2>3, <1>0
<1> QED BY <1>9, <1>12, <1>13, <1>14 DEF NamesOK, names, b, f

\* listKeys: what the scan found is cut at the limit and searched once more.
LEMMA ListingIsOK ==
  ASSUME ListAssumption, NEW read, read.search \in Searches, NEW names,
         NamesOK(names, read.search, read.scanned, read.steady), read.scanned \in Nat,
         Len(names) >= KEY_LIMIT \/ read.scanned >= Cardinality(RedisKeys)
  PROVE  KeysOK(ListKeys(read, names), read.search) /\ ListKeys(read, names).path = << >>
<1> DEFINE first == FirstOf(names, KEY_LIMIT)
           shown == Matching(read.search, first)
           s == read.search
<1>1. ListKeys(read, names).items = shown /\ ListKeys(read, names).steady = read.steady
      /\ ListKeys(read, names).path = << >>
  BY DEF ListKeys, EmptyList
<1>2. /\ names \in Seq(RedisKeys) /\ KEY_LIMIT \in Nat /\ RedisKeys = 1..Cardinality(RedisKeys)
      /\ \A i \in DOMAIN names : MatchesPattern(s, names[i])
      /\ \A i, j \in DOMAIN names : names[i] = names[j] => i = j
      /\ Cardinality(RedisKeys) \in Nat
  BY FS_CardinalityType DEF ListAssumption, NamesOK
<1>3. /\ first \in Seq(RedisKeys) /\ Len(first) = IF Len(names) < KEY_LIMIT THEN Len(names) ELSE KEY_LIMIT
      /\ \A i \in DOMAIN first : i \in DOMAIN names /\ first[i] = names[i]
  BY <1>2, FirstOfIs
<1> HIDE DEF first
<1>4. \A i, j \in DOMAIN first : first[i] = first[j] => i = j
  BY <1>2, <1>3
<1>5. /\ shown \in Seq(RedisKeys) /\ Len(shown) <= Len(first)
      /\ \A k \in DOMAIN shown : MatchesName(s, shown[k])
      /\ \A i \in DOMAIN first : MatchesName(s, first[i]) => \E k \in DOMAIN shown : shown[k] = first[i]
      /\ \A k, l \in DOMAIN shown : shown[k] = shown[l] => k = l
      /\ (\A i \in DOMAIN first : MatchesName(s, first[i])) => Len(shown) = Len(first)
  <2>1. first \in Seq(RedisKeys) /\ shown = Matching(s, first)
    BY <1>3
  <2> HIDE DEF shown, s
  <2>2. /\ shown \in Seq(RedisKeys) /\ Len(shown) <= Len(first)
        /\ \A k \in DOMAIN shown : MatchesName(s, shown[k])
        /\ \A i \in DOMAIN first : MatchesName(s, first[i]) => \E k \in DOMAIN shown : shown[k] = first[i]
    BY <2>1, MatchingIs
  <2>3. \A k, l \in DOMAIN shown : shown[k] = shown[l] => k = l
    BY <2>1, <1>4, MatchingIs
  <2>4. (\A i \in DOMAIN first : MatchesName(s, first[i])) => Len(shown) = Len(first)
    BY <2>1, MatchingIs
  <2> QED BY <2>2, <2>3, <2>4
<1> HIDE DEF shown
<1>6. ASSUME Len(shown) < KEY_LIMIT, s # "word*" PROVE read.steady \subseteq ToSet(shown)
  <2>1. \A k : MatchesPattern(s, k) => MatchesName(s, k)
    BY <1>6 DEF MatchesPattern, MatchesName, Searches
  <2>2. \A i \in DOMAIN first : MatchesName(s, first[i])
    BY <2>1, <1>2, <1>3
  <2>3. Len(first) < KEY_LIMIT /\ Len(names) < KEY_LIMIT /\ Len(first) = Len(names)
    BY <2>2, <1>5, <1>6, <1>3, <1>2
  <2>4. read.scanned >= Cardinality(RedisKeys)
    BY <2>3, <1>2
  <2>5. \A i \in DOMAIN names : i \in DOMAIN first
    BY <2>3, <1>2, <1>3
  <2> SUFFICES ASSUME NEW k \in read.steady PROVE k \in ToSet(shown)
    OBVIOUS
  <2>6. k \in RedisKeys /\ MatchesName(s, k) /\ (k <= read.scanned => k \in ToSet(names))
    BY DEF NamesOK
  <2>7. k <= read.scanned
    BY <2>4, <2>6, <1>2
  <2>8. PICK i \in DOMAIN names : names[i] = k
    BY <2>6, <2>7 DEF ToSet
  <2>9. first[i] = k /\ i \in DOMAIN first
    BY <2>5, <2>8, <1>3
  <2>10. \E l \in DOMAIN shown : shown[l] = k
    BY <2>9, <2>6, <1>5
  <2> QED BY <2>10 DEF ToSet
<1> QED BY <1>1, <1>5, <1>6 DEF KeysOK

-----------------------------------------------------------------------------
(* The parts of a snapshot.                                                *)
LEMMA SnapshotIs ==
  ASSUME ListAssumption, SourceOK, NEW of \in DOMAIN snapshots
  PROVE  /\ snapshots[of] \in Seq(Documents) /\ Len(snapshots[of]) \in Nat
         /\ Len(snapshots[of]) <= Cardinality(Documents) /\ Cardinality(Documents) \in Nat
         /\ Chunks(snapshots[of]) \in Nat
         /\ \A k \in Nat : k < Chunks(snapshots[of]) <=> k * ChunkSize < Len(snapshots[of])
<1>1. /\ snapshots[of] \in Seq(Documents) /\ Len(snapshots[of]) <= Cardinality(Documents)
      /\ Cardinality(Documents) \in Nat /\ ChunkSize \in Nat \ {0}
  BY FS_CardinalityType DEF SourceOK, ListAssumption
<1>2. Len(snapshots[of]) \in Nat
  BY <1>1
<1> QED BY <1>1, <1>2, ChunksAre DEF Chunks

\* A chunk with nothing in it holds no match, and without a search every chunk is full.
LEMMA PartIs ==
  ASSUME ListAssumption, NEW D \in Seq(Documents), NEW search, NEW k \in Nat \ {0}
  PROVE  /\ PartAt(search, D, k) \in Seq(Documents)
         /\ (k - 1) * ChunkSize >= Len(D) => PartAt(search, D, k) = << >>
         /\ (k - 1) * ChunkSize < Len(D) /\ search = "" => PartAt(search, D, k) # << >>
<1> DEFINE from == (k - 1) * ChunkSize + 1
           to == IF k * ChunkSize < Len(D) THEN k * ChunkSize ELSE Len(D)
           part == SubSeq(D, from, to)
           m == Matching(search, part)
<1>1. /\ (k - 1) * ChunkSize \in Nat /\ k * ChunkSize \in Nat /\ k * ChunkSize = (k - 1) * ChunkSize + ChunkSize
      /\ ChunkSize \in Nat \ {0} /\ Len(D) \in Nat
  <2>1. ChunkSize \in Nat \ {0} /\ k - 1 \in Nat /\ 1 \in Nat /\ (k - 1) + 1 = k
    BY DEF ListAssumption
  <2>2. ((k - 1) + 1) * ChunkSize = (k - 1) * ChunkSize + 1 * ChunkSize /\ (k - 1) * ChunkSize \in Nat
    BY <2>1, Times
  <2> QED BY <2>1, <2>2
<1>2. from \in Nat /\ to \in Nat /\ from >= 1 /\ to <= Len(D)
  BY <1>1
<1>3. PartAt(search, D, k) = m
  BY DEF PartAt
<1>4. Len(D) > (k - 1) * ChunkSize => from <= to
  BY <1>1
<1>5. (k - 1) * ChunkSize >= Len(D) => from > to
  BY <1>1
<1> HIDE DEF from, to
<1>6. part \in Seq(Documents) /\ Len(part) = IF from <= to THEN to - from + 1 ELSE 0
  BY <1>2, SubSeqProperties
<1> HIDE DEF part
<1>7. m \in Seq(Documents) /\ Len(m) <= Len(part) /\ Len(m) \in Nat
      /\ ((\A i \in DOMAIN part : MatchesName(search, part[i])) => Len(m) = Len(part))
  BY <1>6, MatchingIs
<1> HIDE DEF m
<1>8. ASSUME (k - 1) * ChunkSize >= Len(D) PROVE m = << >>
  <2>1. Len(m) = 0
    BY <1>5, <1>6, <1>7, <1>8, <1>2
  <2> QED BY <2>1, <1>7, EmptySeq
<1>9. ASSUME (k - 1) * ChunkSize < Len(D), search = "" PROVE m # << >>
  <2>1. Len(m) # 0
    <3>1. \A i \in DOMAIN part : MatchesName(search, part[i])
      BY <1>9 DEF MatchesName
    <3>2. Len(part) > 0
      <4>1. from <= to
        BY <1>4, <1>9, <1>1
      <4>2. Len(part) = to - from + 1
        BY <4>1, <1>6
      <4> QED BY <4>1, <4>2, <1>2
    <3> QED BY <3>1, <3>2, <1>7
  <2> QED BY <2>1, EmptySeq
<1> QED BY <1>3, <1>7, <1>8, <1>9

\* Counting the full chunks.
LEMMA FullIs ==
  ASSUME NEW D, NEW search, NEW m \in Nat
  PROVE  /\ FullTo(search, D, m) \in SUBSET Nat /\ IsFiniteSet(FullTo(search, D, m))
         /\ Cardinality(FullTo(search, D, m)) \in Nat
         /\ FullTo(search, D, 0) = {} /\ Cardinality(FullTo(search, D, 0)) = 0
         /\ PartAt(search, D, m + 1) = << >> => FullTo(search, D, m + 1) = FullTo(search, D, m)
         /\ PartAt(search, D, m + 1) # << >> =>
              Cardinality(FullTo(search, D, m + 1)) = Cardinality(FullTo(search, D, m)) + 1
<1> DEFINE S == FullTo(search, D, m)
           T == FullTo(search, D, m + 1)
           next == m + 1
<1>1. S \in SUBSET (1..m) /\ S \in SUBSET Nat
  BY DEF FullTo
<1>2. IsFiniteSet(1..m)
  BY FirstNumbers
<1>3. PartAt(search, D, m + 1) = << >> => T = S
  BY DEF FullTo
<1>4. PartAt(search, D, m + 1) # << >> => T = S \cup {next} /\ next \notin S
  BY DEF FullTo
<1>5. FullTo(search, D, 0) = {}
  BY DEF FullTo
<1> HIDE DEF S, T, next
<1>6. IsFiniteSet(S) /\ Cardinality(S) \in Nat
  BY <1>1, <1>2, FS_Subset, FS_CardinalityType
<1>7. T = S \cup {next} /\ next \notin S => Cardinality(T) = Cardinality(S) + 1
  BY <1>6, FS_AddElement
<1>8. Cardinality({}) = 0
  BY FS_EmptySet
<1> QED BY <1>1, <1>3, <1>4, <1>5, <1>6, <1>7, <1>8 DEF S, T

\* The parts of a search are its full chunks, in order.
LEMMA PartsAre ==
  ASSUME ListAssumption, SourceOK, NEW of \in DOMAIN snapshots, NEW search
  PROVE  LET D == snapshots[of]
             parts == PartsOf(search, D)
         IN  /\ Len(parts) = Cardinality(FullTo(search, D, Chunks(D))) /\ DOMAIN parts = 1..Len(parts)
             /\ \A k \in FullTo(search, D, Chunks(D)) :
                  /\ Cardinality(FullTo(search, D, k)) \in DOMAIN parts
                  /\ parts[Cardinality(FullTo(search, D, k))] = PartAt(search, D, k)
<1> DEFINE D == snapshots[of]
           N == Chunks(D)
           all == [k \in 1..N |-> PartAt(search, D, k)]
           parts == PartsOf(search, D)
           S == FullTo(search, D, N)
<1>1. D \in Seq(Documents) /\ N \in Nat /\ \A k \in Nat : k < N <=> k * ChunkSize < Len(D)
  BY SnapshotIs
<1>2. parts = IF search = "" THEN all ELSE At(all, {k \in DOMAIN all : all[k] # << >>})
  BY DEF PartsOf, PartAt, Chunks
<1>3. S = {k \in 1..N : PartAt(search, D, k) # << >>} /\ S \in SUBSET (1..N)
  BY DEF FullTo
<1>4. {k \in DOMAIN all : all[k] # << >>} = S
  BY <1>3
<1>5. IsFiniteSet(S) /\ Cardinality(S) \in Nat /\ S \in SUBSET Nat
  BY <1>1, FullIs
<1>6. \A k \in 1..N : FullTo(search, D, k) = UpTo(S, k)
  <2> SUFFICES ASSUME NEW k \in 1..N PROVE FullTo(search, D, k) = UpTo(S, k)
    OBVIOUS
  <2> HIDE DEF N, D
  <2>1. k \in Nat /\ N \in Nat /\ \A j : j \in 1..k <=> j \in 1..N /\ j <= k
    BY <1>1
  <2> QED BY <2>1 DEF FullTo, UpTo
<1>7. all \in Seq(Seq(Documents)) /\ DOMAIN all = 1..N /\ Len(all) = N /\ \A k \in 1..N : all[k] = PartAt(search, D, k)
  <2>1. \A k \in 1..N : k \in Nat \ {0}
    BY <1>1
  <2>2. \A k \in 1..N : PartAt(search, D, k) \in Seq(Documents)
    BY <2>1, <1>1, PartIs
  <2> HIDE DEF D, N
  <2>3. all \in [1..N -> Seq(Documents)] /\ \A k \in 1..N : all[k] = PartAt(search, D, k)
    BY <2>2
  <2> HIDE DEF all
  <2> QED BY <2>3, <1>1
<1> HIDE DEF all, D, N, S, parts
<1>8. CASE search = ""
  <2>1. \A k \in 1..N : PartAt(search, D, k) # << >>
    <3> SUFFICES ASSUME NEW k \in 1..N PROVE PartAt(search, D, k) # << >>
      OBVIOUS
    <3>1. k \in Nat \ {0} /\ k - 1 \in Nat /\ k - 1 < N
      BY <1>1
    <3>2. (k - 1) * ChunkSize < Len(D)
      BY <3>1, <1>1
    <3> QED BY <3>1, <3>2, <1>1, <1>8, PartIs
  <2>2. S = 1..N
    BY <2>1, <1>3
  <2>3. Cardinality(S) = N
    BY <2>2, <1>1, FirstNumbers, Zenon
  <2>4. \A k \in 1..N : Cardinality(UpTo(S, k)) = k
    <3> SUFFICES ASSUME NEW k \in 1..N PROVE Cardinality(UpTo(S, k)) = k
      OBVIOUS
    <3>1. k \in Nat /\ UpTo(S, k) = 1..k
      BY <2>2, <1>1 DEF UpTo
    <3> QED BY <3>1, FirstNumbers, Zenon
  <2>5. parts = all
    BY <1>2, <1>8
  <2>6. \A k \in S : k \in 1..N /\ Cardinality(FullTo(search, D, k)) = k
    BY <2>2, <2>4, <1>6
  <2> QED BY <2>3, <2>5, <2>6, <1>7 DEF parts, D, S, N
<1>9. CASE search # ""
  <2>1. parts = At(all, S)
    BY <1>2, <1>4, <1>9
  <2>2. /\ Len(parts) = Cardinality(S) /\ DOMAIN parts = 1..Cardinality(S)
        /\ \A k \in 1..Cardinality(S) : parts[k] = all[Nth(S, k)]
    <3>1. S \in SUBSET DOMAIN all
      BY <1>3, <1>7
    <3> QED BY <3>1, <2>1, <1>7, AtIs
  <2>3. \A k \in S : Cardinality(UpTo(S, k)) \in 1..Cardinality(S) /\ Nth(S, Cardinality(UpTo(S, k))) = k
    <3> SUFFICES ASSUME NEW k \in S
                 PROVE  Cardinality(UpTo(S, k)) \in 1..Cardinality(S) /\ Nth(S, Cardinality(UpTo(S, k))) = k
      OBVIOUS
    <3> DEFINE c == Cardinality(UpTo(S, k))
    <3>1. c \in 1..Cardinality(S) /\ \A i, j \in S : Cardinality(UpTo(S, i)) = Cardinality(UpTo(S, j)) => i = j
      BY <1>5, Ranks
    <3>2. \E i \in S : Cardinality(UpTo(S, i)) = c
      OBVIOUS
    <3>3. Nth(S, c) = CHOOSE i \in S : Cardinality(UpTo(S, i)) = c
      BY DEF Nth, UpTo
    <3>4. Nth(S, c) \in S /\ Cardinality(UpTo(S, Nth(S, c))) = c
      BY <3>2, <3>3
    <3> QED BY <3>1, <3>4
  <2>4. \A k \in S : k \in 1..N /\ FullTo(search, D, k) = UpTo(S, k)
    BY <1>3, <1>6
  <2>5. \A k \in S : Cardinality(FullTo(search, D, k)) \in DOMAIN parts
                     /\ parts[Cardinality(FullTo(search, D, k))] = PartAt(search, D, k)
    BY <2>2, <2>3, <2>4, <1>7
  <2> QED BY <2>2, <2>5, <1>5 DEF parts, D, S, N
<1> QED BY <1>8, <1>9

-----------------------------------------------------------------------------
(* A page of a table.                                                      *)
\* The pages that a search reads in one request are as many as a table can have.
GuardSuffices == Cardinality(Documents) <= (SCAN_GUARD + 1) * ChunkSize

LEMMA GreatestExists ==
  ASSUME NEW n \in Nat, NEW S \in SUBSET (0..n), S # {}
  PROVE  Max(S) \in S /\ \A k \in S : k <= Max(S)
<1> DEFINE R == {n - k : k \in S}
<1>0. \A k \in S : n - k \in Nat
  OBVIOUS
<1>1. R \in SUBSET Nat /\ R # {}
  BY <1>0
<1> HIDE DEF R
<1>2. PICK c \in R : \A d \in R : c <= d
  BY <1>1, LeastExists
<1>3. PICK g \in S : c = n - g
  BY <1>2 DEF R
<1>4. \A k \in S : k <= g
  <2> SUFFICES ASSUME NEW k \in S PROVE k <= g
    OBVIOUS
  <2>1. n - g <= n - k
    BY <1>2, <1>3 DEF R
  <2>2. k \in Nat /\ g \in Nat /\ n \in Nat
    OBVIOUS
  <2> QED BY ONLY <2>1, <2>2
<1>5. \E x \in S : \A y \in S : x >= y
  BY <1>4
<1>6. Max(S) = CHOOSE x \in S : \A y \in S : x >= y
  BY DEF Max
<1> QED BY <1>5, <1>6

LEMMA ChunkIs ==
  ASSUME ListAssumption, SourceOK, NEW of \in DOMAIN snapshots, NEW search, NEW k \in Nat
  PROVE  /\ Matching(search, Chunk(of, k * ChunkSize)) = PartAt(search, snapshots[of], k + 1)
         /\ HasMore(of, k * ChunkSize) <=> k + 1 < Chunks(snapshots[of])
<1> DEFINE D == snapshots[of]
<1>1. D = snapshots[of]
  OBVIOUS
<1> HIDE DEF D
<1>2. (k + 1) * ChunkSize = k * ChunkSize + ChunkSize /\ k * ChunkSize \in Nat /\ (k + 1) - 1 = k
  <2>1. ChunkSize \in Nat \ {0} /\ 1 \in Nat
    BY DEF ListAssumption
  <2> QED BY <2>1, Times
<1>3. Chunk(of, k * ChunkSize) =
        SubSeq(D, k * ChunkSize + 1, IF (k + 1) * ChunkSize < Len(D) THEN (k + 1) * ChunkSize ELSE Len(D))
  BY <1>1, <1>2 DEF Chunk
<1>4. Matching(search, Chunk(of, k * ChunkSize)) = PartAt(search, D, k + 1)
  BY <1>2, <1>3, Zenon DEF PartAt
<1>5. HasMore(of, k * ChunkSize) <=> (k + 1) * ChunkSize < Len(D)
  BY <1>1, <1>2 DEF HasMore
<1>6. (k + 1 < Chunks(D)) <=> ((k + 1) * ChunkSize < Len(D))
  <2>1. k + 1 \in Nat
    OBVIOUS
  <2> QED BY <2>1, <1>1, SnapshotIs
<1> QED BY <1>1, <1>4, <1>5, <1>6

LEMMA DocumentsAre ==
  ASSUME ListAssumption, GuardSuffices, SourceOK, NEW of \in DOMAIN snapshots, NEW search, NEW cursor,
         of = (IF cursor = NoCursor THEN Len(snapshots) ELSE cursor.snapshot),
         NEW m \in Nat, cursor.at = m * ChunkSize, m < Chunks(snapshots[of]) \/ m = 0,
         NEW n \in Nat \ {0}, Cardinality(FullTo(search, snapshots[of], m)) = n - 1
  PROVE  /\ ShowsPart(ListDocuments(search, cursor), n, search, of)
         /\ ListDocuments(search, cursor).of = of /\ ListDocuments(search, cursor).path = Table
<1> DEFINE D == snapshots[of]
           C == ChunkSize
           NC == Chunks(D)
           part(k) == PartAt(search, D, k)
           full(k) == FullTo(search, D, k)
           IsRead(k) == k <= SCAN_GUARD /\ \A l \in 0..k - 1 :
                          Matching(search, Chunk(of, cursor.at + l * ChunkSize)) = << >>
                          /\ HasMore(of, cursor.at + l * ChunkSize)
           B == IF search = "" THEN 0 ELSE Cardinality(Documents)
           Ahead == {k \in 0..B : IsRead(k)}
           p == Max(Ahead)
           q == m + p
           at == cursor.at + p * ChunkSize
           a == ListDocuments(search, cursor)
<1>1. /\ D \in Seq(Documents) /\ Len(D) \in Nat /\ Len(D) <= Cardinality(Documents) /\ Cardinality(Documents) \in Nat
      /\ NC \in Nat /\ C \in Nat \ {0} /\ SCAN_GUARD \in Nat
      /\ \A k \in Nat : k < NC <=> k * C < Len(D)
  BY SnapshotIs DEF ListAssumption
<1>2. /\ a.path = Table /\ a.of = of
      /\ a.items = Matching(search, Chunk(of, at)) /\ a.more = HasMore(of, at)
      /\ a.next = IF HasMore(of, at) THEN [snapshot |-> of, at |-> at + ChunkSize] ELSE NoCursor
  BY DEF ListDocuments, EmptyList
<1>3. ASSUME NEW k \in Nat
      PROVE  /\ cursor.at + k * C = (m + k) * C
             /\ Matching(search, Chunk(of, cursor.at + k * C)) = part(m + k + 1)
             /\ HasMore(of, cursor.at + k * C) <=> m + k + 1 < NC
  <2> DEFINE j == m + k
  <2>1. cursor.at + k * C = j * C /\ j \in Nat
    <3>1. ChunkSize \in Nat \ {0}
      BY <1>1
    <3>2. (m + k) * ChunkSize = m * ChunkSize + k * ChunkSize
      BY <3>1, Times
    <3> QED BY <3>2
  <2> HIDE DEF j
  <2>2. /\ Matching(search, Chunk(of, j * ChunkSize)) = PartAt(search, snapshots[of], j + 1)
        /\ HasMore(of, j * ChunkSize) <=> j + 1 < Chunks(snapshots[of])
    BY <2>1, ChunkIs
  <2> QED BY <2>1, <2>2 DEF j
<1> HIDE DEF D, NC, C, a
<1>4. B \in Nat /\ Ahead \in SUBSET (0..B) /\ 0 \in Ahead
  <2>1. B \in Nat
    BY <1>1
  <2> HIDE DEF B
  <2>2. IsRead(0)
    BY <1>1
  <2> HIDE DEF IsRead
  <2> QED BY <2>1, <2>2
<1>5. p \in Ahead /\ \A k \in Ahead : k <= p
  <2> HIDE DEF Ahead, B
  <2> QED BY <1>4, GreatestExists
<1>6. p \in 0..B /\ IsRead(p)
  <2> HIDE DEF p, IsRead, B
  <2> QED BY <1>5
<1>7. \A k \in 0..B : IsRead(k) => k <= p
  <2> HIDE DEF p, IsRead, B
  <2> QED BY <1>5
<1> HIDE DEF Ahead, p
<1>8. p \in Nat /\ q \in Nat /\ m <= q
  <2> HIDE DEF B
  <2> QED BY <1>4, <1>6
<1>9. ASSUME NEW k \in Nat
      PROVE  IsRead(k) <=> k <= SCAN_GUARD /\ \A l \in 0..k - 1 : part(m + l + 1) = << >> /\ m + l + 1 < NC
  <2>1. \A l \in 0..k - 1 : l \in Nat
    OBVIOUS
  <2>2. \A l \in 0..k - 1 : (Matching(search, Chunk(of, cursor.at + l * ChunkSize)) = << >>
                               /\ HasMore(of, cursor.at + l * ChunkSize))
                             <=> (part(m + l + 1) = << >> /\ m + l + 1 < NC)
    BY <2>1, <1>3 DEF C
  <2> QED BY <2>2
<1> HIDE DEF IsRead
<1>a. \A l \in 0..p - 1 : part(m + l + 1) = << >> /\ m + l + 1 < NC
  BY <1>6, <1>8, <1>9
<1>b. /\ a.items = part(q + 1) /\ a.more = HasMore(of, at) /\ (HasMore(of, at) <=> q + 1 < NC)
      /\ at + ChunkSize = (q + 1) * C
  <2>1. at = q * C /\ Matching(search, Chunk(of, at)) = part(q + 1) /\ (HasMore(of, at) <=> q + 1 < NC)
    BY <1>3, <1>8 DEF C
  <2>2. (q + 1) * C = q * C + C
    <3>1. q \in Nat /\ 1 \in Nat /\ 1 * C = C
      BY <1>8, <1>1
    <3> QED BY <3>1, <1>1, Times
  <2> HIDE DEF at, q
  <2> QED BY <2>1, <2>2, <1>2 DEF C
<1> HIDE DEF at
\* The search read on as far as it could.
<1>c. part(q + 1) # << >> \/ q + 1 >= NC
  <2> SUFFICES ASSUME part(q + 1) = << >>, q + 1 < NC PROVE FALSE
    BY <1>1, <1>8
  <2>0. q + 1 \in Nat /\ q \in Nat /\ q < NC /\ p + 1 \in Nat /\ p + 1 <= q + 1
    BY <1>8, <1>1
  <2>1. (q + 1) * C < Len(D) /\ q * C < Len(D)
    BY <2>0, <1>1
  <2>2. (q + 1) * C >= q + 1 /\ (q + 1) * C \in Nat
    BY <2>0, <1>1, Times
  <2>3. search # ""
    <3>1. q + 1 \in Nat \ {0} /\ (q + 1) - 1 = q
      BY <1>8
    <3>2. D \in Seq(Documents) /\ ((q + 1) - 1) * ChunkSize < Len(D)
      BY <3>1, <2>1, <1>1 DEF C
    <3> HIDE DEF q
    <3> QED BY <3>1, <3>2, PartIs
  <2>4. p + 1 <= Cardinality(Documents)
    <3> DEFINE x == (q + 1) * C
    <3>1. x \in Nat /\ x >= q + 1 /\ x < Len(D)
      BY <2>1, <2>2
    <3> HIDE DEF x
    <3> QED BY <3>1, <2>0, <1>1
  <2>5. p + 1 <= SCAN_GUARD
    <3>1. (q + 1) * C < (SCAN_GUARD + 1) * C
      <4> DEFINE x == (q + 1) * C
                 y == (SCAN_GUARD + 1) * C
      <4>1. x \in Nat /\ x < Len(D) /\ y \in Nat /\ Cardinality(Documents) <= y
        BY <2>1, <2>2, <1>1 DEF GuardSuffices, C
      <4> HIDE DEF x, y
      <4>2. x < y
        BY <4>1, <1>1
      <4> QED BY <4>2 DEF x, y
    <3>2. SCAN_GUARD + 1 \in Nat
      BY <1>1
    <3>3. q + 1 < SCAN_GUARD + 1
      BY <3>1, <3>2, <2>0, <1>1, Times
    <3> QED BY <3>3, <2>0, <1>1
  <2>6. \A l \in 0..p : part(m + l + 1) = << >> /\ m + l + 1 < NC
    <3> SUFFICES ASSUME NEW l \in 0..p PROVE part(m + l + 1) = << >> /\ m + l + 1 < NC
      OBVIOUS
    <3>1. l \in 0..p - 1 \/ l = p
      BY <1>8
    <3> QED BY <3>1, <1>a
  <2>7. IsRead(p + 1)
    <3>1. (p + 1) - 1 = p
      BY <1>8
    <3> QED BY <3>1, <2>0, <2>5, <2>6, <1>9
  <2>8. p + 1 \in 0..B
    <3>1. B = Cardinality(Documents)
      BY <2>3
    <3> HIDE DEF B
    <3> QED BY <3>1, <2>4, <2>0, <1>1
  <2> HIDE DEF B
  <2>9. p + 1 <= p
    BY <2>7, <2>8, <1>7
  <2> QED BY <2>9, <1>8
<1>d. q <= NC
  <2>1. CASE p = 0
    <3>1. q = m /\ (m < NC \/ m = 0)
      BY <2>1 DEF NC, D
    <3> QED BY <3>1, <1>1
  <2>2. CASE p # 0
    <3>1. p - 1 \in 0..p - 1 /\ m + (p - 1) + 1 = q
      BY <2>2, <1>8
    <3>2. q < NC
      BY <3>1, <1>a
    <3> QED BY <3>2, <1>1, <1>8
  <2> QED BY <2>1, <2>2
<1> HIDE DEF B
<1>11. Cardinality(full(q)) = n - 1
  <2> DEFINE Same(l) == full(m + l) = full(m)
             T == {l \in 0..p : Same(l)}
  <2>1. T \in SUBSET (0..p) /\ 0 \in T
    BY <1>8
  <2>2. \A k \in 1..p : k - 1 \in T => k \in T
    <3> SUFFICES ASSUME NEW k \in 1..p, full(m + (k - 1)) = full(m) PROVE full(m + k) = full(m)
      OBVIOUS
    <3> DEFINE j == m + (k - 1)
    <3>1. j \in Nat /\ j + 1 = m + k /\ k - 1 \in 0..p - 1 /\ m + (k - 1) + 1 = j + 1
      BY <1>8
    <3>2. part(j + 1) = << >>
      BY <3>1, <1>a
    <3> HIDE DEF j
    <3>3. full(j + 1) = full(j)
      BY <3>1, <3>2, FullIs
    <3> QED BY <3>1, <3>3 DEF j
  <2> HIDE DEF T
  <2>3. T = 0..p
    BY <2>1, <2>2, <1>8, InductionTo
  <2>4. p \in T
    BY <2>3, <1>8
  <2>5. full(q) = full(m)
    BY <2>4 DEF T, q
  <2>6. Cardinality(full(m)) = n - 1
    BY DEF D
  <2> QED BY <2>5, <2>6
<1> DEFINE parts == PartsOf(search, D)
<1>12. /\ Len(parts) = Cardinality(full(NC)) /\ DOMAIN parts = 1..Len(parts)
       /\ \A k \in full(NC) : Cardinality(full(k)) \in DOMAIN parts /\ parts[Cardinality(full(k))] = part(k)
  BY PartsAre DEF D, NC
<1> HIDE DEF q, parts
<1>13. CASE part(q + 1) # << >>
  <2>1. Cardinality(full(q + 1)) = n
    <3>1. Cardinality(full(q + 1)) = Cardinality(full(q)) + 1
      BY <1>13, <1>8, FullIs DEF q
    <3> QED BY <3>1, <1>11
  <2>2. q + 1 <= NC
    <3>1. q + 1 \in Nat \ {0} /\ (q + 1) - 1 = q /\ q \in Nat
      BY <1>8 DEF q
    <3>2. ~ (q * C >= Len(D))
      <4> DEFINE k == q + 1
      <4>1. k \in Nat \ {0} /\ k - 1 = q /\ D \in Seq(Documents) /\ part(k) # << >>
        BY <3>1, <1>13, <1>1
      <4> HIDE DEF k
      <4>2. (k - 1) * ChunkSize >= Len(D) => part(k) = << >>
        BY <4>1, PartIs
      <4> QED BY <4>1, <4>2 DEF C
    <3>3. q * C \in Nat
      BY <3>1, <1>1
    <3>4. q < NC
      BY <3>1, <3>2, <3>3, <1>1
    <3> QED BY <3>1, <3>4, <1>1
  <2>3. q + 1 \in full(NC)
    BY <2>2, <1>13, <1>1, <1>8 DEF FullTo, q
  <2>4. n \in DOMAIN parts /\ parts[n] = part(q + 1)
    BY <2>1, <2>3, <1>12
  <2>5. a.more \/ n >= Len(parts)
    <3>1. CASE q + 1 < NC
      BY <3>1, <1>b
    <3>2. CASE q + 1 = NC
      BY <3>2, <2>1, <1>12
    <3> QED BY <3>1, <3>2, <2>2, <1>1, <1>8
  <2>6. a.more => Leads(a.next, n + 1, search, of)
    <3> SUFFICES ASSUME a.more PROVE Leads(a.next, n + 1, search, of)
      OBVIOUS
    <3>1. q + 1 < NC /\ HasMore(of, at)
      BY <1>b
    <3>2. a.next = [snapshot |-> of, at |-> at + ChunkSize]
      BY <3>1, <1>2
    <3>3. a.next.snapshot = of /\ a.next.at = (q + 1) * C
      BY <3>2, <1>b
    <3>4. q + 1 \in 1..NC /\ (n + 1) - 1 = n
      BY <3>1, <1>1, <1>8 DEF q
    <3> QED BY <3>1, <3>3, <3>4, <2>1 DEF Leads, D, NC, C
  <2>7. ~a.more => a.next = NoCursor
    BY <1>2, <1>b
  <2>8. a.items = parts[n]
    BY <2>4, <1>b
  <2> QED BY <2>4, <2>5, <2>6, <2>7, <2>8, <1>2 DEF ShowsPart, parts, a, D
<1>14. CASE part(q + 1) = << >>
  <2>1. q + 1 >= NC
    BY <1>c, <1>14
  <2>2. Cardinality(full(NC)) = n - 1
    <3>1. q \in Nat /\ (NC = q \/ NC = q + 1)
      BY <2>1, <1>d, <1>1, <1>8 DEF q
    <3>2. CASE NC = q
      BY <3>2, <1>11
    <3>3. CASE NC = q + 1
      <4>1. full(q + 1) = full(q)
        BY <3>1, <1>14, FullIs
      <4> QED BY <4>1, <3>3, <1>11
    <3> QED BY <3>1, <3>2, <3>3
  <2>3. n \notin DOMAIN parts /\ n >= Len(parts)
    <3> DEFINE c == Len(parts)
    <3>1. c = n - 1 /\ DOMAIN parts = 1..c
      BY <2>2, <1>12
    <3> HIDE DEF c
    <3>2. n \notin 1..c /\ n >= c
      BY ONLY <3>1, n \in Nat \ {0}
    <3> QED BY <3>1, <3>2 DEF c
  <2>4. ~a.more
    <3>1. q \in Nat /\ NC \in Nat
      BY <1>1, <1>8 DEF q
    <3>2. ~(q + 1 < NC)
      BY ONLY <2>1, <3>1
    <3> QED BY <3>2, <1>b
  <2>5. a.items = << >> /\ a.next = NoCursor
    BY <2>4, <1>b, <1>14, <1>2
  <2> QED BY <2>3, <2>4, <2>5, <1>2 DEF ShowsPart, parts, a, D
<1> QED BY <1>13, <1>14

-----------------------------------------------------------------------------
(* What the steps do to the requests.                                      *)
LEMMA PagesAreNumbers == ASSUME ListAssumption PROVE MaxPages \in Nat \ {0}
BY FS_CardinalityType DEF ListAssumption, MaxPages

LEMMA AskedIs ==
  ASSUME ListAssumption, NEW path, IsPath(path), NEW search \in Searches, NEW n \in 1..MaxPages, NEW cursor
  PROVE  LET r == Load(path, search, n, cursor) IN
         /\ LoadOK(r) /\ r.answer = << >>
         /\ r.path = path /\ r.search = search /\ r.page = n /\ r.cursor = cursor
<1> DEFINE r == Load(path, search, n, cursor)
<1>1. /\ DOMAIN r = LoadParts /\ r.answer = << >>
      /\ r.path = path /\ r.search = search /\ r.page = n /\ r.cursor = cursor
      /\ r.scanned = 0 /\ r.keys = << >> /\ r.steady = {k \in RedisKeys : MatchesName(search, k)}
  BY DEF Load, LoadParts
<1> HIDE DEF r
<1>2. \A k \in RedisKeys : k \in Nat /\ k >= 1
  BY FS_CardinalityType DEF ListAssumption
<1>3. r.keys \in Seq(RedisKeys) /\ DOMAIN r.keys = {}
  BY <1>1
<1>4. ScanOK(r)
  BY <1>1, <1>2, <1>3 DEF ScanOK
<1> QED BY <1>1, <1>4 DEF LoadOK, r

\* A cursor and a page stay what they are while the snapshot is the same.
LEMMA SnapshotsStay ==
  ASSUME NEW of, snapshots'[of] = snapshots[of], NEW c, NEW n, NEW search, NEW a
  PROVE  /\ Leads(c, n, search, of)' <=> Leads(c, n, search, of)
         /\ ShowsPart(a, n, search, of)' <=> ShowsPart(a, n, search, of)
<1>1. \A d, k : Leads(d, k, search, of)' <=> Leads(d, k, search, of)
  BY DEF Leads
<1> QED BY <1>1 DEF ShowsPart

\* A load the user started is of the page's listing, if it goes on with one.
Starts1(r) ==
  /\ asked' = asked \cup {r} /\ isLoadingList' = TRUE
  /\ LoadOK(r) /\ r.answer = << >>
  /\ browsed' = browsed /\ UNCHANGED sourceDataVars
  /\ shownList' = shownList /\ currentSearch' = currentSearch /\ firstSnapshot' = firstSnapshot
  /\ IsPath(currentPath') /\ page' \in 1..MaxPages
  /\ DOMAIN cursorStack' = 1..MaxPages + 1 /\ cursorStack'[1] = NoCursor
  /\ undisturbed' => asked = {}
  /\ undisturbed' /\ browsed = "convex" => Begins(r) \/ (GoesOn(r) /\ UNCHANGED <<currentPath, cursorStack>>)

LEMMA StartedIs ==
  ASSUME ListAssumption, ListInv, NEW path, NEW search, NEW n, NEW cursor,
         IsPath(path), search \in Searches, n \in 1..MaxPages,
         ListActs, Asks(Load(path, search, n, cursor)), IsPath(currentPath'),
         page' \in 1..MaxPages, DOMAIN cursorStack' = 1..MaxPages + 1, cursorStack'[1] = NoCursor,
         undisturbed' => asked = {},
         undisturbed' /\ browsed = "convex" =>
           \/ n = 1 /\ cursor = NoCursor
           \/ /\ n > 1 /\ Len(path) = 1 /\ search = currentSearch /\ firstSnapshot \in DOMAIN snapshots
              /\ Leads(cursor, n, currentSearch, firstSnapshot)
              /\ \A k \in 2..n : Leads(cursorStack[k], k, currentSearch, firstSnapshot)
              /\ UNCHANGED <<currentPath, cursorStack>>
  PROVE  \E r : Starts1(r)
<1> DEFINE r == Load(path, search, n, cursor)
<1>1. /\ LoadOK(r) /\ r.answer = << >>
      /\ r.path = path /\ r.search = search /\ r.page = n /\ r.cursor = cursor
  BY AskedIs
<1> HIDE DEF r
<1>2. asked' = asked \cup {r} /\ isLoadingList' = TRUE
  BY DEF Asks, r
<1>3. /\ browsed' = browsed /\ UNCHANGED sourceDataVars
      /\ shownList' = shownList /\ currentSearch' = currentSearch /\ firstSnapshot' = firstSnapshot
  BY DEF ListActs
<1>4. ASSUME undisturbed', browsed = "convex"
      PROVE  Begins(r) \/ (GoesOn(r) /\ UNCHANGED <<currentPath, cursorStack>>)
  BY <1>1, <1>4 DEF Begins, GoesOn
<1> QED BY <1>1, <1>2, <1>3, <1>4 DEF Starts1

LEMMA UserStarts ==
  ASSUME ListAssumption, ListInv, ListUser
  PROVE  \E r : Starts1(r)
<1>0. /\ IsPath(currentPath) /\ currentSearch \in Searches /\ MaxPages \in Nat \ {0}
      /\ page \in 1..MaxPages /\ DOMAIN cursorStack = 1..MaxPages + 1 /\ cursorStack[1] = NoCursor
      /\ 1 \in 1..MaxPages /\ page \in Nat /\ page >= 1 /\ page <= MaxPages
  <2>1. /\ IsPath(currentPath) /\ currentSearch \in Searches
        /\ page \in 1..MaxPages /\ DOMAIN cursorStack = 1..MaxPages + 1 /\ cursorStack[1] = NoCursor
    BY DEF ListInv, PageOK
  <2>2. MaxPages \in Nat \ {0}
    BY PagesAreNumbers
  <2>3. 1 \in 1..MaxPages
    BY <2>2
  <2>4. page \in Nat /\ page >= 1 /\ page <= MaxPages
    BY <2>1, <2>2
  <2> QED BY <2>1, <2>2, <2>3, <2>4
<1>s. "" \in Searches
  BY Zenon DEF Searches
<1>1. IsPath(<< >>) /\ \A k : IsPath(<<k>>)
  <2>1. << >> \in Seq({}) /\ Len(<< >>) <= 2
    OBVIOUS
  <2>2. ASSUME NEW k PROVE <<k>> \in Seq({k}) /\ Len(<<k>>) <= 2
    OBVIOUS
  <2> QED BY <2>1, <2>2 DEF IsPath
<1>2. ASSUME NEW path, IsPath(path), NEW search \in Searches, LoadRedisData(path, search), IsPath(currentPath')
      PROVE  \E r : Starts1(r)
  <2> DEFINE s == IF path = << >> THEN search ELSE ""
  <2>1. s \in Searches
    BY <1>s, Zenon
  <2>2. /\ browsed = "redis" /\ ListActs /\ Asks(Load(path, s, 1, NoCursor))
        /\ page' = page /\ cursorStack' = cursorStack /\ (undisturbed' => asked = {})
    BY <1>2 DEF LoadRedisData, Undisturbed, Steady
  <2> HIDE DEF s
  <2> QED BY <2>1, <2>2, <1>0, <1>2, StartedIs
<1>3. ASSUME NEW path, IsPath(path), NEW search \in Searches, Restart(path, search)
      PROVE  \E r : Starts1(r)
  <2>1. /\ ListActs /\ Asks(Load(path, search, 1, NoCursor)) /\ currentPath' = currentPath
        /\ page' = 1 /\ cursorStack' = FirstCursor /\ (undisturbed' => asked = {})
    BY <1>3 DEF Restart, LoadConvexData, ResetPaging, Undisturbed
  <2>2. DOMAIN cursorStack' = 1..MaxPages + 1 /\ cursorStack'[1] = NoCursor
    <3>1. 1 \in 1..MaxPages + 1
      BY <1>0
    <3> DEFINE N == MaxPages + 1
    <3> HIDE DEF N
    <3>2. DOMAIN [n \in 1..N |-> NoCursor] = 1..N /\ (1 \in 1..N => [n \in 1..N |-> NoCursor][1] = NoCursor)
      OBVIOUS
    <3> QED BY <2>1, <3>1, <3>2 DEF FirstCursor, N
  <2>3. IsPath(currentPath') /\ page' \in 1..MaxPages
    BY <2>1, <1>0
  <2> QED BY <2>1, <2>2, <2>3, <1>0, <1>3, StartedIs
<1>4. ASSUME NEW n \in 1..MaxPages, Turn(n),
             n = 1 \/ n \in 1..page \/ (n = page + 1 /\ IsTable /\ shownList.more),
             IsTable \/ n = page
      PROVE  \E r : Starts1(r)
  <2> DEFINE c == cursorStack[n]
  <2>1. /\ browsed = "convex" /\ ListActs /\ Asks(Load(currentPath, currentSearch, n, c)) /\ currentPath' = currentPath
        /\ page' = page /\ cursorStack' = cursorStack /\ (undisturbed' => undisturbed /\ asked = {})
    BY <1>4 DEF Turn, LoadConvexData, Steady, Undisturbed
  <2>2. n \in Nat /\ page \in Nat /\ n >= 1
    <3>1. MaxPages \in Nat /\ page \in Nat
      BY <1>0
    <3> QED BY <3>1
  <2>3. ASSUME undisturbed'
        PROVE  \/ n = 1 /\ c = NoCursor
               \/ /\ n > 1 /\ Len(currentPath) = 1 /\ firstSnapshot \in DOMAIN snapshots
                  /\ Leads(c, n, currentSearch, firstSnapshot)
                  /\ \A k \in 2..n : Leads(cursorStack[k], k, currentSearch, firstSnapshot)
    <3>1. CASE n = 1
      BY <3>1, <1>0
    <3>2. CASE n # 1
      <4>1. n > 1
        BY <3>2, <2>2
      <4>2. undisturbed /\ asked = {} /\ browsed = "convex"
        BY <2>1, <2>3
      <4>3. Len(currentPath) = 1
        <5>1. Len(currentPath) # 1 => page = 1
          BY <4>2 DEF ListInv
        <5> QED BY <5>1, <1>4, <3>2 DEF IsTable
      <4>4. TableOK
        BY <4>2, <4>3 DEF ListInv
      <4>5. n \in 2..page \/ (n = page + 1 /\ shownList.more)
        BY <1>4, <4>1, <2>2
      <4>6. \A k \in 2..n : k \in 2..page \/ (k = page + 1 /\ shownList.more)
        BY <4>5, <2>2
      <4>7. \A k \in 2..n : Leads(cursorStack[k], k, currentSearch, firstSnapshot)
        BY <4>4, <4>6 DEF TableOK
      <4>8. n \in 2..n
        BY <4>1, <2>2
      <4> QED BY <4>1, <4>3, <4>4, <4>7, <4>8 DEF TableOK
    <3> QED BY <3>1, <3>2
  <2> HIDE DEF c
  <2> QED BY <2>1, <2>3, <1>0, StartedIs
<1>5. ASSUME NEW x, Len(currentPath) < 2 PROVE IsPath(Append(currentPath, x))
  <2>1. PICK S : currentPath \in Seq(S)
    BY <1>0 DEF IsPath
  <2>2. currentPath \in Seq(S \cup {x}) /\ x \in S \cup {x}
    BY <2>1, SeqMonotonic
  <2>3. Append(currentPath, x) \in Seq(S \cup {x}) /\ Len(Append(currentPath, x)) = Len(currentPath) + 1
        /\ Len(currentPath) \in Nat
    BY <2>2
  <2> QED BY <2>3, <1>5 DEF IsPath
<1>6. CASE RefreshKeys
  BY <1>0, <1>2, <1>6 DEF RefreshKeys
<1>7. CASE GoToRoot
  BY <1>0, <1>1, <1>2, <1>7 DEF GoToRoot
<1>8. ASSUME NEW search \in Searches, ApplyKeySearch(search) PROVE \E r : Starts1(r)
  BY <1>1, <1>2, <1>8 DEF ApplyKeySearch
<1>9. ASSUME NEW search \in Searches, SearchTable(search) PROVE \E r : Starts1(r)
  BY <1>0, <1>3, <1>9 DEF SearchTable
<1>a. ASSUME NEW k, OpenKey(k) PROVE \E r : Starts1(r)
  BY <1>0, <1>1, <1>2, <1>s, <1>a, Zenon DEF OpenKey
<1>b. ASSUME NEW x, OpenRow(Append(currentPath, x)) PROVE \E r : Starts1(r)
  BY <1>0, <1>3, <1>5, <1>s, <1>b, Zenon DEF OpenRow
<1>c. CASE RefreshPage
  <2>1. page \in 1..page
    BY <1>0
  <2>2. Turn(page)
    BY <1>c DEF RefreshPage
  <2> QED BY <2>1, <2>2, <1>0, <1>4
<1>d. CASE GoBack
  BY <1>0, <1>1, <1>3, <1>s, <1>d, Zenon DEF GoBack
<1>e. CASE GoToPreviousPage
  <2>1. Turn(page - 1) /\ page > 1 /\ IsTable
    BY <1>e DEF GoToPreviousPage
  <2>2. page - 1 \in 1..MaxPages /\ page - 1 \in 1..page
    BY <1>0, <2>1
  <2> QED BY <2>1, <2>2, <1>4
<1>f. CASE GoToNextPage
  <2>1. Turn(page + 1) /\ page < MaxPages /\ IsTable /\ shownList.more
    BY <1>f DEF GoToNextPage
  <2>2. page + 1 \in 1..MaxPages
    BY <1>0, <2>1
  <2> QED BY <2>1, <2>2, <1>4
<1> QED BY <1>6, <1>7, <1>8, <1>9, <1>a, <1>b, <1>c, <1>d, <1>e, <1>f DEF ListUser

-----------------------------------------------------------------------------
(* What the steps preserve.                                                *)
LEMMA StartsKeep ==
  ASSUME ListInv, NEW r, Starts1(r)
  PROVE  ListInv'
<1>1. /\ asked' = asked \cup {r} /\ LoadOK(r) /\ r.answer = << >>
      /\ browsed' = browsed /\ keys' = keys /\ snapshots' = snapshots
      /\ currentSearch' = currentSearch /\ firstSnapshot' = firstSnapshot
      /\ IsPath(currentPath') /\ page' \in 1..MaxPages
      /\ DOMAIN cursorStack' = 1..MaxPages + 1 /\ cursorStack'[1] = NoCursor
      /\ undisturbed' => asked = {}
      /\ undisturbed' /\ browsed = "convex" => Begins(r) \/ (GoesOn(r) /\ cursorStack' = cursorStack)
  BY DEF Starts1, sourceDataVars
<1>2. /\ browsed \in {"redis", "convex"} /\ SourceOK /\ currentSearch \in Searches
      /\ \A q \in asked : LoadOK(q)
  BY DEF ListInv, PageOK
<1>3. r \in asked' /\ asked' # {} /\ (undisturbed' => asked' = {r})
  BY <1>1
<1>4. SourceOK'
  BY <1>1, <1>2 DEF SourceOK
<1>5. PageOK'
  BY <1>1, <1>2, <1>3 DEF PageOK
<1>6. \A q \in asked' : LoadOK(q)'
  BY <1>1, <1>2 DEF LoadOK
<1>7. ASSUME undisturbed', browsed' = "convex"
      PROVE  /\ \A q, s \in asked' : q = s
             /\ \A q \in asked' : Begins(q)' \/ GoesOn(q)'
  <2>1. asked' = {r}
    BY <1>3, <1>7
  <2>2. CASE Begins(r)
    <3>1. Begins(r)'
      BY <2>2, <1>1 DEF Begins
    <3> QED BY <3>1, <2>1
  <2>3. CASE GoesOn(r) /\ cursorStack' = cursorStack
    <3>1. \A c, n, search, of : Leads(c, n, search, of)' <=> Leads(c, n, search, of)
      BY <1>1 DEF Leads
    <3>2. GoesOn(r)'
      BY <2>3, <1>1, <3>1 DEF GoesOn
    <3> QED BY <3>2, <2>1
  <2> QED BY <2>1, <2>2, <2>3, <1>1, <1>7
<1> QED BY <1>1, <1>2, <1>3, <1>4, <1>5, <1>6, <1>7 DEF ListInv

\* A request is served further, and becomes the next one.
Serves(r, next) ==
  /\ r \in asked /\ Becomes(r, next)
  /\ UNCHANGED <<browsed, sourceDataVars, listViewVars, undisturbed, firstSnapshot>>
  /\ LoadOK(next)
  /\ browsed = "convex" /\ (Begins(r) \/ GoesOn(r)) => Begins(next) \/ GoesOn(next)

LEMMA ServesKeep ==
  ASSUME ListInv, NEW r, NEW next, Serves(r, next)
  PROVE  ListInv'
<1>1. /\ r \in asked /\ asked' = (asked \ {r}) \cup {next} /\ LoadOK(next)
      /\ browsed' = browsed /\ keys' = keys /\ snapshots' = snapshots
      /\ currentSearch' = currentSearch /\ firstSnapshot' = firstSnapshot /\ currentPath' = currentPath
      /\ page' = page /\ cursorStack' = cursorStack /\ undisturbed' = undisturbed
      /\ browsed = "convex" /\ (Begins(r) \/ GoesOn(r)) => Begins(next) \/ GoesOn(next)
  BY DEF Serves, Becomes, sourceDataVars, listViewVars
<1>2. /\ browsed \in {"redis", "convex"} /\ SourceOK /\ PageOK
      /\ \A q \in asked : LoadOK(q)
  BY DEF ListInv
<1>3. asked' # {}
  BY <1>1
<1>4. SourceOK'
  BY <1>1, <1>2 DEF SourceOK
<1>5. PageOK'
  BY <1>1, <1>2, <1>3 DEF PageOK
<1>6. \A q \in asked' : LoadOK(q)'
  BY <1>1, <1>2 DEF LoadOK
<1>7. ASSUME undisturbed', browsed' = "convex"
      PROVE  /\ \A q, s \in asked' : q = s
             /\ \A q \in asked' : Begins(q)' \/ GoesOn(q)'
  <2>1. /\ \A q, s \in asked : q = s
        /\ \A q \in asked : Begins(q) \/ GoesOn(q)
    BY <1>1, <1>7 DEF ListInv
  <2>2. asked' = {next}
    BY <2>1, <1>1
  <2>3. Begins(next) \/ GoesOn(next)
    BY <2>1, <1>1, <1>7
  <2>4. /\ \A c, n, search, of : Leads(c, n, search, of)' <=> Leads(c, n, search, of)
        /\ \A a, n, search, of : ShowsPart(a, n, search, of)' <=> ShowsPart(a, n, search, of)
    <3>1. \A c, n, search, of : Leads(c, n, search, of)' <=> Leads(c, n, search, of)
      BY <1>1 DEF Leads
    <3> QED BY <1>1, <3>1 DEF ShowsPart
  <2>5. CASE Begins(next)
    <3>1. Begins(next)'
      BY <2>4, <2>5, <1>1 DEF Begins
    <3> QED BY <3>1, <2>2
  <2>6. CASE GoesOn(next)
    <3>1. GoesOn(next)'
      BY <2>4, <2>6, <1>1 DEF GoesOn
    <3> QED BY <3>1, <2>2
  <2> QED BY <2>2, <2>3, <2>5, <2>6
<1> QED BY <1>1, <1>2, <1>3, <1>4, <1>5, <1>6, <1>7 DEF ListInv

LEMMA ScanServes ==
  ASSUME ListAssumption, ListInv, NEW r \in asked, NEW to \in RedisKeys, ScanBatch(r, to)
  PROVE  \E next : Serves(r, next)
<1> DEFINE b == BatchOf(r, to)
           names == r.keys \o b
           read == [r EXCEPT !.scanned = to, !.steady = @ \cap keys]
           listed == ListKeys(read, names)
           over == [read EXCEPT !.answer = << listed >>]
           on == [read EXCEPT !.keys = names]
           next == IF ScanIsOver(read, b) THEN over ELSE on
<1>1. /\ browsed = "redis" /\ OnServer(r) /\ r.path = << >> /\ r.scanned < to
      /\ asked' = (asked \ {r}) \cup {IF ScanIsOver(read, b) THEN [read EXCEPT !.answer = <<ListKeys(read, read.keys \o b)>>]
                                      ELSE [read EXCEPT !.keys = @ \o b]}
  BY DEF ScanBatch, Becomes, BatchOf
<1> HIDE DEF b
<1>2. /\ LoadOK(r) /\ DOMAIN r = LoadParts /\ r.answer = << >> /\ Len(r.path) = 0 /\ SourceOK
      /\ IsPath(r.path) /\ r.page \in 1..MaxPages /\ r.search \in Searches
  BY <1>1 DEF ListInv, LoadOK, OnServer
<1>3. ScanOK(r)
  BY <1>1, <1>2 DEF LoadOK
<1>4. NamesOK(names, r.search, to, r.steady \cap keys)
  BY <1>1, <1>2, <1>3, BatchIs DEF b
<1> HIDE DEF names
<1>5. /\ DOMAIN read = LoadParts /\ read.path = r.path /\ read.page = r.page /\ read.search = r.search
      /\ read.keys = r.keys /\ read.scanned = to /\ read.steady = r.steady \cap keys /\ read.answer = << >>
  BY <1>2 DEF LoadParts
<1>6. asked' = (asked \ {r}) \cup {next}
  BY <1>1, <1>5 DEF names
<1> HIDE DEF read, listed
<1>7. /\ DOMAIN over = LoadParts /\ over.path = r.path /\ over.page = r.page /\ over.search = r.search
      /\ over.answer = << listed >>
      /\ DOMAIN on = LoadParts /\ on.path = r.path /\ on.page = r.page /\ on.search = r.search
      /\ on.keys = names /\ on.scanned = to /\ on.steady = r.steady \cap keys /\ on.answer = << >>
  BY <1>5 DEF LoadParts
<1> HIDE DEF over, on
<1>8. to \in Nat
  BY FS_CardinalityType DEF ListAssumption
<1>9. CASE ScanIsOver(read, b)
  <2>1. Len(names) >= KEY_LIMIT \/ read.scanned >= Cardinality(RedisKeys)
    BY <1>5, <1>9 DEF ScanIsOver, names
  <2>2. KeysOK(listed, r.search) /\ listed.path = << >>
    BY <2>1, <1>2, <1>4, <1>5, <1>8, ListingIsOK DEF listed
  <2>3. over.answer # << >> /\ over.answer[1] = listed
    BY <1>7
  <2>4. LoadOK(over)
    BY <2>2, <2>3, <1>1, <1>2, <1>7 DEF LoadOK
  <2>5. next = over
    BY <1>9
  <2> QED BY <2>4, <2>5, <1>1, <1>6 DEF Serves, Becomes, OnServer
<1>10. CASE ~ScanIsOver(read, b)
  <2>1. ScanOK(on)
    BY <1>2, <1>4, <1>7, <1>8 DEF ScanOK, NamesOK
  <2>2. LoadOK(on)
    BY <2>1, <1>1, <1>2, <1>7 DEF LoadOK
  <2>3. next = on
    BY <1>10
  <2> QED BY <2>2, <2>3, <1>1, <1>6 DEF Serves, Becomes, OnServer
<1> QED BY <1>9, <1>10

LEMMA ReadServes ==
  ASSUME ListAssumption, GuardSuffices, ListInv, NEW r \in asked, ReadKey(r) \/ ReadConvex(r)
  PROVE  \E next : Serves(r, next)
<1> DEFINE of == IF r.cursor = NoCursor THEN Len(snapshots) ELSE r.cursor.snapshot
           WithAnswer(a) == [r EXCEPT !.answer = << a >>]
<1>1. /\ LoadOK(r) /\ DOMAIN r = LoadParts /\ r.answer = << >> /\ OnServer(r)
      /\ IsPath(r.path) /\ r.page \in 1..MaxPages /\ r.search \in Searches
      /\ browsed = "redis" /\ Len(r.path) = 0 => ScanOK(r)
  BY DEF ListInv, LoadOK, OnServer, ReadKey, ReadConvex
<1>2. ASSUME NEW a
      PROVE  /\ DOMAIN WithAnswer(a) = LoadParts /\ WithAnswer(a).path = r.path /\ WithAnswer(a).page = r.page
             /\ WithAnswer(a).search = r.search /\ WithAnswer(a).cursor = r.cursor
             /\ WithAnswer(a).answer # << >> /\ WithAnswer(a).answer[1] = a
  BY <1>1 DEF LoadParts
<1> HIDE DEF WithAnswer
<1>3. /\ Len(r.path) \in Nat /\ Len(r.path) <= 2 /\ (r.path = << >> <=> Len(r.path) = 0)
  <2>1. PICK S : r.path \in Seq(S)
    BY <1>1 DEF IsPath
  <2> QED BY <2>1, <1>1, EmptySeq DEF IsPath
<1>0. \A x : IsPath(<<x>>) /\ Len(<<x>>) = 1
  <2> SUFFICES ASSUME NEW x PROVE IsPath(<<x>>) /\ Len(<<x>>) = 1
    OBVIOUS
  <2>1. <<x>> \in Seq({x}) /\ Len(<<x>>) = 1 /\ Len(<<x>>) <= 2
    OBVIOUS
  <2> QED BY <2>1, Zenon DEF IsPath
<1>4. CASE ReadKey(r)
  <2> DEFINE a == GetKey(r.path[1])
  <2>1. /\ browsed = "redis" /\ r.path # << >> /\ Becomes(r, WithAnswer(a))
    BY <1>4 DEF ReadKey, WithAnswer
  <2>2. a.path = <<r.path[1]>>
    BY DEF GetKey, EmptyList
  <2>3. IsPath(a.path) /\ Len(a.path) = 1
    BY <1>0, <2>2, Zenon
  <2> HIDE DEF a
  <2>4. LoadOK(WithAnswer(a))
    <3> DEFINE n == WithAnswer(a)
    <3>1. /\ DOMAIN n = LoadParts /\ n.path = r.path /\ n.page = r.page /\ n.search = r.search
          /\ n.answer # << >> /\ n.answer[1] = a
      BY <1>2
    <3> HIDE DEF n
    <3>2. IsPath(n.answer[1].path) /\ (Len(n.answer[1].path) = 0 <=> Len(n.path) = 0)
      BY <3>1, <2>1, <2>3, <1>3
    <3>3. ~(browsed = "convex") /\ ~(Len(n.path) = 0)
      BY <3>1, <2>1, <1>3
    <3>4. LoadOK(n)
      BY <3>1, <3>2, <3>3, <1>1 DEF LoadOK
    <3> QED BY <3>4 DEF n
  <2> QED BY <2>1, <2>4, <1>1 DEF Serves, OnServer
<1>5. CASE ReadConvex(r)
  <2>1. browsed = "convex"
    BY <1>5 DEF ReadConvex
  <2>2. ASSUME NEW a, Becomes(r, WithAnswer(a)), IsPath(a.path), Len(a.path) = Len(r.path),
               Len(r.path) # 1 => a.next = NoCursor,
               Len(r.path) = 1 /\ Begins(r) => a.of \in DOMAIN snapshots /\ ShowsPart(a, 1, r.search, a.of),
               GoesOn(r) => ShowsPart(a, r.page, currentSearch, firstSnapshot)
        PROVE  \E next : Serves(r, next)
    <3>1. LoadOK(WithAnswer(a))
      BY <2>1, <2>2, <1>1, <1>2, <1>3 DEF LoadOK
    <3>2. Begins(r) => Begins(WithAnswer(a))
      BY <2>2, <1>2 DEF Begins
    <3>3. GoesOn(r) => GoesOn(WithAnswer(a))
      BY <2>2, <1>2 DEF GoesOn
    <3> QED BY <2>2, <3>1, <3>2, <3>3, <1>1 DEF Serves, OnServer
  <2>3. CASE r.path = << >>
    <3> DEFINE a == ListTables(r.search)
    <3>1. Becomes(r, WithAnswer(a))
      BY <2>3, <1>5 DEF ReadConvex, WithAnswer
    <3>2. a.path = << >> /\ a.next = NoCursor
      BY DEF ListTables, EmptyList
    <3> HIDE DEF a
    <3>3. GoesOn(r) => FALSE
      BY <2>3, <1>3 DEF GoesOn
    <3> QED BY <2>2, <2>3, <3>1, <3>2, <3>3, <1>1, <1>3
  <2>4. CASE Len(r.path) = 2
    <3> DEFINE a == GetDocument(r.path)
    <3>1. Becomes(r, WithAnswer(a))
      BY <2>4, <1>3, <1>5 DEF ReadConvex, WithAnswer
    <3>2. a.path = r.path /\ a.next = NoCursor
      BY DEF GetDocument, EmptyList
    <3> HIDE DEF a
    <3>3. GoesOn(r) => FALSE
      BY <2>4 DEF GoesOn
    <3> QED BY <2>2, <2>4, <3>1, <3>2, <3>3, <1>1, <1>3
  <2>5. CASE Len(r.path) = 1
    <3> DEFINE a == ListDocuments(r.search, r.cursor)
    <3>1. Becomes(r, WithAnswer(a))
      BY <2>5, <1>3, <1>5 DEF ReadConvex, WithAnswer
    <3>2. a.path = Table /\ a.of = of
      BY DEF ListDocuments, EmptyList
    <3>3. IsPath(Table) /\ Len(Table) = 1
      BY <1>0, Zenon DEF Table
    <3>4. SourceOK /\ Len(snapshots) \in DOMAIN snapshots /\ \A i \in DOMAIN snapshots : i \in Nat /\ i # 0
      BY DEF ListInv, SourceOK
    <3>5. ChunkSize \in Nat \ {0}
      BY DEF ListAssumption
    <3>6. ASSUME Begins(r) PROVE a.of \in DOMAIN snapshots /\ ShowsPart(a, 1, r.search, a.of)
      <4>1. r.cursor = NoCursor /\ of = Len(snapshots) /\ of \in DOMAIN snapshots
        BY <3>4, <3>6 DEF Begins
      <4> HIDE DEF of
      <4>2. r.cursor.at = 0 * ChunkSize /\ 0 \in Nat
        BY <4>1, <3>5 DEF NoCursor
      <4>3. Cardinality(FullTo(r.search, snapshots[of], 0)) = 1 - 1 /\ 1 \in Nat \ {0}
        BY FullIs
      <4>4. ShowsPart(a, 1, r.search, of)
        BY <4>1, <4>2, <4>3, <3>4, DocumentsAre
      <4> QED BY <4>1, <4>4, <3>2 DEF of
    <3>7. ASSUME GoesOn(r) PROVE ShowsPart(a, r.page, currentSearch, firstSnapshot)
      <4>1. /\ r.search = currentSearch /\ firstSnapshot \in DOMAIN snapshots /\ r.page > 1
            /\ r.cursor.snapshot = firstSnapshot
        BY <3>7 DEF GoesOn, Leads
      <4>2. PICK m \in 1..Chunks(snapshots[firstSnapshot]) :
              /\ m < Chunks(snapshots[firstSnapshot]) /\ r.cursor.at = m * ChunkSize
              /\ Cardinality(FullTo(currentSearch, snapshots[firstSnapshot], m)) = r.page - 1
        BY <3>7 DEF GoesOn, Leads
      <4>3. m \in Nat /\ r.page \in Nat \ {0}
        <5>1. Chunks(snapshots[firstSnapshot]) \in Nat /\ MaxPages \in Nat
          BY <4>1, <3>4, SnapshotIs, PagesAreNumbers
        <5> QED BY <5>1, <1>1
      <4>4. r.cursor # NoCursor
        BY <4>1, <3>4 DEF NoCursor
      <4>5. of = firstSnapshot
        BY <4>1, <4>4
      <4> HIDE DEF of
      <4>6. firstSnapshot = (IF r.cursor = NoCursor THEN Len(snapshots) ELSE r.cursor.snapshot)
        BY <4>5 DEF of
      <4> HIDE DEF a
      <4>7. ShowsPart(ListDocuments(currentSearch, r.cursor), r.page, currentSearch, firstSnapshot)
        BY <4>1, <4>2, <4>3, <4>6, <3>4, DocumentsAre
      <4> QED BY <4>1, <4>7 DEF a
    <3> HIDE DEF a, of
    <3>8. IsPath(a.path) /\ Len(a.path) = Len(r.path) /\ (Len(r.path) # 1 => a.next = NoCursor)
      BY <2>5, <3>2, <3>3
    <3> QED BY <2>2, <3>1, <3>6, <3>7, <3>8
  <2>6. Len(r.path) = 0 \/ Len(r.path) = 1 \/ Len(r.path) = 2
    <3> DEFINE l == Len(r.path)
    <3>1. l \in Nat /\ l <= 2
      BY <1>3
    <3> HIDE DEF l
    <3>2. l = 0 \/ l = 1 \/ l = 2
      BY ONLY <3>1
    <3> QED BY <3>2 DEF l
  <2> HIDE DEF of
  <2> QED BY <2>3, <2>4, <2>5, <2>6, <1>3
<1> QED BY <1>4, <1>5

LEMMA ChangeKeyKeeps ==
  ASSUME ListAssumption, ListInv, NEW k \in RedisKeys, ChangeKey(k)
  PROVE  ListInv'
<1> DEFINE Less(r) == [r EXCEPT !.steady = @ \cap keys']
<1>1. /\ browsed = "redis" /\ browsed' = browsed /\ snapshots' = snapshots
      /\ keys' = (IF k \in keys THEN keys \ {k} ELSE keys \cup {k})
      /\ asked' = {Less(r) : r \in asked}
      /\ shownList' = shownList /\ currentSearch' = currentSearch /\ currentPath' = currentPath
      /\ page' = page /\ cursorStack' = cursorStack /\ undisturbed' = undisturbed
      /\ isLoadingList' = isLoadingList
  BY DEF ChangeKey, Outside, listViewVars
<1>2. SourceOK /\ PageOK /\ \A r \in asked : LoadOK(r)
  BY DEF ListInv
<1>3. \A q \in asked' : LoadOK(q)'
  <2> SUFFICES ASSUME NEW q \in asked' PROVE LoadOK(q)'
    OBVIOUS
  <2>0. PICK r \in asked : q = Less(r)
    BY <1>1
  <2>1. LoadOK(r) /\ DOMAIN r = LoadParts
    BY <1>2 DEF LoadOK
  <2>2. /\ DOMAIN q = LoadParts /\ q.path = r.path /\ q.page = r.page /\ q.search = r.search
        /\ q.keys = r.keys /\ q.scanned = r.scanned /\ q.steady = r.steady \cap keys' /\ q.answer = r.answer
    BY <2>0, <2>1 DEF LoadParts
  <2>3. ScanOK(r) => ScanOK(q)
    BY <2>2 DEF ScanOK
  <2>4. LoadOK(q)
    BY <2>1, <2>2, <2>3, <1>1 DEF LoadOK
  <2> QED BY <2>4, <1>1 DEF LoadOK
<1>4. (asked' = {} <=> asked = {}) /\ \A r \in asked' : LoadOK(r)'
  BY <1>1, <1>3
<1> HIDE DEF Less
<1>5. SourceOK'
  BY <1>1, <1>2 DEF SourceOK
<1>6. PageOK'
  BY <1>1, <1>2, <1>4 DEF PageOK
<1>7. /\ browsed' = "redis"
      /\ undisturbed' /\ asked' = {} /\ browsed' = "redis" /\ Len(currentPath') = 0 => KeysOK(shownList', currentSearch')
  BY <1>1, <1>4 DEF ListInv
<1> QED BY <1>4, <1>5, <1>6, <1>7 DEF ListInv

\* The documents of a table, as the source lists them.
LEMMA ListedIs ==
  ASSUME ListAssumption, NEW S \in SUBSET Documents
  PROVE  InOrder(S) \in Seq(Documents) /\ Len(InOrder(S)) <= Cardinality(Documents)
<1>1. IsFiniteSet(S) /\ Cardinality(S) <= Cardinality(Documents) /\ S \in SUBSET Nat
  BY FS_Subset DEF ListAssumption
<1>2. InOrder(S) \in Seq(S) /\ Len(InOrder(S)) = Cardinality(S)
  BY <1>1, InOrderIs
<1>3. InOrder(S) \in Seq(Documents)
  BY <1>2, SeqMonotonic
<1> QED BY <1>1, <1>2, <1>3

LEMMA ChangeDocumentKeeps ==
  ASSUME ListAssumption, ListInv, NEW d \in Documents, ChangeDocument(d)
  PROVE  ListInv'
<1> DEFINE now == ToSet(Last(snapshots))
           S == IF d \in now THEN now \ {d} ELSE now \cup {d}
           list == InOrder(S)
<1>1. /\ browsed = "convex" /\ browsed' = browsed /\ keys' = keys /\ asked' = asked
      /\ snapshots' = Append(snapshots, list) /\ firstSnapshot' = firstSnapshot
      /\ shownList' = shownList /\ currentSearch' = currentSearch /\ currentPath' = currentPath
      /\ page' = page /\ cursorStack' = cursorStack /\ undisturbed' = undisturbed
      /\ isLoadingList' = isLoadingList
  BY DEF ChangeDocument, Outside, listViewVars
<1>2. SourceOK /\ PageOK /\ (\A r \in asked : LoadOK(r))
      /\ keys \subseteq RedisKeys /\ snapshots \in Seq(Seq(Documents)) /\ Len(snapshots) > 0
      /\ \A i \in DOMAIN snapshots : Len(snapshots[i]) <= Cardinality(Documents)
  BY DEF ListInv, SourceOK
<1>3. S \in SUBSET Documents
  <2>1. Last(snapshots) \in Seq(Documents)
    BY <1>2 DEF Last
  <2>2. now \in SUBSET Documents
    BY <2>1 DEF ToSet
  <2> QED BY <2>2
<1> HIDE DEF S
<1>4. list \in Seq(Documents) /\ Len(list) <= Cardinality(Documents)
  BY <1>3, ListedIs
<1> HIDE DEF list
<1>5. /\ snapshots' \in Seq(Seq(Documents)) /\ Len(snapshots') = Len(snapshots) + 1
      /\ DOMAIN snapshots' = 1..Len(snapshots) + 1 /\ DOMAIN snapshots = 1..Len(snapshots) /\ Len(snapshots) \in Nat
      /\ \A i \in 1..Len(snapshots) : snapshots'[i] = snapshots[i]
      /\ snapshots'[Len(snapshots) + 1] = list
  BY <1>1, <1>2, <1>4
<1>6. /\ \A i \in DOMAIN snapshots : i \in DOMAIN snapshots' /\ snapshots'[i] = snapshots[i]
      /\ Len(snapshots') > 0
      /\ \A i \in DOMAIN snapshots' : i \in DOMAIN snapshots \/ i = Len(snapshots) + 1
  BY <1>5
<1>7. SourceOK'
  <2>1. \A i \in DOMAIN snapshots' : Len(snapshots'[i]) <= Cardinality(Documents)
    BY <1>2, <1>4, <1>5, <1>6
  <2> QED BY <2>1, <1>1, <1>2, <1>5, <1>6 DEF SourceOK
<1>8. PageOK'
  BY <1>1, <1>2 DEF PageOK
<1>9. \A r \in asked' : LoadOK(r)'
  BY <1>1, <1>2 DEF LoadOK
<1>10. /\ \A of \in DOMAIN snapshots : \A c, n, search : Leads(c, n, search, of)' <=> Leads(c, n, search, of)
       /\ \A of \in DOMAIN snapshots : \A a, n, search : ShowsPart(a, n, search, of)' <=> ShowsPart(a, n, search, of)
  BY <1>6, SnapshotsStay
<1>11. ASSUME undisturbed'
       PROVE  /\ \A q, s \in asked' : q = s
              /\ \A q \in asked' : Begins(q)' \/ GoesOn(q)'
              /\ asked' = {} => IF Len(currentPath') = 1 THEN TableOK' ELSE page' = 1
  <2>1. /\ \A q, s \in asked : q = s
        /\ \A q \in asked : Begins(q) \/ GoesOn(q)
        /\ asked = {} => IF Len(currentPath) = 1 THEN TableOK ELSE page = 1
    BY <1>1, <1>11 DEF ListInv
  <2>2. ASSUME NEW q, Begins(q) PROVE Begins(q)'
    BY <2>2, <1>6, <1>10 DEF Begins
  <2>3. ASSUME NEW q, GoesOn(q) PROVE GoesOn(q)'
    BY <2>3, <1>1, <1>6, <1>10 DEF GoesOn
  <2>4. TableOK => TableOK'
    BY <1>1, <1>6, <1>10 DEF TableOK
  <2> QED BY <2>1, <2>2, <2>3, <2>4, <1>1
<1> QED BY <1>1, <1>7, <1>8, <1>9, <1>11 DEF ListInv

LEMMA FailsKeep ==
  ASSUME ListInv, NEW r \in asked, ListFails(r)
  PROVE  ListInv'
<1>1. /\ asked' = asked \ {r} /\ isLoadingList' = FALSE /\ undisturbed' = FALSE
      /\ browsed' = browsed /\ keys' = keys /\ snapshots' = snapshots
      /\ currentSearch' = currentSearch /\ currentPath' = currentPath
      /\ page' = page /\ cursorStack' = cursorStack
  BY DEF ListFails, ListEnds, sourceDataVars
<1>2. browsed \in {"redis", "convex"} /\ SourceOK /\ PageOK /\ \A q \in asked : LoadOK(q)
  BY DEF ListInv
<1>3. SourceOK'
  BY <1>1, <1>2 DEF SourceOK
<1>4. PageOK'
  BY <1>1, <1>2 DEF PageOK
<1>5. \A q \in asked' : LoadOK(q)'
  BY <1>1, <1>2 DEF LoadOK
<1> QED BY <1>1, <1>2, <1>3, <1>4, <1>5 DEF ListInv

\* What is shown keeps the stack of cursors whole.
LEMMA StackIs ==
  ASSUME PageOK, ListAssumption, NEW r, r.page \in 1..MaxPages, ShowPage(r)
  PROVE  /\ DOMAIN cursorStack' = 1..MaxPages + 1 /\ cursorStack'[1] = NoCursor
         /\ \A n \in 2..r.page : cursorStack'[n] = cursorStack[n]
         /\ r.answer[1].next # NoCursor => cursorStack'[r.page + 1] = r.answer[1].next
<1> DEFINE N == MaxPages
           p == r.page
           x == r.answer[1].next
<1>1. /\ DOMAIN cursorStack = 1..N + 1 /\ cursorStack[1] = NoCursor /\ p \in 1..N
      /\ cursorStack' = IF x # NoCursor THEN [cursorStack EXCEPT ![p + 1] = x]
                        ELSE [n \in DOMAIN cursorStack |-> IF n <= p THEN cursorStack[n] ELSE NoCursor]
  BY DEF PageOK, ShowPage, PlaceAfter
<1>2. N \in Nat /\ N >= 1
  BY PagesAreNumbers
<1> HIDE DEF N, p, x
<1>3. p + 1 \in 1..N + 1 /\ p \in Nat /\ p >= 1 /\ 1 \in 1..N + 1 /\ \A n \in 2..p : n \in 1..N + 1 /\ n # p + 1 /\ n <= p
  BY <1>1, <1>2
<1>4. CASE x # NoCursor
  <2>1. cursorStack' = [cursorStack EXCEPT ![p + 1] = x]
    BY <1>1, <1>4
  <2>2. /\ DOMAIN cursorStack' = 1..N + 1 /\ cursorStack'[p + 1] = x
        /\ \A n \in 1..N + 1 : n # p + 1 => cursorStack'[n] = cursorStack[n]
    BY <2>1, <1>1, <1>3
  <2>3. 1 # p + 1
    BY <1>3
  <2> QED BY <2>2, <2>3, <1>1, <1>3 DEF N, p, x
<1>5. CASE x = NoCursor
  <2>1. cursorStack' = [n \in DOMAIN cursorStack |-> IF n <= p THEN cursorStack[n] ELSE NoCursor]
    BY <1>1, <1>5
  <2>2. /\ DOMAIN cursorStack' = 1..N + 1
        /\ \A n \in 1..N + 1 : n <= p => cursorStack'[n] = cursorStack[n]
    BY <2>1, <1>1
  <2> QED BY <2>2, <1>1, <1>3, <1>5 DEF N, p, x
<1> QED BY <1>4, <1>5

LEMMA AnswerKeeps ==
  ASSUME ListAssumption, ListInv, NEW r \in asked, ListAnswer(r)
  PROVE  ListInv'
<1> DEFINE a == r.answer[1]
<1>1. /\ r.answer # << >> /\ asked' = asked \ {r} /\ isLoadingList' = FALSE
      /\ browsed' = browsed /\ keys' = keys /\ snapshots' = snapshots /\ undisturbed' = undisturbed
      /\ shownList' = a /\ currentPath' = a.path
      /\ (browsed = "redis" /\ ShowKeys(r)) \/ (browsed = "convex" /\ ShowPage(r))
  BY DEF ListAnswer, ListEnds, sourceDataVars
<1>2. browsed \in {"redis", "convex"} /\ SourceOK /\ PageOK /\ \A q \in asked : LoadOK(q)
  BY DEF ListInv
<1>3. /\ r.page \in 1..MaxPages /\ r.search \in Searches
      /\ IsPath(r.path) /\ IsPath(a.path) /\ (Len(a.path) = 0 <=> Len(r.path) = 0)
      /\ browsed = "convex" => Len(a.path) = Len(r.path)
      /\ browsed = "redis" /\ Len(r.path) = 0 => KeysOK(a, r.search)
  BY <1>1, <1>2 DEF LoadOK
<1> HIDE DEF a
<1>4. SourceOK'
  BY <1>1, <1>2 DEF SourceOK
<1>5. \A q \in asked' : LoadOK(q)'
  BY <1>1, <1>2 DEF LoadOK
<1>6. Len(r.path) = 0 => r.path = << >>
  BY <1>3, EmptySeq DEF IsPath
<1>7. CASE browsed = "redis" /\ ShowKeys(r)
  <2>1. /\ currentSearch' = IF r.path = << >> THEN r.search ELSE currentSearch
        /\ page' = page /\ cursorStack' = cursorStack
    BY <1>7 DEF ShowKeys
  <2>2. PageOK'
    BY <2>1, <1>1, <1>2, <1>3 DEF PageOK
  <2>3. Len(currentPath') = 0 => KeysOK(shownList', currentSearch')
    BY <2>1, <1>1, <1>3, <1>6, <1>7
  <2> QED BY <2>2, <2>3, <1>1, <1>2, <1>4, <1>5, <1>7 DEF ListInv
<1>8. CASE browsed = "convex" /\ ShowPage(r)
  <2>1. /\ page' = r.page
        /\ currentSearch' = IF r.page = 1 THEN r.search ELSE currentSearch
        /\ firstSnapshot' = IF r.page = 1 THEN a.of ELSE firstSnapshot
    BY <1>8 DEF ShowPage, a
  <2>2. /\ DOMAIN cursorStack' = 1..MaxPages + 1 /\ cursorStack'[1] = NoCursor
        /\ \A n \in 2..r.page : cursorStack'[n] = cursorStack[n]
        /\ a.next # NoCursor => cursorStack'[r.page + 1] = a.next
    BY <1>2, <1>3, <1>8, StackIs DEF a
  <2>3. PageOK'
    BY <2>1, <2>2, <1>1, <1>2, <1>3 DEF PageOK
  <2>4. /\ \A c, n, search, of : Leads(c, n, search, of)' <=> Leads(c, n, search, of)
        /\ \A c, n, search, of : ShowsPart(c, n, search, of)' <=> ShowsPart(c, n, search, of)
    <3>1. \A c, n, search, of : Leads(c, n, search, of)' <=> Leads(c, n, search, of)
      BY <1>1 DEF Leads
    <3> QED BY <1>1, <3>1 DEF ShowsPart
  <2>5. \A i \in DOMAIN snapshots : i # 0
    BY <1>2 DEF SourceOK
  <2>6. ASSUME NEW of \in DOMAIN snapshots, NEW search, ShowsPart(a, r.page, search, of)
        PROVE  a.more => Leads(cursorStack'[r.page + 1], r.page + 1, search, of)
    <3>1. a.more => Leads(a.next, r.page + 1, search, of)
      BY <2>6 DEF ShowsPart
    <3>2. Leads(a.next, r.page + 1, search, of) => a.next # NoCursor
      BY <2>5 DEF Leads, NoCursor
    <3> QED BY <3>1, <3>2, <2>2
  <2>7. ASSUME undisturbed', asked' = {}
        PROVE  IF Len(currentPath') = 1 THEN TableOK' ELSE page' = 1
    <3>1. Begins(r) \/ GoesOn(r)
      BY <2>7, <1>1, <1>8 DEF ListInv
    <3>2. CASE Begins(r)
      <4>1. r.page = 1
        BY <3>2 DEF Begins
      <4>2. CASE Len(r.path) = 1
        <5>1. a.of \in DOMAIN snapshots /\ ShowsPart(a, 1, r.search, a.of)
          BY <3>2, <4>2, <1>1 DEF Begins, a
        <5>2. \A n \in 2..page' : FALSE
          BY <4>1, <2>1
        <5>3. a.more => Leads(cursorStack'[page' + 1], page' + 1, r.search, a.of)
          BY <5>1, <4>1, <2>1, <2>6
        <5>4. TableOK'
          BY <5>1, <5>2, <5>3, <4>1, <2>1, <2>4, <1>1 DEF TableOK
        <5> QED BY <5>4, <4>2, <1>1, <1>3, <1>8
      <4>3. CASE Len(r.path) # 1
        BY <4>1, <4>3, <2>1, <1>1, <1>3, <1>8
      <4> QED BY <4>2, <4>3
    <3>3. CASE GoesOn(r)
      <4>1. /\ r.page > 1 /\ Len(r.path) = 1 /\ firstSnapshot \in DOMAIN snapshots
            /\ \A n \in 2..r.page : Leads(cursorStack[n], n, currentSearch, firstSnapshot)
            /\ ShowsPart(a, r.page, currentSearch, firstSnapshot)
        BY <3>3, <1>1 DEF GoesOn, a
      <4>2. r.page # 1
        <5>1. r.page \in Nat
          BY <1>3, PagesAreNumbers
        <5> QED BY <5>1, <4>1
      <4>3. currentSearch' = currentSearch /\ firstSnapshot' = firstSnapshot /\ page' = r.page
        BY <4>2, <2>1
      <4>4. a.more => Leads(cursorStack'[r.page + 1], r.page + 1, currentSearch, firstSnapshot)
        BY <4>1, <2>6
      <4>5. \A n \in 2..r.page : Leads(cursorStack'[n], n, currentSearch, firstSnapshot)
        BY <4>1, <2>2
      <4>6. TableOK'
        BY <4>1, <4>3, <4>4, <4>5, <2>4, <1>1 DEF TableOK
      <4> QED BY <4>1, <4>6, <1>1, <1>3, <1>8
    <3> QED BY <3>1, <3>2, <3>3
  <2>8. undisturbed' => (\A q, s \in asked' : q = s) /\ asked' = {}
    BY <1>1, <1>8 DEF ListInv
  <2> QED BY <2>3, <2>7, <2>8, <1>1, <1>2, <1>4, <1>5, <1>8 DEF ListInv
<1> QED BY <1>1, <1>7, <1>8

LEMMA ListStep ==
  ASSUME ListAssumption, GuardSuffices, ListInv, ListNext
  PROVE  ListInv'
<1>1. CASE ListUser
  BY <1>1, UserStarts, StartsKeep
<1>2. ASSUME NEW r \in asked, ReadKey(r) \/ ReadConvex(r) PROVE ListInv'
  BY <1>2, ReadServes, ServesKeep
<1>3. ASSUME NEW r \in asked, NEW to \in RedisKeys, ScanBatch(r, to) PROVE ListInv'
  BY <1>3, ScanServes, ServesKeep
<1>4. ASSUME NEW r \in asked, ListAnswer(r) PROVE ListInv'
  BY <1>4, AnswerKeeps
<1>5. ASSUME NEW r \in asked, ListFails(r) PROVE ListInv'
  BY <1>5, FailsKeep
<1>6. ASSUME NEW k \in RedisKeys, ChangeKey(k) PROVE ListInv'
  BY <1>6, ChangeKeyKeeps
<1>7. ASSUME NEW d \in Documents, ChangeDocument(d) PROVE ListInv'
  BY <1>7, ChangeDocumentKeeps
<1> QED BY <1>1, <1>2, <1>3, <1>4, <1>5, <1>6, <1>7 DEF ListNext

LEMMA ListStill ==
  ASSUME ListInv, UNCHANGED listVars
  PROVE  ListInv'
<1>1. UNCHANGED <<browsed, keys, snapshots, shownList, currentPath, currentSearch, page, cursorStack,
                  isLoadingList, asked, undisturbed, firstSnapshot>>
  BY DEF listVars, sourceDataVars, listViewVars
<1>2. \A c, n, search, of : Leads(c, n, search, of)' <=> Leads(c, n, search, of)
  BY <1>1 DEF Leads
<1>3. \A a, n, search, of : ShowsPart(a, n, search, of)' <=> ShowsPart(a, n, search, of)
  BY <1>1, <1>2 DEF ShowsPart
<1>4. (SourceOK' <=> SourceOK) /\ (PageOK' <=> PageOK) /\ (TableOK' <=> TableOK)
  BY <1>1, <1>2, <1>3 DEF SourceOK, PageOK, TableOK
<1>5. \A r : (LoadOK(r)' <=> LoadOK(r)) /\ (Begins(r)' <=> Begins(r)) /\ (GoesOn(r)' <=> GoesOn(r))
  BY <1>1, <1>2, <1>3 DEF LoadOK, Begins, GoesOn
<1> QED BY <1>1, <1>4, <1>5 DEF ListInv

LEMMA ListInitInv ==
  ASSUME ListAssumption, ListInit
  PROVE  ListInv
<1> DEFINE r == Load(currentPath, "", 1, NoCursor)
<1>1. /\ browsed \in {"redis", "convex"} /\ keys = RedisKeys /\ snapshots = <<InOrder(Documents)>>
      /\ currentSearch = "" /\ page = 1 /\ cursorStack = FirstCursor /\ asked = {r}
      /\ currentPath \in IF browsed = "redis" THEN {<< >>, <<1>>} ELSE {<< >>, Table, Append(Table, 1)}
  BY DEF ListInit
<1>2. IsPath(<< >>) /\ \A x : IsPath(<<x>>)
  <2>1. << >> \in Seq({}) /\ Len(<< >>) <= 2
    OBVIOUS
  <2>2. ASSUME NEW x PROVE <<x>> \in Seq({x}) /\ Len(<<x>>) <= 2
    OBVIOUS
  <2> QED BY <2>1, <2>2 DEF IsPath
<1>3. ASSUME NEW x PROVE IsPath(Append(<<x>>, 1))
  <2>1. <<x>> \in Seq({x, 1}) /\ 1 \in {x, 1} /\ Len(<<x>>) = 1
    OBVIOUS
  <2>2. Append(<<x>>, 1) \in Seq({x, 1}) /\ Len(Append(<<x>>, 1)) <= 2
    BY <2>1
  <2> QED BY <2>2 DEF IsPath
<1>4. IsPath(currentPath)
  BY <1>1, <1>2, <1>3, Zenon DEF Table
<1>5. "" \in Searches
  BY Zenon DEF Searches
<1>6. MaxPages \in Nat \ {0} /\ 1 \in 1..MaxPages /\ 1 \in 1..MaxPages + 1
  BY PagesAreNumbers
<1>7. LoadOK(r) /\ r.answer = << >> /\ r.page = 1 /\ r.cursor = NoCursor
  <2> DEFINE s == ""
  <2>1. s \in Searches /\ r = Load(currentPath, s, 1, NoCursor)
    BY <1>5, Zenon
  <2> HIDE DEF s, r
  <2> QED BY <2>1, <1>4, <1>6, AskedIs
<1> HIDE DEF r
<1>8. SourceOK
  <2> DEFINE D == InOrder(Documents)
  <2>1. D \in Seq(Documents) /\ Len(D) <= Cardinality(Documents)
    BY ListedIs
  <2>2. snapshots = <<D>>
    BY <1>1
  <2> HIDE DEF D
  <2>3. /\ snapshots \in Seq(Seq(Documents)) /\ Len(snapshots) > 0
        /\ DOMAIN snapshots = {1} /\ snapshots[1] = D
    BY <2>1, <2>2
  <2>4. \A i \in DOMAIN snapshots : Len(snapshots[i]) <= Cardinality(Documents)
    BY <2>1, <2>3
  <2> QED BY <2>3, <2>4, <1>1 DEF SourceOK
<1>9. PageOK
  <2> DEFINE N == MaxPages + 1
  <2>1. cursorStack = [n \in 1..N |-> NoCursor] /\ 1 \in 1..N
    BY <1>1, <1>6 DEF FirstCursor
  <2> HIDE DEF N
  <2>2. DOMAIN cursorStack = 1..N /\ cursorStack[1] = NoCursor
    BY <2>1
  <2>3. currentSearch \in Searches
    BY <1>1, <1>5, Zenon
  <2>4. asked # {} /\ page \in 1..MaxPages
    BY <1>1, <1>6
  <2> QED BY <2>2, <2>3, <2>4, <1>4 DEF PageOK, N
<1>10. Begins(r)
  BY <1>7 DEF Begins
<1>11. /\ \A q \in asked : LoadOK(q) /\ Begins(q)
       /\ \A q, s \in asked : q = s
       /\ asked # {}
  BY <1>1, <1>7, <1>10
<1>12. browsed \in {"redis", "convex"}
  BY <1>1
<1> QED BY <1>8, <1>9, <1>11, <1>12 DEF ListInv

LEMMA ListInvTrue ==
  ASSUME ListAssumption, ListInv
  PROVE  ListsAreTrue
<1>1. SourceOK /\ PageOK /\ browsed \in {"redis", "convex"}
  BY DEF ListInv
<1>2. ListTypeOK
  BY <1>1 DEF ListTypeOK, SourceOK, PageOK, IsPath
<1>3. KeysAreListed
  <2> SUFFICES ASSUME AtRest, browsed = "redis", currentPath = << >>
               PROVE  /\ Cardinality(ToSet(shownList.items)) = Len(shownList.items)
                      /\ \A i \in DOMAIN shownList.items : MatchesName(currentSearch, shownList.items[i])
                      /\ (Len(shownList.items) < KEY_LIMIT /\ currentSearch # "word*") =>
                           shownList.steady \subseteq ToSet(shownList.items)
    BY DEF KeysAreListed
  <2>1. KeysOK(shownList, currentSearch)
    BY DEF AtRest, ListInv
  <2>2. Cardinality(ToSet(shownList.items)) = Len(shownList.items)
    <3> DEFINE s == shownList.items
    <3>1. s \in Seq(RedisKeys) /\ \A i, j \in DOMAIN s : s[i] = s[j] => i = j
      BY <2>1 DEF KeysOK
    <3> HIDE DEF s
    <3>2. Cardinality(ToSet(s)) = Len(s)
      BY <3>1, Differing
    <3> QED BY <3>2 DEF s
  <2> QED BY <2>1, <2>2 DEF KeysOK
<1>4. PagesAreOfOneSnapshot
  <2> SUFFICES ASSUME AtRest, browsed = "convex", IsTable
               PROVE  LET parts == PartsOf(currentSearch, snapshots[firstSnapshot]) IN
                      /\ shownList.path = currentPath
                      /\ shownList.items = IF page \in DOMAIN parts THEN parts[page] ELSE << >>
                      /\ shownList.more \/ page >= Len(parts)
    BY DEF PagesAreOfOneSnapshot
  <2>1. TableOK
    BY DEF AtRest, IsTable, ListInv
  <2> QED BY <2>1 DEF TableOK, ShowsPart
<1> QED BY <1>2, <1>3, <1>4 DEF ListsAreTrue

-----------------------------------------------------------------------------
(* The window.                                                             *)

PagesInv == TabsInv /\ StoreInv

LEMMA PagesInitInv == PagesInit => PagesInv
<1>1. TabsRest => TabsInit
  BY DEF TabsRest
<1>2. BrowserRest => BrowserInit
  BY DEF BrowserRest
<1> QED BY <1>1, <1>2, TabsInitInv, StoreInitInv DEF PagesInit, PagesInv

LEMMA PagesStep ==
  ASSUME PagesInv, [PagesNext]_pageVars
  PROVE  PagesInv' /\ FrontStays /\ ClosesTheDeleted /\ TakesTheConfirmed
<1>0. TabsInv /\ StoreInv /\ ClosesTheDeleted
  BY DeletedClosed DEF PagesInv
<1>1. CASE TabsNext /\ UNCHANGED browserVars
  BY <1>0, <1>1, TabsStep, StoreStill DEF PagesInv
<1>2. CASE BrowserNext /\ UNCHANGED tabVars
  BY <1>0, <1>2, TabsStill, StoreStep DEF PagesInv
<1>3. CASE UNCHANGED <<tabVars, browserVars>>
  <2>1. UNCHANGED tabVars /\ UNCHANGED browserVars
    BY <1>3
  <2> QED BY <1>0, <2>1, TabsStill, StoreStill DEF PagesInv
<1>4. CASE PagesNext
  <2>1. \/ TabsNext /\ UNCHANGED <<browserVars, consoleVars, listVars>>
        \/ BrowserNext /\ UNCHANGED <<tabVars, consoleVars, listVars>>
        \/ UNCHANGED <<tabVars, browserVars, listVars>>
        \/ UNCHANGED <<tabVars, browserVars, consoleVars>>
    BY <1>4 DEF PagesNext
  <2>2. \/ TabsNext /\ UNCHANGED browserVars
        \/ BrowserNext /\ UNCHANGED tabVars
        \/ UNCHANGED <<tabVars, browserVars>>
    BY <2>1
  <2> QED BY <1>1, <1>2, <1>3, <2>2
<1>5. CASE UNCHANGED pageVars
  BY <1>3, <1>5 DEF pageVars
<1> QED BY <1>4, <1>5

\* Each tab is one page, the one in front exists, and its mark is its page's,
\* whatever is opened, edited, saved, closed and deleted (tabs-store.ts,
\* SidebarSQLSource, SidebarResourceSource, tabIndex of SQLTableView).
THEOREM TabsStayTrue == PagesSpec => []TabsAreTrue
<1>1. PagesInit => PagesInv
  BY PagesInitInv
<1>2. PagesInv /\ [PagesNext]_pageVars => PagesInv'
  BY PagesStep
<1>3. PagesInv => TabsAreTrue
  BY TabsInvTrue DEF PagesInv
<1> QED BY <1>1, <1>2, <1>3, PTL DEF PagesSpec

\* Closing tabs leaves the one in front, a deletion closes the tabs of what is
\* deleted and no other, and only confirmed objects are deleted
\* (closeTabsMatching, deletePaths of the S3 adapter).
THEOREM RemovalsStayExact == PagesSpec => RemovalsAreExact
<1>1. PagesInit => PagesInv
  BY PagesInitInv
<1>2. PagesInv /\ [PagesNext]_pageVars => PagesInv' /\ FrontStays /\ ClosesTheDeleted /\ TakesTheConfirmed
  BY PagesStep
<1> QED BY <1>1, <1>2, PTL DEF PagesSpec, RemovalsAreExact

\* As long as each step may end, the pages of a folder that are loaded list
\* what stays in it but for folders that sort before an object at which a page
\* ended, each entry once but for objects that sort after a folder at which a
\* batch ended, and the preview shows what is selected (loadFolder and
\* loadSelection of the S3 browser, listBucketPath).
THEOREM BrowserStaysTrue == PagesSpec => []BrowserIsTrue
<1>1. PagesInit => BrowserInv
  <2>1. BrowserRest => BrowserInit
    BY DEF BrowserRest
  <2> QED BY <2>1, BrowserInitInv DEF PagesInit
<1>2. BrowserInv /\ [PagesNext]_pageVars => BrowserInv'
  <2> SUFFICES ASSUME BrowserInv, [PagesNext]_pageVars PROVE BrowserInv'
    OBVIOUS
  <2>1. CASE PagesNext
    <3>1. BrowserNext \/ UNCHANGED browserVars
      BY <2>1 DEF PagesNext
    <3> QED BY <3>1, BrowserStep, BrowserStill
  <2>2. CASE UNCHANGED pageVars
    <3>1. UNCHANGED browserVars
      BY <2>2 DEF pageVars
    <3> QED BY <3>1, BrowserStill
  <2> QED BY <2>1, <2>2
<1>3. BrowserInv => BrowserIsTrue
  BY BrowserHolds
<1> QED BY <1>1, <1>2, <1>3, PTL DEF PagesSpec

\* Keys and documents are listed whole and once, whatever other clients change
\* while they are scanned and while the user turns the pages (listKeys,
\* listDocuments and the stack of cursors), as long as the pages that a search
\* may read in one request are as many as the table has.
THEOREM ListsStayTrue == ASSUME GuardSuffices PROVE PagesSpec => []ListsAreTrue
<1>1. PagesInit => ListInv
  <2>1. ListRest => ListInit
    BY DEF ListRest
  <2> QED BY <2>1, ListInitInv, ListAssumption DEF PagesInit
<1>2. ListInv /\ [PagesNext]_pageVars => ListInv'
  <2> SUFFICES ASSUME ListInv, [PagesNext]_pageVars PROVE ListInv'
    OBVIOUS
  <2>1. CASE PagesNext
    <3>1. ListNext \/ UNCHANGED listVars
      BY <2>1 DEF PagesNext
    <3> QED BY <3>1, ListStep, ListStill, ListAssumption
  <2>2. CASE UNCHANGED pageVars
    <3>1. UNCHANGED listVars
      BY <2>2 DEF pageVars
    <3> QED BY <3>1, ListStill
  <2> QED BY <2>1, <2>2
<1>3. ListInv => ListsAreTrue
  BY ListInvTrue, ListAssumption
<1> QED BY <1>1, <1>2, <1>3, PTL DEF PagesSpec
=============================================================================
