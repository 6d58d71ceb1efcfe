----------------------------- MODULE ObjectBrowser -----------------------------
(***************************************************************************)
(* The browser of an S3 or MinIO source: the adapter that lists a folder   *)
(* page by page, previews, writes and deletes, and the page of the         *)
(* workspace window that calls it.  A handler of the page goes on when its *)
(* answer arrives, whatever the user started meanwhile; other clients      *)
(* change the objects between two requests.                                *)
(*                                                                         *)
(* A path is a sequence of names, bucket first, that ends at a folder or   *)
(* at an object.  The root stands for the empty string as well.  The store *)
(* cuts a folder into batches in the order of keys, a folder below it      *)
(* being one entry; its client gives a batch's objects first and then its  *)
(* folders.  Two entries of a folder differ in name or kind, so that a     *)
(* cursor is the rank of both.  An object's contents are left out: its     *)
(* listing is its path.                                                    *)
(***************************************************************************)
EXTENDS SequencesExt, Positions

CONSTANTS
  Buckets,
  Keys,             \* the objects that may exist: sequences of names
  NameRank,         \* the order of entries: of folders' names and of objects'
  Hits,             \* the paths a search finds
  Starts,           \* where a tab begins: [path, bucket]
  NewKeys,          \* the objects that are uploaded, created, and written elsewhere
  LIST_PAGE_SIZE,   \* of the page's requests
  BATCH_SIZE,       \* of the adapter's requests to the store
  MaxFlights,       \* bound: requests under way
  MaxBrowserSteps,  \* bound: what the user does
  MaxElsewhere      \* bound: what other clients do

Folder(at) == [at |-> at, folder |-> TRUE]
Object(at) == [at |-> at, folder |-> FALSE]
Root == Folder(<< >>)
Names == DOMAIN NameRank[TRUE]

ASSUME BrowserAssumption ==
  /\ IsFiniteSet(Keys) /\ NewKeys \subseteq Keys
  /\ \A k \in Keys : k \in Seq(Names) /\ Len(k) > 1
  /\ IsFiniteSet(Buckets) /\ Buckets \subseteq Names
  /\ NameRank \in [BOOLEAN -> [Names -> Nat \ {0}]]
  /\ \A m, n \in Names : \A folder, other \in BOOLEAN :
       NameRank[folder][m] = NameRank[other][n] => m = n /\ folder = other
  /\ \A start \in Starts :
       (start.path = Root \/ start.path.at \in Seq(Names) \ {<< >>}) /\ start.bucket \in Names \cup {""}
  /\ LIST_PAGE_SIZE \in Nat \ {0} /\ BATCH_SIZE \in Nat \ {0}
  /\ MaxFlights \in Nat /\ MaxBrowserSteps \in Nat /\ MaxElsewhere \in Nat

VARIABLES
  objects,           \* in the store
  currentFolderPath, listing, appliedSearch,
  selectedItemPath, selectedListing, selectedResources,
  isLoadingListing, isLoadingMore, isUploading, isDeleting,
  flights,           \* requests under way, with the answer when it is given
  calm,              \* history: since the folder was opened nothing failed and
                     \* nothing was started while something was under way
  browserSteps, elsewhere

shownVars == <<currentFolderPath, listing, appliedSearch, selectedItemPath, selectedListing, selectedResources>>
busyVars == <<isLoadingListing, isLoadingMore, isUploading, isDeleting>>
browserVars == <<objects, shownVars, busyVars, flights, calm, browserSteps, elsewhere>>

-----------------------------------------------------------------------------
(* Paths *)

Rank(path) == NameRank[path.folder][Last(path.at)]

GetContainerResourcePath(path) ==
  IF path.folder THEN path ELSE Folder(IF Len(path.at) = 1 THEN path.at ELSE Front(path.at))
GetParentResourcePath(path) ==
  LET folder == GetContainerResourcePath(path) IN
  IF Len(folder.at) <= 1 THEN Root ELSE Folder(Front(folder.at))
JoinResourcePath(folder, name) == Object(Append(folder.at, name))

\* Where the page of a tab begins: the slash at the end of its path is cut
\* off, so that a bucket or a folder is taken for an object.
ResolveInitialState(path, bucket) ==
  LET next == IF path # Root THEN Object(path.at) ELSE IF bucket = "" THEN Root ELSE Folder(<<bucket>>) IN
  [container |-> GetContainerResourcePath(next), selected |-> IF next.folder THEN Root ELSE next]

-----------------------------------------------------------------------------
(* datasources/s3/adapter.ts *)

Failed == [path |-> Root, items |-> << >>, more |-> FALSE, cursor |-> 0, always |-> {}, ever |-> {},
           stops |-> {}, ok |-> FALSE]
InRankOrder(S) ==
  LET ranks == InOrder({Rank(e) : e \in S}) IN [i \in DOMAIN ranks |-> CHOOSE e \in S : Rank(e) = ranks[i]]

\* What a folder shows: its objects, and each folder below it once.
Entries(folder, stored) ==
  LET depth == Len(folder.at)
      below == {k \in stored : Len(k) > depth /\ SubSeq(k, 1, depth) = folder.at}
  IN  {IF Len(k) = depth + 1 THEN Object(k) ELSE Folder(SubSeq(k, 1, depth + 1)) : k \in below}

MatchesSearch(entry, search) == ~search \/ entry.at \in Hits

\* always, ever: history for ListingIsWhole, what was in the folder since its
\* first page and at some time; stops: history, where the walk stopped before
\* the end of what the store had given, or at a folder.
Listing(path, items, more, cursor, all) ==
  [path |-> path, items |-> items, more |-> more, cursor |-> cursor, always |-> all, ever |-> all,
   stops |-> {}, ok |-> TRUE]

ListBuckets(search, cursor) ==
  LET all == {Folder(<<b>>) : b \in Buckets}
      found == InRankOrder({e \in all : MatchesSearch(e, search)})
      known == {i \in DOMAIN found : Rank(found[i]) = cursor}
      rest == IF known = {} THEN found ELSE SubSeq(found, (CHOOSE i \in known : TRUE) + 1, Len(found))
      more == Len(rest) > LIST_PAGE_SIZE
  IN  Listing(Root, IF more THEN SubSeq(rest, 1, LIST_PAGE_SIZE) ELSE rest, more,
             IF more THEN Rank(rest[LIST_PAGE_SIZE]) ELSE 0, ToSet(found))

After_Same(entries, cursor) == {e \in entries : Rank(e) >= cursor}
After(entries, cursor) == {e \in entries : Rank(e) > cursor}

\* The entries that follow the cursor: as many as a batch holds, the objects
\* among them before the folders.
ListObjectsV2Query(entries, cursor) ==
  LET rest == InRankOrder(After(entries, cursor))
      batch == {rest[i] : i \in {j \in DOMAIN rest : j <= BATCH_SIZE}}
  IN  [objects |-> InRankOrder({e \in batch : ~e.folder}) \o InRankOrder({e \in batch : e.folder}),
       isTruncated |-> Len(rest) > BATCH_SIZE]

\* A batch is walked up to the entry that fills the page.  The cursor is the
\* entry at which the walk stopped.
Batch(folder, search, cursor, room) ==
  LET response == ListObjectsV2Query(Entries(folder, objects), cursor)
      found == response.objects
      matching == {i \in DOMAIN found : MatchesSearch(found[i], search)}
      full == Cardinality(matching) >= room
      last == IF full THEN Nth(matching, room) ELSE Len(found)
      more == response.isTruncated \/ (full /\ last < Len(found))
  IN  [Listing(folder, At(found, {i \in matching : i <= last}), more, IF full \/ more THEN Rank(found[last]) ELSE 0,
               {e \in Entries(folder, objects) : MatchesSearch(e, search)})
         EXCEPT !.stops = {found[i] : i \in {j \in DOMAIN found : j = last /\ (full \/ found[j].folder)}}]

Appended(old, new) ==
  [new EXCEPT !.items = old.items \o new.items, !.always = old.always, !.ever = old.ever \cup new.ever,
              !.stops = old.stops \cup new.stops]

\* The loop asks the store for batches until the page is full or the folder
\* ends; before the first one the page is empty.
IsFull(items) == Len(items) >= LIST_PAGE_SIZE
ListBucketPath(folder, search, cursor, soFar) ==
  IF soFar = << >> THEN Batch(folder, search, cursor, LIST_PAGE_SIZE)
  ELSE Appended(soFar[1], Batch(folder, search, soFar[1].cursor, LIST_PAGE_SIZE - Len(soFar[1].items)))

GetObjectListing(path) ==
  IF path.at \in objects THEN Listing(path, << >>, FALSE, 0, {}) ELSE Failed

List(path, search, cursor, soFar) ==
  IF Len(path.at) = 0 \/ (~path.folder /\ Len(path.at) = 1) THEN ListBuckets(search, cursor)
  ELSE IF path.folder THEN ListBucketPath(path, search, cursor, soFar)
  ELSE GetObjectListing(path)

\* The store's prefix ends with a slash.
HasPrefix(key, at) == Len(key) > Len(at) /\ SubSeq(key, 1, Len(at)) = at

DeletePath(path) ==
  IF path.folder THEN {k \in objects : HasPrefix(k, path.at)} ELSE {path.at} \cap objects

\* Paths are deleted one after the other up to a bucket, which is refused.
Refused(paths) == {i \in DOMAIN paths : Len(paths[i].at) <= 1}
Deletable(paths) == {i \in DOMAIN paths : \A j \in Refused(paths) : i < j}
DeletePaths(paths) == UNION {DeletePath(paths[i]) : i \in Deletable(paths)}

-----------------------------------------------------------------------------
(* The requests of the page *)

Flight(kind, path) ==
  [kind |-> kind, path |-> path, paths |-> << >>, search |-> FALSE, cursor |-> 0, append |-> FALSE,
   then |-> "nothing", answer |-> << >>]
None == [Failed EXCEPT !.ok = TRUE]

\* then: what the handler does when the folder is loaded.
LoadFolder(path, search, then) == [Flight("list", path) EXCEPT !.search = search, !.then = then]
LoadSelection(path) == Flight("preview", path)
Sends(f) == flights' = flights \cup {f}

Acting ==
  /\ browserSteps < MaxBrowserSteps /\ browserSteps' = browserSteps + 1
  /\ Cardinality(flights) < MaxFlights
  /\ UNCHANGED <<objects, elsewhere>>
Calmly == calm' = (calm /\ flights = {})

\* Moving to a folder leaves the preview behind.
ForgetSelection == selectedItemPath' = Root /\ selectedResources' = {} /\ selectedListing' = None

NavigateTo(path) ==
  /\ Acting /\ calm' = (flights = {})
  /\ currentFolderPath' = GetContainerResourcePath(path)
  /\ ForgetSelection
  /\ isLoadingListing' = TRUE
  /\ Sends(LoadFolder(currentFolderPath', appliedSearch, "nothing"))
  /\ UNCHANGED <<listing, appliedSearch, isLoadingMore, isUploading, isDeleting>>

\* The table is covered while it has rows and is loading.
TableIsFree == ~(isLoadingListing /\ listing.items # << >>)

PreviewItem(item) ==
  /\ Acting /\ Calmly /\ TableIsFree /\ ~item.folder
  /\ selectedItemPath' = item
  /\ Sends(LoadSelection(item))
  /\ UNCHANGED <<currentFolderPath, listing, appliedSearch, selectedListing, selectedResources, busyVars>>

OpenItem(item) == TableIsFree /\ item.folder /\ NavigateTo(item)

PickItem(item) ==
  /\ Acting /\ UNCHANGED calm /\ TableIsFree
  /\ selectedResources' = IF item \in selectedResources THEN selectedResources \ {item}
                          ELSE selectedResources \cup {item}
  /\ UNCHANGED <<currentFolderPath, listing, appliedSearch, selectedItemPath, selectedListing, busyVars, flights>>

ApplySearch(search) ==
  /\ Acting /\ Calmly
  /\ appliedSearch' = search /\ selectedResources' = {}
  /\ isLoadingListing' = TRUE
  /\ Sends(LoadFolder(currentFolderPath, search, "nothing"))
  /\ UNCHANGED <<currentFolderPath, listing, selectedItemPath, selectedListing, isLoadingMore, isUploading, isDeleting>>

LoadMoreItems ==
  /\ Acting /\ Calmly
  /\ listing.more /\ listing.cursor # 0 /\ ~isLoadingMore /\ ~isLoadingListing
  /\ isLoadingMore' = TRUE
  /\ Sends([LoadFolder(currentFolderPath, appliedSearch, "nothing") EXCEPT !.append = TRUE, !.cursor = listing.cursor])
  /\ UNCHANGED <<shownVars, isLoadingListing, isUploading, isDeleting>>

RefreshCurrentView ==
  /\ Acting /\ Calmly
  /\ isLoadingListing' = TRUE
  /\ Sends(LoadFolder(currentFolderPath, appliedSearch, "refresh"))
  /\ UNCHANGED <<shownVars, isLoadingMore, isUploading, isDeleting>>

MayWrite == ~isUploading /\ ~isDeleting

\* One row, or else what is picked, or else the object that is previewed.
DeleteTargets(rows) ==
  IF rows # {} THEN rows ELSE IF selectedResources # {} THEN selectedResources
  ELSE IF selectedItemPath # Root THEN {selectedItemPath} ELSE {}

DeleteResources(rows) ==
  /\ Acting /\ Calmly /\ DeleteTargets(rows) # {}
  /\ IF rows = {} THEN MayWrite ELSE TableIsFree
  /\ isDeleting' = TRUE
  /\ Sends([Flight("delete", Root) EXCEPT !.paths = SetToSeq(DeleteTargets(rows))])
  /\ UNCHANGED <<shownVars, isLoadingListing, isLoadingMore, isUploading>>

Puts(path, then) ==
  /\ Acting /\ Calmly /\ MayWrite
  /\ isUploading' = TRUE
  /\ Sends([Flight("put", path) EXCEPT !.then = then])
  /\ UNCHANGED <<shownVars, isLoadingListing, isLoadingMore, isDeleting>>
HandleFileSelection(name) ==
  /\ currentFolderPath # Root
  /\ JoinResourcePath(currentFolderPath, name).at \in NewKeys
  /\ Puts(JoinResourcePath(currentFolderPath, name), "uploaded")
CreateObject(key) == Puts(Object(key), "created")

-----------------------------------------------------------------------------
(* The server's side: one request at a time, and other clients between *)

Answered(f, answer) == flights' = (flights \ {f}) \cup {[f EXCEPT !.answer = <<answer>>]}
\* The loop of listBucketPath goes on: the answer is the page so far.
IsUnfinished(f) == f.answer # << >> /\ f.answer[1].more /\ ~IsFull(f.answer[1].items)

\* A list, one batch at a time: others may write between two of them.
Read(f) ==
  /\ f.kind \in {"list", "preview"}
  /\ f.answer = << >> \/ IsUnfinished(f)
  /\ Answered(f, List(f.path, f.search, f.cursor, f.answer))
  /\ UNCHANGED <<objects, shownVars, busyVars, calm, browserSteps, elsewhere>>

\* The histories of what is listed, after the objects became stored.
Changed(a, stored) ==
  LET now == {e \in Entries(a.path, stored) : e \in a.ever \/ MatchesSearch(e, appliedSearch)} IN
  IF a.path.folder /\ Len(a.path.at) > 0
  THEN [a EXCEPT !.always = @ \cap now, !.ever = @ \cup now] ELSE a
Store(stored) ==
  /\ objects' = stored
  /\ listing' = Changed(listing, stored)
Noted(f, stored) == IF f.answer = << >> THEN f ELSE [f EXCEPT !.answer[1] = Changed(@, stored)]

Written(f, stored, ok) ==
  /\ Store(stored)
  /\ flights' = {Noted(g, stored) : g \in flights \ {f}}
                  \cup {[f EXCEPT !.answer = <<[None EXCEPT !.ok = ok]>>]}
  /\ UNCHANGED <<currentFolderPath, appliedSearch, selectedItemPath, selectedListing, selectedResources, busyVars,
                 calm, browserSteps, elsewhere>>

PutObject(f) ==
  /\ f.answer = << >> /\ f.kind = "put"
  /\ Written(f, objects \cup {f.path.at}, TRUE) \/ Written(f, objects, FALSE)

\* A failure leaves deleted what came before it: the paths before the one it
\* failed at, and of that one's objects some.
Delete(f) ==
  /\ f.answer = << >> /\ f.kind = "delete"
  /\ \/ Written(f, objects \ DeletePaths(f.paths), Refused(f.paths) = {})
     \/ \E n \in Deletable(f.paths) : \E part \in SUBSET DeletePath(f.paths[n]) :
          Written(f, objects \ (part \cup UNION {DeletePath(f.paths[i]) : i \in {j \in DOMAIN f.paths : j < n}}), FALSE)

Elsewhere(k) ==
  /\ elsewhere < MaxElsewhere /\ elsewhere' = elsewhere + 1
  /\ LET stored == IF k \in objects THEN objects \ {k} ELSE objects \cup {k} IN
     Store(stored) /\ flights' = {Noted(g, stored) : g \in flights}
  /\ UNCHANGED <<currentFolderPath, appliedSearch, selectedItemPath, selectedListing, selectedResources, busyVars,
                 calm, browserSteps>>

-----------------------------------------------------------------------------
(* Answers *)

Arrives(f, kind) ==
  /\ f.kind = kind /\ f.answer # << >> /\ ~IsUnfinished(f)
  /\ UNCHANGED <<objects, appliedSearch, browserSteps, elsewhere>>
Ended(f) == flights \ {f}

\* What the handler that loaded the folder does next; a failed load is told
\* to the user and the handler goes on.
Continues(f, selected) ==
  LET rest == Ended(f)
      Show(path) == flights' = rest \cup {LoadSelection(path)}
  IN  CASE f.then = "nothing" -> flights' = rest /\ UNCHANGED <<selectedItemPath, selectedListing, isUploading, isDeleting>>
        [] f.then \in {"refresh", "sync"} ->
             /\ UNCHANGED <<selectedItemPath, isUploading, isDeleting>>
             /\ IF selected # Root THEN Show(selected) ELSE flights' = rest
             /\ selectedListing' = IF f.then = "sync" /\ selected = Root THEN None ELSE selectedListing
        [] f.then = "deleted" ->
             flights' = rest /\ isDeleting' = FALSE /\ UNCHANGED <<selectedItemPath, selectedListing, isUploading>>
        [] f.then = "written" ->
             /\ selectedItemPath' = f.paths[1] /\ flights' = rest \cup {[LoadSelection(f.paths[1]) EXCEPT !.then = "written"]}
             /\ UNCHANGED <<selectedListing, isUploading, isDeleting>>

ListArrives(f, lost) ==
  /\ Arrives(f, "list")
  /\ IF f.answer[1].ok /\ ~lost
     THEN /\ currentFolderPath' = f.answer[1].path
          /\ listing' = IF f.append THEN Appended(listing, f.answer[1]) ELSE f.answer[1]
          /\ UNCHANGED calm
     ELSE UNCHANGED <<currentFolderPath, listing>> /\ calm' = FALSE
  /\ isLoadingListing' = FALSE /\ isLoadingMore' = FALSE
  /\ Continues(f, selectedItemPath)
  /\ UNCHANGED selectedResources

PreviewArrives(f, lost) ==
  /\ Arrives(f, "preview")
  /\ IF f.answer[1].ok /\ ~lost
     THEN selectedListing' = f.answer[1] /\ UNCHANGED calm
     ELSE UNCHANGED selectedListing /\ calm' = FALSE
  /\ isUploading' = IF f.then = "written" THEN FALSE ELSE isUploading
  /\ flights' = Ended(f)
  /\ UNCHANGED <<currentFolderPath, listing, selectedItemPath, selectedResources, isLoadingListing, isLoadingMore, isDeleting>>

\* After a write the current folder is loaded, then the object is shown.
PutArrives(f, lost) ==
  /\ Arrives(f, "put")
  /\ IF f.answer[1].ok /\ ~lost
     THEN /\ currentFolderPath' = IF f.then = "created" THEN GetContainerResourcePath(f.path) ELSE currentFolderPath
          /\ isLoadingListing' = TRUE /\ UNCHANGED isUploading
          /\ flights' = Ended(f) \cup {[LoadFolder(currentFolderPath', appliedSearch, "written") EXCEPT !.paths = <<f.path>>]}
     ELSE /\ isUploading' = FALSE
          /\ flights' = Ended(f) /\ UNCHANGED <<currentFolderPath, isLoadingListing>>
  /\ UNCHANGED <<listing, selectedItemPath, selectedListing, selectedResources, isLoadingMore, isDeleting, calm>>

DeleteArrives(f, lost) ==
  /\ Arrives(f, "delete")
  /\ IF f.answer[1].ok /\ ~lost
     THEN /\ IF selectedItemPath \in ToSet(f.paths)
             THEN selectedItemPath' = Root /\ selectedListing' = None
             ELSE UNCHANGED <<selectedItemPath, selectedListing>>
          /\ selectedResources' = {}
          /\ isLoadingListing' = TRUE /\ UNCHANGED isDeleting
          /\ flights' = Ended(f) \cup {LoadFolder(currentFolderPath, appliedSearch, "deleted")}
     ELSE /\ isDeleting' = FALSE /\ flights' = Ended(f)
          /\ UNCHANGED <<selectedItemPath, selectedListing, selectedResources, isLoadingListing>>
  /\ UNCHANGED <<currentFolderPath, listing, isLoadingMore, isUploading, calm>>

-----------------------------------------------------------------------------
\* A tab is opened at a bucket, a folder or an object.
SyncFromPath(path, bucket) ==
  LET start == ResolveInitialState(path, bucket) IN
  /\ currentFolderPath = start.container /\ selectedItemPath = start.selected
  /\ flights = {LoadFolder(start.container, FALSE, "sync")}

BrowserInit ==
  /\ objects = Keys
  /\ \E start \in Starts : SyncFromPath(start.path, start.bucket)
  /\ listing = None /\ appliedSearch = FALSE /\ selectedListing = None /\ selectedResources = {}
  /\ isLoadingListing = TRUE /\ isLoadingMore = FALSE /\ isUploading = FALSE /\ isDeleting = FALSE
  /\ calm = TRUE /\ browserSteps = 0 /\ elsewhere = 0

UserActs ==
  \/ \E n \in 0 .. Len(currentFolderPath.at) : NavigateTo(Folder(SubSeq(currentFolderPath.at, 1, n)))
  \/ GetParentResourcePath(currentFolderPath) # Root /\ NavigateTo(GetParentResourcePath(currentFolderPath))
  \/ \E item \in ToSet(listing.items) : PreviewItem(item) \/ OpenItem(item) \/ PickItem(item) \/ DeleteResources({item})
  \/ \E search \in BOOLEAN : ApplySearch(search)
  \/ LoadMoreItems \/ RefreshCurrentView \/ DeleteResources({})
  \/ \E k \in NewKeys : CreateObject(k) \/ HandleFileSelection(Last(k))

BrowserNext ==
  \/ UserActs
  \/ \E f \in flights : Read(f) \/ PutObject(f) \/ Delete(f)
  \/ \E f \in flights : \E lost \in BOOLEAN :
       ListArrives(f, lost) \/ PreviewArrives(f, lost) \/ PutArrives(f, lost) \/ DeleteArrives(f, lost)
  \/ \E k \in NewKeys : Elsewhere(k)

-----------------------------------------------------------------------------
BrowserTypeOK ==
  /\ objects \subseteq Keys
  /\ currentFolderPath.folder
  /\ selectedItemPath = Root \/ ~selectedItemPath.folder
  /\ isLoadingMore => \E f \in flights : f.kind = "list"
  /\ isUploading => \E f \in flights : f.kind = "put" \/ f.then = "written"
  /\ isDeleting => \E f \in flights : f.kind = "delete" \/ f.then = "deleted"

\* A batch gives its objects before its folders, and the next one begins after
\* the entry at which the walk stopped: stopping at an object skips the
\* folders that sort before it, stopping at a folder brings the objects that
\* sort after it again.
IsSkipped(e, stops) == e.folder /\ \E o \in stops : ~o.folder /\ Rank(e) < Rank(o)
MayRepeat(e, stops) == ~e.folder /\ \E d \in stops : d.folder /\ Rank(d) < Rank(e)

\* While the user lets each step end and nothing fails, the pages loaded so
\* far list entries of the folder named above them (loadFolder,
\* listBucketPath): none that never were, and of those that were there since
\* its first page all but the folders that a full page skipped, an entry twice
\* only if it is an object that sorts after a folder at which a batch ended.
ListingIsWhole ==
  (calm /\ flights = {}) =>
    /\ listing.path = currentFolderPath
    /\ ToSet(listing.items) \subseteq listing.ever
    /\ \A e \in listing.always :
         e \in ToSet(listing.items) \/ (listing.more /\ Rank(e) > listing.cursor) \/ IsSkipped(e, listing.stops)
    /\ \A i, j \in DOMAIN listing.items :
         i < j /\ listing.items[i] = listing.items[j] => MayRepeat(listing.items[i], listing.stops)

\* What the table says below its last row: "End of list".
EndOfListIsTrue ==
  (calm /\ flights = {} /\ listing.items # << >> /\ ~listing.more) => listing.always \subseteq ToSet(listing.items)

\* Then, too, a preview shows the object that Download and Delete name.  Only
\* the name of a bucket, with which a tab opens, is answered with all buckets.
PreviewIsOfSelected ==
  (calm /\ flights = {} /\ selectedListing # None) =>
    selectedListing.path = IF Len(selectedItemPath.at) = 1 THEN Root ELSE selectedItemPath

\* A deletion, whole or failed, takes only objects that were confirmed by
\* name or lie in a folder that was.
IsConfirmed(k, paths) ==
  \E i \in DOMAIN paths : k = paths[i].at
    \/ (paths[i].folder /\ \E n \in DOMAIN k : n > Len(paths[i].at) /\ SubSeq(k, 1, Len(paths[i].at)) = paths[i].at)
TakesTheConfirmed ==
  elsewhere' = elsewhere =>
    \A k \in objects \ objects' : \E f \in flights : f.kind = "delete" /\ IsConfirmed(k, f.paths)

\* What the page shows is the folder it names and the object it selects.
BrowserIsTrue == BrowserTypeOK /\ ListingIsWhole /\ PreviewIsOfSelected
=============================================================================
