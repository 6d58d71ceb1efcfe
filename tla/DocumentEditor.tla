--------------------------- MODULE DocumentEditor ---------------------------
(***************************************************************************)
(* The MongoDB and the Elasticsearch pages: a grid of drafts over one page *)
(* of documents.  Both look like the SQL table page and neither has a      *)
(* transaction: the MongoDB page saves document by document, the Elastic-  *)
(* search page in one bulk request whose items succeed or fail each on its *)
(* own.  A save replaces whole documents.                                  *)
(*                                                                         *)
(* A document is a function on Fields that may be Absent; Null is a value. *)
(* The id is no field: the database gives it, and no page writes it.       *)
(* Nested objects are one value.  The grid is ExtendedDataTable, whose     *)
(* operations on ranges of rows TableEditor models; here they take a row.  *)
(***************************************************************************)
EXTENDS Positions, Naturals, FiniteSets, Sequences, SequencesExt

CONSTANTS
  Fields,     \* the fields of documents
  Values,     \* what a field may hold
  Null,       \* null, one of them
  Absent,     \* the document has no such field
  FirstDocs,  \* the collections there may be at first: sets of documents
  MaxId,      \* bound: ids the database may hand out
  MaxDrafts,  \* bound: rows the user adds
  MaxRows,    \* bound: rows in the grid
  PageSize,   \* documents per page
  Slots,      \* bound: queries in flight at once
  Features,   \* what the environment may do, see below
  None

(***************************************************************************)
(* overlap          a query is submitted from an editor while the page is  *)
(*                  busy; no handler looks whether it is                   *)
(* editWhileBusy    the user edits during a save, or types in the document *)
(*                  viewer during a query                                  *)
(* dirtyRun         the user runs a query with unsaved edits               *)
(* invalidQuery     the text of the query may be no JSON                   *)
(* projection       the query selects some of the fields                   *)
(* failures         a query may fail, and so may every write of a save:    *)
(*                  a validator, a mapping or the network refuses it       *)
(* lostReply        a save request may be carried out and its answer lost  *)
(***************************************************************************)
AllFeatures == {"overlap", "editWhileBusy", "dirtyRun", "invalidQuery",
                "projection", "failures", "lostReply"}

Documents == [Fields -> Values \cup {Absent}]
Nothing == [f \in Fields |-> Absent]

ASSUME DocumentAssumption ==
  /\ Null \in Values /\ Absent \notin Values /\ None \notin Documents
  /\ IsFiniteSet(Fields)
  /\ \A first \in FirstDocs : first \in Seq(Documents) /\ Len(first) <= MaxId
  /\ {MaxId, MaxDrafts, MaxRows} \subseteq Nat /\ PageSize \in Nat \ {0}
  /\ Slots \subseteq Nat \ {0} /\ Slots # {}
  /\ Features \subseteq AllFeatures

VARIABLES
  kind,     \* which of the two pages it is
  docs,     \* the collection: id -> [doc, by], by the draft that inserted it
  nextId,   \* the id the database hands out next
  rows, columns,  \* the grid: a sequence of drafts, and the fields it shows
  drafted,  \* how many drafts there were
  page, total,    \* what the page bar says; total is None without a result
  query,    \* the text in the editors: is it JSON, and which fields it asks for
  running,  \* isRunningQuery, isRunningSearch
  save,     \* the save under way (isSavingChanges, isSaving), or None
  calls,    \* slot -> the query in flight there, or None
  astray    \* history: whether a save failed or a query was not sent, its
            \* text being no JSON; "here" if since the grid was last filled

db == <<docs, nextId>>
grid == <<rows, columns, drafted>>
bar == <<page, total>>
vars == <<kind, db, grid, bar, query, running, save, calls, astray>>

May(feature) == feature \in Features
saving == save # None
-----------------------------------------------------------------------------
(* Drafts.  vals is what the cells hold and, for a field without a column, *)
(* what the MongoDB page keeps of a document typed in the viewer; orig is  *)
(* None for an added row.                                                  *)
Drafts == [id : 0..MaxId, uid : 0..MaxDrafts, vals : Documents,
           orig : Documents \cup {None},
           state : {"clean", "modified", "new", "deleted"}]

Loaded(id, doc) == [id |-> id, uid |-> 0, vals |-> doc, orig |-> doc, state |-> "clean"]
Added(uid, vals) == [id |-> 0, uid |-> uid, vals |-> vals, orig |-> None, state |-> "new"]

Shown(vals) == [f \in Fields |-> IF f \in columns THEN vals[f] ELSE Absent]

Dirty(d) == \E f \in columns : d.vals[f] # d.orig[f]
Judged(d) == [d EXCEPT !.state = IF d.orig = None THEN "new"
                                 ELSE IF Dirty(d) THEN "modified" ELSE "clean"]

WithCell(d, f, v) == Judged([d EXCEPT !.vals[f] = v])
WithDocument(d, doc) == Judged([d EXCEPT !.vals = doc])

(* The document a row stands for.  A cell without a value is written as    *)
(* null.                                                                   *)
DocumentOf_ChangedCells(d) ==
  [f \in Fields |-> IF f \in columns /\ (d.orig = None \/ d.vals[f] # d.orig[f])
                    THEN d.vals[f] ELSE Absent]
DocumentOf(d) ==
  [f \in Fields |-> IF f \in columns /\ d.vals[f] = Absent THEN Null ELSE d.vals[f]]

Pending(d) == d.state # "clean"
PendingRows == {rows[i] : i \in {j \in DOMAIN rows : Pending(rows[j])}}
hasPendingChanges == PendingRows # {}
-----------------------------------------------------------------------------
(* Queries.                                                                *)
Found == Reverse(InOrder(DOMAIN docs))
Page(p) ==
  SubSeq(Found, (p - 1) * PageSize + 1,
         IF p * PageSize < Len(Found) THEN p * PageSize ELSE Len(Found))
pageCount == IF total = 0 THEN 1 ELSE (total + PageSize - 1) \div PageSize

Answers == [ok : {TRUE}, total : 0..MaxId, rows : Seq(Drafts)] \cup [ok : {FALSE}]
Requests == [why : {"open", "run", "page", "discard", "save"}, page : Nat \ {0},
             fields : SUBSET Fields, batch : Seq(Drafts), reply : Answers \cup {None}]

Request(why, p, batch) ==
  [why |-> why, page |-> p, fields |-> query.fields, batch |-> batch, reply |-> None]

runQuery(why, p, batch) ==
  IF query.valid
  THEN LET free == {s \in Slots : calls[s] = None} IN
       /\ free # {}
       /\ calls' = [calls EXCEPT ![CHOOSE s \in free : \A t \in free : s <= t]
                                   = Request(why, p, batch)]
       /\ running' = TRUE
  ELSE UNCHANGED <<calls, running>>
Noted(fine) == astray' = IF fine THEN astray ELSE "here"
-----------------------------------------------------------------------------
(* The user's edits.  A loading overlay lies over the grid and not over    *)
(* the document viewer.  A text in the viewer that is no JSON changes      *)
(* nothing and only keeps the user from saving.                            *)
CanType == running \/ saving => May("editWhileBusy")
CanEdit == ~running /\ CanType

Without(i) == At(rows, DOMAIN rows \ {i})

Edits(newRows) ==
  /\ rows' = newRows
  /\ UNCHANGED <<kind, db, columns, bar, query, running, save, calls, astray>>

commitEditing(i, f, v) ==
  /\ CanEdit
  /\ rows[i].state # "deleted"
  /\ Edits([rows EXCEPT ![i] = WithCell(@, f, v)])
  /\ UNCHANGED drafted

typeDocument(i, doc) ==
  /\ kind = "mongodb" /\ CanType
  /\ Edits([rows EXCEPT ![i] = WithDocument(@, doc)])
  /\ UNCHANGED drafted

(* The Elasticsearch page asks the grid for the row, and there is no grid  *)
(* while there are no rows.                                                *)
addRow ==
  /\ CanEdit
  /\ kind = "elasticsearch" => total # None /\ rows # <<>>
  /\ drafted < MaxDrafts /\ Len(rows) < MaxRows
  /\ Edits(Append(rows, Added(drafted + 1, Shown([f \in Fields |-> Null]))))
  /\ drafted' = drafted + 1

duplicateSelectedRows(i) ==
  /\ CanEdit /\ total # None
  /\ rows[i].state # "deleted"
  /\ drafted < MaxDrafts /\ Len(rows) < MaxRows
  /\ Edits(SubSeq(rows, 1, i) \o <<Added(drafted + 1, Shown(rows[i].vals))>>
           \o SubSeq(rows, i + 1, Len(rows)))
  /\ drafted' = drafted + 1

markRowsDeleted(i) ==
  /\ CanEdit
  /\ Edits(IF rows[i].orig = None THEN Without(i)
           ELSE [rows EXCEPT ![i].state = IF @ = "deleted" THEN "clean" ELSE "deleted"])
  /\ UNCHANGED drafted

discardSelectedChanges(i) ==
  /\ CanEdit /\ total # None
  /\ rows[i].state # "deleted"
  /\ Edits(IF rows[i].orig = None THEN Without(i)
           ELSE [rows EXCEPT ![i] = Loaded(@.id, @.orig)])
  /\ UNCHANGED drafted

Edit ==
  \/ addRow
  \/ \E i \in DOMAIN rows :
       \/ \E f \in columns, v \in Values : commitEditing(i, f, v)
       \/ \E doc \in Documents : typeDocument(i, doc)
       \/ duplicateSelectedRows(i)
       \/ markRowsDeleted(i)
       \/ discardSelectedChanges(i)
-----------------------------------------------------------------------------
(* The user's requests.                                                    *)
typeQuery ==
  /\ May("invalidQuery") /\ query' = [query EXCEPT !.valid = ~@]
  /\ UNCHANGED <<kind, db, grid, bar, running, save, calls, astray>>

(* Run and the editors' submit go back to the first page of MongoDB; the   *)
(* refresh button, and both on the Elasticsearch page, keep the page.      *)
Run ==
  /\ running \/ saving => May("overlap")
  /\ hasPendingChanges => May("dirtyRun")
  /\ page' = IF kind = "mongodb" /\ query.valid THEN 1 ELSE page
  /\ runQuery("run", page', <<>>)
  /\ UNCHANGED <<kind, db, grid, total, query, save, astray>>

Refresh ==
  /\ ~running /\ ~saving
  /\ hasPendingChanges => May("dirtyRun")
  /\ runQuery("run", page, <<>>)
  /\ UNCHANGED <<kind, db, grid, bar, query, save, astray>>

discardChanges ==
  /\ hasPendingChanges /\ ~running /\ ~saving
  /\ IF kind = "mongodb"
     THEN runQuery("discard", page, <<>>) /\ UNCHANGED rows
     ELSE /\ rows' = LET read == At(rows, {i \in DOMAIN rows : rows[i].orig # None})
                     IN [k \in DOMAIN read |-> Loaded(read[k].id, read[k].orig)]
          /\ UNCHANGED <<calls, running>>
  /\ UNCHANGED <<kind, db, columns, drafted, bar, query, save, astray>>

guardPendingChanges == hasPendingChanges

changePage(p) ==
  /\ total # None /\ ~running /\ ~saving
  /\ ~guardPendingChanges
  /\ page' = IF p < pageCount THEN p ELSE pageCount
  /\ runQuery("page", page', <<>>) /\ Noted(query.valid)
  /\ UNCHANGED <<kind, db, grid, total, query, save>>
-----------------------------------------------------------------------------
(* A save: a sequence of writes, first the inserts, then the replacements, *)
(* then the deletions.  The Elasticsearch page sends them in one request,  *)
(* the MongoDB page inserts and replaces in a request each and deletes in  *)
(* one; done counts those of the requests that were answered.              *)
Of(state) == At(rows, {i \in DOMAIN rows : rows[i].state = state})
Changes == Of("new") \o Of("modified") \o Of("deleted")
Write(d) == [state |-> d.state, id |-> d.id, uid |-> d.uid, doc |-> DocumentOf(d)]

Writes == [state : {"new", "modified", "deleted"}, id : 0..MaxId, uid : 0..MaxDrafts,
           doc : Documents]
Saves == [writes : Seq(Writes), batch : Seq(Drafts), done : Nat, reply : BOOLEAN \cup {None}]

ASSUME NoneAssumption == None \notin BOOLEAN \cup Answers \cup Requests \cup Saves

\* The last write of the request a save waits for.
Sent ==
  IF kind = "mongodb" /\ save.writes[save.done + 1].state # "deleted"
  THEN save.done + 1 ELSE Len(save.writes)

saveChanges ==
  /\ hasPendingChanges /\ ~running /\ ~saving
  /\ nextId + Len(Of("new")) <= MaxId + 1
  /\ save' = [writes |-> [k \in DOMAIN Changes |-> Write(Changes[k])], batch |-> Changes,
              done |-> 0, reply |-> None]
  /\ UNCHANGED <<kind, db, grid, bar, query, running, calls, astray>>

Ask ==
  \/ typeQuery \/ Run \/ Refresh \/ discardChanges \/ saveChanges
  \/ \E p \in 1..MaxId + 1 : changePage(p)
-----------------------------------------------------------------------------
(* The databases.                                                          *)
Put(c, id, doc, by) == [i \in DOMAIN c \cup {id} |-> IF i = id THEN [doc |-> doc, by |-> by]
                                                   ELSE c[i]]

Applied(acc, w) ==
  CASE w.state = "deleted" ->
         [acc EXCEPT !.docs = [i \in DOMAIN @ \ {w.id} |-> @[i]]]
    [] w.state = "new" ->
         [acc EXCEPT !.docs = Put(@, acc.next, w.doc, w.uid), !.next = @ + 1]
    [] w.state = "modified" /\ w.id \in DOMAIN acc.docs ->
         [acc EXCEPT !.docs = Put(@, w.id, w.doc, acc.docs[w.id].by)]
    [] w.state = "modified" /\ w.id \notin DOMAIN acc.docs ->
         IF kind = "mongodb" THEN [acc EXCEPT !.ok = FALSE]
         ELSE [acc EXCEPT !.docs = Put(@, w.id, w.doc, 0)]

(* The writes of one request, without those the database refuses.          *)
Served(refused) ==
  LET after[k \in save.done..Sent] ==
        IF k = save.done THEN [docs |-> docs, next |-> nextId, ok |-> refused = {}]
        ELSE IF k \in refused THEN after[k - 1] ELSE Applied(after[k - 1], save.writes[k])
  IN after[Sent]

AllWritten == saving /\ save.done = Len(save.writes)

ServeSave ==
  /\ saving /\ ~AllWritten /\ save.reply = None
  /\ \E refused \in SUBSET (save.done + 1..Sent) :
       LET done == Served(refused) IN
       /\ refused # {} => May("failures")
       /\ docs' = done.docs /\ nextId' = done.next
       /\ \/ save' = [save EXCEPT !.reply = done.ok]
          \/ May("lostReply") /\ save' = [save EXCEPT !.reply = FALSE]
  /\ UNCHANGED <<kind, grid, bar, query, running, calls, astray>>

ServeRows(s) ==
  /\ calls[s] # None /\ calls[s].reply = None
  /\ \/ LET ids == Page(calls[s].page)
            Projected(doc) == [f \in Fields |-> IF f \in calls[s].fields THEN doc[f] ELSE Absent]
        IN calls' = [calls EXCEPT ![s].reply =
             [ok |-> TRUE, total |-> Len(Found),
              rows |-> [k \in DOMAIN ids |-> Loaded(ids[k], Projected(docs[ids[k]].doc))]]]
     \/ May("failures") /\ calls' = [calls EXCEPT ![s].reply = [ok |-> FALSE]]
  /\ UNCHANGED <<kind, db, grid, bar, query, running, save, astray>>
-----------------------------------------------------------------------------
(* The answers.                                                            *)

SaveArrives_ErrorIgnored ==
  /\ saving /\ save.reply # None
  /\ LET last == Sent = Len(save.writes) IN
     /\ Noted(save.reply /\ (last => query.valid))
     /\ save' = IF last => query.valid
                THEN [save EXCEPT !.done = Sent, !.reply = None] ELSE None
     /\ IF last THEN runQuery("save", page, save.batch) ELSE UNCHANGED <<calls, running>>
  /\ UNCHANGED <<kind, db, grid, bar, query>>

(* An error ends the save; after the last request the page says "Changes   *)
(* saved" and runs the query again, unless its text is no JSON.            *)
SaveArrives ==
  /\ saving /\ save.reply # None
  /\ LET last == Sent = Len(save.writes)
         fine == save.reply /\ (last => query.valid) IN
     /\ Noted(fine)
     /\ save' = IF fine THEN [save EXCEPT !.done = Sent, !.reply = None] ELSE None
     /\ IF fine /\ last THEN runQuery("save", page, save.batch) ELSE UNCHANGED <<calls, running>>
  /\ UNCHANGED <<kind, db, grid, bar, query>>

Settled == astray' = IF astray = "never" THEN "never" ELSE "before"
ColumnsOf(read) == {f \in Fields : \E k \in DOMAIN read : read[k].orig[f] # Absent}

RowsArrive_RowsKept(s) ==
  /\ calls[s] # None /\ calls[s].reply # None
  /\ calls' = [calls EXCEPT ![s] = None]
  /\ running' = FALSE /\ Settled
  /\ save' = IF calls[s].why = "save" THEN None ELSE save
  /\ LET reply == calls[s].reply IN
     \/ ~reply.ok /\ UNCHANGED <<rows, columns, total>>
     \/ reply.ok /\ rows' = reply.rows /\ columns' = ColumnsOf(reply.rows) /\ total' = reply.total
  /\ UNCHANGED <<kind, db, drafted, page, query>>

RowsArrive_NoFinally(s) ==
  /\ calls[s] # None /\ calls[s].reply # None
  /\ calls' = [calls EXCEPT ![s] = None]
  /\ Settled
  /\ LET reply == calls[s].reply IN
     \/ /\ ~reply.ok /\ rows' = <<>> /\ columns' = {} /\ total' = None
        /\ UNCHANGED <<running, save>>
     \/ /\ reply.ok /\ running' = FALSE
        /\ save' = IF calls[s].why = "save" THEN None ELSE save
        /\ rows' = reply.rows /\ columns' = ColumnsOf(reply.rows) /\ total' = reply.total
  /\ UNCHANGED <<kind, db, drafted, page, query>>

(* When a document was to be focused, by the path that was opened or since *)
(* a save, and there is none, the MongoDB page starts a new one.           *)
RowsArrive(s) ==
  /\ calls[s] # None /\ calls[s].reply # None
  /\ calls' = [calls EXCEPT ![s] = None]
  /\ running' = FALSE /\ Settled
  /\ save' = IF calls[s].why = "save" THEN None ELSE save
  /\ LET reply == calls[s].reply IN
     \/ ~reply.ok /\ rows' = <<>> /\ columns' = {} /\ total' = None /\ UNCHANGED drafted
     \/ /\ reply.ok
        /\ columns' = ColumnsOf(reply.rows) /\ total' = reply.total
        /\ \/ rows' = reply.rows /\ UNCHANGED drafted
           \/ /\ kind = "mongodb" /\ reply.rows = <<>>
              /\ drafted < MaxDrafts
              /\ rows' = <<Added(drafted + 1, Nothing)>> /\ drafted' = drafted + 1
  /\ UNCHANGED <<kind, db, page, query>>

Network == ServeSave \/ SaveArrives \/ \E s \in Slots : ServeRows(s) \/ RowsArrive(s)

Init ==
  /\ kind \in {"mongodb", "elasticsearch"}
  /\ \E first \in FirstDocs :
       /\ docs = [id \in DOMAIN first |-> [doc |-> first[id], by |-> 0]]
       /\ nextId = Len(first) + 1
  /\ rows = <<>> /\ columns = {} /\ drafted = 0
  /\ page = 1 /\ total = None
  /\ \E fields \in IF May("projection") THEN SUBSET Fields ELSE {Fields} :
       query = [valid |-> TRUE, fields |-> fields]
  /\ running = TRUE /\ save = None
  /\ calls = [s \in Slots |-> IF \A t \in Slots : s <= t THEN Request("open", 1, <<>>) ELSE None]
  /\ astray = "never"

Next == Edit \/ Ask \/ Network
Spec == Init /\ [][Next]_vars
-----------------------------------------------------------------------------
Idle == ~saving /\ \A s \in Slots : calls[s] = None

\* The page is busy only while a request is under way whose answer ends it.
BusyEnds ==
  /\ running => \E s \in Slots : calls[s] # None
  /\ AllWritten => \E s \in Slots : calls[s] # None /\ calls[s].why = "save"

(* Every variable keeps its type; a draft without an original is new and   *)
(* no other is; only the MongoDB page keeps what has no column.            *)
TypeOK ==
  /\ kind \in {"mongodb", "elasticsearch"}
  /\ docs \in [DOMAIN docs -> [doc : Documents, by : 0..MaxDrafts]]
  /\ DOMAIN docs \subseteq 1..nextId - 1 /\ nextId \in 1..MaxId + 1
  /\ rows \in Seq(Drafts) /\ columns \subseteq Fields /\ drafted \in 0..MaxDrafts
  /\ \A i \in DOMAIN rows :
       /\ (rows[i].orig = None) = (rows[i].state = "new")
       /\ kind = "elasticsearch" => \A f \in Fields \ columns : rows[i].vals[f] = Absent
  /\ page \in Nat \ {0} /\ total \in (0..MaxId) \cup {None}
  /\ query \in [valid : BOOLEAN, fields : SUBSET Fields]
  /\ running \in BOOLEAN /\ astray \in {"never", "here", "before"}
  /\ save \in Saves \cup {None} /\ calls \in [Slots -> Requests \cup {None}]
  /\ BusyEnds

(* What the page bar says is what the grid shows: with nothing in flight   *)
(* the rows read from the collection are those of the bar's page, however  *)
(* queries failed: a failed query leaves no rows under a new page.         *)
PageShown ==
  Idle /\ total # None /\ astray # "here" =>
    {rows[i].id : i \in {j \in DOMAIN rows : rows[j].orig # None}} = ToSet(Page(page))

(* With nothing in flight and nobody else writing the originals in the     *)
(* grid are the documents of the collection: the next save, which replaces *)
(* whole documents, starts from what is there.  Only a save that failed,   *)
(* in part, or that could not read again leaves older ones.                *)
Fresh ==
  Idle /\ astray # "here" =>
    \A i \in DOMAIN rows :
      rows[i].orig # None => /\ rows[i].id \in DOMAIN docs
                             /\ docs[rows[i].id].doc = rows[i].orig

(* The page is what it says it is, and up to date.                         *)
PageIsTrue == PageShown /\ Fresh

(* An answer that replaces the grid takes with it only drafts the user     *)
(* chose to discard or that were in the batch just saved.                  *)
EditsSurvive ==
  \A s \in Slots :
    calls[s] # None /\ calls'[s] = None /\ calls[s].why # "discard"
    => PendingRows \subseteq ToSet(calls[s].batch)

EditedIn(d, f) == d.vals[f] # d.orig[f]

(* Replacing whole documents changes no more than the user did: a field    *)
(* the user did not touch keeps its value, or becomes null where it was    *)
(* absent, or goes back to what was read (null if it was absent) when a    *)
(* failed save had changed it; a document goes only when its row was       *)
(* deleted, and comes only from an added row or, back, from an edited row  *)
(* of Elasticsearch whose document an earlier save deleted.                *)
OnlyEdits ==
  /\ \A id \in DOMAIN docs \ DOMAIN docs' :
       \E d \in ToSet(save.batch) : d.id = id /\ d.state = "deleted"
  /\ \A id \in DOMAIN docs' \ DOMAIN docs :
       \E d \in ToSet(save.batch) :
         \/ d.state = "new" /\ d.uid = docs'[id].by
         \/ kind = "elasticsearch" /\ d.state = "modified" /\ d.id = id
  /\ \A id \in DOMAIN docs \cap DOMAIN docs', f \in Fields :
       docs'[id].doc[f] # docs[id].doc[f] =>
         \/ docs[id].doc[f] = Absent /\ docs'[id].doc[f] = Null
         \/ \E d \in ToSet(save.batch) :
              /\ d.id = id /\ d.state = "modified"
              /\ \/ EditedIn(d, f)
                 \/ /\ astray = "here"
                    /\ \/ docs'[id].doc[f] = d.orig[f]
                       \/ d.orig[f] = Absent /\ docs'[id].doc[f] = Null

(* No edit is dropped on its way from the grid to the collection, none is  *)
(* made up, and none is done to another document.                          *)
EditsAreKept == [][EditsSurvive /\ OnlyEdits]_vars

(* When the page says "Changes saved" every edit of the batch is in the    *)
(* collection, also when it took several saves, of which some failed half  *)
(* way.                                                                    *)
SavedIsStored ==
  AllWritten =>
    \A w \in ToSet(save.writes) :
      CASE w.state = "deleted" -> w.id \notin DOMAIN docs
        [] w.state = "modified" -> w.id \in DOMAIN docs /\ docs[w.id].doc = w.doc
        [] w.state = "new" -> \E id \in DOMAIN docs : docs[id] = [doc |-> w.doc, by |-> w.uid]

(* As long as every save succeeded and could read the page again, a row    *)
(* the user added once is inserted once.                                   *)
InsertedOnce ==
  astray = "never" => \A a, b \in DOMAIN docs : docs[a].by = docs[b].by /\ docs[a].by # 0 => a = b

(* What is told to be saved is stored, once.                               *)
SavedOnce == SavedIsStored /\ InsertedOnce
=============================================================================
