---------------------------- MODULE TableEditor ----------------------------
(***************************************************************************)
(* The SQL table page: a grid of drafts over one page of a table, edited   *)
(* by one user, saved as one batch.  SQLTableView.vue talks to the server, *)
(* ExtendedDataTable.vue edits the drafts, saveTableChanges of the SQL     *)
(* adapters runs the batch in one transaction.                             *)
(*                                                                         *)
(* A table row has one key column, filled by the database, and one         *)
(* editable column.  A request is a record in calls: it is sent, served at *)
(* a later moment, and answered at a later one still.                      *)
(***************************************************************************)
EXTENDS Positions, Naturals, FiniteSets, Sequences, SequencesExt

CONSTANTS
  Values,     \* what the editable column may hold
  Null,       \* the value NULL, one of them
  Refused,    \* the values a constraint of the table refuses
  Filters,    \* the values the user filters by
  FirstRows,  \* how many rows the table has at first
  MaxId,      \* bound: keys the table may hand out
  MaxDrafts,  \* bound: rows the user adds
  MaxRows,    \* bound: rows in the grid
  PageSize,   \* rows per page
  Slots,      \* bound: requests in flight at once
  Keyed,      \* TRUE: the table has a primary key
  Features,   \* what the environment may do, see below
  None

(***************************************************************************)
(* overlap          the user asks while an earlier request is unanswered   *)
(* editWhileSaving  the user edits while a save is unanswered              *)
(* dirtyRefresh     the user refreshes with unsaved edits, or edits during *)
(*                  the refresh                                            *)
(* undelete         the user deletes a deleted row again                   *)
(* failedLoads      a request other than the reload of a save may fail     *)
(* failedReload     the reload after a save may fail                       *)
(* lostReply        a save may be carried out and its answer lost          *)
(* otherClient      somebody else changes the table                        *)
(***************************************************************************)
AllFeatures == {"overlap", "editWhileSaving", "dirtyRefresh", "undelete",
                "failedLoads", "failedReload", "lostReply", "otherClient"}

ASSUME EditorAssumption ==
  /\ Null \in Values /\ None \notin Values
  /\ Refused \subseteq Values /\ Filters \subseteq Values
  /\ {FirstRows, MaxId, MaxDrafts, MaxRows} \subseteq Nat /\ FirstRows <= MaxId
  /\ PageSize \in Nat \ {0}
  /\ Slots \subseteq Nat \ {0} /\ Slots # {}
  /\ Keyed \in BOOLEAN /\ Features \subseteq AllFeatures

VARIABLES
  db,       \* the table: key -> [val, by], by the draft that inserted the row
  nextId,   \* the key the table hands out next
  rows,     \* the grid: a sequence of drafts
  drafted,  \* how many drafts the user has added
  page, where, total,  \* what the page says it shows
  detailed,            \* whether tableDetails is there
  loading, saving,     \* isLoading, isSaving
  calls,    \* slot -> the request in flight there, or None
  unsure    \* history: the added rows a save inserted without the page seeing it,
            \* its answer lost or its reload failed

grid == <<rows, drafted>>
shown == <<page, where, total, detailed>>
flags == <<loading, saving>>
table == <<db, nextId, unsure>>
vars == <<table, grid, shown, flags, calls>>

May(feature) == feature \in Features
-----------------------------------------------------------------------------
(* Drafts.  id is the table row a draft was read from, uid tells apart the *)
(* rows the user added, orig is None for those.  revived is history: the   *)
(* user took the deletion of an edited row back and has not edited it      *)
(* since; the page keeps the edit and counts the row as clean.             *)
Drafts == [id : 0..MaxId, uid : 0..MaxDrafts, val : Values,
           orig : Values \cup {None}, state : {"clean", "modified", "new", "deleted"},
           revived : BOOLEAN]

Loaded(id) == [id |-> id, uid |-> 0, val |-> db[id].val, orig |-> db[id].val,
               state |-> "clean", revived |-> FALSE]
Added(uid, val) ==
  [id |-> 0, uid |-> uid, val |-> val, orig |-> None, state |-> "new", revived |-> FALSE]

Recomputed_AnyRow(d) ==
  IF d.state = "deleted" THEN d
  ELSE [d EXCEPT !.state = IF d.val # d.orig THEN "modified" ELSE "clean", !.revived = FALSE]
Recomputed(d) ==
  IF d.state = "deleted" THEN d
  ELSE [d EXCEPT !.state = IF d.orig = None THEN "new"
                           ELSE IF d.val # d.orig THEN "modified" ELSE "clean",
                 !.revived = FALSE]

WithValue(d, v) == IF d.state = "deleted" THEN d ELSE Recomputed([d EXCEPT !.val = v])

Toggled(d) ==
  [d EXCEPT !.state = IF d.state = "deleted" THEN "clean" ELSE "deleted",
            !.revived = d.state = "deleted" /\ d.val # d.orig]

Restored_StateOnly(d) ==
  IF d.state = "deleted" THEN d ELSE [d EXCEPT !.state = "clean", !.revived = FALSE]
Restored(d) ==
  IF d.state = "deleted" THEN d
  ELSE [d EXCEPT !.val = d.orig, !.state = "clean", !.revived = FALSE]

Pending(d) == d.state # "clean"
PendingRows == {rows[i] : i \in {j \in DOMAIN rows : Pending(rows[j])}}
hasPendingChanges == PendingRows # {}
-----------------------------------------------------------------------------
(* Requests and the table page they ask for.                               *)
Idle == \A s \in Slots : calls[s] = None
Request(what, why, p, w, batch) ==
  [what |-> what, why |-> why, page |-> p, where |-> w, batch |-> batch, reply |-> None]

Send(request) ==
  LET free == {s \in Slots : calls[s] = None} IN
  /\ free # {}
  /\ Idle \/ May("overlap")
  /\ calls' = [calls EXCEPT ![CHOOSE s \in free : \A t \in free : s <= t] = request]

Found(w) == InOrder({id \in DOMAIN db : w = None \/ db[id].val = w})
Page(p, w) ==
  LET all == Found(w)
  IN SubSeq(all, (p - 1) * PageSize + 1,
            IF p * PageSize < Len(all) THEN p * PageSize ELSE Len(all))
pageCount == IF total = 0 THEN 1 ELSE (total + PageSize - 1) \div PageSize

loadRows(why, p, w) ==
  Send(Request("load", why, p, w, <<>>)) /\ loading' = TRUE
-----------------------------------------------------------------------------
(* The user's edits: the grid is there while no load is.                   *)
CanEdit ==
  /\ ~loading
  /\ saving => May("editWhileSaving")
  /\ (\E s \in Slots : calls[s] # None /\ calls[s].what = "details") => May("dirtyRefresh")

Ranges == {r \in (DOMAIN rows) \X (DOMAIN rows) : r[1] <= r[2]}
In(i, r) == r[1] <= i /\ i <= r[2]

commitEditing(i, v) ==
  /\ CanEdit
  /\ rows[i].state # "deleted"
  /\ rows' = [rows EXCEPT ![i] = WithValue(@, v)]
  /\ UNCHANGED <<table, drafted, shown, flags, calls>>

setSelectionToNull(r) ==
  /\ CanEdit
  /\ rows' = [i \in DOMAIN rows |-> IF In(i, r) THEN WithValue(rows[i], Null) ELSE rows[i]]
  /\ UNCHANGED <<table, drafted, shown, flags, calls>>

addRow ==
  /\ CanEdit
  /\ drafted < MaxDrafts /\ Len(rows) < MaxRows
  /\ rows' = Append(rows, Added(drafted + 1, Null))
  /\ drafted' = drafted + 1
  /\ UNCHANGED <<table, shown, flags, calls>>

duplicateSelectedRows(r) ==
  LET copied == At(rows, {i \in DOMAIN rows : In(i, r) /\ rows[i].state # "deleted"})
      copies == [k \in DOMAIN copied |-> Added(drafted + k, copied[k].val)] IN
  /\ CanEdit
  /\ copies # <<>>
  /\ drafted + Len(copies) <= MaxDrafts /\ Len(rows) + Len(copies) <= MaxRows
  /\ rows' = SubSeq(rows, 1, r[2]) \o copies \o SubSeq(rows, r[2] + 1, Len(rows))
  /\ drafted' = drafted + Len(copies)
  /\ UNCHANGED <<table, shown, flags, calls>>

Without(seq, gone) == At(seq, DOMAIN seq \ gone)

deleteSelectedRows(r) ==
  /\ CanEdit
  /\ May("undelete") \/ \A i \in DOMAIN rows : In(i, r) => rows[i].state # "deleted"
  /\ rows' = Without([i \in DOMAIN rows |-> IF In(i, r) THEN Toggled(rows[i]) ELSE rows[i]],
                     {i \in DOMAIN rows : In(i, r) /\ rows[i].orig = None})
  /\ UNCHANGED <<table, drafted, shown, flags, calls>>

discardSelectedChanges(r) ==
  /\ CanEdit
  /\ rows' = Without([i \in DOMAIN rows |-> IF In(i, r) THEN Restored(rows[i]) ELSE rows[i]],
                     {i \in DOMAIN rows : In(i, r) /\ rows[i].orig = None})
  /\ UNCHANGED <<table, drafted, shown, flags, calls>>

Edit ==
  \/ \E i \in DOMAIN rows, v \in Values : commitEditing(i, v)
  \/ addRow
  \/ \E r \in Ranges : \/ setSelectionToNull(r)
                       \/ duplicateSelectedRows(r)
                       \/ deleteSelectedRows(r)
                       \/ discardSelectedChanges(r)
-----------------------------------------------------------------------------
(* The user's requests.                                                    *)
refreshTable ==
  /\ hasPendingChanges => May("dirtyRefresh")
  /\ Send(Request("details", "refresh", page, where, <<>>))
  /\ UNCHANGED <<table, grid, shown, flags>>

discardChanges ==
  /\ hasPendingChanges
  /\ loadRows("discard", page, where)
  /\ UNCHANGED <<table, grid, shown, saving>>

guardPendingChanges == hasPendingChanges

changePage(p) ==
  /\ ~loading
  /\ ~guardPendingChanges
  /\ loadRows("page", IF p < pageCount THEN p ELSE pageCount, where)
  /\ UNCHANGED <<table, grid, shown, saving>>

applyWhereClause(w) ==
  /\ ~guardPendingChanges
  /\ loadRows("where", 1, w)
  /\ UNCHANGED <<table, grid, shown, saving>>

Changes == At(rows, {i \in DOMAIN rows : Pending(rows[i])})

Of(batch, state) == At(batch, {i \in DOMAIN batch : batch[i].state = state})

saveChanges ==
  /\ hasPendingChanges /\ ~saving /\ detailed
  /\ nextId + Len(Of(Changes, "new")) <= MaxId + 1
  /\ Send(Request("save", "save", page, where, Changes))
  /\ saving' = TRUE
  /\ UNCHANGED <<table, grid, shown, loading>>

Ask ==
  \/ refreshTable \/ discardChanges \/ saveChanges
  \/ \E p \in 1..pageCount + 1 : changePage(p)
  \/ \E w \in Filters \cup {None} : applyWhereClause(w)
-----------------------------------------------------------------------------
(* The server.  A batch runs in one transaction: inserts, then updates,    *)
(* then deletes; any error rolls all of it back.                           *)
Tx(d, n) == [db |-> d, next |-> n, ok |-> TRUE]

Matches(tx, d) ==
  IF Keyed THEN {d.id} \cap DOMAIN tx.db
  ELSE {id \in DOMAIN tx.db : tx.db[id].val = d.orig}

Run(tx, d) ==
  CASE ~tx.ok -> tx
    [] tx.ok /\ d.state # "deleted" /\ d.val \in Refused -> [tx EXCEPT !.ok = FALSE]
    [] tx.ok /\ d.state = "new" /\ d.val \notin Refused ->
         [tx EXCEPT !.db = [id \in DOMAIN @ \cup {tx.next} |->
                              IF id = tx.next THEN [val |-> d.val, by |-> d.uid] ELSE @[id]],
                    !.next = @ + 1]
    [] tx.ok /\ d.state = "modified" /\ d.val \notin Refused ->
         [tx EXCEPT !.db = [id \in DOMAIN @ |->
                              IF id \in Matches(tx, d) THEN [@[id] EXCEPT !.val = d.val]
                              ELSE @[id]]]
    [] tx.ok /\ d.state = "deleted" ->
         [tx EXCEPT !.db = [id \in DOMAIN @ \ Matches(tx, d) |-> @[id]]]

Ordered(batch) == Of(batch, "new") \o Of(batch, "modified") \o Of(batch, "deleted")

saveTableChanges(batch) ==
  LET statements == Ordered(batch)
      tx[k \in 0..Len(statements)] ==
        IF k = 0 THEN Tx(db, nextId) ELSE Run(tx[k - 1], statements[k])
  IN tx[Len(statements)]

NewIn(batch) == {d.uid : d \in ToSet(Of(batch, "new"))}

Answer(s, reply) == calls' = [calls EXCEPT ![s].reply = reply]
Unserved(s) == calls[s] # None /\ calls[s].reply = None

ServeDetails(s) ==
  /\ Unserved(s) /\ calls[s].what = "details"
  /\ Answer(s, [ok |-> TRUE])
  /\ UNCHANGED <<table, grid, shown, flags>>

ServeRows(s) ==
  /\ Unserved(s) /\ calls[s].what = "load"
  /\ LET ids == Page(calls[s].page, calls[s].where)
     IN Answer(s, [ok |-> TRUE, rows |-> [k \in DOMAIN ids |-> Loaded(ids[k])],
                   total |-> Len(Found(calls[s].where))])
  /\ UNCHANGED <<table, grid, shown, flags>>

ServeSave_NoRollback(s) ==
  /\ Unserved(s) /\ calls[s].what = "save"
  /\ LET tx == saveTableChanges(calls[s].batch) IN
     /\ db' = tx.db /\ nextId' = tx.next
     /\ Answer(s, [ok |-> tx.ok])
  /\ UNCHANGED <<unsure, grid, shown, flags>>

ServeSave(s) ==
  /\ Unserved(s) /\ calls[s].what = "save"
  /\ LET tx == saveTableChanges(calls[s].batch) IN
     /\ IF tx.ok THEN db' = tx.db /\ nextId' = tx.next ELSE UNCHANGED <<db, nextId>>
     /\ \/ Answer(s, [ok |-> tx.ok]) /\ UNCHANGED unsure
        \/ /\ May("lostReply") /\ tx.ok
           /\ Answer(s, [ok |-> FALSE])
           /\ unsure' = unsure \cup NewIn(calls[s].batch)
  /\ UNCHANGED <<grid, shown, flags>>

Fail(s) ==
  /\ Unserved(s)
  /\ IF calls[s].what = "load" /\ calls[s].why = "save"
     THEN May("failedReload") ELSE May("failedLoads")
  /\ Answer(s, [ok |-> FALSE])
  /\ UNCHANGED <<table, grid, shown, flags>>

otherClient(id) ==
  /\ May("otherClient")
  /\ \/ \E v \in Values \ (Refused \cup {db[id].val}) : db' = [db EXCEPT ![id].val = v]
     \/ db' = [i \in DOMAIN db \ {id} |-> db[i]]
  /\ UNCHANGED <<nextId, unsure, grid, shown, flags, calls>>
-----------------------------------------------------------------------------
(* The answers.                                                            *)
Answered(s, what) == calls[s] # None /\ calls[s].reply # None /\ calls[s].what = what
Free(s) == calls' = [calls EXCEPT ![s] = None]
Reload(s, why, batch) ==
  /\ calls' = [calls EXCEPT ![s] = Request("load", why, page, where, batch)]
  /\ loading' = TRUE

DetailsArrive(s) ==
  /\ Answered(s, "details")
  /\ \/ ~calls[s].reply.ok /\ Free(s) /\ UNCHANGED <<loading, detailed>>
     \/ calls[s].reply.ok /\ Reload(s, "refresh", <<>>) /\ detailed' = TRUE
  /\ UNCHANGED <<table, grid, page, where, total, saving>>

SaveArrives_NoReload(s) ==
  /\ Answered(s, "save")
  /\ Free(s) /\ saving' = FALSE
  /\ UNCHANGED <<table, grid, shown, loading>>

SaveArrives(s) ==
  /\ Answered(s, "save")
  /\ \/ ~calls[s].reply.ok /\ Free(s) /\ saving' = FALSE /\ UNCHANGED loading
     \/ calls[s].reply.ok /\ Reload(s, "save", calls[s].batch) /\ UNCHANGED saving
  /\ UNCHANGED <<table, grid, shown>>

RowsArrive_NoFinally(s) ==
  /\ Answered(s, "load")
  /\ Free(s)
  /\ LET reply == calls[s].reply IN
     \/ ~reply.ok /\ UNCHANGED <<rows, shown, flags>>
     \/ /\ reply.ok
        /\ loading' = FALSE /\ saving' = (saving /\ calls[s].why # "save")
        /\ rows' = reply.rows /\ total' = reply.total /\ detailed' = TRUE
        /\ page' = calls[s].page /\ UNCHANGED where
  /\ UNCHANGED <<table, drafted>>

RowsArrive_FilterFirst(s) ==
  /\ Answered(s, "load")
  /\ Free(s)
  /\ loading' = FALSE
  /\ saving' = (saving /\ calls[s].why # "save")
  /\ where' = IF calls[s].why = "where" THEN calls[s].where ELSE where
  /\ LET reply == calls[s].reply IN
     \/ ~reply.ok /\ UNCHANGED <<rows, page, total, detailed>>
     \/ /\ reply.ok /\ detailed' = TRUE
        /\ rows' = reply.rows /\ page' = calls[s].page /\ total' = reply.total
  /\ UNCHANGED <<table, drafted>>

(* loadRows fetches the details itself when they are missing.              *)
RowsArrive(s) ==
  /\ Answered(s, "load")
  /\ Free(s)
  /\ loading' = FALSE
  /\ saving' = (saving /\ calls[s].why # "save")
  /\ LET reply == calls[s].reply IN
     \/ /\ ~reply.ok
        /\ detailed' \in {detailed, TRUE}
        /\ unsure' = unsure \cup NewIn(calls[s].batch)
        /\ UNCHANGED <<rows, page, where, total>>
     \/ /\ reply.ok
        /\ rows' = reply.rows
        /\ page' = calls[s].page
        /\ total' = reply.total
        /\ where' = IF calls[s].why = "where" THEN calls[s].where ELSE where
        /\ detailed' = TRUE
        /\ UNCHANGED unsure
  /\ UNCHANGED <<db, nextId, drafted>>

(* A request is served and answered, or fails: the browser ends each one,  *)
(* and the code that awaits it goes on.                                    *)
Progress(s) ==
  \/ ServeDetails(s) \/ ServeRows(s) \/ ServeSave(s) \/ Fail(s)
  \/ DetailsArrive(s) \/ SaveArrives(s) \/ RowsArrive(s)

Network ==
  \/ \E s \in Slots : Progress(s)
  \/ \E id \in DOMAIN db : otherClient(id)

Init ==
  /\ db \in [1..FirstRows -> [val : Values \ Refused, by : {0}]]
  /\ nextId = FirstRows + 1 /\ unsure = {}
  /\ rows = <<>> /\ drafted = 0
  /\ page = 1 /\ where = None /\ total = 0 /\ detailed = FALSE
  /\ loading = TRUE /\ saving = FALSE
  /\ calls = [s \in Slots |-> IF \A t \in Slots : s <= t
                              THEN Request("details", "refresh", 1, None, <<>>) ELSE None]

Next == Edit \/ Ask \/ Network
Spec == Init /\ [][Next]_vars

LiveSpec == Spec /\ \A s \in Slots : WF_vars(Progress(s))
-----------------------------------------------------------------------------
Answers == [ok : BOOLEAN] \cup [ok : {TRUE}, rows : Seq(Drafts), total : 0..MaxId]
Requests == [what : {"details", "load", "save"},
             why : {"refresh", "discard", "page", "where", "save"},
             page : Nat \ {0}, where : Filters \cup {None},
             batch : Seq(Drafts), reply : Answers \cup {None}]

ASSUME NoneAssumption == None \notin Answers \cup Requests

(* Every variable keeps its type, a draft without an original is new and   *)
(* no other is, and the user never added more rows than MaxDrafts.         *)
TypeOK ==
  /\ DOMAIN db \subseteq 1..MaxId /\ nextId \in 1..MaxId + 1
  /\ db \in [DOMAIN db -> [val : Values \ Refused, by : 0..MaxDrafts]]
  /\ rows \in Seq(Drafts) /\ drafted \in 0..MaxDrafts
  /\ \A i \in DOMAIN rows : (rows[i].orig = None) = (rows[i].state = "new")
  /\ page \in Nat \ {0} /\ where \in Filters \cup {None} /\ total \in 0..MaxId
  /\ detailed \in BOOLEAN /\ loading \in BOOLEAN /\ saving \in BOOLEAN
  /\ unsure \subseteq 0..MaxDrafts
  /\ calls \in [Slots -> Requests \cup {None}]

(* The footer's "Everything saved" is wrong in one way only.  With no      *)
(* pending draft every cell of the grid shows what was read from the       *)
(* table, whatever was edited, deleted, restored and discarded and in what *)
(* order, except in a row that was edited, deleted and restored and not    *)
(* edited since: deleteSelectedRows calls such a row clean.                *)
EverythingSaved ==
  ~hasPendingChanges =>
    \A i \in DOMAIN rows : rows[i].val = rows[i].orig \/ rows[i].revived


(* An answer that replaces the grid takes with it only drafts the user     *)
(* chose to discard or that were in the batch just saved: guardPending-    *)
(* Changes and the unmounted grid of isLoading keep everything else.       *)
EditsSurvive ==
  \A s \in Slots :
    calls[s] # None /\ calls[s].what = "load" /\ calls'[s] = None
      /\ calls[s].reply.ok /\ calls[s].why # "discard"
    => PendingRows \subseteq ToSet(calls[s].batch)

(* What the page says it shows is what it shows: with nothing in flight    *)
(* the grid's rows of the table are those of the footer's page and filter, *)
(* whichever of the two the last requests changed and whichever failed.    *)
PageShown ==
  Idle /\ total > 0 =>
    {rows[i].id : i \in {j \in DOMAIN rows : rows[j].orig # None}} = ToSet(Page(page, where))

(* A row the user added once is inserted once, with one exception.  A save *)
(* that is refused, sent again, edited meanwhile or overlapped by loads    *)
(* inserts nothing twice; but a row that a save inserted without the page  *)
(* seeing it (the answer lost, or the reload failed) stays a new draft,    *)
(* and the next save may insert it again.                                  *)
InsertedOnce ==
  \A a, b \in DOMAIN db :
    db[a].by = db[b].by /\ db[a].by # 0 /\ db[a].by \notin unsure => a = b

(* With nothing in flight and nobody else writing, the originals the next  *)
(* save will compare with are the rows of the table.                       *)
Fresh ==
  Idle => \A i \in DOMAIN rows :
            rows[i].orig # None =>
              rows[i].id \in DOMAIN db /\ db[rows[i].id].val = rows[i].orig

(* The page is what it says it is, and up to date.                         *)
PageIsTrue == PageShown /\ Fresh

Edited(batch, id) == \E d \in ToSet(batch) : d.orig # None /\ d.id = id

Stored(batch) ==
  /\ \A d \in ToSet(batch) :
       CASE d.state = "modified" -> d.id \in DOMAIN db' /\ db'[d.id].val = d.val
         [] d.state = "deleted" -> d.id \notin DOMAIN db'
         [] d.state = "new" -> \E id \in DOMAIN db' \ DOMAIN db :
                                  db'[id] = [val |-> d.val, by |-> d.uid]
  /\ \A id \in DOMAIN db : ~Edited(batch, id) => id \in DOMAIN db' /\ db'[id] = db[id]

(* A save answered without an error did to the table exactly the edits of  *)
(* its batch, each to its own row, and one that failed did nothing.        *)
SaveDoesTheEdits ==
  \A s \in Slots :
    Unserved(s) /\ calls[s].what = "save" /\ calls'[s] # calls[s]
    => IF calls'[s].reply.ok THEN Stored(calls[s].batch)
       ELSE db' = db \/ (May("lostReply") /\ Stored(calls[s].batch))

(* No edit is dropped on its way from the grid to the table, none is made  *)
(* up, and none is done to another row.                                    *)
EditsAreKept == [][EditsSurvive /\ SaveDoesTheEdits]_vars

RowsAsked == detailed \/ \E s \in Slots : calls[s] # None /\ calls[s].what = "load"

(* A save always ends, and so does a load: however it and its reload fail, *)
(* and whatever else is in flight, the Save button comes back and the grid *)
(* is shown again.  What comes before the first load is not promised:      *)
(* onMounted has no handler around fetchTableDetails, and when that first  *)
(* request fails the page stays loading until the user asks for rows.      *)
SaveEnds == (saving ~> ~saving) /\ (loading /\ RowsAsked ~> ~loading)
=============================================================================
