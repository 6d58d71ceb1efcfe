--------------------------- MODULE DocumentEditorProofs ---------------------------
(***************************************************************************)
(* Proofs about DocumentEditor, for every collection, page size, number of *)
(* requests and kind of page: the types, that what is told to be saved is  *)
(* stored and stored once, that the page shows what it says, and that no   *)
(* edit is lost and none is made up.                                       *)
(*                                                                         *)
(* Sound has the types; it ties the writes of a save to its batch and says *)
(* that the database has an id left for each insert still to come.  What   *)
(* writes do is proved by induction on their number (Steps, Kept).         *)
(* StoredSoFar and NumberedOnce follow a save write by write.  Alone says  *)
(* of whom a query is, Asking what its answer would still show, and Truth  *)
(* what the page does show.  Held keeps pending drafts in the batch that   *)
(* will replace them; Unwritten leaves what is still to be replaced as it  *)
(* was read.                                                               *)
(***************************************************************************)
EXTENDS DocumentEditor, PositionsProofs

-----------------------------------------------------------------------------
(* Drafts and the edits of the grid.                                       *)
NewIsNew(d) == (d.orig = None) = (d.state = "new")
\* A draft is new when it was not read; it has nothing where the grid of page k has no column
\* among cols, but for documents typed on the MongoDB page.
Fits(d, k, cols) ==
  /\ NewIsNew(d)
  /\ k = "elasticsearch" => \A f \in Fields \ cols : d.vals[f] = Absent
  /\ d.orig # None => \A f \in Fields \ cols : d.orig[f] = Absent

Grid ==
  /\ rows \in Seq(Drafts) /\ columns \in SUBSET Fields /\ drafted \in 0..MaxDrafts
  /\ kind \in {"mongodb", "elasticsearch"}
  /\ \A i \in DOMAIN rows : Fits(rows[i], kind, columns)

\* An edit leaves alone what row it is and what was read.
SameRow(d, e) == e.orig = d.orig /\ e.id = d.id /\ (d.orig = None => e.uid = d.uid)

LEMMA DocumentIs ==
  ASSUME DocumentAssumption
  PROVE  /\ None \notin Documents /\ Null \in Values /\ Absent \notin Values
         /\ MaxDrafts \in Nat /\ MaxId \in Nat /\ MaxRows \in Nat
         /\ Slots \in SUBSET Nat
BY DEF DocumentAssumption

LEMMA JudgedIs ==
  ASSUME NEW d \in Drafts, NewIsNew(d), NEW v \in Documents, NEW e,
         e = Judged([d EXCEPT !.vals = v])
  PROVE  /\ e \in Drafts /\ NewIsNew(e) /\ SameRow(d, e) /\ e.vals = v
<1> DEFINE c == [d EXCEPT !.vals = v]
<1>1. c \in Drafts /\ c.vals = v /\ c.orig = d.orig /\ c.id = d.id /\ c.uid = d.uid
  BY DEF Drafts
<1> HIDE DEF c
<1>2. e = [c EXCEPT !.state = IF c.orig = None THEN "new" ELSE IF Dirty(c) THEN "modified" ELSE "clean"]
  BY DEF Judged, c
<1>3. (IF c.orig = None THEN "new" ELSE IF Dirty(c) THEN "modified" ELSE "clean") \in {"clean", "modified", "new", "deleted"}
  OBVIOUS
<1>4. PICK s \in {"clean", "modified", "new", "deleted"} :
         /\ e = [c EXCEPT !.state = s] /\ (c.orig = None) = (s = "new")
  BY <1>2
<1>5. e \in Drafts /\ e.state = s /\ e.orig = c.orig /\ e.id = c.id /\ e.uid = c.uid /\ e.vals = c.vals
  BY <1>1, <1>4 DEF Drafts
<1> QED BY <1>1, <1>4, <1>5 DEF NewIsNew, SameRow

LEMMA CellIs ==
  ASSUME DocumentAssumption, Grid, NEW d \in Drafts, Fits(d, kind, columns), NEW f \in columns, NEW v \in Values
  PROVE  /\ WithCell(d, f, v) \in Drafts /\ Fits(WithCell(d, f, v), kind, columns)
         /\ SameRow(d, WithCell(d, f, v))
<1> DEFINE w == [d.vals EXCEPT ![f] = v]
           e == WithCell(d, f, v)
<1>1. d.vals \in Documents /\ f \in Fields
  BY DEF Drafts, Grid
<1>2. w \in Documents /\ \A g \in Fields \ columns : w[g] = d.vals[g]
  BY <1>1 DEF Documents
<1>3. e = Judged([d EXCEPT !.vals = w])
  BY DEF WithCell
<1> HIDE DEF w, e
<1>4. e \in Drafts /\ NewIsNew(e) /\ SameRow(d, e) /\ e.vals = w
  BY <1>2, <1>3, JudgedIs DEF Fits
<1>5. Fits(e, kind, columns)
  BY <1>2, <1>4 DEF Fits, SameRow
<1> QED BY <1>4, <1>5 DEF e

LEMMA TypedIs ==
  ASSUME NEW d \in Drafts, Fits(d, "mongodb", columns), NEW v \in Documents
  PROVE  /\ WithDocument(d, v) \in Drafts /\ Fits(WithDocument(d, v), "mongodb", columns)
         /\ SameRow(d, WithDocument(d, v))
<1> DEFINE e == WithDocument(d, v)
<1>1. e = Judged([d EXCEPT !.vals = v])
  BY DEF WithDocument
<1> HIDE DEF e
<1>2. e \in Drafts /\ NewIsNew(e) /\ SameRow(d, e) /\ e.vals = v
  BY <1>1, JudgedIs DEF Fits
<1>3. Fits(e, "mongodb", columns)
  BY <1>2 DEF Fits, SameRow
<1> QED BY <1>2, <1>3 DEF e

LEMMA LoadedIs ==
  ASSUME DocumentAssumption, NEW id \in 0..MaxId, NEW doc \in Documents
  PROVE  /\ Loaded(id, doc) \in Drafts /\ NewIsNew(Loaded(id, doc))
         /\ Loaded(id, doc).orig = doc /\ Loaded(id, doc).vals = doc /\ doc # None
         /\ Loaded(id, doc).id = id /\ Loaded(id, doc).uid = 0 /\ Loaded(id, doc).state = "clean"
BY DocumentIs DEF Loaded, Drafts, NewIsNew

LEMMA AddedIs ==
  ASSUME DocumentAssumption, NEW uid \in 0..MaxDrafts, NEW v \in Documents
  PROVE  /\ Added(uid, v) \in Drafts /\ NewIsNew(Added(uid, v)) /\ Added(uid, v).orig = None
         /\ Added(uid, v).uid = uid /\ Added(uid, v).vals = v /\ Added(uid, v).state = "new"
BY DocumentIs DEF Added, Drafts, NewIsNew

LEMMA ShownIs ==
  ASSUME NEW v \in Documents
  PROVE  Shown(v) \in Documents /\ \A f \in Fields \ columns : Shown(v)[f] = Absent
BY DEF Shown, Documents

\* What one edit of the grid does: src says which row a row was, 0 for the one that is new.
EditedFrom(src) ==
  /\ rows' \in Seq(Drafts) /\ drafted' \in drafted..MaxDrafts
  /\ src \in [DOMAIN rows' -> 0..Len(rows)]
  /\ \A j \in DOMAIN rows' :
       /\ Fits(rows'[j], kind, columns)
       /\ src[j] = 0 => rows'[j].orig = None /\ rows'[j].uid \in drafted + 1..drafted'
       /\ src[j] # 0 => SameRow(rows[src[j]], rows'[j])
  /\ \A j, l \in DOMAIN rows' : src[j] = src[l] => j = l
  /\ \A i \in DOMAIN rows : rows[i].orig # None => \E j \in DOMAIN rows' : src[j] = i

LEMMA EditInPlace ==
  ASSUME Grid, NEW i \in DOMAIN rows, NEW e \in Drafts, Fits(e, kind, columns), SameRow(rows[i], e),
         rows' = [rows EXCEPT ![i] = e], drafted' = drafted, MaxDrafts \in Nat
  PROVE  \E src : EditedFrom(src)
<1> DEFINE src == [j \in DOMAIN rows |-> j]
<1>1. rows \in Seq(Drafts) /\ drafted \in 0..MaxDrafts /\ DOMAIN rows = 1..Len(rows) /\ Len(rows) \in Nat
  BY DEF Grid
<1>2. rows' \in Seq(Drafts) /\ DOMAIN rows' = DOMAIN rows
      /\ \A j \in DOMAIN rows : rows'[j] = IF j = i THEN e ELSE rows[j]
  BY <1>1
<1>3. src \in [DOMAIN rows' -> 0..Len(rows)] /\ \A j \in DOMAIN rows : src[j] = j /\ j # 0
  BY <1>1, <1>2
<1>4. \A j \in DOMAIN rows : Fits(rows'[j], kind, columns) /\ SameRow(rows[j], rows'[j])
  BY <1>2 DEF Grid, SameRow
<1> HIDE DEF src
<1>5. drafted' \in drafted..MaxDrafts
  BY <1>1
<1>6. EditedFrom(src)
  BY <1>2, <1>3, <1>4, <1>5 DEF EditedFrom
<1> QED BY <1>6

LEMMA EditPicked ==
  ASSUME Grid, NEW S \in SUBSET DOMAIN rows, rows' \in Seq(Drafts), Len(rows') = Cardinality(S),
         \A k \in 1..Cardinality(S) : Fits(rows'[k], kind, columns) /\ SameRow(rows[Nth(S, k)], rows'[k]),
         \A i \in DOMAIN rows : rows[i].orig # None => i \in S, drafted' = drafted, MaxDrafts \in Nat
  PROVE  \E src : EditedFrom(src)
<1> DEFINE c == Cardinality(S)
           src == [k \in 1..c |-> Nth(S, k)]
<1>1. rows \in Seq(Drafts) /\ drafted \in 0..MaxDrafts /\ DOMAIN rows = 1..Len(rows) /\ Len(rows) \in Nat
  BY DEF Grid
<1>2. /\ c \in Nat
      /\ \A k \in 1..c : Nth(S, k) \in S
      /\ \A k, l \in 1..c : Nth(S, k) = Nth(S, l) => k = l
      /\ \A i \in S : \E k \in 1..c : Nth(S, k) = i
  BY <1>1, AtIs
<1>3. DOMAIN rows' = 1..c
  BY <1>2
<1>4. \A k \in 1..c : Fits(rows'[k], kind, columns) /\ SameRow(rows[Nth(S, k)], rows'[k])
  OBVIOUS
<1> HIDE DEF c
<1>5. \A k \in 1..c : src[k] = Nth(S, k) /\ src[k] \in DOMAIN rows /\ src[k] # 0
  BY <1>1, <1>2
<1>6. src \in [DOMAIN rows' -> 0..Len(rows)]
  BY <1>1, <1>3, <1>5
<1> HIDE DEF src
<1>7. \A i \in DOMAIN rows : rows[i].orig # None => \E j \in DOMAIN rows' : src[j] = i
  <2> SUFFICES ASSUME NEW i \in DOMAIN rows, rows[i].orig # None PROVE \E j \in 1..c : src[j] = i
    BY <1>3
  <2>1. PICK k \in 1..c : Nth(S, k) = i
    BY <1>2
  <2> QED BY <2>1, <1>5
<1>8. \A j, l \in DOMAIN rows' : src[j] = src[l] => j = l
  BY <1>2, <1>3, <1>5
<1>9. drafted' \in drafted..MaxDrafts
  BY <1>1
<1>10. EditedFrom(src)
  BY <1>3, <1>4, <1>5, <1>6, <1>7, <1>8, <1>9 DEF EditedFrom
<1> QED BY <1>10

LEMMA EditInserted ==
  ASSUME Grid, NEW m \in 0..Len(rows), NEW e, e.orig = None, e.uid = drafted + 1, Fits(e, kind, columns),
         rows' \in Seq(Drafts), Len(rows') = Len(rows) + 1,
         \A j \in 1..m : rows'[j] = rows[j], rows'[m + 1] = e,
         \A j \in m + 2..Len(rows) + 1 : rows'[j] = rows[j - 1],
         drafted' = drafted + 1, drafted < MaxDrafts, MaxDrafts \in Nat
  PROVE  \E src : EditedFrom(src)
<1> DEFINE n == Len(rows)
           src == [j \in 1..n + 1 |-> IF j <= m THEN j ELSE IF j = m + 1 THEN 0 ELSE j - 1]
<1>1. rows \in Seq(Drafts) /\ drafted \in Nat /\ DOMAIN rows = 1..n /\ n \in Nat /\ m \in Nat /\ m <= n
  BY DEF Grid
<1>2. DOMAIN rows' = 1..n + 1
  BY <1>1
<1> HIDE DEF n
<1>3. ASSUME NEW j \in 1..n + 1
      PROVE  \/ j \in 1..m /\ src[j] = j
             \/ j = m + 1 /\ src[j] = 0
             \/ j \in m + 2..n + 1 /\ src[j] = j - 1 /\ j - 1 \in m + 1..n
  <2>1. src[j] = IF j <= m THEN j ELSE IF j = m + 1 THEN 0 ELSE j - 1
    OBVIOUS
  <2> HIDE DEF src
  <2> QED BY <2>1, <1>1
<1>4. DOMAIN src = 1..n + 1
  OBVIOUS
<1> HIDE DEF src
<1>5. \A j \in 1..n + 1 : src[j] \in 0..n
  BY <1>1, <1>3
<1>6. src \in [DOMAIN rows' -> 0..Len(rows)]
  <2>1. src = [j \in 1..n + 1 |-> src[j]]
    BY <1>4 DEF src
  <2> QED BY <1>2, <1>5, <2>1 DEF n
<1>7. ASSUME NEW j \in DOMAIN rows'
      PROVE  /\ Fits(rows'[j], kind, columns)
             /\ src[j] = 0 => rows'[j].orig = None /\ rows'[j].uid \in drafted + 1..drafted'
             /\ src[j] # 0 => SameRow(rows[src[j]], rows'[j])
  <2>1. CASE j \in 1..m /\ src[j] = j
    <3>1. j \in DOMAIN rows /\ rows'[j] = rows[j] /\ src[j] # 0
      BY <2>1, <1>1
    <3> QED BY <3>1, <2>1 DEF Grid, SameRow
  <2>2. CASE j = m + 1 /\ src[j] = 0
    BY <2>2, <1>1
  <2>3. CASE j \in m + 2..n + 1 /\ src[j] = j - 1 /\ j - 1 \in m + 1..n
    <3>1. j - 1 \in DOMAIN rows /\ rows'[j] = rows[j - 1] /\ src[j] # 0
      BY <2>3, <1>1 DEF n
    <3> QED BY <3>1, <2>3 DEF Grid, SameRow
  <2> QED BY <1>2, <1>3, <2>1, <2>2, <2>3
<1>8. ASSUME NEW j \in DOMAIN rows', NEW l \in DOMAIN rows', src[j] = src[l] PROVE j = l
  BY <1>1, <1>2, <1>3, <1>8
<1>9. ASSUME NEW i \in DOMAIN rows PROVE \E j \in DOMAIN rows' : src[j] = i
  <2>1. CASE i <= m
    <3>1. i \in 1..n + 1 /\ src[i] = i
      BY <2>1, <1>1, <1>3
    <3> QED BY <3>1, <1>2
  <2>2. CASE i > m
    <3>1. i + 1 \in 1..n + 1 /\ src[i + 1] = i
      BY <2>2, <1>1, <1>3
    <3> QED BY <3>1, <1>2
  <2> QED BY <2>1, <2>2, <1>1
<1>10. drafted' \in drafted..MaxDrafts
  BY <1>1
<1>11. EditedFrom(src)
  BY <1>6, <1>7, <1>8, <1>9, <1>10 DEF EditedFrom
<1> QED BY <1>11

Others == <<kind, db, columns, bar, query, running, save, calls, astray>>

LEMMA WithoutIs ==
  ASSUME DocumentAssumption, Grid, NEW i \in DOMAIN rows, rows[i].orig = None,
         rows' = Without(i), drafted' = drafted
  PROVE  \E src : EditedFrom(src)
<1> DEFINE S == DOMAIN rows \ {i}
<1>1. rows \in Seq(Drafts) /\ S \in SUBSET DOMAIN rows
  BY DEF Grid
<1>2. rows' = At(rows, S)
  BY DEF Without
<1>3. \A j \in S : j \in DOMAIN rows
  OBVIOUS
<1>4. \A j \in DOMAIN rows : rows[j].orig # None => j \in S
  OBVIOUS
<1> HIDE DEF S
<1>5. /\ At(rows, S) \in Seq(Drafts) /\ Len(At(rows, S)) = Cardinality(S)
      /\ \A k \in 1..Cardinality(S) : Nth(S, k) \in S /\ At(rows, S)[k] = rows[Nth(S, k)]
  BY <1>1, AtIs
<1>6. \A k \in 1..Cardinality(S) : Fits(rows'[k], kind, columns) /\ SameRow(rows[Nth(S, k)], rows'[k])
  BY <1>2, <1>3, <1>5 DEF Grid, SameRow
<1>7. rows' \in Seq(Drafts) /\ Len(rows') = Cardinality(S)
  BY <1>2, <1>5
<1> QED BY <1>1, <1>4, <1>6, <1>7, EditPicked, DocumentIs

LEMMA InsertedIs ==
  ASSUME DocumentAssumption, Grid, NEW m \in 0..Len(rows), NEW v \in Documents,
         drafted < MaxDrafts, drafted' = drafted + 1,
         \A f \in Fields \ columns : v[f] = Absent,
         rows' = SubSeq(rows, 1, m) \o <<Added(drafted + 1, v)>> \o SubSeq(rows, m + 1, Len(rows))
  PROVE  \E src : EditedFrom(src)
<1> DEFINE e == Added(drafted + 1, v)
           c == <<e>>
<1>1. rows \in Seq(Drafts) /\ drafted \in Nat /\ Len(rows) \in Nat
  BY DEF Grid
<1>2. drafted + 1 \in 0..MaxDrafts
  BY <1>1, DocumentIs
<1>3. e \in Drafts /\ NewIsNew(e) /\ e.orig = None /\ e.uid = drafted + 1 /\ e.vals = v
  BY <1>2, AddedIs
<1>4. rows' = Spliced(rows, c, m)
  BY DEF Spliced
<1> HIDE DEF e
<1>5. c \in Seq(Drafts) /\ Len(c) = 1 /\ c[1] = e
  BY <1>3
<1> HIDE DEF c
<1>6. SplicedOK(Drafts, rows, c, m)
  BY <1>1, <1>5, Between, Zenon
<1>7. /\ rows' \in Seq(Drafts) /\ Len(rows') = Len(rows) + Len(c)
      /\ \A j \in 1..m : rows'[j] = rows[j]
      /\ \A j \in m + 1..m + Len(c) : rows'[j] = c[j - m]
      /\ \A j \in m + Len(c) + 1..Len(rows) + Len(c) : rows'[j] = rows[j - Len(c)]
  BY <1>4, <1>6, Zenon DEF SplicedOK
<1>8. /\ Len(rows') = Len(rows) + 1
      /\ rows'[m + 1] = e
      /\ \A j \in m + 2..Len(rows) + 1 : rows'[j] = rows[j - 1]
  <2>1. m + 1 \in m + 1..m + Len(c) /\ m + 1 - m = 1
    BY <1>1, <1>5
  <2>2. m + Len(c) + 1 = m + 2 /\ Len(rows) + Len(c) = Len(rows) + 1
    BY <1>1, <1>5
  <2>3. rows'[m + 1] = c[1]
    <3> DEFINE j == m + 1
    <3>1. j \in m + 1..m + Len(c) /\ j - m = 1
      BY <2>1
    <3> HIDE DEF j
    <3>2. rows'[j] = c[j - m]
      BY ONLY <1>7, <3>1, Zenon
    <3> QED BY <3>1, <3>2 DEF j
  <2> QED BY <1>5, <1>7, <2>2, <2>3
<1>9. Fits(e, kind, columns)
  BY <1>3 DEF Fits
<1> QED BY <1>3, <1>7, <1>8, <1>9, EditInserted, DocumentIs

LEMMA AppendedIs ==
  ASSUME DocumentAssumption, Grid, NEW v \in Documents, drafted < MaxDrafts, drafted' = drafted + 1,
         \A f \in Fields \ columns : v[f] = Absent,
         rows' = Append(rows, Added(drafted + 1, v))
  PROVE  \E src : EditedFrom(src)
<1> DEFINE e == Added(drafted + 1, v)
           m == Len(rows)
<1>1. rows \in Seq(Drafts) /\ drafted \in Nat /\ Len(rows) \in Nat
  BY DEF Grid
<1>2. drafted + 1 \in 0..MaxDrafts
  BY <1>1, DocumentIs
<1>3. e \in Drafts /\ NewIsNew(e) /\ e.orig = None /\ e.uid = drafted + 1 /\ e.vals = v
  BY <1>2, AddedIs
<1>4. rows' = Append(rows, e)
  OBVIOUS
<1> HIDE DEF e
<1>5. /\ rows' \in Seq(Drafts) /\ Len(rows') = Len(rows) + 1
      /\ \A j \in 1..Len(rows) : rows'[j] = rows[j]
      /\ rows'[Len(rows) + 1] = e
  BY <1>1, <1>3, <1>4, AppendProperties
<1>6. Fits(e, kind, columns)
  BY <1>3 DEF Fits
<1>7. \A j \in m + 2..Len(rows) + 1 : rows'[j] = rows[j - 1]
  BY <1>1
<1>8. m \in 0..Len(rows) /\ m = Len(rows)
  BY <1>1
<1> HIDE DEF m
<1> QED BY <1>3, <1>5, <1>6, <1>7, <1>8, EditInserted, DocumentIs

LEMMA EditIs ==
  ASSUME DocumentAssumption, Grid, Edit
  PROVE  /\ running \/ saving => May("editWhileBusy")
         /\ UNCHANGED Others
         /\ \E src : EditedFrom(src)
<1>0. /\ rows \in Seq(Drafts) /\ drafted \in 0..MaxDrafts /\ DOMAIN rows = 1..Len(rows) /\ Len(rows) \in Nat
      /\ \A i \in DOMAIN rows : rows[i] \in Drafts /\ Fits(rows[i], kind, columns)
      /\ columns \in SUBSET Fields /\ kind \in {"mongodb", "elasticsearch"}
  BY DEF Grid
<1>1. CASE addRow
  <2> DEFINE w == [f \in Fields |-> Null]
             v == Shown(w)
  <2>1. w \in Documents
    BY DocumentIs DEF Documents
  <2> HIDE DEF w
  <2>2. v \in Documents /\ \A f \in Fields \ columns : v[f] = Absent
    BY <2>1, ShownIs
  <2>3. /\ drafted < MaxDrafts /\ drafted' = drafted + 1
        /\ rows' = Append(rows, Added(drafted + 1, v))
    BY <1>1 DEF addRow, Edits, w
  <2> HIDE DEF v
  <2>4. \E src : EditedFrom(src)
    BY <2>2, <2>3, AppendedIs
  <2> QED BY <1>1, <2>4 DEF addRow, Edits, CanEdit, CanType, Others
<1>2. ASSUME NEW i \in DOMAIN rows, NEW f \in columns, NEW v \in Values, commitEditing(i, f, v)
      PROVE  /\ running \/ saving => May("editWhileBusy")
             /\ UNCHANGED Others
             /\ \E src : EditedFrom(src)
  <2> DEFINE e == WithCell(rows[i], f, v)
  <2>1. rows' = [rows EXCEPT ![i] = e] /\ drafted' = drafted
    BY <1>2 DEF commitEditing, Edits
  <2>2. e \in Drafts /\ Fits(e, kind, columns) /\ SameRow(rows[i], e)
    BY <1>0, CellIs
  <2> HIDE DEF e
  <2>3. \E src : EditedFrom(src)
    BY <2>1, <2>2, EditInPlace, DocumentIs
  <2> QED BY <1>2, <2>3 DEF commitEditing, Edits, CanEdit, CanType, Others
<1>3. ASSUME NEW i \in DOMAIN rows, NEW doc \in Documents, typeDocument(i, doc)
      PROVE  /\ running \/ saving => May("editWhileBusy")
             /\ UNCHANGED Others
             /\ \E src : EditedFrom(src)
  <2> DEFINE e == WithDocument(rows[i], doc)
  <2>1. rows' = [rows EXCEPT ![i] = e] /\ drafted' = drafted /\ kind = "mongodb"
    BY <1>3 DEF typeDocument, Edits
  <2>2. e \in Drafts /\ Fits(e, kind, columns) /\ SameRow(rows[i], e)
    BY <1>0, <2>1, TypedIs
  <2> HIDE DEF e
  <2>3. \E src : EditedFrom(src)
    BY <2>1, <2>2, EditInPlace, DocumentIs
  <2> QED BY <1>3, <2>3 DEF typeDocument, Edits, CanEdit, CanType, Others
<1>4. ASSUME NEW i \in DOMAIN rows, duplicateSelectedRows(i)
      PROVE  /\ running \/ saving => May("editWhileBusy")
             /\ UNCHANGED Others
             /\ \E src : EditedFrom(src)
  <2> DEFINE v == Shown(rows[i].vals)
  <2>1. v \in Documents /\ \A f \in Fields \ columns : v[f] = Absent
    BY <1>0, ShownIs DEF Drafts
  <2>2. /\ drafted < MaxDrafts /\ drafted' = drafted + 1
        /\ rows' = SubSeq(rows, 1, i) \o <<Added(drafted + 1, v)>> \o SubSeq(rows, i + 1, Len(rows))
    BY <1>4 DEF duplicateSelectedRows, Edits
  <2>3. i \in 0..Len(rows)
    BY <1>0
  <2> HIDE DEF v
  <2>4. \E src : EditedFrom(src)
    BY <2>1, <2>2, <2>3, InsertedIs
  <2> QED BY <1>4, <2>4 DEF duplicateSelectedRows, Edits, CanEdit, CanType, Others
<1>5. ASSUME NEW i \in DOMAIN rows, markRowsDeleted(i)
      PROVE  /\ running \/ saving => May("editWhileBusy")
             /\ UNCHANGED Others
             /\ \E src : EditedFrom(src)
  <2>1. CASE rows[i].orig = None
    <3>1. rows' = Without(i) /\ drafted' = drafted
      BY <1>5, <2>1 DEF markRowsDeleted, Edits
    <3> QED BY <2>1, <3>1, <1>5, WithoutIs DEF markRowsDeleted, Edits, CanEdit, CanType, Others
  <2>2. CASE rows[i].orig # None
    <3>1. PICK s \in {"clean", "deleted"} : rows' = [rows EXCEPT ![i] = [rows[i] EXCEPT !.state = s]]
      BY <1>5, <2>2 DEF markRowsDeleted, Edits
    <3> DEFINE e == [rows[i] EXCEPT !.state = s]
    <3>2. e \in Drafts /\ e.state = s /\ SameRow(rows[i], e) /\ e.vals = rows[i].vals
      BY <1>0 DEF Drafts, SameRow
    <3>3. rows' = [rows EXCEPT ![i] = e] /\ drafted' = drafted
      BY <3>1, <1>5 DEF markRowsDeleted
    <3> HIDE DEF e
    <3>4. Fits(e, kind, columns)
      BY <1>0, <2>2, <3>2 DEF Fits, SameRow, NewIsNew
    <3>5. \E src : EditedFrom(src)
      BY <3>2, <3>3, <3>4, EditInPlace, DocumentIs
    <3> QED BY <3>5, <1>5 DEF markRowsDeleted, Edits, CanEdit, CanType, Others
  <2> QED BY <2>1, <2>2
<1>6. ASSUME NEW i \in DOMAIN rows, discardSelectedChanges(i)
      PROVE  /\ running \/ saving => May("editWhileBusy")
             /\ UNCHANGED Others
             /\ \E src : EditedFrom(src)
  <2>1. CASE rows[i].orig = None
    <3>1. rows' = Without(i) /\ drafted' = drafted
      BY <1>6, <2>1 DEF discardSelectedChanges, Edits
    <3> QED BY <2>1, <3>1, <1>6, WithoutIs DEF discardSelectedChanges, Edits, CanEdit, CanType, Others
  <2>2. CASE rows[i].orig # None
    <3> DEFINE e == Loaded(rows[i].id, rows[i].orig)
    <3>1. rows' = [rows EXCEPT ![i] = e] /\ drafted' = drafted
      BY <1>6, <2>2 DEF discardSelectedChanges, Edits
    <3>2. rows[i].id \in 0..MaxId /\ rows[i].orig \in Documents
      BY <1>0, <2>2 DEF Drafts
    <3>3. e \in Drafts /\ NewIsNew(e) /\ e.orig = rows[i].orig /\ e.vals = rows[i].orig
          /\ e.id = rows[i].id /\ e.uid = 0
      BY <3>2, LoadedIs
    <3> HIDE DEF e
    <3>4. Fits(e, kind, columns) /\ SameRow(rows[i], e)
      BY <1>0, <2>2, <3>3 DEF Fits, SameRow
    <3>5. \E src : EditedFrom(src)
      BY <3>1, <3>3, <3>4, EditInPlace, DocumentIs
    <3> QED BY <3>5, <1>6 DEF discardSelectedChanges, Edits, CanEdit, CanType, Others
  <2> QED BY <2>1, <2>2
<1> QED BY <1>1, <1>2, <1>3, <1>4, <1>5, <1>6 DEF Edit

-----------------------------------------------------------------------------
(* What a request of a save does, write by write.                          *)
\* What the database has done after each write of the request, of what it had done before.
Steps(refused, after) ==
  [k \in save.done..Sent |->
    IF k = save.done THEN [docs |-> docs, next |-> nextId, ok |-> refused = {}]
    ELSE IF k \in refused THEN after[k - 1] ELSE Applied(after[k - 1], save.writes[k])]
After(refused) == CHOOSE after : after = Steps(refused, after)

LEMMA AfterExists ==
  ASSUME NEW refused, save.done \in Nat, Sent \in Nat, save.done <= Sent
  PROVE  \E after : after = Steps(refused, after)
<1> DEFINE a == save.done
           z == Sent
           first == [docs |-> docs, next |-> nextId, ok |-> refused = {}]
           Next1(t, k) == IF k \in refused THEN t ELSE Applied(t, save.writes[k])
           Upto1(m) == \E f : f = [k \in a..m |-> IF k = a THEN first ELSE Next1(f[k - 1], k)]
           S == {m \in a..z : Upto1(m)}
<1>0. a \in Nat /\ z \in Nat /\ a <= z
  OBVIOUS
<1> HIDE DEF a, z, first, Next1
<1>1. a \in S
  <2>1. Upto1(a)
    <3> DEFINE f == [k \in a..a |-> first]
    <3>1. f = [k \in a..a |-> IF k = a THEN first ELSE Next1(f[k - 1], k)]
      BY <1>0
    <3> QED BY <3>1
  <2> QED BY <1>0, <2>1
<1>2. ASSUME NEW m \in a + 1..z, m - 1 \in S
      PROVE  m \in S
  <2>1. PICK f : f = [k \in a..m - 1 |-> IF k = a THEN first ELSE Next1(f[k - 1], k)]
    BY <1>2
  <2> DEFINE g == [k \in a..m |-> IF k = m THEN Next1(f[m - 1], m) ELSE f[k]]
  <2>2. \A k \in a..m : g[k] = IF k = a THEN first ELSE Next1(g[k - 1], k)
    <3> TAKE k \in a..m
    <3>0. m \in Nat /\ a < m
      BY <1>0
    <3>1. CASE k = a
      <4>1. g[a] = f[a] /\ f[a] = first
        BY <1>0, <2>1, <3>0
      <4> QED BY <3>1, <4>1
    <3>2. CASE k = m
      <4>1. g[m - 1] = f[m - 1] /\ g[m] = Next1(f[m - 1], m)
        BY <1>0, <3>0
      <4> QED BY <3>2, <3>0, <4>1
    <3>3. CASE k # a /\ k # m
      <4>1. k \in a..m - 1 /\ k - 1 \in a..m /\ k - 1 # m
        BY <1>0, <3>0, <3>3
      <4>2. g[k - 1] = f[k - 1] /\ g[k] = f[k]
        BY <4>1, <3>3
      <4>3. f[k] = Next1(f[k - 1], k)
        BY <4>1, <3>3, <2>1
      <4> QED BY <3>3, <4>2, <4>3
    <3> QED BY <3>1, <3>2, <3>3
  <2>3. g = [k \in a..m |-> IF k = a THEN first ELSE Next1(g[k - 1], k)]
    <3> DEFINE h == [k \in a..m |-> IF k = a THEN first ELSE Next1(g[k - 1], k)]
    <3>1. \A k \in a..m : h[k] = g[k]
      BY <2>2
    <3>2. DOMAIN g = a..m /\ DOMAIN h = a..m /\ g = [k \in a..m |-> g[k]] /\ h = [k \in a..m |-> h[k]]
      OBVIOUS
    <3> HIDE DEF g, h
    <3>3. g = h
      BY <3>1, <3>2
    <3> QED BY <3>3 DEF h
  <2>4. Upto1(m)
    BY <2>3
  <2> QED BY <1>0, <2>4
<1>3. S = a..z
  <2> HIDE DEF S
  <2>1. S \in SUBSET (a..z)
    BY DEF S
  <2> QED BY <1>0, <1>1, <1>2, <2>1, InductionFrom
<1>4. Upto1(z)
  BY <1>0, <1>3
<1> QED BY <1>4 DEF a, z, first, Next1, Steps

LEMMA AfterIs ==
  ASSUME NEW refused, save.done \in Nat, Sent \in Nat, save.done <= Sent
  PROVE  /\ After(refused)[save.done] = [docs |-> docs, next |-> nextId, ok |-> refused = {}]
         /\ \A k \in save.done + 1..Sent :
              After(refused)[k] = IF k \in refused THEN After(refused)[k - 1]
                                  ELSE Applied(After(refused)[k - 1], save.writes[k])
         /\ Served(refused) = After(refused)[Sent]
<1> DEFINE f == After(refused)
<1>0. f = Steps(refused, f)
  BY AfterExists, Zenon DEF After
<1>4. Served(refused) = f[Sent]
  BY Zenon DEF Served, After, Steps
<1> HIDE DEF f
<1>1. f = [k \in save.done..Sent |->
             IF k = save.done THEN [docs |-> docs, next |-> nextId, ok |-> refused = {}]
             ELSE IF k \in refused THEN f[k - 1] ELSE Applied(f[k - 1], save.writes[k])]
  BY <1>0, Zenon DEF Steps
<1>2. f[save.done] = [docs |-> docs, next |-> nextId, ok |-> refused = {}]
  BY <1>1
<1>3. ASSUME NEW k \in save.done + 1..Sent
      PROVE  f[k] = IF k \in refused THEN f[k - 1] ELSE Applied(f[k - 1], save.writes[k])
  <2>1. k \in save.done..Sent /\ k # save.done
    OBVIOUS
  <2> QED BY <1>1, <2>1, Zenon
<1> QED BY <1>2, <1>3, <1>4 DEF f

\* A request under way.
Shape(t) == DOMAIN t = {"docs", "next", "ok"} /\ t.ok \in BOOLEAN

\* What one write did: it was refused or failed, or it did what it says.
Did(t, u, w) ==
  \/ u.docs = t.docs /\ u.next = t.next /\ ~u.ok
  \/ /\ w.state = "deleted" /\ u.next = t.next /\ u.ok = t.ok
     /\ u.docs = [i \in DOMAIN t.docs \ {w.id} |-> t.docs[i]]
  \/ /\ w.state = "new" /\ u.next = t.next + 1 /\ u.ok = t.ok
     /\ u.docs = Put(t.docs, t.next, w.doc, w.uid)
  \/ /\ w.state = "modified" /\ u.next = t.next /\ u.ok = t.ok
     /\ w.id \in DOMAIN t.docs /\ u.docs = Put(t.docs, w.id, w.doc, t.docs[w.id].by)
  \/ /\ w.state = "modified" /\ u.next = t.next /\ u.ok = t.ok
     /\ kind = "elasticsearch" /\ w.id \notin DOMAIN t.docs /\ u.docs = Put(t.docs, w.id, w.doc, 0)

LEMMA AppliedIs ==
  ASSUME NEW t, NEW w, Shape(t), w.state \in {"new", "modified", "deleted"},
         kind \in {"mongodb", "elasticsearch"}
  PROVE  Shape(Applied(t, w)) /\ Did(t, Applied(t, w), w)
<1> DEFINE u == Applied(t, w)
<1>1. CASE w.state = "deleted"
  <2> DEFINE D == [i \in DOMAIN t.docs \ {w.id} |-> t.docs[i]]
  <2>1. u = [t EXCEPT !.docs = D]
    BY <1>1 DEF Applied
  <2> HIDE DEF D, u
  <2>2. Shape(u) /\ u.docs = D /\ u.next = t.next /\ u.ok = t.ok
    BY <2>1 DEF Shape
  <2> QED BY <2>2, <1>1 DEF Did, D, u
<1>2. CASE w.state = "new"
  <2> DEFINE D == Put(t.docs, t.next, w.doc, w.uid)
  <2>1. u = [t EXCEPT !.docs = D, !.next = t.next + 1]
    BY <1>2 DEF Applied
  <2> HIDE DEF D, u
  <2>2. Shape(u) /\ u.docs = D /\ u.next = t.next + 1 /\ u.ok = t.ok
    BY <2>1 DEF Shape
  <2> QED BY <2>2, <1>2 DEF Did, D, u
<1>3. CASE w.state = "modified" /\ w.id \in DOMAIN t.docs
  <2> DEFINE D == Put(t.docs, w.id, w.doc, t.docs[w.id].by)
  <2>1. u = [t EXCEPT !.docs = D]
    BY <1>3 DEF Applied
  <2> HIDE DEF D, u
  <2>2. Shape(u) /\ u.docs = D /\ u.next = t.next /\ u.ok = t.ok
    BY <2>1 DEF Shape
  <2> QED BY <2>2, <1>3 DEF Did, D, u
<1>4. CASE w.state = "modified" /\ w.id \notin DOMAIN t.docs /\ kind = "mongodb"
  <2>1. u = [t EXCEPT !.ok = FALSE]
    BY <1>4 DEF Applied
  <2> HIDE DEF u
  <2>2. Shape(u) /\ u.docs = t.docs /\ u.next = t.next /\ ~u.ok
    BY <2>1 DEF Shape
  <2> QED BY <2>2, <1>4 DEF Did, u
<1>5. CASE w.state = "modified" /\ w.id \notin DOMAIN t.docs /\ kind = "elasticsearch"
  <2> DEFINE D == Put(t.docs, w.id, w.doc, 0)
  <2>1. u = [t EXCEPT !.docs = D]
    BY <1>5 DEF Applied
  <2> HIDE DEF D, u
  <2>2. Shape(u) /\ u.docs = D /\ u.next = t.next /\ u.ok = t.ok
    BY <2>1 DEF Shape
  <2> QED BY <2>2, <1>5 DEF Did, D, u
<1> QED BY <1>1, <1>2, <1>3, <1>4, <1>5


\* Where a write writes, and what the collection is like after it.
Key(t, w) == IF w.state = "new" THEN t.next ELSE w.id
Elsewhere(t, u, w) ==
  \A i : i # Key(t, w) => /\ i \in DOMAIN u.docs <=> i \in DOMAIN t.docs
                          /\ i \in DOMAIN t.docs => u.docs[i] = t.docs[i]
There(t, u, w) ==
  \/ u.docs = t.docs /\ u.next = t.next /\ ~u.ok
  \/ w.state = "deleted" /\ u.next = t.next /\ u.ok = t.ok /\ w.id \notin DOMAIN u.docs
  \/ /\ w.state = "new" /\ u.next = t.next + 1 /\ u.ok = t.ok
     /\ t.next \in DOMAIN u.docs /\ u.docs[t.next] = [doc |-> w.doc, by |-> w.uid]
  \/ /\ w.state = "modified" /\ u.next = t.next /\ u.ok = t.ok
     /\ w.id \in DOMAIN t.docs /\ w.id \in DOMAIN u.docs
     /\ u.docs[w.id] = [doc |-> w.doc, by |-> t.docs[w.id].by]
  \/ /\ w.state = "modified" /\ u.next = t.next /\ u.ok = t.ok
     /\ kind = "elasticsearch" /\ w.id \notin DOMAIN t.docs /\ w.id \in DOMAIN u.docs
     /\ u.docs[w.id] = [doc |-> w.doc, by |-> 0]
IsFcn(f) == f = [i \in DOMAIN f |-> f[i]]

LEMMA DidThere ==
  ASSUME NEW t, NEW u, NEW w, Did(t, u, w), IsFcn(t.docs)
  PROVE  Elsewhere(t, u, w) /\ There(t, u, w) /\ IsFcn(u.docs)
<1>1. CASE u.docs = t.docs /\ u.next = t.next /\ ~u.ok
  BY <1>1 DEF Elsewhere, There
<1>2. CASE /\ w.state = "deleted" /\ u.next = t.next /\ u.ok = t.ok
           /\ u.docs = [i \in DOMAIN t.docs \ {w.id} |-> t.docs[i]]
  <2>1. DOMAIN u.docs = DOMAIN t.docs \ {w.id} /\ \A i \in DOMAIN t.docs \ {w.id} : u.docs[i] = t.docs[i]
    BY <1>2
  <2>2. IsFcn(u.docs)
    BY <1>2 DEF IsFcn
  <2> QED BY <1>2, <2>1, <2>2 DEF Elsewhere, There, Key
<1>3. CASE /\ w.state = "new" /\ u.next = t.next + 1 /\ u.ok = t.ok
           /\ u.docs = Put(t.docs, t.next, w.doc, w.uid)
  <2>1. /\ DOMAIN u.docs = DOMAIN t.docs \cup {t.next} /\ u.docs[t.next] = [doc |-> w.doc, by |-> w.uid]
        /\ \A i \in DOMAIN t.docs : i # t.next => u.docs[i] = t.docs[i]
        /\ IsFcn(u.docs)
    BY <1>3 DEF Put, IsFcn
  <2> QED BY <1>3, <2>1 DEF Elsewhere, There, Key
<1>4. CASE /\ w.state = "modified" /\ u.next = t.next /\ u.ok = t.ok
           /\ w.id \in DOMAIN t.docs /\ u.docs = Put(t.docs, w.id, w.doc, t.docs[w.id].by)
  <2>1. /\ DOMAIN u.docs = DOMAIN t.docs \cup {w.id} /\ u.docs[w.id] = [doc |-> w.doc, by |-> t.docs[w.id].by]
        /\ \A i \in DOMAIN t.docs : i # w.id => u.docs[i] = t.docs[i]
        /\ IsFcn(u.docs)
    BY <1>4 DEF Put, IsFcn
  <2> QED BY <1>4, <2>1 DEF Elsewhere, There, Key
<1>5. CASE /\ w.state = "modified" /\ u.next = t.next /\ u.ok = t.ok /\ kind = "elasticsearch"
           /\ w.id \notin DOMAIN t.docs /\ u.docs = Put(t.docs, w.id, w.doc, 0)
  <2>1. /\ DOMAIN u.docs = DOMAIN t.docs \cup {w.id} /\ u.docs[w.id] = [doc |-> w.doc, by |-> 0]
        /\ \A i \in DOMAIN t.docs : i # w.id => u.docs[i] = t.docs[i]
        /\ IsFcn(u.docs)
    BY <1>5 DEF Put, IsFcn
  <2> QED BY <1>5, <2>1 DEF Elsewhere, There, Key
<1> QED BY <1>1, <1>2, <1>3, <1>4, <1>5 DEF Did

-----------------------------------------------------------------------------
(* A batch, and what a request of it leaves.                               *)
\* What a draft is written as.
WroteOf(d, w) ==
  /\ w.state = d.state /\ w.id = d.id /\ w.uid = d.uid
  /\ d.state = "modified" =>
       \A f \in Fields : w.doc[f] # d.orig[f] => EditedIn(d, f) \/ (d.orig[f] = Absent /\ w.doc[f] = Null)

\* A batch: the first N writes insert, and no document and no draft is there twice.
BatchOf(v, N, n, m) ==
  /\ v \in Saves /\ Len(v.batch) = Len(v.writes) /\ Len(v.writes) # 0 /\ N \in Nat
  /\ v.done <= Len(v.writes) /\ (v.reply # None => v.done < Len(v.writes))
  /\ \A k \in 1..Len(v.writes) :
       /\ WroteOf(v.batch[k], v.writes[k])
       /\ (v.writes[k].state = "new") = (k <= N)
       /\ v.writes[k].state = "new" => v.writes[k].uid \in 1..m
       /\ v.writes[k].state # "new" => v.writes[k].id \in 1..n - 1
  /\ \A k, l \in 1..Len(v.writes) :
       /\ v.writes[k].state # "new" /\ v.writes[l].state # "new" /\ v.writes[k].id = v.writes[l].id => k = l
       /\ v.writes[k].state = "new" /\ v.writes[l].state = "new" /\ v.writes[k].uid = v.writes[l].uid => k = l
Batch(v, N) == BatchOf(v, N, nextId, drafted)

Left(N, k) == IF k < N THEN N - k ELSE 0

\* The collection c when the next id is n.
Collection(c, n) ==
  /\ c \in [DOMAIN c -> [doc : Documents, by : 0..drafted]]
  /\ DOMAIN c \in SUBSET (1..n - 1) /\ n \in 1..MaxId + 1

Injective(c) == \A a, b \in DOMAIN c : c[a].by = c[b].by /\ c[a].by # 0 => a = b
\* No draft has the number of one that writes after k insert.
Unused(c, k) ==
  \A j \in k + 1..Len(save.writes) : save.writes[j].state = "new" => \A a \in DOMAIN c : c[a].by # save.writes[j].uid

\* What write j of the save says is in the collection, at an id no other write has.
StoredIn(c, j) ==
  LET w == save.writes[j] IN
  /\ w.state = "deleted" => w.id \notin DOMAIN c
  /\ w.state = "modified" => w.id \in DOMAIN c /\ c[w.id].doc = w.doc
  /\ w.state = "new" => \E id \in DOMAIN c :
       /\ c[id] = [doc |-> w.doc, by |-> w.uid]
       /\ \A l \in 1..Len(save.writes) : save.writes[l].state # "new" => save.writes[l].id # id

\* After write k of a request, compared with before it.
Kept(t, k, N) ==
  /\ Collection(t.docs, t.next) /\ nextId <= t.next /\ t.next + Left(N, k) <= MaxId + 1
Removed(t, k) ==
  \A id \in DOMAIN docs : id \notin DOMAIN t.docs =>
    \E j \in save.done + 1..k : save.writes[j].state = "deleted" /\ save.writes[j].id = id
Came(t, k) ==
  \A id \in DOMAIN t.docs : id \notin DOMAIN docs =>
    \/ /\ id >= nextId
       /\ \E j \in save.done + 1..k : save.writes[j].state = "new" /\ t.docs[id].by = save.writes[j].uid
    \/ /\ id < nextId /\ kind = "elasticsearch"
       /\ \E j \in save.done + 1..k : save.writes[j].state = "modified" /\ save.writes[j].id = id
Changed(t, k) ==
  \A id \in DOMAIN docs : id \in DOMAIN t.docs =>
    \/ t.docs[id].doc = docs[id].doc
    \/ \E j \in save.done + 1..k : /\ save.writes[j].state = "modified" /\ save.writes[j].id = id
                                   /\ t.docs[id].doc = save.writes[j].doc
From(t, k) ==
  \A id \in DOMAIN t.docs :
    \/ t.docs[id].by = 0
    \/ id \in DOMAIN docs /\ t.docs[id].by = docs[id].by
    \/ \E j \in save.done + 1..k : save.writes[j].state = "new" /\ t.docs[id].by = save.writes[j].uid
Once(t) == Injective(docs) /\ Unused(docs, save.done) => Injective(t.docs)
Stored(t, k) ==
  t.ok /\ (\A j \in 1..save.done : StoredIn(docs, j)) => \A j \in 1..k : StoredIn(t.docs, j)

\* Write k goes from t to u.
Writing(t, u, k, N) ==
  /\ Batch(save, N) /\ Collection(docs, nextId)
  /\ kind \in {"mongodb", "elasticsearch"} /\ drafted \in Nat
  /\ k \in save.done + 1..Len(save.writes)
  /\ Elsewhere(t, u, save.writes[k]) /\ There(t, u, save.writes[k]) /\ IsFcn(u.docs)
  /\ Kept(t, k - 1, N)

LEMMA WritingIs ==
  ASSUME DocumentAssumption, NEW t, NEW u, NEW k, NEW N, Writing(t, u, k, N)
  PROVE  /\ k \in Nat /\ k # 0 /\ k <= Len(save.writes) /\ save.done \in Nat /\ save.done < k /\ N \in Nat
         /\ k \in 1..Len(save.writes) /\ Len(save.writes) \in Nat
         /\ save.writes[k] \in Writes
         /\ t.next \in Nat /\ t.next # 0 /\ nextId \in Nat /\ nextId <= t.next
         /\ save.writes[k].state = "new" => save.writes[k].uid \in 1..drafted /\ t.next <= MaxId
         /\ save.writes[k].state # "new" => save.writes[k].id \in 1..nextId - 1
         /\ t.next \notin DOMAIN t.docs
<1>1. save.writes \in Seq(Writes) /\ save.done \in Nat /\ N \in Nat
  BY DEF Writing, Batch, BatchOf, Saves
<1>2. k \in Nat /\ k # 0 /\ k <= Len(save.writes) /\ save.done < k /\ k \in 1..Len(save.writes) /\ Len(save.writes) \in Nat
  BY <1>1 DEF Writing
<1>3. save.writes[k] \in Writes
  BY <1>1, <1>2
<1>4. t.next \in 1..MaxId + 1 /\ DOMAIN t.docs \in SUBSET (1..t.next - 1) /\ nextId <= t.next /\ nextId \in 1..MaxId + 1
      /\ t.next + Left(N, k - 1) <= MaxId + 1
  BY DEF Writing, Kept, Collection
<1>5. /\ (save.writes[k].state = "new") = (k <= N)
      /\ save.writes[k].state = "new" => save.writes[k].uid \in 1..drafted
      /\ save.writes[k].state # "new" => save.writes[k].id \in 1..nextId - 1
  BY <1>2 DEF Writing, Batch, BatchOf
<1>6. save.writes[k].state = "new" => t.next <= MaxId
  BY <1>1, <1>2, <1>4, <1>5, DocumentIs DEF Left
<1>7. t.next \in Nat /\ t.next # 0 /\ nextId \in Nat /\ t.next \notin DOMAIN t.docs
  BY <1>4, DocumentIs
<1> QED BY <1>1, <1>2, <1>3, <1>4, <1>5, <1>6, <1>7

LEMMA KeptStep ==
  ASSUME DocumentAssumption, NEW t, NEW u, NEW k, NEW N, Writing(t, u, k, N)
  PROVE  Kept(u, k, N)
<1> DEFINE w == save.writes[k]
<1>1. /\ k \in Nat /\ k # 0 /\ N \in Nat /\ w \in Writes /\ t.next \in Nat /\ t.next # 0 /\ nextId \in Nat /\ nextId <= t.next
      /\ w.state = "new" => w.uid \in 1..drafted /\ t.next <= MaxId
      /\ w.state # "new" => w.id \in 1..nextId - 1
  BY WritingIs
<1>2. (w.state = "new") = (k <= N) /\ drafted \in Nat
  BY WritingIs DEF Writing, Batch, BatchOf
<1>3. Elsewhere(t, u, w) /\ There(t, u, w) /\ IsFcn(u.docs)
  BY DEF Writing
<1>4. /\ t.docs \in [DOMAIN t.docs -> [doc : Documents, by : 0..drafted]]
      /\ DOMAIN t.docs \in SUBSET (1..t.next - 1) /\ t.next \in 1..MaxId + 1 /\ t.next + Left(N, k - 1) <= MaxId + 1
  BY DEF Writing, Kept, Collection
<1> HIDE DEF w
<1>5. w.doc \in Documents /\ w.state \in {"new", "modified", "deleted"}
  BY <1>1 DEF Writes
<1>6. \A i \in DOMAIN t.docs : t.docs[i] \in [doc : Documents, by : 0..drafted]
  BY <1>4
<1>7. u.next \in 1..MaxId + 1 /\ u.next + Left(N, k) <= MaxId + 1 /\ nextId <= u.next /\ t.next <= u.next
  <2>1. CASE w.state = "new" /\ u.next = t.next + 1
    BY SMTT(30), <2>1, <1>1, <1>2, <1>4, DocumentIs DEF Left
  <2>2. CASE u.next = t.next
    BY <2>2, <1>1, <1>2, <1>4, DocumentIs DEF Left
  <2> QED BY <1>3, <2>1, <2>2 DEF There
<1>8. \A i \in DOMAIN u.docs : i \in 1..u.next - 1 /\ u.docs[i] \in [doc : Documents, by : 0..drafted]
  <2> SUFFICES ASSUME NEW i \in DOMAIN u.docs PROVE i \in 1..u.next - 1 /\ u.docs[i] \in [doc : Documents, by : 0..drafted]
    OBVIOUS
  <2>1. CASE i # Key(t, w)
    <3>1. i \in DOMAIN t.docs /\ u.docs[i] = t.docs[i]
      BY <2>1, <1>3 DEF Elsewhere
    <3> QED BY SMTT(30), <3>1, <1>4, <1>6, <1>7, <1>1, DocumentIs
  <2>2. CASE i = Key(t, w)
    <3>1. CASE u.docs = t.docs
      <4>1. i \in DOMAIN t.docs /\ u.docs[i] = t.docs[i]
        BY <3>1
      <4> QED BY SMTT(30), <4>1, <1>4, <1>6, <1>7, <1>1, DocumentIs
    <3>2. CASE w.state = "deleted" /\ w.id \notin DOMAIN u.docs
      BY <3>2, <2>2 DEF Key
    <3>3. CASE w.state = "new" /\ u.next = t.next + 1 /\ u.docs[t.next] = [doc |-> w.doc, by |-> w.uid]
      <4>1. i = t.next /\ i \in 1..u.next - 1
        BY <3>3, <2>2, <1>1 DEF Key
      <4>2. u.docs[i] = [doc |-> w.doc, by |-> w.uid]
        BY <3>3, <4>1
      <4> QED BY <3>3, <4>1, <4>2, <1>1, <1>2, <1>5
    <3>4. CASE w.state = "modified" /\ w.id \in DOMAIN t.docs /\ u.docs[w.id] = [doc |-> w.doc, by |-> t.docs[w.id].by]
      BY SMTT(30), <3>4, <2>2, <1>1, <1>5, <1>6, <1>7 DEF Key
    <3>5. CASE w.state = "modified" /\ u.docs[w.id] = [doc |-> w.doc, by |-> 0]
      BY SMTT(30), <3>5, <2>2, <1>1, <1>2, <1>5, <1>7 DEF Key
    <3> QED BY <1>3, <3>1, <3>2, <3>3, <3>4, <3>5 DEF There
  <2> QED BY <2>1, <2>2
<1>9. u.docs \in [DOMAIN u.docs -> [doc : Documents, by : 0..drafted]]
  BY <1>3, <1>8 DEF IsFcn
<1>10. DOMAIN u.docs \in SUBSET (1..u.next - 1)
  BY <1>8
<1> QED BY <1>7, <1>9, <1>10 DEF Kept, Collection


LEMMA RemovedStep ==
  ASSUME DocumentAssumption, NEW t, NEW u, NEW k, NEW N, Writing(t, u, k, N), Removed(t, k - 1)
  PROVE  Removed(u, k)
<1> DEFINE w == save.writes[k]
<1>1. k \in Nat /\ save.done \in Nat /\ save.done < k /\ w \in Writes /\ t.next \notin DOMAIN t.docs
  BY WritingIs
<1>2. Elsewhere(t, u, w) /\ There(t, u, w)
  BY DEF Writing
<1>3. k \in save.done + 1..k /\ \A j \in save.done + 1..k - 1 : j \in save.done + 1..k
  BY <1>1
<1> SUFFICES ASSUME NEW id \in DOMAIN docs, id \notin DOMAIN u.docs
             PROVE  \E j \in save.done + 1..k : save.writes[j].state = "deleted" /\ save.writes[j].id = id
  BY DEF Removed
<1>4. CASE id \notin DOMAIN t.docs
  BY <1>3, <1>4 DEF Removed
<1>5. CASE id \in DOMAIN t.docs
  <2>1. id = Key(t, w)
    BY <1>2, <1>5 DEF Elsewhere
  <2>2. w.state = "deleted" /\ w.id = id
    BY <1>1, <1>2, <1>5, <2>1 DEF There, Key
  <2> QED BY <1>3, <2>2
<1> QED BY <1>4, <1>5

LEMMA CameStep ==
  ASSUME DocumentAssumption, NEW t, NEW u, NEW k, NEW N, Writing(t, u, k, N), Came(t, k - 1)
  PROVE  Came(u, k)
<1> DEFINE w == save.writes[k]
<1>1. /\ k \in Nat /\ save.done \in Nat /\ save.done < k /\ w \in Writes /\ t.next \in Nat /\ nextId \in Nat /\ nextId <= t.next
      /\ w.state # "new" => w.id \in 1..nextId - 1
  BY WritingIs
<1>2. Elsewhere(t, u, w) /\ There(t, u, w)
  BY DEF Writing
<1>3. k \in save.done + 1..k /\ \A j \in save.done + 1..k - 1 : j \in save.done + 1..k
  BY <1>1
<1>0. \A id \in DOMAIN t.docs : id \notin DOMAIN docs =>
        \/ /\ id >= nextId
           /\ \E j \in save.done + 1..k : save.writes[j].state = "new" /\ t.docs[id].by = save.writes[j].uid
        \/ /\ id < nextId /\ kind = "elasticsearch"
           /\ \E j \in save.done + 1..k : save.writes[j].state = "modified" /\ save.writes[j].id = id
  BY <1>3 DEF Came
<1> SUFFICES ASSUME NEW id \in DOMAIN u.docs, id \notin DOMAIN docs
             PROVE  \/ /\ id >= nextId
                       /\ \E j \in save.done + 1..k : save.writes[j].state = "new" /\ u.docs[id].by = save.writes[j].uid
                    \/ /\ id < nextId /\ kind = "elasticsearch"
                       /\ \E j \in save.done + 1..k : save.writes[j].state = "modified" /\ save.writes[j].id = id
  BY DEF Came
<1> HIDE DEF w
<1>4. CASE id \in DOMAIN t.docs /\ u.docs[id] = t.docs[id]
  BY <1>0, <1>4
<1>5. CASE id = Key(t, w) /\ ~(id \in DOMAIN t.docs /\ u.docs[id] = t.docs[id])
  <2>1. CASE w.state = "new" /\ u.docs[t.next] = [doc |-> w.doc, by |-> w.uid]
    <3>1. id >= nextId /\ u.docs[id].by = w.uid
      BY <2>1, <1>1, <1>5 DEF Key
    <3> QED BY <1>3, <2>1, <3>1 DEF w
  <2>2. CASE w.state = "modified" /\ w.id \in DOMAIN t.docs
    <3>1. id = w.id /\ id < nextId /\ id \in DOMAIN t.docs /\ ~(id >= nextId)
      BY <2>2, <1>1, <1>5 DEF Key
    <3>2. kind = "elasticsearch"
      BY <1>0, <3>1
    <3> QED BY <1>3, <2>2, <3>1, <3>2 DEF w
  <2>3. CASE w.state = "modified" /\ kind = "elasticsearch"
    <3>1. id = w.id /\ id < nextId
      BY <2>3, <1>1, <1>5 DEF Key
    <3> QED BY <1>3, <2>3, <3>1 DEF w
  <2>4. CASE w.state = "deleted" /\ w.id \notin DOMAIN u.docs
    BY <2>4, <1>5 DEF Key
  <2>5. CASE u.docs = t.docs
    BY <2>5, <1>5
  <2> QED BY <1>2, <2>1, <2>2, <2>3, <2>4, <2>5 DEF There
<1> QED BY <1>2, <1>4, <1>5 DEF Elsewhere

LEMMA ChangedStep ==
  ASSUME DocumentAssumption, NEW t, NEW u, NEW k, NEW N, Writing(t, u, k, N), Changed(t, k - 1), Removed(t, k - 1)
  PROVE  Changed(u, k)
<1> DEFINE w == save.writes[k]
<1>1. /\ k \in Nat /\ save.done \in Nat /\ save.done < k /\ w \in Writes /\ t.next \in Nat /\ nextId \in Nat /\ nextId <= t.next
  BY WritingIs
<1>2. Elsewhere(t, u, w) /\ There(t, u, w) /\ DOMAIN docs \in SUBSET (1..nextId - 1)
  BY DEF Writing, Collection
<1>3. k \in save.done + 1..k /\ \A j \in save.done + 1..k - 1 : j \in save.done + 1..k
  BY <1>1
<1>0. \A id \in DOMAIN docs : id \in DOMAIN t.docs =>
        \/ t.docs[id].doc = docs[id].doc
        \/ \E j \in save.done + 1..k : /\ save.writes[j].state = "modified" /\ save.writes[j].id = id
                                       /\ t.docs[id].doc = save.writes[j].doc
  BY <1>3 DEF Changed
<1> SUFFICES ASSUME NEW id \in DOMAIN docs, id \in DOMAIN u.docs
             PROVE  \/ u.docs[id].doc = docs[id].doc
                    \/ \E j \in save.done + 1..k : /\ save.writes[j].state = "modified" /\ save.writes[j].id = id
                                                   /\ u.docs[id].doc = save.writes[j].doc
  BY DEF Changed
<1> HIDE DEF w
<1>4. CASE id \in DOMAIN t.docs /\ u.docs[id] = t.docs[id]
  BY <1>0, <1>4
<1>5. CASE id = Key(t, w) /\ ~(id \in DOMAIN t.docs /\ u.docs[id] = t.docs[id])
  <2>0. ~(w.state = "new")
    BY <1>1, <1>2, <1>5 DEF Key
  <2>1. CASE w.state = "modified" /\ u.docs[w.id].doc = w.doc
    <3>1. id = w.id /\ u.docs[id].doc = w.doc
      BY <2>1, <1>5 DEF Key
    <3> QED BY <1>3, <2>1, <3>1 DEF w
  <2>2. CASE w.state = "deleted" /\ w.id \notin DOMAIN u.docs
    BY <2>2, <1>5 DEF Key
  <2>3. CASE u.docs = t.docs
    BY <2>3, <1>5
  <2> QED BY <1>2, <2>0, <2>1, <2>2, <2>3 DEF There
<1> QED BY <1>2, <1>4, <1>5 DEF Elsewhere

LEMMA FromStep ==
  ASSUME DocumentAssumption, NEW t, NEW u, NEW k, NEW N, Writing(t, u, k, N), From(t, k - 1)
  PROVE  From(u, k)
<1> DEFINE w == save.writes[k]
<1>1. /\ k \in Nat /\ save.done \in Nat /\ save.done < k
  BY WritingIs
<1>2. Elsewhere(t, u, w) /\ There(t, u, w)
  BY DEF Writing
<1>3. k \in save.done + 1..k /\ \A j \in save.done + 1..k - 1 : j \in save.done + 1..k
  BY <1>1
<1>0. \A id \in DOMAIN t.docs :
        \/ t.docs[id].by = 0
        \/ id \in DOMAIN docs /\ t.docs[id].by = docs[id].by
        \/ \E j \in save.done + 1..k : save.writes[j].state = "new" /\ t.docs[id].by = save.writes[j].uid
  BY <1>3 DEF From
<1> SUFFICES ASSUME NEW id \in DOMAIN u.docs
             PROVE  \/ u.docs[id].by = 0
                    \/ id \in DOMAIN docs /\ u.docs[id].by = docs[id].by
                    \/ \E j \in save.done + 1..k : save.writes[j].state = "new" /\ u.docs[id].by = save.writes[j].uid
  BY DEF From
<1> HIDE DEF w
<1>4. CASE id \in DOMAIN t.docs /\ u.docs[id].by = t.docs[id].by
  BY <1>0, <1>4
<1>5. CASE id = Key(t, w) /\ ~(id \in DOMAIN t.docs /\ u.docs[id].by = t.docs[id].by)
  <2>1. CASE w.state = "new" /\ u.docs[t.next] = [doc |-> w.doc, by |-> w.uid]
    <3>1. u.docs[id].by = w.uid
      BY <2>1, <1>5 DEF Key
    <3> QED BY <1>3, <2>1, <3>1 DEF w
  <2>2. CASE w.state = "modified" /\ w.id \in DOMAIN t.docs /\ u.docs[w.id] = [doc |-> w.doc, by |-> t.docs[w.id].by]
    BY <2>2, <1>5 DEF Key
  <2>3. CASE w.state = "modified" /\ u.docs[w.id] = [doc |-> w.doc, by |-> 0]
    BY <2>3, <1>5 DEF Key
  <2>4. CASE w.state = "deleted" /\ w.id \notin DOMAIN u.docs
    BY <2>4, <1>5 DEF Key
  <2>5. CASE u.docs = t.docs
    BY <2>5, <1>5
  <2> QED BY <1>2, <2>1, <2>2, <2>3, <2>4, <2>5 DEF There
<1> QED BY <1>2, <1>4, <1>5 DEF Elsewhere

\* No document has the number of the draft that write k inserts.
LEMMA NotYet ==
  ASSUME DocumentAssumption, NEW t, NEW u, NEW k, NEW N, Writing(t, u, k, N), From(t, k - 1),
         Unused(docs, save.done), save.writes[k].state = "new"
  PROVE  \A id \in DOMAIN t.docs : t.docs[id].by # save.writes[k].uid
<1> DEFINE w == save.writes[k]
<1>1. /\ k \in Nat /\ save.done \in Nat /\ save.done < k /\ k \in 1..Len(save.writes) /\ Len(save.writes) \in Nat
      /\ w.uid \in 1..drafted
  BY WritingIs
<1>0. w.uid # 0
  BY <1>1 DEF Writing
<1> SUFFICES ASSUME NEW id \in DOMAIN t.docs, t.docs[id].by = w.uid PROVE FALSE
  OBVIOUS
<1>2. k \in save.done + 1..Len(save.writes)
  BY <1>1
<1>3. \A a \in DOMAIN docs : docs[a].by # w.uid
  BY <1>2 DEF Unused
<1>4. PICK j \in save.done + 1..k - 1 : save.writes[j].state = "new" /\ t.docs[id].by = save.writes[j].uid
  BY <1>0, <1>1, <1>3 DEF From
<1>5. j \in 1..Len(save.writes) /\ j # k
  BY <1>1
<1>6. \A l, m \in 1..Len(save.writes) :
        save.writes[l].state = "new" /\ save.writes[m].state = "new" /\ save.writes[l].uid = save.writes[m].uid => l = m
  BY DEF Writing, Batch, BatchOf
<1>7. save.writes[j].uid = save.writes[k].uid
  BY <1>4
<1> QED BY ONLY <1>1, <1>4, <1>5, <1>6, <1>7, save.writes[k].state = "new"

LEMMA OnceStep ==
  ASSUME DocumentAssumption, NEW t, NEW u, NEW k, NEW N, Writing(t, u, k, N), From(t, k - 1), Once(t)
  PROVE  Once(u)
<1> DEFINE w == save.writes[k]
<1>2. Elsewhere(t, u, w) /\ There(t, u, w)
  BY DEF Writing
<1> SUFFICES ASSUME Injective(docs), Unused(docs, save.done) PROVE Injective(u.docs)
  BY DEF Once
<1>3. Injective(t.docs)
  BY DEF Once
<1>4. w.state = "new" => \A id \in DOMAIN t.docs : t.docs[id].by # w.uid
  BY NotYet
<1> HIDE DEF w
<1>5. \A id \in DOMAIN u.docs :
        \/ u.docs[id].by = 0
        \/ id \in DOMAIN t.docs /\ u.docs[id].by = t.docs[id].by
        \/ id = t.next /\ w.state = "new" /\ u.docs[id].by = w.uid
  <2> SUFFICES ASSUME NEW id \in DOMAIN u.docs, ~(id \in DOMAIN t.docs /\ u.docs[id].by = t.docs[id].by)
               PROVE  u.docs[id].by = 0 \/ (id = t.next /\ w.state = "new" /\ u.docs[id].by = w.uid)
    OBVIOUS
  <2>0. id = Key(t, w)
    BY <1>2 DEF Elsewhere
  <2>1. CASE w.state = "new" /\ u.docs[t.next] = [doc |-> w.doc, by |-> w.uid]
    BY <2>0, <2>1 DEF Key
  <2>2. CASE w.state = "modified" /\ w.id \in DOMAIN t.docs /\ u.docs[w.id] = [doc |-> w.doc, by |-> t.docs[w.id].by]
    BY <2>0, <2>2 DEF Key
  <2>3. CASE w.state = "modified" /\ u.docs[w.id] = [doc |-> w.doc, by |-> 0]
    BY <2>0, <2>3 DEF Key
  <2>4. CASE w.state = "deleted" /\ w.id \notin DOMAIN u.docs
    BY <2>0, <2>4 DEF Key
  <2>5. CASE u.docs = t.docs
    BY <2>5
  <2> QED BY <1>2, <2>1, <2>2, <2>3, <2>4, <2>5 DEF There
<1> SUFFICES ASSUME NEW a \in DOMAIN u.docs, NEW b \in DOMAIN u.docs, u.docs[a].by = u.docs[b].by, u.docs[a].by # 0
             PROVE  a = b
  BY DEF Injective
<1> QED BY <1>3, <1>4, <1>5 DEF Injective

LEMMA StoredStep ==
  ASSUME DocumentAssumption, NEW t, NEW u, NEW k, NEW N, Writing(t, u, k, N), Stored(t, k - 1)
  PROVE  Stored(u, k)
<1> DEFINE w == save.writes[k]
<1>1. /\ k \in Nat /\ save.done \in Nat /\ save.done < k /\ k <= Len(save.writes) /\ k \in 1..Len(save.writes)
      /\ Len(save.writes) \in Nat /\ w \in Writes
      /\ t.next \in Nat /\ nextId \in Nat /\ nextId <= t.next /\ t.next \notin DOMAIN t.docs
  BY WritingIs
<1>2. Elsewhere(t, u, w) /\ There(t, u, w)
  BY DEF Writing
<1>3. /\ \A l \in 1..Len(save.writes) : save.writes[l].state # "new" => save.writes[l].id \in 1..nextId - 1
      /\ \A l \in 1..Len(save.writes) :
           save.writes[k].state # "new" /\ save.writes[l].state # "new" /\ save.writes[k].id = save.writes[l].id => k = l
  BY <1>1 DEF Writing, Batch, BatchOf
<1> SUFFICES ASSUME u.ok, \A j \in 1..save.done : StoredIn(docs, j), NEW j \in 1..k PROVE StoredIn(u.docs, j)
  BY DEF Stored
<1>4. t.ok
  BY <1>2 DEF There
<1>5. \A i \in 1..k - 1 : StoredIn(t.docs, i)
  BY <1>4 DEF Stored
<1>6. ASSUME j # k PROVE StoredIn(u.docs, j)
  <2> DEFINE v == save.writes[j]
  <2>1. j \in 1..k - 1 /\ j \in 1..Len(save.writes)
    BY <1>1, <1>6
  <2>2. StoredIn(t.docs, j)
    BY <1>5, <2>1
  <2>3. v.state # "new" => v.id # Key(t, w)
    <3>1. CASE w.state = "new"
      BY SMTT(30), <3>1, <1>1, <1>3, <2>1 DEF Key
    <3>2. CASE w.state # "new"
      BY <3>2, <1>3, <1>6, <2>1 DEF Key
    <3> QED BY <3>1, <3>2
  <2>4. v.state \in {"modified", "deleted"} => (v.id \in DOMAIN u.docs <=> v.id \in DOMAIN t.docs) /\ (v.id \in DOMAIN t.docs => u.docs[v.id] = t.docs[v.id])
    BY <1>2, <2>3 DEF Elsewhere
  <2>5. ASSUME v.state = "new"
        PROVE  \E id \in DOMAIN u.docs :
                 /\ u.docs[id] = [doc |-> v.doc, by |-> v.uid]
                 /\ \A l \in 1..Len(save.writes) : save.writes[l].state # "new" => save.writes[l].id # id
    <3>1. PICK id \in DOMAIN t.docs :
            /\ t.docs[id] = [doc |-> v.doc, by |-> v.uid]
            /\ \A l \in 1..Len(save.writes) : save.writes[l].state # "new" => save.writes[l].id # id
      BY <2>2, <2>5 DEF StoredIn
    <3>2. id # Key(t, w)
      BY <3>1, <1>1 DEF Key
    <3>3. id \in DOMAIN u.docs /\ u.docs[id] = t.docs[id]
      BY <3>2, <1>2 DEF Elsewhere
    <3> QED BY <3>1, <3>3
  <2>6. /\ v.state = "deleted" => v.id \notin DOMAIN u.docs
        /\ v.state = "modified" => v.id \in DOMAIN u.docs /\ u.docs[v.id].doc = v.doc
    BY <2>2, <2>4 DEF StoredIn
  <2> QED BY <2>5, <2>6 DEF StoredIn
<1>7. ASSUME j = k PROVE StoredIn(u.docs, j)
  <2> HIDE DEF w
  <2>1. CASE w.state = "deleted" /\ w.id \notin DOMAIN u.docs
    BY <1>7, <2>1 DEF StoredIn, w
  <2>2. CASE w.state = "modified" /\ w.id \in DOMAIN u.docs /\ u.docs[w.id].doc = w.doc
    BY <1>7, <2>2 DEF StoredIn, w
  <2>3. CASE w.state = "new" /\ t.next \in DOMAIN u.docs /\ u.docs[t.next] = [doc |-> w.doc, by |-> w.uid]
    <3>0. \A x \in 1..nextId - 1 : x # t.next
      BY ONLY <1>1
    <3>1. \A l \in 1..Len(save.writes) : save.writes[l].state # "new" => save.writes[l].id # t.next
      BY <1>3, <3>0
    <3>2. \E id \in DOMAIN u.docs :
                 /\ u.docs[id] = [doc |-> w.doc, by |-> w.uid]
                 /\ \A l \in 1..Len(save.writes) : save.writes[l].state # "new" => save.writes[l].id # id
      BY <2>3, <3>1
    <3> QED BY <1>7, <2>3, <3>2 DEF StoredIn, w
  <2>4. CASE w.state = "modified" /\ w.id \in DOMAIN u.docs /\ u.docs[w.id] = [doc |-> w.doc, by |-> t.docs[w.id].by]
    BY <2>2, <2>4
  <2>5. CASE w.state = "modified" /\ w.id \in DOMAIN u.docs /\ u.docs[w.id] = [doc |-> w.doc, by |-> 0]
    BY <2>2, <2>5
  <2>6. CASE ~u.ok
    BY <2>6
  <2> QED BY <1>2, <2>1, <2>3, <2>4, <2>5, <2>6, Zenon DEF There
<1> QED BY <1>6, <1>7


LEMMA SentIs ==
  ASSUME NEW N, Batch(save, N), save.done < Len(save.writes)
  PROVE  /\ save.done \in Nat /\ Len(save.writes) \in Nat /\ Sent \in Nat
         /\ save.done < Sent /\ Sent <= Len(save.writes)
         /\ save.writes \in Seq(Writes) /\ save.batch \in Seq(Drafts) /\ N \in Nat
BY DEF Batch, BatchOf, Saves, Sent

\* What holds of the writes of a request up to the k-th.
Request1(t, k, N) ==
  /\ Kept(t, k, N) /\ Removed(t, k) /\ Came(t, k) /\ Changed(t, k) /\ From(t, k) /\ Once(t) /\ Stored(t, k)

LEMMA NothingYet ==
  ASSUME DocumentAssumption, NEW t, NEW N, t.docs = docs, t.next = nextId, save.done \in Nat,
         Collection(docs, nextId), nextId + Left(N, save.done) <= MaxId + 1
  PROVE  Request1(t, save.done, N)
<1>1. \A j \in save.done + 1..save.done : FALSE
  OBVIOUS
<1>2. nextId \in Nat
  BY DocumentIs DEF Collection
<1>3. Kept(t, save.done, N)
  BY <1>2 DEF Kept
<1>4. Removed(t, save.done) /\ Came(t, save.done) /\ Changed(t, save.done) /\ From(t, save.done)
  BY DEF Removed, Came, Changed, From
<1>5. Once(t) /\ Stored(t, save.done)
  BY DEF Once, Stored
<1> QED BY <1>3, <1>4, <1>5 DEF Request1

LEMMA OneMore ==
  ASSUME DocumentAssumption, NEW t, NEW u, NEW k, NEW N, Writing(t, u, k, N), Request1(t, k - 1, N)
  PROVE  Request1(u, k, N)
BY KeptStep, RemovedStep, CameStep, ChangedStep, FromStep, OnceStep, StoredStep DEF Request1

LEMMA ServedIs ==
  ASSUME DocumentAssumption, NEW N, Batch(save, N), save.done < Len(save.writes),
         Collection(docs, nextId), kind \in {"mongodb", "elasticsearch"}, drafted \in Nat,
         nextId + Left(N, save.done) <= MaxId + 1, NEW refused \in SUBSET (save.done + 1..Sent)
  PROVE  Shape(Served(refused)) /\ Request1(Served(refused), Sent, N)
<1> DEFINE f == After(refused)
           a == save.done
           z == Sent
           S == {k \in a..z : /\ Shape(f[k]) /\ IsFcn(f[k].docs) /\ (refused # {} => ~f[k].ok)
                              /\ Request1(f[k], k, N)}
<1>0. /\ a \in Nat /\ Len(save.writes) \in Nat /\ z \in Nat /\ a < z /\ z <= Len(save.writes)
      /\ save.writes \in Seq(Writes)
  BY SentIs
<1>1. /\ f[a] = [docs |-> docs, next |-> nextId, ok |-> refused = {}]
      /\ \A k \in a + 1..z : f[k] = IF k \in refused THEN f[k - 1] ELSE Applied(f[k - 1], save.writes[k])
      /\ Served(refused) = f[z]
  <2>1. save.done \in Nat /\ Sent \in Nat /\ save.done <= Sent
    BY SentIs
  <2> QED BY <2>1, AfterIs, Zenon DEF f, a, z
<1> HIDE DEF f, a, z
<1>2. a \in S
  <2> DEFINE t == f[a]
  <2>1. Shape(t) /\ (refused # {} => ~t.ok) /\ t.docs = docs /\ t.next = nextId
    <3> DEFINE b == refused = {}
    <3>1. t = [docs |-> docs, next |-> nextId, ok |-> b] /\ b \in BOOLEAN /\ (refused # {} => ~b)
      BY <1>1
    <3> HIDE DEF t, b
    <3>2. DOMAIN t = {"docs", "next", "ok"} /\ t.docs = docs /\ t.next = nextId /\ t.ok = b
      BY <3>1
    <3> QED BY <3>1, <3>2 DEF Shape
  <2> HIDE DEF t
  <2>2. Request1(t, a, N)
    BY <1>0, <2>1, NothingYet DEF a
  <2>3. IsFcn(t.docs)
    BY <2>1 DEF Collection, IsFcn
  <2> QED BY <1>0, <2>1, <2>2, <2>3 DEF t
<1>3. ASSUME NEW k \in a + 1..z, k - 1 \in S
      PROVE  k \in S
  <2> DEFINE t == f[k - 1]
             u == f[k]
             w == save.writes[k]
  <2>1. Shape(t) /\ IsFcn(t.docs) /\ (refused # {} => ~t.ok) /\ Request1(t, k - 1, N)
    BY <1>3
  <2>2. k \in a..z /\ k \in 1..Len(save.writes) /\ k \in a + 1..Len(save.writes)
    BY <1>0
  <2>3. w \in Writes
    BY <1>0, <2>2
  <2>4. w.state \in {"new", "modified", "deleted"}
    BY <2>3 DEF Writes
  <2>5. u = IF k \in refused THEN t ELSE Applied(t, w)
    BY <1>1
  <2> HIDE DEF t, u, w
  <2>6. Shape(u) /\ (refused # {} => ~u.ok) /\ Did(t, u, w)
    <3>1. CASE k \in refused
      BY <2>1, <2>5, <3>1 DEF Did
    <3>2. CASE k \notin refused
      <4>1. Shape(u) /\ Did(t, u, w)
        BY <2>1, <2>4, <2>5, <3>2, AppliedIs
      <4>2. t.ok \in BOOLEAN /\ u.ok \in BOOLEAN
        BY <2>1, <4>1 DEF Shape
      <4>3. ~t.ok => ~u.ok
        BY <4>1, <4>2 DEF Did
      <4> QED BY <2>1, <4>1, <4>3
    <3> QED BY <3>1, <3>2
  <2>7. Elsewhere(t, u, w) /\ There(t, u, w) /\ IsFcn(u.docs)
    BY <2>1, <2>6, DidThere
  <2>8. Writing(t, u, k, N)
    BY <2>1, <2>2, <2>7 DEF Writing, Request1, a, w
  <2>9. Request1(u, k, N)
    BY <2>1, <2>8, OneMore
  <2> QED BY <2>2, <2>6, <2>7, <2>9 DEF u
<1>4. S = a..z
  <2> HIDE DEF S
  <2>1. S \in SUBSET (a..z)
    BY DEF S
  <2> QED BY <1>0, <1>2, <1>3, <2>1, InductionFrom
<1>5. z \in S
  BY <1>0, <1>4
<1> QED BY <1>1, <1>5 DEF z

-----------------------------------------------------------------------------
(* What a step does, by kind of step.                                      *)
\* An edit of the grid.
Edited ==
  /\ running \/ saving => May("editWhileBusy")
  /\ UNCHANGED Others
  /\ \E src : EditedFrom(src)

\* A query is sent from slot s.
Queried(s, why, batch) ==
  /\ calls[s] = None
  /\ calls' = [calls EXCEPT ![s] = Request(why, page', batch)]
  /\ running' = TRUE

\* The user asks for a page, and the query is sent unless its text is no JSON.
Asked ==
  /\ UNCHANGED <<kind, db, grid, total, query, save>> /\ page' \in Nat \ {0}
  /\ \/ \E s \in Slots, why \in {"run", "page", "discard"} :
          /\ Queried(s, why, <<>>) /\ astray' = astray
          /\ running \/ saving => May("overlap")
          /\ why # "discard" /\ PendingRows # {} => May("dirtyRun")
     \/ /\ UNCHANGED <<calls, running>>
        /\ (page' = page /\ astray' = astray) \/ (astray' = "here" /\ ~running)

Typed == query' = [query EXCEPT !.valid = ~@] /\ UNCHANGED <<kind, db, grid, bar, running, save, calls, astray>>

LEMMA QueryIs ==
  ASSUME DocumentAssumption, NEW why, NEW batch, NEW p, p = page', runQuery(why, p, batch)
  PROVE  \/ query.valid /\ \E s \in Slots : Queried(s, why, batch)
         \/ ~query.valid /\ UNCHANGED <<calls, running>>
<1>1. CASE query.valid
  <2> DEFINE free == {s \in Slots : calls[s] = None}
             s == CHOOSE s \in free : \A t \in free : s <= t
  <2>1. /\ free # {}
        /\ calls' = [calls EXCEPT ![s] = Request(why, p, batch)]
        /\ running' = TRUE
    BY <1>1 DEF runQuery
  <2>2. free \in SUBSET Nat
    BY DocumentIs
  <2>3. \A x \in free : x \in Slots /\ calls[x] = None
    OBVIOUS
  <2> HIDE DEF free
  <2>4. s \in free
    BY <2>1, <2>2, LeastExists
  <2> HIDE DEF s
  <2>5. s \in Slots /\ Queried(s, why, batch)
    BY <2>1, <2>3, <2>4 DEF Queried
  <2> QED BY <1>1, <2>5
<1>2. CASE ~query.valid
  BY <1>2 DEF runQuery
<1> QED BY <1>1, <1>2

LEMMA PageCountIs == ASSUME DocumentAssumption, total \in 0..MaxId PROVE pageCount \in Nat \ {0}
<1>1. PageSize \in Nat \ {0} /\ total \in Nat
  BY DocumentIs DEF DocumentAssumption
<1>2. CASE total = 0
  BY <1>2 DEF pageCount
<1>3. CASE total # 0
  <2> DEFINE n == total + PageSize - 1
             q == n \div PageSize
  <2>1. n \in Nat /\ n >= PageSize
    BY <1>1, <1>3
  <2>2. q \in Nat /\ q # 0
    <3> HIDE DEF n
    <3> QED BY <1>1, <2>1
  <2> QED BY <2>2, <1>3 DEF pageCount
<1> QED BY <1>2, <1>3

\* discardChanges of the Elasticsearch page keeps the rows that were read.
LEMMA RereadIs ==
  ASSUME DocumentAssumption, Grid, discardChanges, kind # "mongodb"
  PROVE  Edited
<1> DEFINE S == {i \in DOMAIN rows : rows[i].orig # None}
           q == At(rows, S)
<1>1. rows \in Seq(Drafts) /\ S \in SUBSET DOMAIN rows /\ \A i \in DOMAIN rows : rows[i] \in Drafts /\ Fits(rows[i], kind, columns)
  BY DEF Grid
<1>2. \A i \in S : i \in DOMAIN rows /\ rows[i].orig # None
  OBVIOUS
<1>3. \A i \in DOMAIN rows : rows[i].orig # None => i \in S
  OBVIOUS
<1>4. rows' = [k \in DOMAIN q |-> Loaded(q[k].id, q[k].orig)]
  BY DEF discardChanges
<1> HIDE DEF S
<1>5. /\ Cardinality(S) \in Nat /\ DOMAIN q = 1..Cardinality(S)
      /\ \A k \in 1..Cardinality(S) : Nth(S, k) \in S /\ q[k] = rows[Nth(S, k)]
  BY <1>1, AtIs
<1> HIDE DEF q
<1>6. ASSUME NEW k \in 1..Cardinality(S)
      PROVE  rows'[k] \in Drafts /\ Fits(rows'[k], kind, columns) /\ SameRow(rows[Nth(S, k)], rows'[k])
  <2> DEFINE d == rows[Nth(S, k)]
  <2>1. d \in Drafts /\ Fits(d, kind, columns) /\ d.orig # None /\ q[k] = d
    BY <1>1, <1>2, <1>5
  <2>2. rows'[k] = Loaded(d.id, d.orig)
    BY <1>4, <1>5, <2>1
  <2> HIDE DEF d
  <2>3. d.id \in 0..MaxId /\ d.orig \in Documents
    BY <2>1 DEF Drafts
  <2> DEFINE e == rows'[k]
  <2>4. e \in Drafts /\ NewIsNew(e) /\ e.orig = d.orig /\ e.vals = d.orig /\ e.id = d.id
    BY <2>2, <2>3, LoadedIs
  <2> HIDE DEF e
  <2>5. Fits(e, kind, columns) /\ SameRow(d, e)
    BY <2>1, <2>4 DEF Fits, SameRow
  <2> QED BY <2>4, <2>5 DEF d, e
<1>7. rows' \in Seq(Drafts) /\ Len(rows') = Cardinality(S)
  <2> DEFINE c == Cardinality(S)
  <2>1. rows' = [k \in 1..c |-> rows'[k]] /\ c \in Nat /\ \A k \in 1..c : rows'[k] \in Drafts
    BY <1>4, <1>5, <1>6
  <2> HIDE DEF c
  <2>2. rows' \in [1..c -> Drafts]
    BY <2>1
  <2> QED BY <2>1, <2>2 DEF c
<1>8. drafted' = drafted /\ UNCHANGED Others /\ ~running /\ ~saving
  BY DEF discardChanges, Others
<1>9. \E src : EditedFrom(src)
  BY <1>1, <1>3, <1>6, <1>7, <1>8, EditPicked, DocumentIs
<1> QED BY <1>8, <1>9 DEF Edited

LEMMA AskedIs ==
  ASSUME DocumentAssumption, Grid, page \in Nat \ {0}, total \in (0..MaxId) \cup {None},
         Run \/ Refresh \/ discardChanges \/ \E p \in 1..MaxId + 1 : changePage(p)
  PROVE  Edited \/ Asked
<1> DEFINE b == <<>>
<1>1. CASE Run
  <2>1. /\ running \/ saving => May("overlap")
        /\ PendingRows # {} => May("dirtyRun")
        /\ page' = IF kind = "mongodb" /\ query.valid THEN 1 ELSE page
        /\ runQuery("run", page', b)
        /\ UNCHANGED <<kind, db, grid, total, query, save, astray>>
    BY <1>1 DEF Run, hasPendingChanges
  <2> HIDE DEF b
  <2>2. \/ query.valid /\ \E s \in Slots : Queried(s, "run", b)
        \/ ~query.valid /\ UNCHANGED <<calls, running>>
    BY <2>1, QueryIs
  <2>3. page' \in Nat \ {0} /\ (~query.valid => page' = page)
    BY <2>1
  <2> QED BY <2>1, <2>2, <2>3 DEF Asked, b
<1>2. CASE Refresh
  <2>1. /\ ~running /\ ~saving
        /\ PendingRows # {} => May("dirtyRun")
        /\ page' = page
        /\ runQuery("run", page, b)
        /\ UNCHANGED <<kind, db, grid, total, query, save, astray>>
    BY <1>2 DEF Refresh, hasPendingChanges, bar
  <2> HIDE DEF b
  <2>2. \/ query.valid /\ \E s \in Slots : Queried(s, "run", b)
        \/ ~query.valid /\ UNCHANGED <<calls, running>>
    BY <2>1, QueryIs
  <2> QED BY <2>1, <2>2 DEF Asked, b
<1>3. CASE discardChanges
  <2>1. CASE kind = "mongodb"
    <3>1. /\ ~running /\ ~saving
          /\ page' = page
          /\ runQuery("discard", page, b)
          /\ UNCHANGED <<kind, db, grid, total, query, save, astray>>
      BY <1>3, <2>1 DEF discardChanges, bar, grid
    <3> HIDE DEF b
    <3>2. \/ query.valid /\ \E s \in Slots : Queried(s, "discard", b)
          \/ ~query.valid /\ UNCHANGED <<calls, running>>
      BY <3>1, QueryIs
    <3> QED BY <3>1, <3>2 DEF Asked, b
  <2>2. CASE kind # "mongodb"
    BY <1>3, <2>2, RereadIs
  <2> QED BY <2>1, <2>2
<1>4. ASSUME NEW p \in 1..MaxId + 1, changePage(p)
      PROVE  Asked
  <2>1. /\ total # None /\ ~running /\ ~saving /\ PendingRows = {}
        /\ page' = IF p < pageCount THEN p ELSE pageCount
        /\ runQuery("page", page', b) /\ Noted(query.valid)
        /\ UNCHANGED <<kind, db, grid, total, query, save>>
    BY <1>4 DEF changePage, guardPendingChanges, hasPendingChanges
  <2> HIDE DEF b
  <2>2. pageCount \in Nat \ {0}
    BY <2>1, PageCountIs
  <2>3. page' \in Nat \ {0}
    BY <2>1, <2>2, DocumentIs
  <2>4. \/ query.valid /\ \E s \in Slots : Queried(s, "page", b)
        \/ ~query.valid /\ UNCHANGED <<calls, running>>
    BY <2>1, QueryIs
  <2>5. query.valid => astray' = astray
    BY <2>1 DEF Noted
  <2>6. ~query.valid => astray' = "here"
    BY <2>1 DEF Noted
  <2> QED BY <2>1, <2>3, <2>4, <2>5, <2>6 DEF Asked, b
<1> QED BY <1>1, <1>2, <1>3, <1>4

-----------------------------------------------------------------------------
(* A save begins.                                                          *)
\* The rows of the grid are different ones.
Apart ==
  /\ \A i \in DOMAIN rows : /\ rows[i].orig = None => rows[i].uid \in 1..drafted
                            /\ rows[i].orig # None => rows[i].id \in 1..nextId - 1
  /\ \A i, j \in DOMAIN rows : rows[i].orig = None /\ rows[j].orig = None /\ rows[i].uid = rows[j].uid => i = j
  /\ \A i, j \in DOMAIN rows : rows[i].orig # None /\ rows[j].orig # None /\ rows[i].id = rows[j].id => i = j

LEMMA WriteIs ==
  ASSUME DocumentAssumption, NEW d \in Drafts, d.state # "clean"
  PROVE  Write(d) \in Writes /\ WroteOf(d, Write(d))
<1> DEFINE doc == DocumentOf(d)
<1>1. d.vals \in Documents /\ d.state \in {"modified", "new", "deleted"} /\ d.id \in 0..MaxId /\ d.uid \in 0..MaxDrafts
  BY DEF Drafts
<1>2. doc = [f \in Fields |-> IF f \in columns /\ d.vals[f] = Absent THEN Null ELSE d.vals[f]]
  BY DEF DocumentOf
<1>3. doc \in Documents
  BY <1>1, <1>2, DocumentIs DEF Documents
<1>4. \A f \in Fields : doc[f] # d.orig[f] => EditedIn(d, f) \/ (d.orig[f] = Absent /\ doc[f] = Null)
  BY <1>2 DEF EditedIn
<1>5. Write(d) = [state |-> d.state, id |-> d.id, uid |-> d.uid, doc |-> doc]
  BY DEF Write
<1> HIDE DEF doc
<1>6. Write(d) \in Writes
  BY <1>1, <1>3, <1>5 DEF Writes
<1>7. Write(d).state = d.state /\ Write(d).id = d.id /\ Write(d).uid = d.uid /\ Write(d).doc = doc
  BY <1>5
<1> QED BY <1>4, <1>6, <1>7 DEF WroteOf

\* The batch of a save: the rows with changes, those to insert first.
LEMMA ChangesIs ==
  ASSUME DocumentAssumption, Grid
  PROVE  /\ Changes \in Seq(Drafts) /\ Len(Of("new")) \in Nat
         /\ \E pos : /\ \A k \in 1..Len(Changes) :
                          /\ pos[k] \in DOMAIN rows /\ Changes[k] = rows[pos[k]] /\ Pending(Changes[k])
                          /\ (Changes[k].state = "new") = (k <= Len(Of("new")))
                     /\ \A k, l \in 1..Len(Changes) : pos[k] = pos[l] => k = l
                     /\ \A i \in DOMAIN rows : Pending(rows[i]) => \E k \in 1..Len(Changes) : pos[k] = i
<1> DEFINE A == {i \in DOMAIN rows : rows[i].state = "new"}
           B == {i \in DOMAIN rows : rows[i].state = "modified"}
           C == {i \in DOMAIN rows : rows[i].state = "deleted"}
           b == Changes
<1>1. rows \in Seq(Drafts) /\ DOMAIN rows = 1..Len(rows)
  BY DEF Grid
<1>0. \A i \in DOMAIN rows : rows[i] \in Drafts
  BY DEF Grid
<1>2. \A i \in DOMAIN rows : rows[i].state \in {"clean", "modified", "new", "deleted"}
  BY <1>0 DEF Drafts
<1>3. /\ A \in SUBSET DOMAIN rows /\ B \in SUBSET DOMAIN rows /\ C \in SUBSET DOMAIN rows
      /\ A \cap B = {} /\ A \cap C = {} /\ B \cap C = {}
  OBVIOUS
<1>4. b = Parts(rows, A, B, C) /\ Of("new") = At(rows, A)
  BY DEF Changes, Of, Parts
<1>5. \A i : /\ i \in A => i \in DOMAIN rows /\ rows[i].state = "new"
             /\ i \in B => i \in DOMAIN rows /\ rows[i].state = "modified"
             /\ i \in C => i \in DOMAIN rows /\ rows[i].state = "deleted"
  OBVIOUS
<1>6. \A i \in DOMAIN rows : Pending(rows[i]) => i \in A \cup B \cup C
  BY <1>2 DEF Pending
<1> HIDE DEF A, B, C, b
<1>7. /\ Cardinality(A) \in Nat /\ Cardinality(B) \in Nat /\ Cardinality(C) \in Nat
      /\ Len(At(rows, A)) = Cardinality(A)
      /\ Parts(rows, A, B, C) \in Seq(Drafts)
      /\ Len(Parts(rows, A, B, C)) = Cardinality(A) + Cardinality(B) + Cardinality(C)
      /\ \E pos : Lists(Parts(rows, A, B, C), rows, A, B, C, pos)
  BY ONLY <1>1, <1>3, ThreeParts, Zenon
<1>8. PICK pos : Lists(b, rows, A, B, C, pos)
  BY <1>4, <1>7
<1>9. /\ \A k \in 1..Len(b) : /\ pos[k] \in A \cup B \cup C /\ b[k] = rows[pos[k]]
                              /\ (pos[k] \in A) = (k <= Cardinality(A))
      /\ \A k, l \in 1..Len(b) : pos[k] = pos[l] => k = l
      /\ \A i \in A \cup B \cup C : \E k \in 1..Len(b) : pos[k] = i
  BY <1>8 DEF Lists
<1>10. \A k \in 1..Len(b) : /\ pos[k] \in DOMAIN rows /\ b[k] = rows[pos[k]] /\ Pending(b[k])
                            /\ (b[k].state = "new") = (k <= Cardinality(A))
  <2> TAKE k \in 1..Len(b)
  <2>1. pos[k] \in A \cup B \cup C /\ b[k] = rows[pos[k]] /\ (pos[k] \in A) = (k <= Cardinality(A))
    BY <1>9
  <2>2. CASE pos[k] \in A
    BY <2>1, <2>2, <1>5 DEF Pending
  <2>3. CASE pos[k] \notin A
    <3>1. b[k].state \in {"modified", "deleted"} /\ pos[k] \in DOMAIN rows
      BY <2>1, <2>3, <1>5
    <3>2. ~(k <= Cardinality(A))
      BY <2>1, <2>3
    <3> QED BY <2>1, <3>1, <3>2 DEF Pending
  <2> QED BY <2>2, <2>3
<1>11. \A i \in DOMAIN rows : Pending(rows[i]) => \E k \in 1..Len(b) : pos[k] = i
  BY <1>6, <1>9
<1>12. Len(Of("new")) = Cardinality(A) /\ b \in Seq(Drafts)
  BY <1>4, <1>7
<1>13. /\ \A k \in 1..Len(b) : /\ pos[k] \in DOMAIN rows /\ b[k] = rows[pos[k]] /\ Pending(b[k])
                                 /\ (b[k].state = "new") = (k <= Len(Of("new")))
       /\ Len(Of("new")) \in Nat
  BY <1>7, <1>10, <1>12
<1> QED BY ONLY <1>9, <1>11, <1>12, <1>13, Zenon DEF b

\* A batch is begun.
Begun ==
  /\ ~running /\ ~saving
  /\ UNCHANGED <<kind, db, grid, bar, query, running, calls, astray>>
  /\ save'.done = 0 /\ save'.reply = None
  /\ \E N : Batch(save', N) /\ nextId + Left(N, 0) <= MaxId + 1
  /\ \A k \in 1..Len(save'.batch) : \E i \in DOMAIN rows : save'.batch[k] = rows[i]
  /\ \A d \in PendingRows : \E k \in 1..Len(save'.batch) : save'.batch[k] = d

LEMMA BegunIs ==
  ASSUME DocumentAssumption, Grid, Apart, saveChanges
  PROVE  Begun
<1> DEFINE b == Changes
           n == Len(Of("new"))
           ws == [k \in DOMAIN b |-> Write(b[k])]
           v == [writes |-> ws, batch |-> b, done |-> 0, reply |-> None]
<1>1. /\ PendingRows # {} /\ ~running /\ ~saving /\ nextId + n <= MaxId + 1
      /\ save' = v
      /\ UNCHANGED <<kind, db, grid, bar, query, running, calls, astray>>
  BY DEF saveChanges, hasPendingChanges
<1>2. b \in Seq(Drafts) /\ n \in Nat
  BY ChangesIs
<1>3. PICK pos : /\ \A k \in 1..Len(b) :
                          /\ pos[k] \in DOMAIN rows /\ b[k] = rows[pos[k]] /\ Pending(b[k])
                          /\ (b[k].state = "new") = (k <= n)
                 /\ \A k, l \in 1..Len(b) : pos[k] = pos[l] => k = l
                 /\ \A i \in DOMAIN rows : Pending(rows[i]) => \E k \in 1..Len(b) : pos[k] = i
  BY ChangesIs
<1> HIDE DEF b, n
<1>4. DOMAIN b = 1..Len(b) /\ Len(b) \in Nat /\ \A k \in 1..Len(b) : b[k] \in Drafts
  BY <1>2
<1>5. DOMAIN ws = 1..Len(b) /\ \A k \in 1..Len(b) : ws[k] = Write(b[k])
  BY <1>4
<1>6. \A k \in 1..Len(b) : ws[k] \in Writes /\ WroteOf(b[k], ws[k])
  BY <1>3, <1>4, <1>5, WriteIs DEF Pending
<1>7. ws = [k \in 1..Len(b) |-> ws[k]]
  BY <1>4
<1> HIDE DEF ws
<1>8. ws \in Seq(Writes) /\ Len(ws) = Len(b)
  <2>1. ws \in [1..Len(b) -> Writes]
    BY <1>6, <1>7
  <2> QED BY <2>1, <1>4
<1>9. v \in Saves /\ v.writes = ws /\ v.batch = b /\ v.done = 0 /\ v.reply = None
  BY <1>2, <1>8 DEF Saves
<1> HIDE DEF v
<1>10. \A d \in PendingRows : \E k \in 1..Len(b) : b[k] = d
  <2> SUFFICES ASSUME NEW i \in DOMAIN rows, Pending(rows[i]) PROVE \E k \in 1..Len(b) : b[k] = rows[i]
    BY DEF PendingRows
  <2>1. PICK k \in 1..Len(b) : pos[k] = i
    BY <1>3
  <2> QED BY <2>1, <1>3
<1>11. Len(b) # 0
  BY <1>1, <1>4, <1>10
<1>12. ASSUME NEW k \in 1..Len(b)
       PROVE  /\ pos[k] \in DOMAIN rows /\ (rows[pos[k]].orig = None) = (ws[k].state = "new")
              /\ ws[k].uid = rows[pos[k]].uid /\ ws[k].id = rows[pos[k]].id
              /\ (ws[k].state = "new") = (k <= n)
  <2>1. pos[k] \in DOMAIN rows /\ b[k] = rows[pos[k]] /\ (b[k].state = "new") = (k <= n)
    BY <1>3
  <2>2. NewIsNew(rows[pos[k]])
    BY <2>1 DEF Grid, Fits
  <2>3. ws[k].state = b[k].state /\ ws[k].id = b[k].id /\ ws[k].uid = b[k].uid
    BY <1>6 DEF WroteOf
  <2> QED BY <2>1, <2>2, <2>3 DEF NewIsNew
<1>13. \A k \in 1..Len(b) : /\ ws[k].state = "new" => ws[k].uid \in 1..drafted
                            /\ ws[k].state # "new" => ws[k].id \in 1..nextId - 1
  BY <1>12 DEF Apart
<1>14. \A k, l \in 1..Len(b) :
         /\ ws[k].state # "new" /\ ws[l].state # "new" /\ ws[k].id = ws[l].id => k = l
         /\ ws[k].state = "new" /\ ws[l].state = "new" /\ ws[k].uid = ws[l].uid => k = l
  BY SMTT(30), <1>3, <1>12 DEF Apart
<1>15. Batch(v, n)
  BY <1>2, <1>4, <1>6, <1>8, <1>9, <1>11, <1>12, <1>13, <1>14 DEF Batch, BatchOf
<1>16. nextId + Left(n, 0) <= MaxId + 1
  <2>1. Left(n, 0) = n
    BY <1>2 DEF Left
  <2> QED BY <1>1, <2>1
<1>17. \A k \in 1..Len(b) : \E i \in DOMAIN rows : b[k] = rows[i]
  BY <1>3
<1> QED BY <1>1, <1>9, <1>10, <1>15, <1>16, <1>17 DEF Begun

-----------------------------------------------------------------------------
(* What the databases answer.                                              *)
\* Rows as an answer brings them.
ReadBelow(read, n) ==
  /\ read \in Seq(Drafts)
  /\ \A k \in DOMAIN read : /\ read[k].orig # None /\ read[k].vals = read[k].orig /\ read[k].state = "clean"
                            /\ read[k].id \in 1..n - 1
  /\ \A k, l \in DOMAIN read : read[k].id = read[l].id => k = l
Read(read) == ReadBelow(read, nextId)
\* They are page p of the collection.
Pages(read, p, fields) ==
  /\ {read[k].id : k \in DOMAIN read} = ToSet(Page(p))
  /\ \A k \in DOMAIN read :
       read[k].id \in DOMAIN docs /\ (fields = Fields => docs[read[k].id].doc = read[k].orig)

LEMMA ReverseIs ==
  ASSUME NEW T, NEW s \in Seq(T)
  PROVE  /\ Reverse(s) \in Seq(T) /\ Len(Reverse(s)) = Len(s)
         /\ \A i \in 1..Len(s) : Reverse(s)[i] = s[Len(s) - i + 1]
<1> DEFINE n == Len(s)
<1>1. n \in Nat /\ \A i \in 1..n : s[i] \in T
  OBVIOUS
<1>2. Reverse(s) = [i \in 1..n |-> s[(n - i) + 1]]
  BY DEF Reverse
<1> HIDE DEF n
<1>3. \A i \in 1..n : (n - i) + 1 \in 1..n
  BY <1>1
<1>4. Reverse(s) \in [1..n -> T]
  BY <1>1, <1>2, <1>3
<1>5. Reverse(s) \in Seq(T) /\ Len(Reverse(s)) = n
  BY <1>1, <1>4
<1>6. \A i \in 1..n : Reverse(s)[i] = s[(n - i) + 1]
  BY <1>2
<1> QED BY <1>5, <1>6 DEF n

LEMMA FoundIs ==
  ASSUME DocumentAssumption, Collection(docs, nextId)
  PROVE  /\ Found \in Seq(DOMAIN docs) /\ Len(Found) \in 0..nextId - 1
         /\ \A k, l \in 1..Len(Found) : Found[k] = Found[l] => k = l
<1> DEFINE S == DOMAIN docs
           T == 1..nextId - 1
           q == InOrder(S)
<1>1. nextId \in Nat \ {0} /\ S \in SUBSET T /\ nextId - 1 \in Nat
  BY DocumentIs DEF Collection
<1>2. IsFiniteSet(T) /\ Cardinality(T) = nextId - 1
  BY <1>1, FirstNumbers
<1>3. S \in SUBSET Nat
  BY <1>1
<1>4. Found = Reverse(q)
  BY DEF Found
<1> HIDE DEF S, T
<1>5. IsFiniteSet(S) /\ Cardinality(S) <= Cardinality(T)
  BY <1>1, <1>2, FS_Subset
<1>6. /\ Cardinality(S) \in Nat /\ q \in Seq(S) /\ Len(q) = Cardinality(S)
      /\ DOMAIN q = 1..Cardinality(S)
      /\ \A k, l \in DOMAIN q : q[k] = q[l] => k = l
  BY <1>3, <1>5, InOrderIs
<1> DEFINE r == Reverse(q)
<1> HIDE DEF q
<1>7. /\ r \in Seq(S) /\ Len(r) = Len(q)
      /\ \A i \in 1..Len(q) : r[i] = q[Len(q) - i + 1]
  BY <1>6, ReverseIs
<1> HIDE DEF r
<1>8. \A k, l \in 1..Len(r) : r[k] = r[l] => k = l
  <2> SUFFICES ASSUME NEW k \in 1..Len(r), NEW l \in 1..Len(r), r[k] = r[l] PROVE k = l
    OBVIOUS
  <2> DEFINE i == Len(q) - k + 1
             j == Len(q) - l + 1
  <2>1. i \in 1..Len(q) /\ j \in 1..Len(q)
    BY <1>6, <1>7
  <2>2. q[i] = q[j]
    BY <1>7
  <2>3. i = j
    <3> HIDE DEF i, j
    <3> QED BY <1>6, <2>1, <2>2
  <2> QED BY <2>3, <1>6, <1>7
<1>9. Len(r) \in 0..nextId - 1
  BY <1>1, <1>2, <1>5, <1>6, <1>7
<1> QED BY <1>4, <1>7, <1>8, <1>9 DEF S, r

LEMMA PageIs ==
  ASSUME DocumentAssumption, Collection(docs, nextId), NEW p \in Nat \ {0}
  PROVE  /\ Page(p) \in Seq(DOMAIN docs)
         /\ \A i, j \in DOMAIN Page(p) : Page(p)[i] = Page(p)[j] => i = j
<1> DEFINE all == Found
           m == (p - 1) * PageSize + 1
           n == IF p * PageSize < Len(all) THEN p * PageSize ELSE Len(all)
<1>5. /\ all \in Seq(DOMAIN docs) /\ Len(all) \in Nat
      /\ \A k, l \in 1..Len(all) : all[k] = all[l] => k = l
  BY FoundIs
<1>6. PageSize \in Nat \ {0} /\ (p - 1) * PageSize \in Nat /\ p * PageSize \in Nat
  BY DEF DocumentAssumption
<1>12. Page(p) = SubSeq(all, m, n)
  BY DEF Page
<1> HIDE DEF all
<1>7. m \in Nat /\ m >= 1 /\ n \in Nat /\ n <= Len(all)
  BY <1>5, <1>6
<1> HIDE DEF m, n
<1>8. \A i \in m..n : i \in 1..Len(all) /\ all[i] \in DOMAIN docs
  BY <1>5, <1>7
<1>9. /\ SubSeq(all, m, n) \in Seq(DOMAIN docs)
      /\ Len(SubSeq(all, m, n)) = IF m <= n THEN n - m + 1 ELSE 0
      /\ \A i \in 1..n - m + 1 : SubSeq(all, m, n)[i] = all[m + i - 1]
  BY <1>7, <1>8, SubSeqProperties
<1> DEFINE q == SubSeq(all, m, n)
<1>10. \A i \in DOMAIN q : i \in Nat /\ q[i] = all[m + i - 1] /\ m + i - 1 \in 1..Len(all)
  <2> HIDE DEF q
  <2>1. DOMAIN q = 1..Len(q)
    BY <1>9 DEF q
  <2> SUFFICES ASSUME NEW i \in 1..Len(q)
               PROVE  i \in Nat /\ q[i] = all[m + i - 1] /\ m + i - 1 \in 1..Len(all)
    BY <2>1
  <2>2. m <= n /\ i \in 1..n - m + 1
    BY <1>7, <1>9 DEF q
  <2>3. m + i - 1 \in 1..Len(all)
    BY <2>2, <1>7, <1>5
  <2> QED BY <2>2, <2>3, <1>5, <1>9 DEF q
<1>11. \A i, j \in DOMAIN q : q[i] = q[j] => i = j
  <2> HIDE DEF q
  <2> SUFFICES ASSUME NEW i \in DOMAIN q, NEW j \in DOMAIN q, q[i] = q[j] PROVE i = j
    OBVIOUS
  <2> DEFINE x == m + i - 1
             y == m + j - 1
  <2>1. i \in Nat /\ j \in Nat /\ x \in 1..Len(all) /\ y \in 1..Len(all) /\ q[i] = all[x] /\ q[j] = all[y]
    BY <1>10
  <2>2. x = y
    <3> HIDE DEF x, y
    <3> QED BY <1>5, <2>1
  <2> QED BY <1>7, <2>1, <2>2
<1> QED BY <1>9, <1>11, <1>12 DEF q

\* A query is answered.
Answered(s) ==
  /\ calls[s] # None /\ calls[s].reply = None
  /\ UNCHANGED <<kind, db, grid, bar, query, running, save, astray>>
  /\ \E r \in Answers :
       /\ calls' = [calls EXCEPT ![s] = [calls[s] EXCEPT !.reply = r]]
       /\ r.ok => Read(r.rows) /\ Pages(r.rows, calls[s].page, calls[s].fields)

LEMMA AnswerIs ==
  ASSUME NEW t \in 0..MaxId, NEW read \in Seq(Drafts)
  PROVE  /\ [ok |-> TRUE, total |-> t, rows |-> read] \in Answers
         /\ [ok |-> FALSE] \in Answers
BY DEF Answers

LEMMA AnsweredIs ==
  ASSUME DocumentAssumption, Collection(docs, nextId), NEW s \in Slots,
         calls \in [Slots -> Requests \cup {None}], ServeRows(s)
  PROVE  Answered(s)
<1>1. calls[s] \in Requests /\ calls[s].reply = None
  BY DEF ServeRows
<1> DEFINE p == calls[s].page
           fields == calls[s].fields
           ids == Page(p)
           Projected(doc) == [f \in Fields |-> IF f \in fields THEN doc[f] ELSE Absent]
           read == [k \in DOMAIN ids |-> Loaded(ids[k], Projected(docs[ids[k]].doc))]
           r == [ok |-> TRUE, total |-> Len(Found), rows |-> read]
<1>2. p \in Nat \ {0} /\ fields \in SUBSET Fields
  BY <1>1 DEF Requests
<1>3. UNCHANGED <<kind, db, grid, bar, query, running, save, astray>>
  BY DEF ServeRows
<1>4. \/ calls' = [calls EXCEPT ![s].reply = r]
      \/ calls' = [calls EXCEPT ![s].reply = [ok |-> FALSE]]
  BY DEF ServeRows
<1> HIDE DEF p, fields
<1>5. /\ ids \in Seq(DOMAIN docs)
      /\ \A i, j \in DOMAIN ids : ids[i] = ids[j] => i = j
  BY <1>2, PageIs
<1>6. Len(Found) \in 0..MaxId
  <2>1. Len(Found) \in 0..nextId - 1 /\ nextId \in 1..MaxId + 1
    BY FoundIs DEF Collection
  <2> QED BY <2>1, DocumentIs
<1>7. \A id \in DOMAIN docs : id \in 1..nextId - 1 /\ id \in 0..MaxId /\ docs[id].doc \in Documents
  <2>1. /\ DOMAIN docs \in SUBSET (1..nextId - 1) /\ nextId \in 1..MaxId + 1
        /\ docs \in [DOMAIN docs -> [doc : Documents, by : 0..drafted]]
    BY DEF Collection
  <2> QED BY <2>1, DocumentIs
<1>8. \A doc \in Documents : Projected(doc) \in Documents /\ (fields = Fields => Projected(doc) = doc)
  BY DEF Documents
<1> HIDE DEF ids
<1>9. DOMAIN ids = 1..Len(ids) /\ Len(ids) \in Nat /\ \A k \in DOMAIN ids : ids[k] \in DOMAIN docs
  BY <1>5
<1>10. DOMAIN read = DOMAIN ids /\ read = [k \in DOMAIN ids |-> read[k]]
       /\ \A k \in DOMAIN ids : read[k] = Loaded(ids[k], Projected(docs[ids[k]].doc))
  OBVIOUS
<1> HIDE DEF read, Projected
<1>11. \A k \in DOMAIN ids :
         /\ read[k] \in Drafts /\ read[k].orig # None /\ read[k].vals = read[k].orig /\ read[k].state = "clean"
         /\ read[k].id = ids[k] /\ read[k].id \in 1..nextId - 1
         /\ fields = Fields => read[k].orig = docs[ids[k]].doc
  <2> TAKE k \in DOMAIN ids
  <2> DEFINE id == ids[k]
             doc == Projected(docs[id].doc)
  <2>1. id \in DOMAIN docs
    BY <1>9
  <2>2. id \in 1..nextId - 1 /\ id \in 0..MaxId /\ docs[id].doc \in Documents
    BY <1>7, <2>1
  <2>3. doc \in Documents /\ (fields = Fields => doc = docs[id].doc)
    BY <1>8, <2>2
  <2>4. read[k] = Loaded(id, doc)
    BY <1>10
  <2> HIDE DEF id, doc
  <2>5. /\ read[k] \in Drafts /\ read[k].orig = doc /\ read[k].vals = doc /\ doc # None
        /\ read[k].id = id /\ read[k].state = "clean"
    BY <2>2, <2>3, <2>4, LoadedIs
  <2> QED BY <2>2, <2>3, <2>5 DEF id
<1>12. read \in Seq(Drafts)
  <2>1. read \in [1..Len(ids) -> Drafts]
    BY <1>9, <1>10, <1>11
  <2> QED BY <2>1, <1>9
<1>13. Read(read)
  BY <1>5, <1>10, <1>11, <1>12 DEF Read, ReadBelow
<1>14. Pages(read, p, fields)
  <2>1. ToSet(ids) = {ids[k] : k \in DOMAIN ids}
    BY DEF ToSet
  <2>2. {read[k].id : k \in DOMAIN read} = {ids[k] : k \in DOMAIN ids}
    BY <1>10, <1>11
  <2>3. \A k \in DOMAIN read : read[k].id \in DOMAIN docs /\ (fields = Fields => docs[read[k].id].doc = read[k].orig)
    BY <1>9, <1>10, <1>11
  <2> QED BY <2>1, <2>2, <2>3 DEF Pages, ids
<1>15. r \in Answers /\ r.rows = read /\ [ok |-> FALSE] \in Answers
  BY <1>6, <1>12, AnswerIs
<1>16. CASE calls' = [calls EXCEPT ![s].reply = r]
  <2>1. calls' = [calls EXCEPT ![s] = [calls[s] EXCEPT !.reply = r]]
    BY <1>16
  <2> HIDE DEF r
  <2> QED BY <1>1, <1>3, <1>13, <1>14, <1>15, <2>1 DEF Answered, ServeRows, p, fields
<1>17. CASE calls' = [calls EXCEPT ![s].reply = [ok |-> FALSE]]
  <2> DEFINE no == [ok |-> FALSE]
  <2>1. calls' = [calls EXCEPT ![s] = [calls[s] EXCEPT !.reply = no]] /\ no \in Answers /\ ~no.ok
    BY <1>15, <1>17
  <2> HIDE DEF no
  <2> QED BY <1>1, <1>3, <2>1 DEF Answered, ServeRows
<1> QED BY <1>4, <1>16, <1>17

-----------------------------------------------------------------------------
(* A save goes on, and answers arrive.                                     *)
\* The last write that was carried out.
Upto == IF save.reply = None THEN save.done ELSE Sent

\* The batch N of whose writes insert, and room for the ids it needs.
Saving(N) == Batch(save, N) /\ nextId + Left(N, Upto) <= MaxId + 1

\* The database carries out a request of the save.
CarriedOut(N) ==
  /\ saving /\ ~AllWritten /\ save.reply = None
  /\ UNCHANGED <<kind, grid, bar, query, running, calls, astray>>
  /\ \E t : /\ Request1(t, Sent, N) /\ docs' = t.docs /\ nextId' = t.next
            /\ \E r \in BOOLEAN : save' = [save EXCEPT !.reply = r] /\ (r => t.ok)

SaveEnds ==
  /\ saving /\ save.reply # None /\ save' = None /\ astray' = "here"
  /\ UNCHANGED <<kind, db, grid, bar, query, calls, running>>
SaveGoesOn ==
  /\ saving /\ save.reply = TRUE
  /\ save' = [save EXCEPT !.done = Sent, !.reply = None]
  /\ UNCHANGED <<kind, db, grid, bar, query, astray>>
  /\ \/ Sent = Len(save.writes) /\ \E s \in Slots : Queried(s, "save", save.batch)
     \/ Sent # Len(save.writes) /\ UNCHANGED <<calls, running>>

\* The answer to a query fills the grid.
Filled(s) ==
  /\ calls[s] # None /\ calls[s].reply # None
  /\ calls' = [calls EXCEPT ![s] = None] /\ running' = FALSE /\ Settled
  /\ save' = IF calls[s].why = "save" THEN None ELSE save
  /\ UNCHANGED <<kind, db, page, query>>
  /\ rows' \in Seq(Drafts) /\ columns' \in SUBSET Fields /\ drafted' \in drafted..MaxDrafts
  /\ total' \in (0..MaxId) \cup {None}
  /\ \A i \in DOMAIN rows' : Fits(rows'[i], kind, columns')
  /\ \/ calls[s].reply.ok /\ Read(calls[s].reply.rows) /\ rows' = calls[s].reply.rows /\ drafted' = drafted
     \/ /\ calls[s].reply.ok => calls[s].reply.rows = <<>>
        /\ ~calls[s].reply.ok => total' = None
        /\ \A i, j \in DOMAIN rows' : i = j
        /\ \A i \in DOMAIN rows' : rows'[i].orig = None /\ rows'[i].uid = drafted + 1 /\ drafted' = drafted + 1

LEMMA NoneIs ==
  /\ None \notin BOOLEAN /\ None \notin Answers /\ None \notin Requests /\ None \notin Saves
BY NoneAssumption

LEMMA CarriedOutIs ==
  ASSUME DocumentAssumption, Collection(docs, nextId), Grid, NEW N, Saving(N), ServeSave
  PROVE  CarriedOut(N)
<1>1. saving /\ ~AllWritten /\ save.reply = None
  BY DEF ServeSave
<1>2. save.done < Len(save.writes) /\ Batch(save, N) /\ nextId + Left(N, save.done) <= MaxId + 1
  <2>1. save.done \in Nat /\ Len(save.writes) \in Nat /\ save.done <= Len(save.writes)
    BY DEF Saving, Batch, BatchOf, Saves
  <2> QED BY <1>1, <2>1 DEF AllWritten, Saving, Upto
<1>3. drafted \in Nat /\ kind \in {"mongodb", "elasticsearch"}
  BY DocumentIs DEF Grid
<1>4. PICK refused \in SUBSET (save.done + 1..Sent) :
        /\ docs' = Served(refused).docs /\ nextId' = Served(refused).next
        /\ \/ save' = [save EXCEPT !.reply = Served(refused).ok]
           \/ save' = [save EXCEPT !.reply = FALSE]
  BY DEF ServeSave
<1> DEFINE t == Served(refused)
<1>5. Shape(t) /\ Request1(t, Sent, N)
  BY <1>2, <1>3, ServedIs
<1>6. docs' = t.docs /\ nextId' = t.next
      /\ (save' = [save EXCEPT !.reply = t.ok] \/ save' = [save EXCEPT !.reply = FALSE])
  BY <1>4
<1> HIDE DEF t
<1>7. \E r \in BOOLEAN : save' = [save EXCEPT !.reply = r] /\ (r => t.ok)
  <2>1. t.ok \in BOOLEAN
    BY <1>5 DEF Shape
  <2>2. CASE save' = [save EXCEPT !.reply = t.ok]
    BY <2>1, <2>2
  <2>3. CASE save' = [save EXCEPT !.reply = FALSE]
    BY <2>3
  <2> QED BY <1>6, <2>2, <2>3
<1>8. UNCHANGED <<kind, grid, bar, query, running, calls, astray>>
  BY DEF ServeSave
<1> QED BY <1>1, <1>5, <1>6, <1>7, <1>8 DEF CarriedOut

LEMMA SaveArrivesIs ==
  ASSUME DocumentAssumption, NEW N, Saving(N), SaveArrives
  PROVE  SaveEnds \/ SaveGoesOn
<1> DEFINE last == Sent = Len(save.writes)
           fine == save.reply /\ (last => query.valid)
           b == save.batch
<1>1. /\ saving /\ save.reply # None
      /\ Noted(fine)
      /\ save' = IF fine THEN [save EXCEPT !.done = Sent, !.reply = None] ELSE None
      /\ IF fine /\ last THEN runQuery("save", page, b) ELSE UNCHANGED <<calls, running>>
      /\ UNCHANGED <<kind, db, grid, bar, query>>
  BY DEF SaveArrives
<1>2. save.reply \in BOOLEAN
  BY <1>1 DEF Saving, Batch, BatchOf, Saves
<1>3. CASE fine
  <2>1. save.reply = TRUE /\ (last => query.valid) /\ astray' = astray
    BY <1>1, <1>2, <1>3 DEF Noted
  <2>2. CASE last
    <3>1. page = page' /\ runQuery("save", page, b) /\ query.valid
      BY <1>1, <1>3, <2>1, <2>2 DEF bar
    <3> HIDE DEF last, fine, b
    <3>2. \E s \in Slots : Queried(s, "save", b)
      BY <3>1, QueryIs
    <3> QED BY <1>1, <1>3, <2>1, <2>2, <3>2 DEF SaveGoesOn, last, b
  <2>3. CASE ~last
    BY <1>1, <1>3, <2>1, <2>3 DEF SaveGoesOn
  <2> QED BY <2>2, <2>3
<1>4. CASE ~fine
  BY <1>1, <1>4 DEF SaveEnds, Noted
<1> QED BY <1>3, <1>4

LEMMA ColumnsIs ==
  ASSUME NEW read, Read(read), NEW i \in DOMAIN read
  PROVE  Fits(read[i], kind, ColumnsOf(read)) /\ ColumnsOf(read) \in SUBSET Fields
<1>1. /\ read[i].orig # None /\ read[i].vals = read[i].orig /\ read[i].state = "clean"
  BY DEF Read, ReadBelow
<1>2. \A f \in Fields \ ColumnsOf(read) : read[i].orig[f] = Absent
  BY DEF ColumnsOf
<1>3. ColumnsOf(read) \in SUBSET Fields
  BY DEF ColumnsOf
<1> QED BY <1>1, <1>2, <1>3 DEF Fits, NewIsNew

LEMMA FilledIs ==
  ASSUME DocumentAssumption, Grid, NEW s \in Slots, calls[s] \in Requests \cup {None},
         calls[s] # None /\ calls[s].reply # None /\ calls[s].reply.ok => Read(calls[s].reply.rows),
         RowsArrive(s)
  PROVE  Filled(s)
<1> DEFINE reply == calls[s].reply
           read == reply.rows
<1>1. /\ calls[s] # None /\ reply # None
      /\ calls' = [calls EXCEPT ![s] = None] /\ running' = FALSE /\ Settled
      /\ save' = IF calls[s].why = "save" THEN None ELSE save
      /\ UNCHANGED <<kind, db, page, query>>
      /\ \/ ~reply.ok /\ rows' = <<>> /\ columns' = {} /\ total' = None /\ drafted' = drafted
         \/ /\ reply.ok /\ columns' = ColumnsOf(read) /\ total' = reply.total
            /\ \/ rows' = read /\ drafted' = drafted
               \/ /\ read = <<>> /\ drafted < MaxDrafts
                  /\ rows' = <<Added(drafted + 1, Nothing)>> /\ drafted' = drafted + 1
  BY DEF RowsArrive
<1>2. reply \in Answers /\ (reply.ok => Read(read))
  BY <1>1 DEF Requests
<1>3. drafted \in 0..MaxDrafts /\ MaxDrafts \in Nat
  BY DocumentIs DEF Grid
<1> HIDE DEF reply
<1>4. CASE ~reply.ok /\ rows' = <<>> /\ columns' = {} /\ total' = None /\ drafted' = drafted
  <2>1. rows' \in Seq(Drafts) /\ \A i \in DOMAIN rows' : FALSE
    BY <1>4
  <2>2. columns' \in SUBSET Fields /\ drafted' \in drafted..MaxDrafts /\ total' \in (0..MaxId) \cup {None}
    BY <1>3, <1>4
  <2> QED BY <1>1, <1>4, <2>1, <2>2 DEF Filled, reply
<1>5. ASSUME reply.ok, columns' = ColumnsOf(read), total' = reply.total
      PROVE  columns' \in SUBSET Fields /\ total' \in 0..MaxId /\ Read(read)
  <2>1. reply \in [ok : {TRUE}, total : 0..MaxId, rows : Seq(Drafts)]
    <3>1. reply \notin [ok : {FALSE}]
      BY <1>5
    <3> QED BY <1>2, <3>1 DEF Answers
  <2>2. reply.total \in 0..MaxId
    BY <2>1
  <2> QED BY <1>2, <1>5, <2>2 DEF ColumnsOf
<1>6. CASE reply.ok /\ columns' = ColumnsOf(read) /\ total' = reply.total /\ rows' = read /\ drafted' = drafted
  <2>1. columns' \in SUBSET Fields /\ total' \in 0..MaxId /\ Read(read)
    BY <1>5, <1>6
  <2>2. rows' \in Seq(Drafts) /\ drafted' \in drafted..MaxDrafts
    BY <1>3, <1>6, <2>1 DEF Read, ReadBelow
  <2>3. \A i \in DOMAIN rows' : Fits(rows'[i], kind, columns')
    BY <1>6, <2>1, ColumnsIs
  <2> QED BY <1>1, <1>6, <2>1, <2>2, <2>3 DEF Filled, reply
<1>7. CASE /\ reply.ok /\ columns' = ColumnsOf(read) /\ total' = reply.total /\ read = <<>> /\ drafted < MaxDrafts
           /\ rows' = <<Added(drafted + 1, Nothing)>> /\ drafted' = drafted + 1
  <2> DEFINE e == Added(drafted + 1, Nothing)
  <2>1. columns' \in SUBSET Fields /\ total' \in 0..MaxId
    BY <1>5, <1>7
  <2>2. Nothing \in Documents /\ drafted + 1 \in 0..MaxDrafts /\ \A f \in Fields : Nothing[f] = Absent
    BY <1>3, <1>7 DEF Nothing, Documents
  <2>3. e \in Drafts /\ NewIsNew(e) /\ e.orig = None /\ e.uid = drafted + 1 /\ e.vals = Nothing
    BY <2>2, AddedIs
  <2>4. rows' = <<e>>
    BY <1>7
  <2> HIDE DEF e
  <2>5. rows' \in Seq(Drafts) /\ DOMAIN rows' = {1} /\ rows'[1] = e
    BY <2>3, <2>4
  <2>6. Fits(e, kind, columns')
    BY <2>2, <2>3 DEF Fits
  <2>7. drafted' \in drafted..MaxDrafts
    BY <1>3, <1>7
  <2>8. \A i \in DOMAIN rows' : i = 1 /\ rows'[i] = e
    BY <2>5
  <2>9. /\ \A i, j \in DOMAIN rows' : i = j
        /\ \A i \in DOMAIN rows' : rows'[i].orig = None /\ rows'[i].uid = drafted + 1 /\ drafted' = drafted + 1
    BY <1>7, <2>3, <2>8
  <2>10. \A i \in DOMAIN rows' : Fits(rows'[i], kind, columns')
    BY <2>6, <2>8
  <2>11. reply.ok /\ read = <<>>
    BY <1>7
  <2> QED BY <1>1, <2>1, <2>5, <2>7, <2>9, <2>10, <2>11 DEF Filled, reply
<1> QED BY <1>1, <1>4, <1>6, <1>7

-----------------------------------------------------------------------------
(* What always holds, and that every step keeps it.                        *)
Bar ==
  /\ page \in Nat \ {0} /\ total \in (0..MaxId) \cup {None}
  /\ query \in [valid : BOOLEAN, fields : SUBSET Fields]
  /\ running \in BOOLEAN /\ astray \in {"never", "here", "before"}
Requested ==
  /\ calls \in [Slots -> Requests \cup {None}]
  /\ \A s \in Slots : calls[s] # None /\ calls[s].reply # None /\ calls[s].reply.ok => Read(calls[s].reply.rows)
\* One query at most is that of a save, and it is under way once all is written.
IsSave(s) == calls[s] # None /\ calls[s].why = "save"
OneSave ==
  /\ \A s \in Slots : IsSave(s) => AllWritten
  /\ \A s, t \in Slots : IsSave(s) /\ IsSave(t) => s = t
  /\ BusyEnds
Sound ==
  /\ Bar /\ Collection(docs, nextId) /\ Grid /\ Apart /\ (saving => \E N : Saving(N))
  /\ Requested /\ OneSave

Step ==
  \/ Edited \/ Typed \/ Asked \/ Begun
  \/ \E N : Saving(N) /\ CarriedOut(N)
  \/ \E s \in Slots : Answered(s)
  \/ SaveEnds
  \/ SaveGoesOn
  \/ \E s \in Slots : Filled(s)
  \/ UNCHANGED vars

LEMMA StepIs == ASSUME DocumentAssumption, Sound, [Next]_vars PROVE Step
<1>0. /\ Grid /\ Apart /\ Collection(docs, nextId) /\ (saving => \E N : Saving(N)) /\ Requested
      /\ page \in Nat \ {0} /\ total \in (0..MaxId) \cup {None}
      /\ calls \in [Slots -> Requests \cup {None}]
  BY DEF Sound, Bar, Requested
<1>1. CASE Edit
  BY <1>0, <1>1, EditIs DEF Step, Edited
<1>2. CASE typeQuery
  BY <1>2 DEF Step, Typed, typeQuery
<1>3. CASE Run \/ Refresh \/ discardChanges \/ \E p \in 1..MaxId + 1 : changePage(p)
  BY <1>0, <1>3, AskedIs DEF Step
<1>4. CASE saveChanges
  BY <1>0, <1>4, BegunIs DEF Step
<1>5. CASE ServeSave
  <2>1. saving
    BY <1>5 DEF ServeSave
  <2> QED BY <1>0, <1>5, <2>1, CarriedOutIs DEF Step
<1>6. CASE SaveArrives
  <2>1. saving
    BY <1>6 DEF SaveArrives
  <2> QED BY <1>0, <1>6, <2>1, SaveArrivesIs DEF Step
<1>7. ASSUME NEW s \in Slots, ServeRows(s) PROVE Step
  BY <1>0, <1>7, AnsweredIs DEF Step
<1>8. ASSUME NEW s \in Slots, RowsArrive(s) PROVE Step
  BY <1>0, <1>8, FilledIs DEF Step, Requested
<1>9. CASE UNCHANGED vars
  BY <1>9 DEF Step
<1> QED BY <1>1, <1>2, <1>3, <1>4, <1>5, <1>6, <1>7, <1>8, <1>9 DEF Next, Ask, Network

\* What all steps have in common: ids and numbers are never given back.
LEMMA Grows ==
  ASSUME DocumentAssumption, Sound, Step
  PROVE  /\ nextId \in Nat /\ nextId' \in Nat /\ nextId <= nextId'
         /\ drafted \in Nat /\ drafted' \in Nat /\ drafted <= drafted' /\ drafted' <= MaxDrafts
         /\ (\E N : Saving(N) /\ CarriedOut(N)) \/ (docs' = docs /\ nextId' = nextId)
         /\ kind' = kind
<1>0. nextId \in Nat /\ drafted \in 0..MaxDrafts /\ drafted \in Nat /\ MaxDrafts \in Nat
  BY DocumentIs DEF Sound, Collection, Grid
<1>1. CASE Edited
  <2>1. drafted' \in drafted..MaxDrafts
    BY <1>1 DEF Edited, EditedFrom
  <2> QED BY <1>0, <1>1, <2>1 DEF Edited, Others, db
<1>2. CASE Typed
  BY <1>0, <1>2 DEF Typed, db, grid
<1>3. CASE Asked
  BY <1>0, <1>3 DEF Asked, db, grid
<1>4. CASE Begun
  BY <1>0, <1>4 DEF Begun, db, grid
<1>5. ASSUME NEW N, Saving(N), CarriedOut(N)
      PROVE  nextId' \in Nat /\ nextId <= nextId' /\ drafted' = drafted /\ kind' = kind
  <2>1. PICK t : Request1(t, Sent, N) /\ nextId' = t.next
    BY <1>5 DEF CarriedOut
  <2>2. nextId <= t.next /\ t.next \in 1..MaxId + 1
    BY <2>1 DEF Request1, Kept, Collection
  <2> QED BY <1>5, <2>1, <2>2, DocumentIs DEF CarriedOut, grid
<1>6. CASE \E s \in Slots : Answered(s)
  BY <1>0, <1>6 DEF Answered, db, grid
<1>7. CASE SaveEnds
  BY <1>0, <1>7 DEF SaveEnds, db, grid
<1>8. CASE SaveGoesOn
  BY <1>0, <1>8 DEF SaveGoesOn, db, grid
<1>9. CASE \E s \in Slots : Filled(s)
  BY <1>0, <1>9 DEF Filled, db
<1>10. CASE UNCHANGED vars
  BY <1>0, <1>10 DEF vars, db, grid
<1> QED BY <1>0, <1>1, <1>2, <1>3, <1>4, <1>5, <1>6, <1>7, <1>8, <1>9, <1>10 DEF Step

LEMMA BarStep == ASSUME DocumentAssumption, Sound, Step PROVE Bar'
<1>0. Bar
  BY DEF Sound
<1>1. CASE Edited
  BY <1>0, <1>1 DEF Edited, Others, bar, Bar
<1>2. CASE Typed
  BY <1>0, <1>2 DEF Typed, bar, Bar
<1>3. CASE Asked
  BY <1>0, <1>3 DEF Asked, Queried, Bar
<1>4. CASE Begun
  BY <1>0, <1>4 DEF Begun, bar, Bar
<1>5. CASE \E N : Saving(N) /\ CarriedOut(N)
  BY <1>0, <1>5 DEF CarriedOut, bar, Bar
<1>6. CASE \E s \in Slots : Answered(s)
  BY <1>0, <1>6 DEF Answered, bar, Bar
<1>7. CASE SaveEnds
  BY <1>0, <1>7 DEF SaveEnds, bar, Bar
<1>8. CASE SaveGoesOn
  BY <1>0, <1>8 DEF SaveGoesOn, Queried, bar, Bar
<1>9. CASE \E s \in Slots : Filled(s)
  BY <1>0, <1>9 DEF Filled, Settled, Bar
<1>10. CASE UNCHANGED vars
  BY <1>0, <1>10 DEF vars, bar, Bar
<1> QED BY <1>1, <1>2, <1>3, <1>4, <1>5, <1>6, <1>7, <1>8, <1>9, <1>10 DEF Step

LEMMA CollectionStep == ASSUME DocumentAssumption, Sound, Step PROVE Collection(docs, nextId)'
<1>1. /\ drafted \in Nat /\ drafted' \in Nat /\ drafted <= drafted'
      /\ (\E N : Saving(N) /\ CarriedOut(N)) \/ (docs' = docs /\ nextId' = nextId)
  BY Grows
<1>2. \E c, n : Collection(c, n) /\ docs' = c /\ nextId' = n
  <2>1. ASSUME NEW N, CarriedOut(N) PROVE \E c, n : Collection(c, n) /\ docs' = c /\ nextId' = n
    <3>1. PICK t : Request1(t, Sent, N) /\ docs' = t.docs /\ nextId' = t.next
      BY <2>1 DEF CarriedOut
    <3> QED BY <3>1 DEF Request1, Kept
  <2>2. Collection(docs, nextId)
    BY DEF Sound
  <2> QED BY <1>1, <2>1, <2>2
<1>3. PICK c, n : Collection(c, n) /\ docs' = c /\ nextId' = n
  BY <1>2
<1>4. \A x \in 0..drafted : x \in 0..drafted'
  BY <1>1
<1>5. /\ c \in [DOMAIN c -> [doc : Documents, by : 0..drafted']]
      /\ DOMAIN c \in SUBSET (1..n - 1) /\ n \in 1..MaxId + 1
  BY <1>3, <1>4 DEF Collection
<1> QED BY <1>3, <1>5 DEF Collection

LEMMA GridStep == ASSUME DocumentAssumption, Sound, Step PROVE Grid'
<1>0. Grid /\ MaxDrafts \in Nat
  BY DocumentIs DEF Sound
<1>1. CASE Edited
  <2>1. PICK src : EditedFrom(src)
    BY <1>1 DEF Edited
  <2>2. drafted' \in 0..MaxDrafts
    BY <1>0, <2>1 DEF EditedFrom, Grid
  <2>3. columns' = columns /\ kind' = kind
    BY <1>1 DEF Edited, Others
  <2> QED BY <1>0, <2>1, <2>2, <2>3 DEF EditedFrom, Grid
<1>2. CASE rows' = rows /\ columns' = columns /\ drafted' = drafted /\ kind' = kind
  BY <1>0, <1>2 DEF Grid
<1>3. ASSUME NEW s \in Slots, Filled(s) PROVE Grid'
  <2>1. drafted' \in 0..MaxDrafts
    BY <1>0, <1>3 DEF Filled, Grid
  <2> QED BY <1>0, <1>3, <2>1 DEF Filled, Grid
<1> QED BY <1>1, <1>2, <1>3 DEF Step, Typed, Asked, Begun, CarriedOut, Answered, SaveEnds, SaveGoesOn, vars, grid

LEMMA ApartStep == ASSUME DocumentAssumption, Sound, Step PROVE Apart'
<1>0. Apart /\ nextId \in Nat /\ nextId' \in Nat /\ nextId <= nextId' /\ drafted \in Nat /\ drafted' \in Nat /\ drafted <= drafted'
  BY Grows DEF Sound
<1>1. CASE Edited
  <2>1. PICK src : EditedFrom(src)
    BY <1>1 DEF Edited
  <2>2. rows \in Seq(Drafts) /\ DOMAIN rows = 1..Len(rows) /\ Len(rows) \in Nat
    BY DEF Sound, Grid
  <2>3. ASSUME NEW j \in DOMAIN rows'
        PROVE  \/ src[j] = 0 /\ rows'[j].orig = None /\ rows'[j].uid \in drafted + 1..drafted'
               \/ /\ src[j] \in DOMAIN rows /\ src[j] # 0
                  /\ SameRow(rows[src[j]], rows'[j])
    <3>1. src[j] \in 0..Len(rows)
      BY <2>1 DEF EditedFrom
    <3> QED BY <2>1, <2>2, <3>1 DEF EditedFrom
  <2>4. \A j, l \in DOMAIN rows' : src[j] = src[l] => j = l
    BY <2>1 DEF EditedFrom
  <2>5. \A j \in DOMAIN rows' : /\ rows'[j].orig = None => rows'[j].uid \in 1..drafted'
                                /\ rows'[j].orig # None => rows'[j].id \in 1..nextId' - 1
    BY <1>0, <2>3 DEF Apart, SameRow
  <2>6. ASSUME NEW j \in DOMAIN rows', NEW l \in DOMAIN rows', rows'[j].orig = None, rows'[l].orig = None,
               rows'[j].uid = rows'[l].uid
        PROVE  j = l
    <3>1. CASE src[j] = 0 /\ src[l] = 0
      BY <2>4, <3>1
    <3>2. CASE src[j] # 0 /\ src[l] # 0
      <4>1. src[j] = src[l]
        BY <1>0, <2>3, <2>6, <3>2 DEF Apart, SameRow
      <4> QED BY <2>4, <4>1
    <3>3. CASE src[j] = 0 /\ src[l] # 0
      <4>1. rows'[l].uid \in 1..drafted
        BY <1>0, <2>3, <2>6, <3>3 DEF Apart, SameRow
      <4> QED BY <1>0, <2>3, <2>6, <3>3, <4>1
    <3>4. CASE src[j] # 0 /\ src[l] = 0
      <4>1. rows'[j].uid \in 1..drafted
        BY <1>0, <2>3, <2>6, <3>4 DEF Apart, SameRow
      <4> QED BY <1>0, <2>3, <2>6, <3>4, <4>1
    <3> QED BY <3>1, <3>2, <3>3, <3>4
  <2>7. ASSUME NEW j \in DOMAIN rows', NEW l \in DOMAIN rows', rows'[j].orig # None, rows'[l].orig # None,
               rows'[j].id = rows'[l].id
        PROVE  j = l
    <3>1. src[j] = src[l]
      BY <1>0, <2>3, <2>7 DEF Apart, SameRow
    <3> QED BY <2>4, <3>1
  <2> QED BY <2>5, <2>6, <2>7 DEF Apart
<1>2. CASE rows' = rows
  BY <1>0, <1>2 DEF Apart
<1>3. ASSUME NEW s \in Slots, Filled(s) PROVE Apart'
  <2>1. CASE Read(calls[s].reply.rows) /\ rows' = calls[s].reply.rows
    <3> DEFINE r == calls[s].reply.rows
    <3>1. /\ \A k \in DOMAIN r : r[k].orig # None /\ r[k].id \in 1..nextId - 1
          /\ \A k, l \in DOMAIN r : r[k].id = r[l].id => k = l
          /\ rows' = r
      BY <2>1 DEF Read, ReadBelow
    <3> HIDE DEF r
    <3> QED BY <1>0, <3>1 DEF Apart
  <2>2. CASE /\ \A i, j \in DOMAIN rows' : i = j
             /\ \A i \in DOMAIN rows' : rows'[i].orig = None /\ rows'[i].uid = drafted + 1 /\ drafted' = drafted + 1
    BY <1>0, <2>2 DEF Apart
  <2> QED BY <1>3, <2>1, <2>2 DEF Filled
<1> QED BY <1>1, <1>2, <1>3 DEF Step, Typed, Asked, Begun, CarriedOut, Answered, SaveEnds, SaveGoesOn, vars, grid


\* A batch stays one as ids and numbers are handed out.
LEMMA BatchGrows ==
  ASSUME NEW N, Batch(save, N), NEW v, v \in Saves, v.writes = save.writes, v.batch = save.batch,
         v.done <= Len(v.writes), v.reply # None => v.done < Len(v.writes), save' = v,
         nextId \in Nat, nextId' \in Nat, nextId <= nextId', drafted \in Nat, drafted' \in Nat, drafted <= drafted'
  PROVE  Batch(save, N)'
<1> DEFINE w == v.writes
           b == v.batch
<1>1. /\ Len(b) = Len(w) /\ Len(w) # 0 /\ N \in Nat
      /\ \A k \in 1..Len(w) :
           /\ WroteOf(b[k], w[k])
           /\ (w[k].state = "new") = (k <= N)
           /\ w[k].state = "new" => w[k].uid \in 1..drafted
           /\ w[k].state # "new" => w[k].id \in 1..nextId - 1
      /\ \A k, l \in 1..Len(w) :
           /\ w[k].state # "new" /\ w[l].state # "new" /\ w[k].id = w[l].id => k = l
           /\ w[k].state = "new" /\ w[l].state = "new" /\ w[k].uid = w[l].uid => k = l
  BY DEF Batch, BatchOf
<1>2. \A x : (x \in 1..drafted => x \in 1..drafted') /\ (x \in 1..nextId - 1 => x \in 1..nextId' - 1)
  OBVIOUS
<1>3. \A k \in 1..Len(w) :
           /\ WroteOf(b[k], w[k])
           /\ (w[k].state = "new") = (k <= N)
           /\ w[k].state = "new" => w[k].uid \in 1..drafted'
           /\ w[k].state # "new" => w[k].id \in 1..nextId' - 1
  BY <1>1, <1>2
<1>4. save' = v
  OBVIOUS
<1>5. /\ v \in Saves /\ v.done <= Len(w) /\ (v.reply # None => v.done < Len(w)) /\ w = v.writes /\ b = v.batch
  OBVIOUS
<1> HIDE DEF w, b
<1>6. BatchOf(v, N, nextId', drafted')
  BY <1>1, <1>3, <1>5 DEF BatchOf
<1> QED BY <1>4, <1>6 DEF Batch

LEMMA SavingStep == ASSUME DocumentAssumption, Sound, Step PROVE (saving => \E N : Saving(N))'
<1>0. /\ nextId \in Nat /\ nextId' \in Nat /\ nextId <= nextId' /\ drafted \in Nat /\ drafted' \in Nat /\ drafted <= drafted'
      /\ (\E N : Saving(N) /\ CarriedOut(N)) \/ (docs' = docs /\ nextId' = nextId)
      /\ kind' = kind
  BY Grows
<1>1. CASE save' = save /\ docs' = docs /\ nextId' = nextId
  <2> SUFFICES ASSUME saving' PROVE (\E N : Saving(N))'
    OBVIOUS
  <2>1. PICK N : Saving(N)
    BY <1>1 DEF Sound, saving
  <2>2. Batch(save, N)
    BY <2>1 DEF Saving
  <2>3. Batch(save, N)'
    <3>1. save \in Saves /\ save.done <= Len(save.writes) /\ (save.reply # None => save.done < Len(save.writes))
      BY <2>2 DEF Batch, BatchOf
    <3> QED BY <1>0, <1>1, <2>2, <3>1, BatchGrows
  <2>4. Upto' = Upto
    BY <1>0, <1>1 DEF Upto, Sent
  <2>5. Saving(N)'
    BY <1>1, <2>1, <2>3, <2>4 DEF Saving
  <2> QED BY <2>5
<1>2. CASE save' = None
  BY <1>2 DEF saving
<1>3. CASE Begun
  <2>1. PICK N : Batch(save', N) /\ nextId + Left(N, 0) <= MaxId + 1
    BY <1>3 DEF Begun
  <2>2. save'.done = 0 /\ save'.reply = None /\ nextId' = nextId /\ drafted' = drafted
    BY <1>3 DEF Begun, db, grid
  <2>3. Batch(save, N)'
    BY <2>1, <2>2 DEF Batch, BatchOf
  <2>4. Upto' = 0
    BY <2>2 DEF Upto
  <2>5. Saving(N)'
    BY <2>1, <2>2, <2>3, <2>4 DEF Saving
  <2> QED BY <2>5
<1>4. ASSUME NEW N, Saving(N), CarriedOut(N)
      PROVE  (\E M : Saving(M))'
  <2>1. /\ ~AllWritten /\ saving /\ save.reply = None
        /\ \E r \in BOOLEAN : save' = [save EXCEPT !.reply = r]
    BY <1>4 DEF CarriedOut
  <2>2. PICK t : Request1(t, Sent, N) /\ nextId' = t.next
    BY <1>4 DEF CarriedOut
  <2>3. Batch(save, N)
    BY <1>4 DEF Saving
  <2>4. save \in Saves /\ save.done < Len(save.writes)
    <3>1. save \in Saves /\ save.done <= Len(save.writes)
      BY <2>3 DEF Batch, BatchOf
    <3>2. save.done \in Nat /\ Len(save.writes) \in Nat
      BY <3>1 DEF Saves
    <3> QED BY <2>1, <3>1, <3>2 DEF AllWritten
  <2> DEFINE v == save'
  <2>5. v \in Saves /\ v.writes = save.writes /\ v.batch = save.batch /\ v.done = save.done /\ v.reply \in BOOLEAN
    BY <2>1, <2>4 DEF Saves
  <2> HIDE DEF v
  <2>6. v.done <= Len(v.writes) /\ v.done < Len(v.writes)
    BY <2>4, <2>5 DEF Saves
  <2>7. save' = v
    BY DEF v
  <2>8. Batch(save, N)'
    BY <1>0, <2>3, <2>5, <2>6, <2>7, BatchGrows
  <2>9. Upto' = Sent
    BY <1>0, <2>5, <2>7, NoneIs DEF Upto, Sent
  <2>10. nextId' + Left(N, Sent) <= MaxId + 1
    BY <2>2 DEF Request1, Kept
  <2>11. Saving(N)'
    BY <2>8, <2>9, <2>10 DEF Saving
  <2> QED BY <2>11
<1>5. CASE SaveGoesOn
  <2>1. saving /\ save.reply = TRUE /\ save' = [save EXCEPT !.done = Sent, !.reply = None] /\ nextId' = nextId
    BY <1>5 DEF SaveGoesOn, db
  <2>2. PICK N : Saving(N)
    BY <2>1 DEF Sound
  <2>3. Batch(save, N) /\ save.reply # None
    BY <2>1, <2>2, NoneIs DEF Saving
  <2>4. save \in Saves /\ save.done < Len(save.writes)
    BY <2>3 DEF Batch, BatchOf
  <2>5. Sent \in Nat /\ Sent <= Len(save.writes)
    BY <2>3, <2>4, SentIs
  <2> DEFINE v == save'
  <2>6. v \in Saves /\ v.writes = save.writes /\ v.batch = save.batch /\ v.done = Sent /\ v.reply = None
    BY <2>1, <2>4, <2>5 DEF Saves
  <2> HIDE DEF v
  <2>7. save' = v /\ v.done <= Len(v.writes) /\ (v.reply # None => v.done < Len(v.writes))
    BY <2>5, <2>6 DEF v
  <2>8. Batch(save, N)'
    BY <1>0, <2>3, <2>6, <2>7, BatchGrows
  <2>9. Upto' = Upto
    BY <2>3, <2>6, <2>7 DEF Upto
  <2>10. Saving(N)'
    BY <2>1, <2>2, <2>8, <2>9 DEF Saving
  <2> QED BY <2>10
<1>6. save' = save \/ save' = None \/ Begun \/ (\E N : Saving(N) /\ CarriedOut(N)) \/ SaveGoesOn
  BY DEF Step, Edited, Others, Typed, Asked, Answered, SaveEnds, Filled, vars
<1> QED BY <1>0, <1>1, <1>2, <1>3, <1>4, <1>5, <1>6

LEMMA ReadGrows ==
  ASSUME NEW read, NEW m \in Nat, NEW n \in Nat, m <= n, ReadBelow(read, m)
  PROVE  ReadBelow(read, n)
<1>1. \A x \in 1..m - 1 : x \in 1..n - 1
  <2> TAKE x \in 1..m - 1
  <2> QED OBVIOUS
<1> QED BY <1>1 DEF ReadBelow

LEMMA RequestIs ==
  ASSUME query.fields \in SUBSET Fields, NEW p \in Nat \ {0}, NEW batch \in Seq(Drafts),
         NEW why \in {"open", "run", "page", "discard", "save"}
  PROVE  /\ Request(why, p, batch) \in Requests /\ Request(why, p, batch).reply = None
         /\ Request(why, p, batch).why = why /\ Request(why, p, batch).page = p
         /\ Request(why, p, batch).fields = query.fields /\ Request(why, p, batch).batch = batch
BY DEF Request, Requests

\* A query is sent.
LEMMA QueriedIs ==
  ASSUME DocumentAssumption, Sound, NEW s \in Slots, NEW why \in {"open", "run", "page", "discard", "save"},
         NEW batch \in Seq(Drafts), Queried(s, why, batch), page' \in Nat \ {0}
  PROVE  /\ calls' \in [Slots -> Requests \cup {None}] /\ calls[s] = None /\ calls'[s] # None /\ calls'[s].reply = None
         /\ calls'[s].why = why /\ calls'[s].page = page' /\ calls'[s].fields = query.fields /\ calls'[s].batch = batch
         /\ \A t \in Slots : t # s => calls'[t] = calls[t]
<1> DEFINE r == Request(why, page', batch)
<1>1. query.fields \in SUBSET Fields /\ calls \in [Slots -> Requests \cup {None}]
  BY DEF Sound, Bar, Requested
<1> DEFINE p == page'
<1>2. p \in Nat \ {0}
  OBVIOUS
<1> HIDE DEF p
<1>3. LET q == Request(why, p, batch) IN
      /\ q \in Requests /\ q.reply = None /\ q.why = why /\ q.page = p
      /\ q.fields = query.fields /\ q.batch = batch
  BY <1>1, <1>2, RequestIs
<1>4. /\ r \in Requests /\ r.reply = None /\ r.why = why /\ r.page = page'
      /\ r.fields = query.fields /\ r.batch = batch
  BY <1>3 DEF p
<1>5. calls[s] = None /\ calls' = [calls EXCEPT ![s] = r]
  BY DEF Queried
<1> HIDE DEF r
<1>6. r # None
  BY <1>4, NoneIs
<1> QED BY <1>1, <1>4, <1>5, <1>6

LEMMA RequestedStep == ASSUME DocumentAssumption, Sound, Step PROVE Requested'
<1>0. /\ nextId \in Nat /\ nextId' \in Nat /\ nextId <= nextId'
      /\ calls \in [Slots -> Requests \cup {None}]
      /\ \A s \in Slots : calls[s] # None /\ calls[s].reply # None /\ calls[s].reply.ok => Read(calls[s].reply.rows)
      /\ page \in Nat \ {0}
  BY Grows DEF Sound, Requested, Bar
<1>1. ASSUME NEW t \in Slots, calls'[t] = calls[t], calls'[t] # None, calls'[t].reply # None, calls'[t].reply.ok
      PROVE  ReadBelow(calls'[t].reply.rows, nextId')
  <2> DEFINE read == calls[t].reply.rows
             r == calls'[t].reply.rows
  <2>1. Read(read) /\ r = read
    BY <1>0, <1>1
  <2> HIDE DEF read, r
  <2>2. ReadBelow(r, nextId')
    BY <1>0, <2>1, ReadGrows DEF Read
  <2> QED BY <2>2 DEF r
<1>2. CASE calls' = calls
  BY <1>0, <1>1, <1>2 DEF Requested, Read
<1>3. ASSUME NEW s \in Slots, NEW why \in {"open", "run", "page", "discard", "save"},
             NEW batch \in Seq(Drafts), Queried(s, why, batch), page' \in Nat \ {0}
      PROVE  Requested'
  <2>1. /\ calls' \in [Slots -> Requests \cup {None}] /\ calls'[s].reply = None
        /\ \A t \in Slots : t # s => calls'[t] = calls[t]
    BY <1>3, QueriedIs
  <2> QED BY <1>1, <2>1 DEF Requested, Read
<1>4. CASE Asked
  <2>1. page' \in Nat \ {0} /\ (calls' = calls \/ \E s \in Slots, why \in {"run", "page", "discard"} : Queried(s, why, <<>>))
    BY <1>4 DEF Asked
  <2> DEFINE b == <<>>
  <2>2. b \in Seq(Drafts)
    OBVIOUS
  <2>3. calls' = calls \/ \E s \in Slots, why \in {"run", "page", "discard"} : Queried(s, why, b)
    BY <2>1
  <2> HIDE DEF b
  <2> QED BY <1>2, <1>3, <2>1, <2>2, <2>3
<1>5. CASE SaveGoesOn
  <2>1. /\ saving /\ page' = page
        /\ calls' = calls \/ \E s \in Slots : Queried(s, "save", save.batch)
    BY <1>5 DEF SaveGoesOn, bar
  <2>2. save.batch \in Seq(Drafts)
    BY <2>1 DEF Sound, Saving, Batch, BatchOf, Saves
  <2> QED BY <1>0, <1>2, <1>3, <2>1, <2>2
<1>6. ASSUME NEW s \in Slots, Answered(s) PROVE Requested'
  <2>1. PICK r \in Answers :
       /\ calls' = [calls EXCEPT ![s] = [calls[s] EXCEPT !.reply = r]]
       /\ r.ok => Read(r.rows)
    BY <1>6 DEF Answered
  <2> DEFINE q == [calls[s] EXCEPT !.reply = r]
  <2>2. calls[s] \in Requests
    BY <1>0, <1>6 DEF Answered
  <2>3. q \in Requests /\ q.reply = r
    BY <2>2 DEF Requests
  <2>4. calls' = [calls EXCEPT ![s] = q]
    BY <2>1
  <2> HIDE DEF q
  <2>5. calls' \in [Slots -> Requests \cup {None}] /\ calls'[s] = q /\ \A t \in Slots : t # s => calls'[t] = calls[t]
    BY <1>0, <2>3, <2>4
  <2>6. nextId' = nextId
    BY <1>6 DEF Answered, db
  <2>7. r.ok => ReadBelow(r.rows, nextId')
    BY <1>0, <2>1, <2>6 DEF Read
  <2>8. \A t \in Slots : calls'[t] # None /\ calls'[t].reply # None /\ calls'[t].reply.ok => ReadBelow(calls'[t].reply.rows, nextId')
    <3> TAKE t \in Slots
    <3>1. CASE t = s
      BY <2>3, <2>5, <2>7, <3>1
    <3>2. CASE t # s
      BY <1>1, <2>5, <3>2
    <3> QED BY <3>1, <3>2
  <2> QED BY <2>5, <2>8 DEF Requested, Read
<1>7. ASSUME NEW s \in Slots, Filled(s) PROVE Requested'
  <2>1. /\ calls' \in [Slots -> Requests \cup {None}] /\ calls'[s] = None
        /\ \A t \in Slots : t # s => calls'[t] = calls[t]
    BY <1>0, <1>7 DEF Filled
  <2> QED BY <1>1, <2>1 DEF Requested, Read
<1> QED BY <1>2, <1>4, <1>5, <1>6, <1>7 DEF Step, Edited, Others, Typed, Begun, CarriedOut, SaveEnds, vars


\* While not all is written no query is that of a save.
LEMMA NoneBefore ==
  ASSUME Sound, ~AllWritten PROVE \A s \in Slots : ~IsSave(s)
BY DEF Sound, OneSave

LEMMA BatchIs ==
  ASSUME NEW N, Batch(save, N)
  PROVE  /\ save \in Saves /\ save.done \in Nat /\ Len(save.writes) \in Nat /\ Len(save.writes) # 0
         /\ save.writes \in Seq(Writes) /\ save.batch \in Seq(Drafts) /\ save.reply \in BOOLEAN \cup {None}
         /\ save.done <= Len(save.writes) /\ (save.reply # None => save.done < Len(save.writes))
         /\ Len(save.batch) = Len(save.writes)
BY DEF Batch, BatchOf, Saves

LEMMA OneSaveStep == ASSUME DocumentAssumption, Sound, Step PROVE OneSave'
<1>0. /\ \A s \in Slots : IsSave(s) => AllWritten
      /\ \A s, t \in Slots : IsSave(s) /\ IsSave(t) => s = t
      /\ running => \E s \in Slots : calls[s] # None
      /\ AllWritten => \E s \in Slots : IsSave(s)
      /\ calls \in [Slots -> Requests \cup {None}] /\ page \in Nat \ {0}
      /\ saving => \E N : Saving(N)
  BY DEF Sound, OneSave, BusyEnds, IsSave, Requested, Bar
<1>1. CASE calls' = calls /\ running' = running /\ save' = save
  BY <1>0, <1>1 DEF OneSave, BusyEnds, IsSave, AllWritten, saving
<1>2. ASSUME NEW s \in Slots, NEW why \in {"run", "page", "discard"}, NEW b \in Seq(Drafts), Queried(s, why, b),
             save' = save, page' \in Nat \ {0}
      PROVE  OneSave'
  <2>1. /\ calls'[s] # None /\ calls'[s].why = why /\ calls[s] = None
        /\ \A t \in Slots : t # s => calls'[t] = calls[t]
    BY <1>2, QueriedIs
  <2>2. \A t \in Slots : IsSave(t)' = IsSave(t)
    BY <2>1 DEF IsSave
  <2>3. AllWritten' = AllWritten
    BY <1>2 DEF AllWritten, saving
  <2> QED BY <1>0, <2>1, <2>2, <2>3 DEF OneSave, BusyEnds, IsSave
<1>3. CASE Asked
  <2> DEFINE b == <<>>
  <2>1. page' \in Nat \ {0} /\ save' = save
        /\ ((calls' = calls /\ running' = running) \/ \E s \in Slots, why \in {"run", "page", "discard"} : Queried(s, why, b))
    BY <1>3 DEF Asked
  <2>2. b \in Seq(Drafts)
    OBVIOUS
  <2> HIDE DEF b
  <2> QED BY <1>1, <1>2, <2>1, <2>2
<1>4. CASE Begun
  <2>1. PICK N : Batch(save', N)
    BY <1>4 DEF Begun
  <2>2. ~saving /\ calls' = calls /\ running' = running /\ save'.done = 0 /\ Len(save'.writes) # 0
    BY <1>4, <2>1 DEF Begun, Batch, BatchOf
  <2>3. ~AllWritten /\ ~AllWritten'
    BY <2>2 DEF AllWritten
  <2>4. \A s \in Slots : ~IsSave(s)'
    BY <2>2, <2>3, NoneBefore DEF IsSave
  <2> QED BY <1>0, <2>2, <2>3, <2>4 DEF OneSave, BusyEnds
<1>5. ASSUME NEW N, Saving(N), CarriedOut(N) PROVE OneSave'
  <2>1. /\ saving /\ ~AllWritten /\ calls' = calls /\ running' = running
        /\ \E r \in BOOLEAN : save' = [save EXCEPT !.reply = r]
    BY <1>5 DEF CarriedOut
  <2>2. save \in Saves /\ save.done # Len(save.writes)
    BY <1>5, <2>1, BatchIs DEF Saving, AllWritten
  <2>3. save'.done = save.done /\ save'.writes = save.writes
    BY <2>1, <2>2 DEF Saves
  <2>4. ~AllWritten'
    BY <2>2, <2>3 DEF AllWritten
  <2>5. \A s \in Slots : ~IsSave(s)'
    BY <2>1, NoneBefore DEF IsSave
  <2> QED BY <1>0, <2>1, <2>4, <2>5 DEF OneSave, BusyEnds
<1>6. ASSUME NEW s \in Slots, Answered(s) PROVE OneSave'
  <2>1. PICK r : calls' = [calls EXCEPT ![s] = [calls[s] EXCEPT !.reply = r]]
    BY <1>6 DEF Answered
  <2> DEFINE q == [calls[s] EXCEPT !.reply = r]
  <2>2. calls[s] \in Requests /\ calls[s] # None
    BY <1>0, <1>6 DEF Answered
  <2>3. PICK a \in Answers : calls' = [calls EXCEPT ![s] = [calls[s] EXCEPT !.reply = a]]
    BY <1>6 DEF Answered
  <2> DEFINE p == [calls[s] EXCEPT !.reply = a]
  <2>4. p \in Requests /\ p.why = calls[s].why
    BY <2>2 DEF Requests
  <2>5. calls' = [calls EXCEPT ![s] = p]
    BY <2>3
  <2> HIDE DEF p
  <2>6. calls'[s] = p /\ p # None /\ \A t \in Slots : t # s => calls'[t] = calls[t]
    BY <1>0, <2>4, <2>5, NoneIs
  <2>7. \A t \in Slots : IsSave(t)' = IsSave(t)
    BY <2>2, <2>4, <2>6 DEF IsSave
  <2>8. AllWritten' = AllWritten /\ running' = running
    BY <1>6 DEF Answered, AllWritten, saving
  <2>9. running' => \E t \in Slots : calls'[t] # None
    BY <2>6
  <2> QED BY <1>0, <2>7, <2>8, <2>9 DEF OneSave, BusyEnds, IsSave
<1>7. CASE SaveEnds
  <2>1. saving /\ save.reply # None /\ save' = None /\ calls' = calls /\ running' = running
    BY <1>7 DEF SaveEnds
  <2>2. PICK N : Saving(N)
    BY <1>0, <2>1
  <2>3. ~AllWritten
    BY <2>1, <2>2, BatchIs DEF Saving, AllWritten
  <2>4. ~AllWritten'
    BY <2>1 DEF AllWritten, saving
  <2>5. \A s \in Slots : ~IsSave(s)'
    BY <2>1, <2>3, NoneBefore DEF IsSave
  <2> QED BY <1>0, <2>1, <2>4, <2>5 DEF OneSave, BusyEnds
<1>8. CASE SaveGoesOn
  <2>1. /\ saving /\ save.reply # None /\ save' = [save EXCEPT !.done = Sent, !.reply = None] /\ page' = page
        /\ \/ Sent = Len(save.writes) /\ \E s \in Slots : Queried(s, "save", save.batch)
           \/ Sent # Len(save.writes) /\ calls' = calls /\ running' = running
    BY <1>8, NoneIs DEF SaveGoesOn, bar
  <2>2. PICK N : Saving(N)
    BY <1>0, <2>1
  <2>3. save \in Saves /\ save.batch \in Seq(Drafts) /\ save.done # Len(save.writes)
    BY <2>1, <2>2, BatchIs DEF Saving
  <2>4. ~AllWritten
    BY <2>3 DEF AllWritten
  <2>5. \A s \in Slots : ~IsSave(s)
    BY <2>4, NoneBefore
  <2>6. save'.done = Sent /\ save'.writes = save.writes
    BY <2>1, <2>3 DEF Saves
  <2>7. CASE Sent # Len(save.writes)
    <3>1. ~AllWritten'
      BY <2>6, <2>7 DEF AllWritten
    <3>2. \A s \in Slots : ~IsSave(s)'
      BY <2>1, <2>5, <2>7 DEF IsSave
    <3> QED BY <1>0, <2>1, <2>7, <3>1, <3>2 DEF OneSave, BusyEnds
  <2>8. CASE Sent = Len(save.writes)
    <3>1. PICK s \in Slots : Queried(s, "save", save.batch)
      BY <2>1, <2>8
    <3>2. page' \in Nat \ {0}
      BY <1>0, <2>1
    <3>3. /\ calls'[s] # None /\ calls'[s].why = "save"
          /\ \A t \in Slots : t # s => calls'[t] = calls[t]
      BY <2>3, <3>1, <3>2, QueriedIs
    <3>4. \A t \in Slots : IsSave(t)' <=> t = s
      BY <2>5, <3>3 DEF IsSave
    <3>5. save' # None
      <4>1. save' \in Saves
        <5>1. Sent \in Nat
          BY <2>2, <2>8, BatchIs DEF Saving
        <5> QED BY <2>1, <2>3, <5>1 DEF Saves
      <4> QED BY <4>1, NoneIs
    <3>6. AllWritten'
      BY <2>6, <2>8, <3>5 DEF AllWritten, saving
    <3> QED BY <3>3, <3>4, <3>6 DEF OneSave, BusyEnds, IsSave
  <2> QED BY <2>7, <2>8
<1>9. ASSUME NEW s \in Slots, Filled(s) PROVE OneSave'
  <2>1. /\ calls[s] # None /\ calls' = [calls EXCEPT ![s] = None] /\ running' = FALSE
        /\ save' = IF calls[s].why = "save" THEN None ELSE save
    BY <1>9 DEF Filled
  <2>2. calls'[s] = None /\ \A t \in Slots : t # s => calls'[t] = calls[t]
    BY <1>0, <2>1
  <2>3. CASE IsSave(s)
    <3>1. \A t \in Slots : ~IsSave(t)'
      BY <1>0, <2>2, <2>3 DEF IsSave
    <3>2. ~AllWritten'
      BY <2>1, <2>3 DEF IsSave, AllWritten, saving
    <3> QED BY <2>1, <3>1, <3>2 DEF OneSave, BusyEnds
  <2>4. CASE ~IsSave(s)
    <3>1. \A t \in Slots : IsSave(t)' = IsSave(t)
      BY <2>2, <2>4 DEF IsSave
    <3>2. AllWritten' = AllWritten
      BY <2>1, <2>4 DEF IsSave, AllWritten, saving
    <3> QED BY <1>0, <2>1, <3>1, <3>2 DEF OneSave, BusyEnds, IsSave
  <2> QED BY <2>3, <2>4
<1> QED BY <1>1, <1>3, <1>4, <1>5, <1>6, <1>7, <1>8, <1>9 DEF Step, Edited, Others, Typed, vars

LEMMA SoundInit == ASSUME DocumentAssumption, Init PROVE Sound
<1>1. PICK first \in FirstDocs :
        /\ docs = [id \in DOMAIN first |-> [doc |-> first[id], by |-> 0]]
        /\ nextId = Len(first) + 1
  BY DEF Init
<1>2. first \in Seq(Documents) /\ Len(first) <= MaxId /\ Len(first) \in Nat /\ DOMAIN first = 1..Len(first)
  BY DEF DocumentAssumption
<1>3. drafted = 0 /\ rows = <<>> /\ columns = {} /\ kind \in {"mongodb", "elasticsearch"}
  BY DEF Init
<1>4. Collection(docs, nextId)
  <2>1. DOMAIN docs = 1..Len(first) /\ \A id \in 1..Len(first) : docs[id] = [doc |-> first[id], by |-> 0] /\ first[id] \in Documents
    BY <1>1, <1>2
  <2>2. docs = [id \in DOMAIN docs |-> docs[id]]
    BY <1>1
  <2>3. \A id \in DOMAIN docs : docs[id] \in [doc : Documents, by : 0..drafted]
    BY <1>3, <2>1
  <2>4. docs \in [DOMAIN docs -> [doc : Documents, by : 0..drafted]]
    BY <2>2, <2>3
  <2>5. DOMAIN docs \in SUBSET (1..nextId - 1) /\ nextId \in 1..MaxId + 1
    BY <1>1, <1>2, <2>1, DocumentIs
  <2> QED BY <2>4, <2>5 DEF Collection
<1>5. Grid /\ Apart
  <2>1. rows \in Seq(Drafts) /\ \A i \in DOMAIN rows : FALSE
    BY <1>3
  <2>2. columns \in SUBSET Fields /\ drafted \in 0..MaxDrafts
    BY <1>3, DocumentIs
  <2> QED BY <1>3, <2>1, <2>2 DEF Grid, Apart
<1>6. Bar
  <2>1. query.valid = TRUE /\ query \in [valid : BOOLEAN, fields : SUBSET Fields]
    BY DEF Init
  <2> QED BY <2>1 DEF Init, Bar
<1> DEFINE b == <<>>
           r == Request("open", 1, b)
<1>7. calls = [s \in Slots |-> IF \A t \in Slots : s <= t THEN r ELSE None] /\ save = None /\ b \in Seq(Drafts)
  BY DEF Init
<1> HIDE DEF b
<1>8. r \in Requests /\ r.reply = None /\ r.why = "open"
  <2>1. query.fields \in SUBSET Fields
    BY <1>6 DEF Bar
  <2> DEFINE p == 1
  <2>2. p \in Nat \ {0} /\ "open" \in {"open", "run", "page", "discard", "save"}
    OBVIOUS
  <2>3. r = Request("open", p, b)
    OBVIOUS
  <2> HIDE DEF p, r
  <2> QED BY <1>7, <2>1, <2>2, <2>3, RequestIs
<1> HIDE DEF r
<1>9. Requested /\ (\A s \in Slots : ~IsSave(s)) /\ (\E s \in Slots : calls[s] # None)
  <2>1. \A s \in Slots : calls[s] = None \/ calls[s] = r
    BY <1>7
  <2>2. calls \in [Slots -> Requests \cup {None}]
    BY <1>7, <1>8
  <2>3. PICK s \in Slots : \A t \in Slots : s <= t
    BY LeastExists DEF DocumentAssumption
  <2>4. calls[s] = r /\ r # None
    BY <1>7, <1>8, <2>3, NoneIs
  <2> QED BY <1>8, <2>1, <2>2, <2>4 DEF Requested, IsSave
<1>10. ~saving /\ OneSave
  BY <1>7, <1>9 DEF saving, OneSave, BusyEnds, AllWritten
<1> QED BY <1>4, <1>5, <1>6, <1>9, <1>10 DEF Sound

LEMMA SoundStep == ASSUME DocumentAssumption, Sound, [Next]_vars PROVE Sound' /\ Step
<1>1. Step
  BY StepIs
<1>2. Bar' /\ Collection(docs, nextId)' /\ Grid' /\ Apart'
  BY <1>1, BarStep, CollectionStep, GridStep, ApartStep
<1>3. Requested' /\ OneSave' /\ (saving => \E N : Saving(N))'
  BY <1>1, RequestedStep, OneSaveStep, SavingStep
<1> QED BY <1>1, <1>2, <1>3 DEF Sound

LEMMA SoundTypes == ASSUME DocumentAssumption, Sound PROVE TypeOK
<1>1. docs \in [DOMAIN docs -> [doc : Documents, by : 0..MaxDrafts]]
      /\ DOMAIN docs \subseteq 1..nextId - 1 /\ nextId \in 1..MaxId + 1
  <2>1. drafted \in 0..MaxDrafts /\ MaxDrafts \in Nat
    BY DocumentIs DEF Sound, Grid
  <2>2. \A x \in 0..drafted : x \in 0..MaxDrafts
    BY <2>1
  <2>3. docs \in [DOMAIN docs -> [doc : Documents, by : 0..drafted]]
        /\ DOMAIN docs \in SUBSET (1..nextId - 1) /\ nextId \in 1..MaxId + 1
    BY DEF Sound, Collection
  <2> QED BY <2>2, <2>3
<1>2. /\ rows \in Seq(Drafts) /\ columns \subseteq Fields /\ drafted \in 0..MaxDrafts
      /\ kind \in {"mongodb", "elasticsearch"}
      /\ \A i \in DOMAIN rows :
           /\ (rows[i].orig = None) = (rows[i].state = "new")
           /\ kind = "elasticsearch" => \A f \in Fields \ columns : rows[i].vals[f] = Absent
  BY DEF Sound, Grid, Fits, NewIsNew
<1>3. save \in Saves \cup {None}
  BY DEF Sound, Saving, Batch, BatchOf, saving
<1>4. BusyEnds /\ calls \in [Slots -> Requests \cup {None}]
  BY DEF Sound, OneSave, Requested
<1>5. /\ page \in Nat \ {0} /\ total \in (0..MaxId) \cup {None}
      /\ query \in [valid : BOOLEAN, fields : SUBSET Fields]
      /\ running \in BOOLEAN /\ astray \in {"never", "here", "before"}
  BY DEF Sound, Bar
<1> QED BY <1>1, <1>2, <1>3, <1>4, <1>5 DEF TypeOK

(* Every variable keeps its type whatever the environment does: drafts are *)
(* drafts, a save is a batch of writes, and the page is busy only while a  *)
(* request is under way whose answer ends it.                              *)
THEOREM TypeCorrect == Spec => []TypeOK
<1>1. Init => Sound
  BY SoundInit, DocumentAssumption
<1>2. Sound /\ [Next]_vars => Sound'
  BY SoundStep, DocumentAssumption
<1>3. Sound => TypeOK
  BY SoundTypes, DocumentAssumption
<1> QED BY <1>1, <1>2, <1>3, PTL DEF Spec

-----------------------------------------------------------------------------
(* What is told to be saved is stored, once.                               *)
StoredSoFar == saving /\ save.reply # FALSE => \A j \in 1..Upto : StoredIn(docs, j)

NumberedOnce ==
  astray = "never" =>
    /\ Injective(docs)
    /\ saving => Unused(docs, Upto)
    /\ \A i \in DOMAIN rows : rows[i].orig = None =>
         \A a \in DOMAIN docs : docs[a].by = rows[i].uid =>
           saving /\ \E j \in 1..Upto : save.writes[j].state = "new" /\ save.writes[j].uid = rows[i].uid

LEMMA CarriedOutSave ==
  ASSUME NEW N, Saving(N), CarriedOut(N)
  PROVE  /\ saving /\ saving' /\ save'.writes = save.writes /\ save'.batch = save.batch /\ save'.done = save.done
         /\ save'.reply \in BOOLEAN
         /\ Upto = save.done /\ Upto' = Sent /\ save.done \in Nat /\ Sent \in Nat /\ save.done < Sent /\ Sent <= Len(save.writes)
         /\ Len(save.writes) \in Nat /\ save.reply = None
<1>1. /\ ~AllWritten /\ saving /\ save.reply = None /\ kind' = kind
      /\ \E r \in BOOLEAN : save' = [save EXCEPT !.reply = r]
  BY DEF CarriedOut
<1>2. Batch(save, N)
  BY DEF Saving
<1>3. /\ save \in Saves /\ save.done < Len(save.writes) /\ save.done \in Nat /\ Len(save.writes) \in Nat
  BY <1>1, <1>2, BatchIs DEF AllWritten
<1>4. Sent \in Nat /\ save.done < Sent /\ Sent <= Len(save.writes)
  BY <1>2, <1>3, SentIs
<1>5. save' \in Saves /\ save'.writes = save.writes /\ save'.batch = save.batch /\ save'.done = save.done /\ save'.reply \in BOOLEAN
  BY <1>1, <1>3 DEF Saves
<1>6. saving' /\ save'.reply # None
  BY <1>5, NoneIs DEF saving
<1>7. Upto = save.done /\ Upto' = Sent
  BY <1>1, <1>5, <1>6 DEF Upto, Sent
<1> QED BY <1>1, <1>3, <1>4, <1>5, <1>6, <1>7

LEMMA GoesOnSave ==
  ASSUME NEW N, Saving(N), SaveGoesOn
  PROVE  /\ saving /\ saving' /\ save'.writes = save.writes /\ save'.batch = save.batch /\ save'.done = Sent
         /\ save'.reply = None /\ save.reply = TRUE
         /\ Upto = Sent /\ Upto' = Sent /\ Sent \in Nat /\ Sent <= Len(save.writes) /\ Len(save.writes) \in Nat
<1>1. /\ saving /\ save.reply = TRUE /\ save' = [save EXCEPT !.done = Sent, !.reply = None]
  BY DEF SaveGoesOn
<1>2. Batch(save, N) /\ save.reply # None
  BY <1>1, NoneIs DEF Saving
<1>3. save \in Saves /\ save.done < Len(save.writes) /\ Len(save.writes) \in Nat
  BY <1>2, BatchIs
<1>4. Sent \in Nat /\ Sent <= Len(save.writes)
  BY <1>2, <1>3, SentIs
<1>5. save' \in Saves /\ save'.writes = save.writes /\ save'.batch = save.batch /\ save'.done = Sent /\ save'.reply = None
  BY <1>1, <1>3, <1>4 DEF Saves
<1>6. saving'
  BY <1>5, NoneIs DEF saving
<1>7. Upto = Sent /\ Upto' = Sent
  BY <1>2, <1>5 DEF Upto
<1> QED BY <1>1, <1>3, <1>4, <1>5, <1>6, <1>7

\* The save of a step.
LEMMA SaveOf ==
  ASSUME DocumentAssumption, Sound, Step
  PROVE  \/ save' = save /\ Upto' = Upto /\ (docs' = docs /\ nextId' = nextId)
         \/ save' = None /\ docs' = docs
         \/ Begun /\ docs' = docs
         \/ \E N : Saving(N) /\ CarriedOut(N)
         \/ SaveGoesOn /\ (\E N : Saving(N)) /\ docs' = docs
<1>1. (\E N : Saving(N) /\ CarriedOut(N)) \/ (docs' = docs /\ nextId' = nextId /\ kind' = kind)
  BY Grows
<1>2. save' = save /\ kind' = kind => Upto' = Upto
  BY DEF Upto, Sent
<1>3. save' = save \/ save' = None \/ Begun \/ (\E N : Saving(N) /\ CarriedOut(N)) \/ SaveGoesOn
  BY DEF Step, Edited, Others, Typed, Asked, Answered, SaveEnds, Filled, vars
<1>4. SaveGoesOn => \E N : Saving(N)
  BY DEF SaveGoesOn, Sound
<1> QED BY <1>1, <1>2, <1>3, <1>4

LEMMA StoredSoFarStep ==
  ASSUME DocumentAssumption, Sound, Step, StoredSoFar PROVE StoredSoFar'
<1>1. CASE save' = save /\ Upto' = Upto /\ docs' = docs
  BY <1>1 DEF StoredSoFar, StoredIn, saving
<1>2. CASE save' = None
  BY <1>2 DEF StoredSoFar, saving
<1>3. CASE Begun
  <2>1. Upto' = 0
    BY <1>3 DEF Begun, Upto
  <2>2. \A j \in 1..Upto' : FALSE
    BY <2>1
  <2> QED BY <2>2 DEF StoredSoFar
<1>4. ASSUME NEW N, Saving(N), CarriedOut(N) PROVE StoredSoFar'
  <2>1. PICK t : /\ Request1(t, Sent, N) /\ docs' = t.docs
                 /\ \E r \in BOOLEAN : save' = [save EXCEPT !.reply = r] /\ (r => t.ok)
    BY <1>4 DEF CarriedOut
  <2>2. /\ save'.writes = save.writes /\ Upto' = Sent /\ Upto = save.done /\ saving /\ save.reply = None
    BY <1>4, CarriedOutSave
  <2>3. save'.reply # FALSE => t.ok
    <3>1. save \in Saves
      BY <1>4, BatchIs DEF Saving
    <3> QED BY <2>1, <3>1 DEF Saves
  <2>4. \A j \in 1..save.done : StoredIn(docs, j)
    BY <2>2, NoneIs DEF StoredSoFar
  <2>5. t.ok => \A j \in 1..Sent : StoredIn(t.docs, j)
    BY <2>1, <2>4 DEF Request1, Stored
  <2>6. \A j : StoredIn(t.docs, j) => StoredIn(docs, j)'
    BY <2>1, <2>2 DEF StoredIn
  <2> QED BY <2>2, <2>3, <2>5, <2>6 DEF StoredSoFar
<1>5. ASSUME NEW N, Saving(N), SaveGoesOn, docs' = docs PROVE StoredSoFar'
  <2>1. save'.writes = save.writes /\ Upto' = Upto /\ saving /\ save.reply = TRUE
    BY <1>5, GoesOnSave
  <2>2. \A j \in 1..Upto : StoredIn(docs, j)
    BY <2>1 DEF StoredSoFar
  <2>3. \A j : StoredIn(docs, j) => StoredIn(docs, j)'
    BY <1>5, <2>1 DEF StoredIn
  <2> QED BY <2>1, <2>2, <2>3 DEF StoredSoFar
<1> QED BY <1>1, <1>2, <1>3, <1>4, <1>5, SaveOf

LEMMA StoredIsSaved == ASSUME DocumentAssumption, Sound, StoredSoFar PROVE SavedIsStored
<1> SUFFICES ASSUME AllWritten, NEW w \in ToSet(save.writes)
             PROVE  CASE w.state = "deleted" -> w.id \notin DOMAIN docs
                      [] w.state = "modified" -> w.id \in DOMAIN docs /\ docs[w.id].doc = w.doc
                      [] w.state = "new" -> \E id \in DOMAIN docs : docs[id] = [doc |-> w.doc, by |-> w.uid]
  BY DEF SavedIsStored
<1>1. PICK N : Batch(save, N)
  BY DEF AllWritten, Sound, Saving
<1>2. save.writes \in Seq(Writes) /\ save.done = Len(save.writes) /\ save.reply = None /\ saving /\ Upto = Len(save.writes)
  BY <1>1, BatchIs DEF AllWritten, Upto
<1>3. PICK j \in DOMAIN save.writes : w = save.writes[j]
  BY DEF ToSet
<1>4. j \in 1..Upto /\ w \in Writes
  BY <1>2, <1>3
<1>5. StoredIn(docs, j)
  BY <1>2, <1>4, NoneIs DEF StoredSoFar
<1>6. /\ w.state = "deleted" => w.id \notin DOMAIN docs
      /\ w.state = "modified" => w.id \in DOMAIN docs /\ docs[w.id].doc = w.doc
      /\ w.state = "new" => \E id \in DOMAIN docs : docs[id] = [doc |-> w.doc, by |-> w.uid]
  BY <1>3, <1>5 DEF StoredIn
<1>7. w.state \in {"new", "modified", "deleted"}
  BY <1>4 DEF Writes
<1> QED BY <1>6, <1>7


\* The number of a document is that of a draft there was.
LEMMA ByIs == ASSUME Sound, NEW a \in DOMAIN docs PROVE docs[a].by \in 0..drafted
BY DEF Sound, Collection

\* A row that is there after a step was there before, was read, or is a new draft.
LEMMA AddedBefore ==
  ASSUME DocumentAssumption, Sound, Step, NEW i \in DOMAIN rows', rows'[i].orig = None
  PROVE  \/ rows'[i].uid > drafted /\ rows'[i].uid \in Nat /\ docs' = docs
            /\ ((save' = save /\ Upto' = Upto) \/ save' = None)
         \/ /\ \E j \in DOMAIN rows : rows[j].orig = None /\ rows[j].uid = rows'[i].uid
            /\ \A s \in Slots : ~Filled(s)
            /\ save' = None => save = None \/ SaveEnds
<1>0. drafted \in Nat /\ drafted' \in Nat /\ Grid
  BY Grows DEF Sound
<1>1. CASE Edited
  <2>1. PICK src : EditedFrom(src)
    BY <1>1 DEF Edited
  <2>2. save' = save /\ Upto' = Upto /\ docs' = docs
    BY <1>1 DEF Edited, Others, db, Upto, Sent
  <2>3. src[i] \in 0..Len(rows) /\ Len(rows) \in Nat /\ DOMAIN rows = 1..Len(rows)
    BY <1>0, <2>1 DEF EditedFrom, Grid
  <2>4. CASE src[i] = 0
    BY <1>0, <2>1, <2>2, <2>4 DEF EditedFrom
  <2>5. CASE src[i] # 0
    <3>1. src[i] \in DOMAIN rows /\ SameRow(rows[src[i]], rows'[i])
      BY <2>1, <2>3, <2>5 DEF EditedFrom
    <3>2. rows[src[i]].orig = None /\ rows[src[i]].uid = rows'[i].uid
      BY <3>1 DEF SameRow
    <3>3. \A s \in Slots : ~Filled(s)
      <4>1. \A s \in Slots : calls' = calls
        BY <1>1 DEF Edited, Others
      <4>2. calls \in [Slots -> Requests \cup {None}]
        BY DEF Sound, Requested
      <4> QED BY <4>1, <4>2 DEF Filled
    <3> QED BY <2>2, <3>1, <3>2, <3>3
  <2> QED BY <2>4, <2>5
<1>2. ASSUME NEW s \in Slots, Filled(s)
      PROVE  rows'[i].uid > drafted /\ rows'[i].uid \in Nat /\ docs' = docs
             /\ ((save' = save /\ Upto' = Upto) \/ save' = None)
  <2>1. docs' = docs /\ (save' = None \/ (save' = save /\ Upto' = Upto))
    BY <1>2 DEF Filled, db, Upto, Sent
  <2>2. rows'[i].uid = drafted + 1
    <3>1. CASE Read(calls[s].reply.rows) /\ rows' = calls[s].reply.rows
      <4> DEFINE r == calls[s].reply.rows
      <4>1. \A k \in DOMAIN r : r[k].orig # None
        BY <3>1 DEF Read, ReadBelow
      <4> QED BY <3>1, <4>1
    <3> QED BY <1>2, <3>1 DEF Filled
  <2> QED BY <1>0, <2>1, <2>2
<1>3. CASE rows' = rows /\ ~Edited /\ \A s \in Slots : ~Filled(s)
  <2>1. save' = None => save = None \/ SaveEnds
    <3>1. ASSUME NEW N, Saving(N), CarriedOut(N) PROVE save' # None
      BY <1>3, <3>1, CarriedOutSave DEF saving
    <3>2. ASSUME SaveGoesOn PROVE save' # None
      <4>1. PICK N : Saving(N)
        BY <3>2 DEF SaveGoesOn, Sound
      <4> QED BY <3>2, <4>1, GoesOnSave DEF saving
    <3>3. Begun => save = None
      BY DEF Begun, saving
    <3> QED BY <1>3, <3>1, <3>2, <3>3 DEF Step, Typed, Asked, Answered, vars
  <2> QED BY <1>3, <2>1
<1> QED BY <1>1, <1>2, <1>3 DEF Step, Typed, Asked, Begun, CarriedOut, Answered, SaveEnds, SaveGoesOn, vars, grid

LEMMA NeverBefore == ASSUME Step, astray' = "never" PROVE astray = "never" /\ ~SaveEnds
<1>1. ~SaveEnds
  BY DEF SaveEnds
<1>2. astray = "never"
  BY <1>1 DEF Step, Edited, Others, Typed, Asked, Begun, CarriedOut, Answered, SaveGoesOn, Filled, Settled, vars
<1> QED BY <1>1, <1>2

LEMMA NumberedOnceStep ==
  ASSUME DocumentAssumption, Sound, Step, NumberedOnce PROVE NumberedOnce'
<1> SUFFICES ASSUME astray' = "never"
             PROVE  /\ Injective(docs')
                    /\ saving' => Unused(docs, Upto)'
                    /\ \A i \in DOMAIN rows' : rows'[i].orig = None =>
                         \A a \in DOMAIN docs' : docs'[a].by = rows'[i].uid =>
                           saving' /\ \E j \in 1..Upto' : save'.writes[j].state = "new" /\ save'.writes[j].uid = rows'[i].uid
  BY DEF NumberedOnce
<1>0. /\ Injective(docs) /\ (saving => Unused(docs, Upto)) /\ ~SaveEnds
      /\ \A i \in DOMAIN rows : rows[i].orig = None =>
           \A a \in DOMAIN docs : docs[a].by = rows[i].uid =>
             saving /\ \E j \in 1..Upto : save.writes[j].state = "new" /\ save.writes[j].uid = rows[i].uid
  BY NeverBefore DEF NumberedOnce
<1>1. drafted \in Nat /\ \A i \in DOMAIN rows : rows[i].orig = None => rows[i].uid \in 1..drafted
  BY Grows DEF Sound, Apart
<1>a. CASE save' = save /\ Upto' = Upto /\ docs' = docs
  <2>1. Injective(docs') /\ (saving' => Unused(docs, Upto)')
    BY <1>0, <1>a DEF Unused, saving
  <2>2. ASSUME NEW i \in DOMAIN rows', rows'[i].orig = None, NEW a \in DOMAIN docs', docs'[a].by = rows'[i].uid
        PROVE  saving' /\ \E j \in 1..Upto' : save'.writes[j].state = "new" /\ save'.writes[j].uid = rows'[i].uid
    <3>1. docs[a].by \in 0..drafted
      BY <1>a, <2>2, ByIs
    <3>2. ~(rows'[i].uid > drafted)
      BY <1>1, <1>a, <2>2, <3>1
    <3>3. PICK j \in DOMAIN rows : rows[j].orig = None /\ rows[j].uid = rows'[i].uid
      BY <2>2, <3>2, AddedBefore
    <3>4. saving /\ \E k \in 1..Upto : save.writes[k].state = "new" /\ save.writes[k].uid = rows'[i].uid
      BY <1>0, <1>a, <2>2, <3>3
    <3> QED BY <1>a, <3>4 DEF saving
  <2> QED BY <2>1, <2>2
<1>b. CASE save' = None /\ docs' = docs
  <2>1. Injective(docs') /\ ~saving'
    BY <1>0, <1>b DEF saving
  <2>2. ASSUME NEW i \in DOMAIN rows', rows'[i].orig = None, NEW a \in DOMAIN docs', docs'[a].by = rows'[i].uid
        PROVE  FALSE
    <3>1. docs[a].by \in 0..drafted
      BY <1>b, <2>2, ByIs
    <3>2. ~(rows'[i].uid > drafted)
      BY <1>1, <1>b, <2>2, <3>1
    <3>3. PICK j \in DOMAIN rows : rows[j].orig = None /\ rows[j].uid = rows'[i].uid /\ (save' = None => save = None \/ SaveEnds)
      BY <2>2, <3>2, AddedBefore
    <3>4. saving
      BY <1>0, <1>b, <2>2, <3>3
    <3> QED BY <1>0, <1>b, <3>3, <3>4 DEF saving
  <2> QED BY <2>1, <2>2
<1>c. CASE Begun /\ docs' = docs
  <2>1. /\ rows' = rows /\ ~saving /\ Upto' = 0
        /\ \A k \in 1..Len(save'.batch) : \E i \in DOMAIN rows : save'.batch[k] = rows[i]
    BY <1>c DEF Begun, grid, Upto
  <2>2. PICK N : Batch(save', N)
    BY <1>c DEF Begun
  <2>3. \A i \in DOMAIN rows : rows[i].orig = None => \A a \in DOMAIN docs : docs[a].by # rows[i].uid
    BY <1>0, <2>1
  <2>4. ASSUME NEW j \in 1..Len(save'.writes), save'.writes[j].state = "new", NEW a \in DOMAIN docs
        PROVE  docs[a].by # save'.writes[j].uid
    <3>1. WroteOf(save'.batch[j], save'.writes[j]) /\ Len(save'.batch) = Len(save'.writes)
      BY <2>2 DEF Batch, BatchOf
    <3>2. PICK i \in DOMAIN rows : save'.batch[j] = rows[i]
      BY <2>1, <3>1
    <3>3. rows[i].state = "new" /\ rows[i].uid = save'.writes[j].uid
      BY <2>4, <3>1, <3>2 DEF WroteOf
    <3>4. rows[i].orig = None
      BY <3>3 DEF Sound, Grid, Fits, NewIsNew
    <3> QED BY <2>3, <3>3, <3>4
  <2>5. Unused(docs, Upto)'
    BY <1>c, <2>1, <2>4 DEF Unused
  <2> QED BY <1>0, <1>c, <2>1, <2>3, <2>5
<1>d. ASSUME NEW N, Saving(N), CarriedOut(N)
      PROVE  /\ Injective(docs')
             /\ saving' => Unused(docs, Upto)'
             /\ \A i \in DOMAIN rows' : rows'[i].orig = None =>
                  \A a \in DOMAIN docs' : docs'[a].by = rows'[i].uid =>
                    saving' /\ \E j \in 1..Upto' : save'.writes[j].state = "new" /\ save'.writes[j].uid = rows'[i].uid
  <2>1. PICK t : Request1(t, Sent, N) /\ docs' = t.docs
    BY <1>d DEF CarriedOut
  <2>2. /\ saving /\ saving' /\ save'.writes = save.writes /\ Upto = save.done /\ Upto' = Sent
        /\ save.done \in Nat /\ Sent \in Nat /\ save.done < Sent /\ Sent <= Len(save.writes) /\ Len(save.writes) \in Nat
    BY <1>d, CarriedOutSave
  <2>3. rows' = rows
    BY <1>d DEF CarriedOut, grid
  <2>4. From(t, Sent) /\ Once(t)
    BY <2>1 DEF Request1
  <2>5. Injective(t.docs)
    BY <1>0, <2>2, <2>4 DEF Once
  <2>6. /\ \A k \in 1..Len(save.writes) : save.writes[k].state = "new" => save.writes[k].uid \in 1..drafted
        /\ \A k, l \in 1..Len(save.writes) :
             save.writes[k].state = "new" /\ save.writes[l].state = "new" /\ save.writes[k].uid = save.writes[l].uid => k = l
    BY <1>d DEF Saving, Batch, BatchOf
  <2>7. ASSUME NEW j \in Sent + 1..Len(save.writes), save.writes[j].state = "new", NEW a \in DOMAIN t.docs
        PROVE  t.docs[a].by # save.writes[j].uid
    <3>1. j \in 1..Len(save.writes) /\ j \in save.done + 1..Len(save.writes) /\ j \notin save.done + 1..Sent
      BY <2>2
    <3>2. save.writes[j].uid # 0
      BY <2>6, <2>7, <3>1
    <3>3. a \in DOMAIN docs => docs[a].by # save.writes[j].uid
      BY <1>0, <2>2, <2>7, <3>1 DEF Unused
    <3>4. \A l \in save.done + 1..Sent : save.writes[l].state = "new" => save.writes[l].uid # save.writes[j].uid
      <4>1. \A l \in save.done + 1..Sent : l \in 1..Len(save.writes)
        BY <2>2
      <4> QED BY <2>6, <2>7, <3>1, <4>1
    <3> QED BY <2>4, <3>2, <3>3, <3>4 DEF From
  <2>8. Unused(docs, Upto)'
    BY <2>1, <2>2, <2>7 DEF Unused
  <2>9. ASSUME NEW i \in DOMAIN rows, rows[i].orig = None, NEW a \in DOMAIN t.docs, t.docs[a].by = rows[i].uid
        PROVE  \E j \in 1..Sent : save.writes[j].state = "new" /\ save.writes[j].uid = rows[i].uid
    <3>1. rows[i].uid # 0
      BY <1>1, <2>9
    <3>2. CASE a \in DOMAIN docs /\ t.docs[a].by = docs[a].by
      <4>1. PICK j \in 1..save.done : save.writes[j].state = "new" /\ save.writes[j].uid = rows[i].uid
        BY <1>0, <2>2, <2>9, <3>2
      <4>2. j \in 1..Sent
        BY <2>2
      <4> QED BY <4>1, <4>2
    <3>3. CASE \E j \in save.done + 1..Sent : save.writes[j].state = "new" /\ t.docs[a].by = save.writes[j].uid
      <4>1. PICK j \in save.done + 1..Sent : save.writes[j].state = "new" /\ t.docs[a].by = save.writes[j].uid
        BY <3>3
      <4>2. j \in 1..Sent
        BY <2>2
      <4> QED BY <2>9, <4>1, <4>2
    <3> QED BY <2>4, <2>9, <3>1, <3>2, <3>3 DEF From
  <2> QED BY <2>1, <2>2, <2>3, <2>5, <2>8, <2>9
<1>e. ASSUME NEW N, Saving(N), SaveGoesOn, docs' = docs
      PROVE  /\ Injective(docs')
             /\ saving' => Unused(docs, Upto)'
             /\ \A i \in DOMAIN rows' : rows'[i].orig = None =>
                  \A a \in DOMAIN docs' : docs'[a].by = rows'[i].uid =>
                    saving' /\ \E j \in 1..Upto' : save'.writes[j].state = "new" /\ save'.writes[j].uid = rows'[i].uid
  <2>1. saving /\ saving' /\ save'.writes = save.writes /\ Upto' = Upto /\ rows' = rows
    BY <1>e, GoesOnSave DEF SaveGoesOn, grid
  <2>2. Unused(docs, Upto)'
    BY <1>0, <1>e, <2>1 DEF Unused
  <2> QED BY <1>0, <1>e, <2>1, <2>2
<1> QED BY <1>a, <1>b, <1>c, <1>d, <1>e, SaveOf

LEMMA SavedInit == ASSUME DocumentAssumption, Init PROVE StoredSoFar /\ NumberedOnce
<1>1. ~saving /\ (\A a \in DOMAIN docs : docs[a].by = 0) /\ \A i \in DOMAIN rows : FALSE
  BY DEF Init, saving
<1> QED BY <1>1 DEF StoredSoFar, NumberedOnce, Injective

(* What is told to be saved is stored, and stored once: when the page says *)
(* "Changes saved" every write of the batch is in the collection, also     *)
(* after saves that failed half way, and as long as none went astray no    *)
(* added row was inserted twice.                                           *)
THEOREM SavedIsStoredOnce == Spec => []SavedOnce
<1> DEFINE Inv == Sound /\ StoredSoFar /\ NumberedOnce
<1>1. Init => Inv
  BY SoundInit, SavedInit, DocumentAssumption
<1>2. Inv /\ [Next]_vars => Inv'
  <2> SUFFICES ASSUME Inv, [Next]_vars PROVE Inv'
    OBVIOUS
  <2>1. Sound' /\ Step
    BY SoundStep, DocumentAssumption
  <2>2. StoredSoFar' /\ NumberedOnce'
    BY <2>1, StoredSoFarStep, NumberedOnceStep, DocumentAssumption
  <2> QED BY <2>1, <2>2
<1>3. Inv => SavedOnce
  <2>1. Inv => SavedIsStored
    BY StoredIsSaved, DocumentAssumption
  <2>2. Inv => InsertedOnce
    BY DEF NumberedOnce, InsertedOnce, Injective
  <2> QED BY <2>1, <2>2 DEF SavedOnce
<1> QED BY <1>1, <1>2, <1>3, PTL DEF Spec

-----------------------------------------------------------------------------
(* The page is what it says it is, when the page sends nothing while it is *)
(* busy and queries ask for all fields.                                    *)
\* At most one query is in flight, the page is busy with it, and during a save it is the save's.
Alone ==
  /\ query.fields = Fields
  /\ \A s \in Slots : calls[s] # None => running /\ calls[s].fields = Fields /\ (saving => IsSave(s))
  /\ \A s, t \in Slots : calls[s] # None /\ calls[t] # None => s = t

\* The rows read are those of page p of the collection c.
PageIn(c, p) ==
  LET found == Reverse(InOrder(DOMAIN c)) IN
  ToSet(SubSeq(found, (p - 1) * PageSize + 1,
               IF p * PageSize < Len(found) THEN p * PageSize ELSE Len(found)))
PagesIn(c, read, p) ==
  /\ {read[k].id : k \in DOMAIN read} = PageIn(c, p)
  /\ \A k \in DOMAIN read : read[k].id \in DOMAIN c /\ c[read[k].id].doc = read[k].orig

LEMMA PagesAre == ASSUME NEW read, NEW p, Pages(read, p, Fields) PROVE PagesIn(docs, read, p)
BY DEF Pages, PagesIn, PageIn, Page, Found

\* The query in flight is about the page the bar shows, and what it was answered is still so.
Asking ==
  \A s \in Slots : calls[s] # None =>
    /\ calls[s].page = page
    /\ calls[s].reply # None /\ calls[s].reply.ok => PagesIn(docs, calls[s].reply.rows, page)

\* What a step does to the queries in flight.
LEMMA CallsOf ==
  ASSUME DocumentAssumption, Sound, Step
  PROVE  \/ calls' = calls
         \/ \E s \in Slots, why \in {"open", "run", "page", "discard", "save"}, b \in Seq(Drafts) :
              /\ Queried(s, why, b) /\ page' \in Nat \ {0} /\ query' = query
              /\ \/ Asked /\ (running \/ saving => May("overlap"))
                    /\ (why # "discard" /\ PendingRows # {} => May("dirtyRun"))
                 \/ SaveGoesOn /\ why = "save" /\ b = save.batch
         \/ \E s \in Slots : Answered(s)
         \/ \E s \in Slots : Filled(s)
<1>1. CASE Asked
  <2> DEFINE b == <<>>
  <2>1. \/ \E s \in Slots, why \in {"run", "page", "discard"} :
             /\ Queried(s, why, b)
             /\ running \/ saving => May("overlap")
             /\ why # "discard" /\ PendingRows # {} => May("dirtyRun")
        \/ calls' = calls
    BY <1>1 DEF Asked
  <2>2. b \in Seq(Drafts) /\ page' \in Nat \ {0} /\ query' = query
    BY <1>1 DEF Asked
  <2> HIDE DEF b
  <2> QED BY <1>1, <2>1, <2>2
<1>2. CASE SaveGoesOn
  <2>1. saving /\ page' = page /\ query' = query
        /\ (calls' = calls \/ \E s \in Slots : Queried(s, "save", save.batch))
    BY <1>2 DEF SaveGoesOn, bar
  <2>2. save.batch \in Seq(Drafts) /\ page \in Nat \ {0}
    BY <2>1, BatchIs DEF Sound, Saving, Bar
  <2> QED BY <1>2, <2>1, <2>2
<1> QED BY <1>1, <1>2 DEF Step, Edited, Others, Typed, Begun, CarriedOut, SaveEnds, vars

LEMMA QueryFieldsStep ==
  ASSUME Step, query.fields = Fields PROVE query'.fields = Fields
<1>1. CASE Typed
  <2>1. query' = [query EXCEPT !.valid = ~query.valid]
    BY <1>1 DEF Typed
  <2> QED BY <2>1
<1> QED BY <1>1 DEF Step, Edited, Others, Asked, Begun, CarriedOut, Answered, SaveEnds, SaveGoesOn, Filled, vars

\* A query that is answered is the same query.
LEMMA AnsweredCalls ==
  ASSUME DocumentAssumption, Sound, NEW s \in Slots, Answered(s)
  PROVE  /\ calls[s] # None /\ calls'[s] # None /\ \A t \in Slots : t # s => calls'[t] = calls[t]
         /\ calls'[s].why = calls[s].why /\ calls'[s].fields = calls[s].fields /\ calls'[s].page = calls[s].page
         /\ calls'[s].batch = calls[s].batch /\ calls[s].page \in Nat \ {0}
         /\ calls'[s].reply.ok => Read(calls'[s].reply.rows) /\ Pages(calls'[s].reply.rows, calls[s].page, calls[s].fields)
<1>1. PICK a \in Answers : /\ calls' = [calls EXCEPT ![s] = [calls[s] EXCEPT !.reply = a]]
                           /\ a.ok => Read(a.rows) /\ Pages(a.rows, calls[s].page, calls[s].fields)
  BY DEF Answered
<1>2. calls[s] # None /\ calls[s] \in Requests /\ calls \in [Slots -> Requests \cup {None}]
  BY DEF Answered, Sound, Requested
<1> DEFINE p == [calls[s] EXCEPT !.reply = a]
<1>3. p \in Requests /\ p.why = calls[s].why /\ p.fields = calls[s].fields /\ p.page = calls[s].page
      /\ p.batch = calls[s].batch /\ p.reply = a /\ calls[s].page \in Nat \ {0}
  BY <1>2 DEF Requests
<1>4. calls' = [calls EXCEPT ![s] = p]
  BY <1>1
<1> HIDE DEF p
<1>5. calls'[s] = p /\ p # None /\ \A t \in Slots : t # s => calls'[t] = calls[t]
  BY <1>2, <1>3, <1>4, NoneIs
<1> QED BY <1>1, <1>2, <1>3, <1>5

LEMMA AloneStep ==
  ASSUME DocumentAssumption, ~May("overlap"), Sound, Step, Alone PROVE Alone'
<1>0. /\ query.fields = Fields /\ query'.fields = Fields
      /\ \A s \in Slots : calls[s] # None => running /\ calls[s].fields = Fields /\ (saving => IsSave(s))
      /\ \A s, t \in Slots : calls[s] # None /\ calls[t] # None => s = t
      /\ calls \in [Slots -> Requests \cup {None}]
  BY QueryFieldsStep DEF Alone, Sound, Requested
<1>1. CASE calls' = calls
  <2>1. running' = running
    <3>1. CASE \E s \in Slots : Answered(s)
      BY <3>1 DEF Answered
    <3>2. ASSUME NEW s \in Slots, Filled(s) PROVE FALSE
      BY <1>0, <1>1, <3>2 DEF Filled
    <3>3. ASSUME NEW s \in Slots, NEW why \in {"open", "run", "page", "discard", "save"}, NEW b \in Seq(Drafts),
                 Queried(s, why, b), page' \in Nat \ {0}
          PROVE  FALSE
      BY <1>1, <3>3, QueriedIs
    <3>4. CASE Asked
      <4> DEFINE b == <<>>
      <4>1. \/ \E s \in Slots, why \in {"run", "page", "discard"} : Queried(s, why, b)
            \/ running' = running
        BY <3>4 DEF Asked
      <4>2. b \in Seq(Drafts) /\ page' \in Nat \ {0}
        BY <3>4 DEF Asked
      <4> HIDE DEF b
      <4> QED BY <3>3, <4>1, <4>2
    <3>5. CASE SaveGoesOn
      <4>1. saving /\ page' = page /\ (running' = running \/ \E s \in Slots : Queried(s, "save", save.batch))
        BY <3>5 DEF SaveGoesOn, bar
      <4>2. save.batch \in Seq(Drafts) /\ page \in Nat \ {0}
        BY <4>1, BatchIs DEF Sound, Saving, Bar
      <4> QED BY <3>3, <4>1, <4>2
    <3> QED BY <3>1, <3>2, <3>4, <3>5 DEF Step, Edited, Others, Typed, Begun, CarriedOut, SaveEnds, vars
  <2>2. (\E s \in Slots : calls[s] # None) => (saving' => saving)
    <3>1. Begun => ~running
      BY DEF Begun
    <3> QED BY <1>0, <3>1, SaveOf, CarriedOutSave DEF SaveGoesOn, saving
  <2>3. \A s \in Slots : IsSave(s)' = IsSave(s)
    BY <1>1 DEF IsSave
  <2> QED BY <1>0, <1>1, <2>1, <2>2, <2>3 DEF Alone
<1>2. ASSUME NEW s \in Slots, NEW why \in {"open", "run", "page", "discard", "save"}, NEW b \in Seq(Drafts),
             Queried(s, why, b), page' \in Nat \ {0}, query' = query,
             \/ Asked /\ (running \/ saving => May("overlap"))
             \/ SaveGoesOn /\ why = "save" /\ b = save.batch
      PROVE  Alone'
  <2>1. /\ calls[s] = None /\ calls'[s] # None /\ calls'[s].why = why /\ calls'[s].fields = query.fields
        /\ \A t \in Slots : t # s => calls'[t] = calls[t]
    BY <1>2, QueriedIs
  <2>2. running' = TRUE
    BY <1>2 DEF Queried
  <2>3. \A t \in Slots : calls[t] = None
    <3>1. CASE Asked /\ (running \/ saving => May("overlap"))
      BY <1>0, <3>1
    <3>2. CASE SaveGoesOn
      <4>1. saving /\ save.reply # None
        BY <3>2, NoneIs DEF SaveGoesOn
      <4>2. PICK N : Batch(save, N)
        BY <4>1 DEF Sound, Saving
      <4>3. ~AllWritten
        BY <4>1, <4>2, BatchIs DEF AllWritten
      <4> QED BY <1>0, <4>1, <4>3, NoneBefore
    <3> QED BY <1>2, <3>1, <3>2
  <2>4. saving' => why = "save"
    <3>1. CASE Asked /\ (running \/ saving => May("overlap"))
      BY <3>1 DEF Asked, saving
    <3> QED BY <1>2, <3>1
  <2> QED BY <1>0, <2>1, <2>2, <2>3, <2>4 DEF Alone, IsSave
<1>3. ASSUME NEW s \in Slots, Answered(s) PROVE Alone'
  <2>1. /\ calls[s] # None /\ calls'[s] # None /\ \A t \in Slots : t # s => calls'[t] = calls[t]
        /\ calls'[s].why = calls[s].why /\ calls'[s].fields = calls[s].fields
    BY <1>3, AnsweredCalls
  <2>2. running' = running /\ save' = save
    BY <1>3 DEF Answered
  <2>3. \A t \in Slots : (calls'[t] # None) = (calls[t] # None) /\ IsSave(t)' = IsSave(t)
    BY <2>1 DEF IsSave
  <2>4. \A t \in Slots : calls'[t] # None => calls'[t].fields = calls[t].fields
    BY <2>1
  <2> QED BY <1>0, <2>2, <2>3, <2>4 DEF Alone, saving
<1>4. ASSUME NEW s \in Slots, Filled(s) PROVE Alone'
  <2>1. calls[s] # None /\ \A t \in Slots : calls'[t] = IF t = s THEN None ELSE calls[t]
    BY <1>0, <1>4 DEF Filled
  <2>2. \A t \in Slots : calls'[t] = None
    BY <1>0, <2>1
  <2> QED BY <1>0, <2>2 DEF Alone
<1> QED BY <1>1, <1>2, <1>3, <1>4, CallsOf

LEMMA AskingStep ==
  ASSUME DocumentAssumption, ~May("overlap"), Sound, Step, Alone, Asking PROVE Asking'
<1>0. /\ \A s \in Slots : calls[s] # None => running /\ calls[s].fields = Fields /\ (saving => IsSave(s))
      /\ \A s, t \in Slots : calls[s] # None /\ calls[t] # None => s = t
      /\ calls \in [Slots -> Requests \cup {None}] /\ query.fields = Fields
      /\ \A s \in Slots : calls[s] # None =>
           /\ calls[s].page = page
           /\ calls[s].reply # None /\ calls[s].reply.ok => PagesIn(docs, calls[s].reply.rows, page)
  BY DEF Alone, Asking, Sound, Requested
<1>1. (\E s \in Slots : calls[s] # None) => docs' = docs
  <2>1. ASSUME NEW N, CarriedOut(N), NEW s \in Slots, calls[s] # None PROVE FALSE
    BY <1>0, <2>1, NoneBefore DEF CarriedOut
  <2> QED BY <2>1, SaveOf
<1>2. (\E s \in Slots : calls[s] # None) => page' = page
  <2>1. ASSUME Asked, NEW s \in Slots, calls[s] # None PROVE page' = page
    <3>1. running /\ ~May("overlap")
      BY <1>0, <2>1
    <3> QED BY <2>1, <3>1 DEF Asked
  <2> QED BY <2>1 DEF Step, Edited, Others, Typed, Begun, CarriedOut, Answered, SaveEnds, SaveGoesOn, Filled, vars, bar
<1>4. CASE calls' = calls
  BY <1>0, <1>1, <1>2, <1>4 DEF Asking
<1>5. ASSUME NEW s \in Slots, NEW why \in {"open", "run", "page", "discard", "save"}, NEW b \in Seq(Drafts),
             Queried(s, why, b), page' \in Nat \ {0}
      PROVE  Asking'
  <2>1. /\ calls[s] = None /\ calls'[s] # None /\ calls'[s].page = page' /\ calls'[s].reply = None
        /\ \A t \in Slots : t # s => calls'[t] = calls[t]
    BY <1>5, QueriedIs
  <2> QED BY <1>0, <1>1, <1>2, <2>1 DEF Asking
<1>6. ASSUME NEW s \in Slots, Answered(s) PROVE Asking'
  <2>1. /\ calls[s] # None /\ calls'[s] # None /\ \A t \in Slots : t # s => calls'[t] = calls[t]
        /\ calls'[s].page = calls[s].page
        /\ calls'[s].reply.ok => Pages(calls'[s].reply.rows, calls[s].page, calls[s].fields)
    BY <1>6, AnsweredCalls
  <2>2. docs' = docs /\ page' = page
    BY <1>6 DEF Answered, db, bar
  <2>3. \A t \in Slots : calls'[t] # None => t = s
    BY <1>0, <2>1
  <2> DEFINE read == calls'[s].reply.rows
  <2>4. calls'[s].reply.ok => Pages(read, page, Fields)
    BY <1>0, <2>1
  <2> HIDE DEF read
  <2>5. calls'[s].reply.ok => PagesIn(docs, read, page)
    BY <2>4, PagesAre
  <2> QED BY <1>0, <2>1, <2>2, <2>3, <2>5 DEF Asking, read
<1>7. ASSUME NEW s \in Slots, Filled(s) PROVE Asking'
  <2>1. calls[s] # None /\ \A t \in Slots : calls'[t] = IF t = s THEN None ELSE calls[t]
    BY <1>0, <1>7 DEF Filled
  <2>2. \A t \in Slots : calls'[t] = None
    BY <1>0, <2>1
  <2> QED BY <2>2 DEF Asking
<1> QED BY <1>4, <1>5, <1>6, <1>7, CallsOf


\* The rows of the grid that were read are those of page p of the collection.
Here(c, r, p, tot) ==
  /\ tot # None => {r[i].id : i \in {j \in DOMAIN r : r[j].orig # None}} = PageIn(c, p)
  /\ \A i \in DOMAIN r : r[i].orig # None => r[i].id \in DOMAIN c /\ c[r[i].id].doc = r[i].orig
Truth == Idle /\ astray # "here" => Here(docs, rows, page, total)

LEMMA TruthIs == Truth <=> PageIsTrue
<1>1. \A p : PageIn(docs, p) = ToSet(Page(p))
  BY DEF PageIn, Page, Found
<1> QED BY <1>1 DEF Truth, Here, PageIsTrue, PageShown, Fresh

LEMMA TruthEdited ==
  ASSUME DocumentAssumption, Grid, Edited, Truth PROVE Truth'
<1>1. PICK src : EditedFrom(src)
  BY DEF Edited
<1>2. Idle' = Idle /\ astray' = astray /\ docs' = docs /\ page' = page /\ total' = total
  BY DEF Edited, Others, db, bar, Idle, saving
<1>3. DOMAIN rows = 1..Len(rows) /\ Len(rows) \in Nat
  BY DEF Grid
<1>4. ASSUME NEW j \in DOMAIN rows', rows'[j].orig # None
      PROVE  \E i \in DOMAIN rows : rows[i].orig = rows'[j].orig /\ rows[i].id = rows'[j].id
  <2>1. src[j] \in 1..Len(rows) /\ SameRow(rows[src[j]], rows'[j])
    BY <1>1, <1>3, <1>4 DEF EditedFrom
  <2> QED BY <1>3, <2>1 DEF SameRow
<1>5. ASSUME NEW i \in DOMAIN rows, rows[i].orig # None
      PROVE  \E j \in DOMAIN rows' : rows'[j].orig = rows[i].orig /\ rows'[j].id = rows[i].id
  <2>1. PICK j \in DOMAIN rows' : src[j] = i
    BY <1>1, <1>5 DEF EditedFrom
  <2>2. SameRow(rows[i], rows'[j])
    <3>1. i # 0
      BY <1>3
    <3> QED BY <1>1, <2>1, <3>1 DEF EditedFrom
  <2> QED BY <2>2 DEF SameRow
<1>6. {rows'[i].id : i \in {j \in DOMAIN rows' : rows'[j].orig # None}}
      = {rows[i].id : i \in {j \in DOMAIN rows : rows[j].orig # None}}
  BY <1>4, <1>5
<1>7. Here(docs, rows, page, total) => Here(docs, rows', page, total)
  BY <1>4, <1>6 DEF Here
<1> QED BY <1>2, <1>7 DEF Truth

LEMMA TruthFilled ==
  ASSUME DocumentAssumption, Alone, Asking, NEW s \in Slots, Filled(s) PROVE Truth'
<1>1. docs' = docs /\ page' = page
  BY DEF Filled, db
<1>2. calls[s] # None /\ calls[s].reply # None /\ (calls[s].reply.ok => PagesIn(docs, calls[s].reply.rows, page))
  BY DEF Asking, Filled
<1>3. CASE calls[s].reply.ok /\ Read(calls[s].reply.rows) /\ rows' = calls[s].reply.rows
  <2> DEFINE r == calls[s].reply.rows
  <2>1. Read(r) /\ PagesIn(docs, r, page) /\ rows' = r
    BY <1>2, <1>3
  <2> HIDE DEF r
  <2>2. \A k \in DOMAIN r : r[k].orig # None
    BY <2>1 DEF Read, ReadBelow
  <2>3. {k \in DOMAIN r : r[k].orig # None} = DOMAIN r
    BY <2>2
  <2>4. Here(docs, r, page, total')
    BY <2>1, <2>3 DEF Here, PagesIn
  <2> QED BY <1>1, <2>1, <2>4 DEF Truth
<1>4. CASE /\ calls[s].reply.ok => calls[s].reply.rows = <<>>
           /\ ~calls[s].reply.ok => total' = None
           /\ \A i \in DOMAIN rows' : rows'[i].orig = None
  <2>1. {i \in DOMAIN rows' : rows'[i].orig # None} = {}
    BY <1>4
  <2>2. calls[s].reply.ok => PageIn(docs, page) = {}
    <3> DEFINE r == calls[s].reply.rows
               e == <<>>
    <3> SUFFICES ASSUME calls[s].reply.ok PROVE PageIn(docs, page) = {}
      OBVIOUS
    <3>1. r = e /\ DOMAIN e = {} /\ PagesIn(docs, r, page)
      BY <1>2, <1>4
    <3> HIDE DEF r, e
    <3> QED BY <3>1 DEF PagesIn
  <2>3. total' # None => PageIn(docs, page) = {}
    BY <1>4, <2>2
  <2>4. Here(docs, rows', page, total')
    BY <1>4, <2>1, <2>3 DEF Here
  <2> QED BY <1>1, <2>4 DEF Truth
<1> QED BY <1>3, <1>4 DEF Filled

LEMMA TruthStep ==
  ASSUME DocumentAssumption, Sound, Step, Alone, Asking, Truth PROVE Truth'
<1>1. CASE Edited
  BY <1>1, TruthEdited DEF Sound
<1>2. CASE \E s \in Slots : Filled(s)
  BY <1>2, TruthFilled
<1>3. CASE /\ docs' = docs /\ rows' = rows /\ page' = page /\ total' = total /\ save' = save
           /\ calls' = calls /\ astray' = astray
  BY <1>3 DEF Truth, Idle, saving
<1>4. CASE astray' = "here"
  BY <1>4 DEF Truth
<1>5. CASE saving'
  BY <1>5 DEF Truth, Idle
<1>6. CASE \E s \in Slots : calls'[s] # None
  BY <1>6 DEF Truth, Idle
<1>7. CASE Typed \/ UNCHANGED vars
  BY <1>3, <1>7 DEF Typed, vars, db, grid, bar
<1>8. CASE Asked
  <2> DEFINE b == <<>>
  <2>1. /\ page' \in Nat \ {0}
        /\ \/ \E s \in Slots, why \in {"run", "page", "discard"} : Queried(s, why, b)
           \/ /\ calls' = calls
              /\ (page' = page /\ astray' = astray) \/ astray' = "here"
        /\ docs' = docs /\ rows' = rows /\ total' = total /\ save' = save
    BY <1>8 DEF Asked, db, grid
  <2>2. b \in Seq(Drafts)
    OBVIOUS
  <2> HIDE DEF b
  <2>3. (\E s \in Slots, why \in {"run", "page", "discard"} : Queried(s, why, b)) => \E s \in Slots : calls'[s] # None
    BY <2>1, <2>2, QueriedIs
  <2> QED BY <1>3, <1>4, <1>6, <2>1, <2>3
<1>9. CASE Begun
  <2>1. PICK N : Batch(save', N)
    BY <1>9 DEF Begun
  <2>2. save' \in Saves
    BY <2>1 DEF Batch, BatchOf
  <2> QED BY <1>5, <2>2, NoneIs DEF saving
<1>10. CASE \E N : Saving(N) /\ CarriedOut(N)
  BY <1>5, <1>10, CarriedOutSave
<1>11. CASE \E s \in Slots : Answered(s)
  BY <1>6, <1>11, AnsweredCalls
<1>12. CASE SaveEnds
  BY <1>4, <1>12 DEF SaveEnds
<1>13. CASE SaveGoesOn
  <2>1. PICK N : Saving(N)
    BY <1>13 DEF SaveGoesOn, Sound
  <2> QED BY <1>5, <1>13, <2>1, GoesOnSave
<1> QED BY <1>1, <1>2, <1>7, <1>8, <1>9, <1>10, <1>11, <1>12, <1>13 DEF Step

LEMMA AloneInit ==
  ASSUME DocumentAssumption, ~May("projection"), Init PROVE Alone /\ Asking /\ Truth
<1> DEFINE b == <<>>
           p == 1
           r == Request("open", p, b)
<1>1. /\ calls = [s \in Slots |-> IF \A t \in Slots : s <= t THEN r ELSE None]
      /\ save = None /\ b \in Seq(Drafts) /\ p \in Nat \ {0} /\ page = p /\ running = TRUE
  BY DEF Init
<1>2. \E fields \in {Fields} : query = [valid |-> TRUE, fields |-> fields]
  BY DEF Init
<1>3. query.fields = Fields
  BY <1>2
<1> HIDE DEF b, p, r
<1>4. r \in Requests /\ r.reply = None /\ r.why = "open" /\ r.fields = Fields /\ r.page = page
  <2>1. "open" \in {"open", "run", "page", "discard", "save"} /\ query.fields \in SUBSET Fields
    BY <1>3
  <2>2. r = Request("open", p, b)
    BY DEF r
  <2> QED BY <1>1, <1>3, <2>1, <2>2, RequestIs
<1>5. \A s \in Slots : calls[s] # None => calls[s] = r /\ \A t \in Slots : s <= t
  BY <1>1
<1>6. \A s, t \in Slots : calls[s] # None /\ calls[t] # None => s = t
  <2> TAKE s \in Slots, t \in Slots
  <2>1. s \in Nat /\ t \in Nat
    BY DocumentIs
  <2>2. calls[s] # None /\ calls[t] # None => s <= t /\ t <= s
    BY <1>5
  <2> QED BY <2>1, <2>2
<1>7. Alone
  BY <1>1, <1>3, <1>4, <1>5, <1>6 DEF Alone, saving
<1>8. Asking
  BY <1>4, <1>5 DEF Asking
<1>9. \E s \in Slots : calls[s] # None
  <2>1. PICK s \in Slots : \A t \in Slots : s <= t
    BY LeastExists DEF DocumentAssumption
  <2> QED BY <1>1, <1>4, <2>1, NoneIs
<1>10. Truth
  BY <1>9 DEF Truth, Idle
<1> QED BY <1>7, <1>8, <1>10

(* When nobody submits a query while the page is busy and queries ask for  *)
(* all fields, the page is what it says it is: with nothing in flight the  *)
(* rows that were read are those of the page in the bar, and their         *)
(* originals are the documents of the collection, unless a save went       *)
(* astray since.                                                           *)
THEOREM PageAlwaysTrue ==
  ASSUME {"overlap", "projection"} \cap Features = {}
  PROVE  Spec => []PageIsTrue
<1> DEFINE Inv == Sound /\ Alone /\ Asking /\ Truth
<1>0. ~May("overlap") /\ ~May("projection")
  BY DEF May
<1>1. Init => Inv
  BY <1>0, SoundInit, AloneInit, DocumentAssumption
<1>2. Inv /\ [Next]_vars => Inv'
  <2> SUFFICES ASSUME Inv, [Next]_vars PROVE Inv'
    OBVIOUS
  <2>1. Sound' /\ Step
    BY SoundStep, DocumentAssumption
  <2>2. Alone' /\ Asking' /\ Truth'
    BY <1>0, <2>1, AloneStep, AskingStep, TruthStep, DocumentAssumption
  <2> QED BY <2>1, <2>2
<1>3. Inv => PageIsTrue
  BY TruthIs
<1> QED BY <1>1, <1>2, <1>3, PTL DEF Spec

-----------------------------------------------------------------------------
(* No edit is lost, when the user moreover neither edits while the page is *)
(* busy nor runs a query over unsaved edits.                               *)
\* What an answer will replace is in the batch that was saved, or was not edited.
Held ==
  /\ \A s \in Slots : calls[s] # None /\ calls[s].why # "discard" => PendingRows \subseteq ToSet(calls[s].batch)
  /\ saving => PendingRows \subseteq ToSet(save.batch)

\* What is still to be replaced is as it was read.
Unwritten ==
  saving /\ astray # "here" =>
    \A k \in Upto + 1..Len(save.writes) :
      save.batch[k].state = "modified" /\ save.batch[k].id \in DOMAIN docs
      => docs[save.batch[k].id].doc = save.batch[k].orig

Quiet == Sound /\ Alone /\ Asking /\ Truth /\ Held /\ Unwritten

LEMMA PendingSame == ASSUME rows' = rows PROVE PendingRows' = PendingRows
BY DEF PendingRows, Pending

\* Rows are edited, or replaced by an answer, only when nothing is under way any more.
LEMMA RowsOf ==
  ASSUME DocumentAssumption, ~May("editWhileBusy"), Sound, Step, Alone
  PROVE  \/ rows' = rows
         \/ ~saving' /\ \A s \in Slots : calls'[s] = None
<1>0. calls \in [Slots -> Requests \cup {None}]
  BY DEF Sound, Requested
<1>1. CASE Edited
  BY <1>1 DEF Edited, Others, Alone, saving
<1>2. ASSUME NEW s \in Slots, Filled(s) PROVE ~saving' /\ \A t \in Slots : calls'[t] = None
  <2>1. /\ calls[s] # None /\ calls' = [calls EXCEPT ![s] = None]
        /\ save' = IF calls[s].why = "save" THEN None ELSE save
    BY <1>2 DEF Filled
  <2>2. \A t \in Slots : calls[t] # None => t = s
    BY <2>1 DEF Alone
  <2>3. \A t \in Slots : calls'[t] = None
    BY <1>0, <2>1, <2>2
  <2>4. ~saving'
    BY <2>1 DEF Alone, IsSave, saving
  <2> QED BY <2>3, <2>4
<1> QED BY <1>1, <1>2 DEF Step, Typed, Asked, Begun, CarriedOut, Answered, SaveEnds, SaveGoesOn, vars, grid

LEMMA HeldStep ==
  ASSUME DocumentAssumption, ~May("editWhileBusy"), ~May("dirtyRun"), Sound, Step, Alone, Held PROVE Held'
<1>0. /\ calls \in [Slots -> Requests \cup {None}]
      /\ \A s \in Slots : calls[s] # None /\ calls[s].why # "discard" => PendingRows \subseteq ToSet(calls[s].batch)
      /\ saving => PendingRows \subseteq ToSet(save.batch)
  BY DEF Sound, Requested, Held
<1>1. CASE ~saving' /\ \A s \in Slots : calls'[s] = None
  BY <1>1 DEF Held
<1>2. CASE rows' = rows
  <2>0. PendingRows' = PendingRows
    BY <1>2, PendingSame
  <2>1. saving' => PendingRows' \subseteq ToSet(save'.batch)
    <3>1. CASE save' = save
      BY <1>0, <2>0, <3>1 DEF saving
    <3>2. CASE save' = None
      BY <3>2 DEF saving
    <3>3. CASE Begun
      <4>1. PICK N : Batch(save', N)
        BY <3>3 DEF Begun
      <4>2. save'.batch \in Seq(Drafts)
        BY <4>1 DEF Batch, BatchOf, Saves
      <4> DEFINE b == save'.batch
      <4>3. \A d \in PendingRows : \E k \in 1..Len(b) : b[k] = d
        BY <3>3 DEF Begun
      <4>4. b \in Seq(Drafts)
        BY <4>2
      <4> HIDE DEF b
      <4>5. DOMAIN b = 1..Len(b)
        BY <4>4
      <4>6. PendingRows \subseteq ToSet(b)
        BY <4>3, <4>5 DEF ToSet
      <4> QED BY <2>0, <4>6 DEF b
    <3>4. ASSUME NEW N, Saving(N), CarriedOut(N) PROVE PendingRows' \subseteq ToSet(save'.batch)
      <4>1. saving /\ save'.batch = save.batch
        BY <3>4, CarriedOutSave
      <4> QED BY <1>0, <2>0, <4>1
    <3>5. ASSUME NEW N, Saving(N), SaveGoesOn PROVE PendingRows' \subseteq ToSet(save'.batch)
      <4>1. saving /\ save'.batch = save.batch
        BY <3>5, GoesOnSave
      <4> QED BY <1>0, <2>0, <4>1
    <3> QED BY <3>1, <3>2, <3>3, <3>4, <3>5, SaveOf
  <2>2. ASSUME NEW t \in Slots, calls'[t] # None, calls'[t].why # "discard"
        PROVE  PendingRows \subseteq ToSet(calls'[t].batch)
    <3>1. CASE calls' = calls
      BY <1>0, <2>2, <3>1
    <3>2. ASSUME NEW s \in Slots, NEW why \in {"open", "run", "page", "discard", "save"}, NEW b \in Seq(Drafts),
                 Queried(s, why, b), page' \in Nat \ {0},
                 \/ why # "discard" /\ PendingRows # {} => May("dirtyRun")
                 \/ SaveGoesOn /\ why = "save" /\ b = save.batch
          PROVE  PendingRows \subseteq ToSet(calls'[t].batch)
      <4>1. /\ calls'[s].why = why /\ calls'[s].batch = b
            /\ \A u \in Slots : u # s => calls'[u] = calls[u]
        BY <3>2, QueriedIs
      <4>2. why # "discard" => PendingRows \subseteq ToSet(b)
        <5>1. SaveGoesOn => saving
          BY DEF SaveGoesOn
        <5> QED BY <1>0, <3>2, <5>1
      <4>3. CASE t = s
        BY <2>2, <4>1, <4>2, <4>3
      <4>4. CASE t # s
        BY <1>0, <2>2, <4>1, <4>4
      <4> QED BY <4>3, <4>4
    <3>3. ASSUME NEW s \in Slots, Answered(s) PROVE PendingRows \subseteq ToSet(calls'[t].batch)
      <4>1. /\ calls[s] # None /\ \A u \in Slots : u # s => calls'[u] = calls[u]
            /\ calls'[s].why = calls[s].why /\ calls'[s].batch = calls[s].batch
        BY <3>3, AnsweredCalls
      <4>2. calls[t] # None /\ calls'[t].why = calls[t].why /\ calls'[t].batch = calls[t].batch
        BY <2>2, <4>1
      <4> QED BY <1>0, <2>2, <4>2
    <3>4. ASSUME NEW s \in Slots, Filled(s) PROVE FALSE
      <4>1. \A u \in Slots : calls'[u] = None
        <5>1. calls[s] # None /\ calls' = [calls EXCEPT ![s] = None]
          BY <3>4 DEF Filled
        <5> QED BY <1>0, <5>1 DEF Alone
      <4> QED BY <2>2, <4>1
    <3> QED BY <3>1, <3>2, <3>3, <3>4, CallsOf
  <2> QED BY <2>0, <2>1, <2>2 DEF Held
<1> QED BY <1>1, <1>2, RowsOf

\* Which draft of the batch a write of the save is for.
LEMMA WrittenFor ==
  ASSUME NEW N, Saving(N), NEW k \in 1..Len(save.writes)
  PROVE  /\ save.batch[k] \in ToSet(save.batch) /\ WroteOf(save.batch[k], save.writes[k])
         /\ save.writes[k].state = save.batch[k].state /\ save.writes[k].id = save.batch[k].id
         /\ save.writes[k].uid = save.batch[k].uid
         /\ save.writes[k].state # "new" => save.writes[k].id \in 1..nextId - 1
<1>1. Batch(save, N)
  BY DEF Saving
<1>2. save.batch \in Seq(Drafts) /\ Len(save.batch) = Len(save.writes)
  BY <1>1, BatchIs
<1>3. k \in DOMAIN save.batch
  BY <1>2
<1>4. save.batch[k] \in ToSet(save.batch)
  BY <1>3 DEF ToSet
<1>5. WroteOf(save.batch[k], save.writes[k]) /\ (save.writes[k].state # "new" => save.writes[k].id \in 1..nextId - 1)
  BY <1>1 DEF Batch, BatchOf
<1> QED BY <1>4, <1>5 DEF WroteOf

LEMMA UnwrittenBegun ==
  ASSUME DocumentAssumption, Sound, Alone, Truth, Begun, docs' = docs PROVE Unwritten'
<1> SUFFICES ASSUME astray # "here", NEW k \in 1..Len(save'.writes),
                    save'.batch[k].state = "modified", save'.batch[k].id \in DOMAIN docs
             PROVE  docs[save'.batch[k].id].doc = save'.batch[k].orig
  <2>1. Upto' = 0 /\ astray' = astray
    BY DEF Begun, Upto
  <2> QED BY <2>1 DEF Unwritten
<1>1. Idle
  BY DEF Begun, Alone, Idle
<1>2. PICK N : Batch(save', N)
  BY DEF Begun
<1>3. Len(save'.batch) = Len(save'.writes)
  BY <1>2 DEF Batch, BatchOf
<1>4. PICK i \in DOMAIN rows : save'.batch[k] = rows[i]
  BY <1>3 DEF Begun
<1>5. rows[i].orig # None
  BY <1>4 DEF Sound, Grid, Fits, NewIsNew
<1> QED BY <1>1, <1>4, <1>5 DEF Truth, Here

LEMMA UnwrittenCarriedOut ==
  ASSUME DocumentAssumption, Sound, NEW N, Saving(N), CarriedOut(N), Unwritten PROVE Unwritten'
<1>1. PICK t : Request1(t, Sent, N) /\ docs' = t.docs
  BY DEF CarriedOut
<1>2. /\ saving /\ saving' /\ save'.writes = save.writes /\ save'.batch = save.batch /\ Upto = save.done /\ Upto' = Sent
      /\ save.done \in Nat /\ Sent \in Nat /\ save.done < Sent /\ Sent <= Len(save.writes) /\ Len(save.writes) \in Nat
  BY CarriedOutSave
<1>3. astray' = astray
  BY DEF CarriedOut
<1>4. Changed(t, Sent) /\ Came(t, Sent)
  BY <1>1 DEF Request1
<1> SUFFICES ASSUME astray # "here", NEW k \in Sent + 1..Len(save.writes),
                    save.batch[k].state = "modified", save.batch[k].id \in DOMAIN t.docs
             PROVE  t.docs[save.batch[k].id].doc = save.batch[k].orig
  BY <1>1, <1>2, <1>3 DEF Unwritten
<1>5. k \in 1..Len(save.writes) /\ k \in save.done + 1..Len(save.writes) /\ k \notin save.done + 1..Sent
  BY <1>2
<1> DEFINE id == save.batch[k].id
<1>6. save.writes[k].state = "modified" /\ save.writes[k].id = id /\ id \in 1..nextId - 1
  BY <1>5, WrittenFor
<1>7. \A k1, l \in 1..Len(save.writes) :
        save.writes[k1].state # "new" /\ save.writes[l].state # "new" /\ save.writes[k1].id = save.writes[l].id => k1 = l
  BY DEF Saving, Batch, BatchOf
<1>8. ASSUME NEW j \in save.done + 1..Sent, save.writes[j].state = "modified", save.writes[j].id = id PROVE FALSE
  <2>1. j \in 1..Len(save.writes)
    BY <1>2
  <2> QED BY <1>5, <1>6, <1>7, <1>8, <2>1
<1> HIDE DEF id
<1>9. nextId \in Nat /\ ~(id >= nextId)
  <2>1. nextId \in 1..MaxId + 1 /\ MaxId \in Nat
    BY DocumentIs DEF Sound, Collection
  <2> QED BY <1>6, <2>1
<1>10. id \in DOMAIN docs
  BY <1>4, <1>8, <1>9 DEF Came, id
<1>11. t.docs[id].doc = docs[id].doc
  BY <1>4, <1>8, <1>10 DEF Changed, id
<1>12. docs[id].doc = save.batch[k].orig
  BY <1>2, <1>5, <1>10 DEF Unwritten, id
<1> QED BY <1>11, <1>12 DEF id

LEMMA UnwrittenStep ==
  ASSUME DocumentAssumption, Sound, Step, Alone, Truth, Unwritten PROVE Unwritten'
<1>1. CASE save' = save /\ Upto' = Upto /\ docs' = docs
  <2>1. saving' => (astray' # "here" => astray # "here")
    <3>1. ASSUME NEW s \in Slots, Filled(s), saving' PROVE FALSE
      <4>1. calls[s] # None /\ save' = IF calls[s].why = "save" THEN None ELSE save
        BY <3>1 DEF Filled
      <4> QED BY <1>1, <3>1, <4>1 DEF Alone, IsSave, saving
    <3> QED BY <3>1 DEF Step, Edited, Others, Typed, Asked, Begun, CarriedOut, Answered, SaveEnds, SaveGoesOn, vars
  <2> QED BY <1>1, <2>1 DEF Unwritten, saving
<1>2. CASE save' = None
  BY <1>2 DEF Unwritten, saving
<1>3. CASE Begun /\ docs' = docs
  BY <1>3, UnwrittenBegun
<1>4. ASSUME NEW N, Saving(N), CarriedOut(N) PROVE Unwritten'
  BY <1>4, UnwrittenCarriedOut
<1>5. ASSUME NEW N, Saving(N), SaveGoesOn, docs' = docs PROVE Unwritten'
  <2>1. saving /\ save'.writes = save.writes /\ save'.batch = save.batch /\ Upto' = Upto /\ astray' = astray
    BY <1>5, GoesOnSave DEF SaveGoesOn
  <2> QED BY <1>5, <2>1 DEF Unwritten
<1> QED BY <1>1, <1>2, <1>3, <1>4, <1>5, SaveOf


LEMMA HeldSurvives == ASSUME Held PROVE EditsSurvive
<1> SUFFICES ASSUME NEW s \in Slots, calls[s] # None, calls'[s] = None, calls[s].why # "discard"
             PROVE  PendingRows \subseteq ToSet(calls[s].batch)
  BY DEF EditsSurvive
<1> QED BY DEF Held

LEMMA OnlyEditsStep ==
  ASSUME DocumentAssumption, Sound, NEW N, Saving(N), CarriedOut(N), Unwritten PROVE OnlyEdits
<1>1. PICK t : Request1(t, Sent, N) /\ docs' = t.docs
  BY DEF CarriedOut
<1>2. /\ saving /\ Upto = save.done
      /\ save.done \in Nat /\ Sent \in Nat /\ save.done < Sent /\ Sent <= Len(save.writes) /\ Len(save.writes) \in Nat
  BY CarriedOutSave
<1>3. Removed(t, Sent) /\ Came(t, Sent) /\ Changed(t, Sent)
  BY <1>1 DEF Request1
<1>4. \A j \in save.done + 1..Sent : j \in 1..Len(save.writes) /\ j \in Upto + 1..Len(save.writes)
  BY <1>2
<1>5. ASSUME NEW id \in DOMAIN docs \ DOMAIN t.docs
      PROVE  \E d \in ToSet(save.batch) : d.id = id /\ d.state = "deleted"
  <2>1. PICK j \in save.done + 1..Sent : save.writes[j].state = "deleted" /\ save.writes[j].id = id
    BY <1>3, <1>5 DEF Removed
  <2>2. j \in 1..Len(save.writes)
    BY <1>4
  <2>3. save.batch[j] \in ToSet(save.batch) /\ save.batch[j].state = "deleted" /\ save.batch[j].id = id
    BY <2>1, <2>2, WrittenFor
  <2> QED BY <2>3
<1>6. ASSUME NEW id \in DOMAIN t.docs \ DOMAIN docs
      PROVE  \E d \in ToSet(save.batch) :
               \/ d.state = "new" /\ d.uid = t.docs[id].by
               \/ kind = "elasticsearch" /\ d.state = "modified" /\ d.id = id
  <2>1. PICK j \in save.done + 1..Sent :
          \/ save.writes[j].state = "new" /\ t.docs[id].by = save.writes[j].uid
          \/ kind = "elasticsearch" /\ save.writes[j].state = "modified" /\ save.writes[j].id = id
    BY <1>3, <1>6 DEF Came
  <2>2. j \in 1..Len(save.writes)
    BY <1>4
  <2>3. /\ save.batch[j] \in ToSet(save.batch) /\ save.batch[j].state = save.writes[j].state
        /\ save.batch[j].id = save.writes[j].id /\ save.batch[j].uid = save.writes[j].uid
    BY <2>2, WrittenFor
  <2> QED BY <2>1, <2>3
<1>7. ASSUME NEW id \in DOMAIN docs \cap DOMAIN t.docs, NEW f \in Fields, t.docs[id].doc[f] # docs[id].doc[f]
      PROVE  \/ docs[id].doc[f] = Absent /\ t.docs[id].doc[f] = Null
             \/ \E d \in ToSet(save.batch) :
                  /\ d.id = id /\ d.state = "modified"
                  /\ \/ EditedIn(d, f)
                     \/ /\ astray = "here"
                        /\ \/ t.docs[id].doc[f] = d.orig[f]
                           \/ d.orig[f] = Absent /\ t.docs[id].doc[f] = Null
  <2>1. PICK j \in save.done + 1..Sent : /\ save.writes[j].state = "modified" /\ save.writes[j].id = id
                                         /\ t.docs[id].doc = save.writes[j].doc
    BY <1>3, <1>7 DEF Changed
  <2>2. j \in 1..Len(save.writes) /\ j \in Upto + 1..Len(save.writes)
    BY <1>4
  <2> DEFINE d == save.batch[j]
  <2>3. /\ d \in ToSet(save.batch) /\ d.state = "modified" /\ d.id = id /\ WroteOf(d, save.writes[j])
    BY <2>1, <2>2, WrittenFor
  <2>4. save.writes[j].doc[f] = d.orig[f] \/ EditedIn(d, f) \/ (d.orig[f] = Absent /\ save.writes[j].doc[f] = Null)
    BY <2>3 DEF WroteOf
  <2>5. astray # "here" => docs[id].doc = d.orig
    BY <1>2, <1>7, <2>2, <2>3 DEF Unwritten
  <2> HIDE DEF d
  <2>6. CASE astray = "here"
    BY <2>1, <2>3, <2>4, <2>6
  <2>7. CASE astray # "here"
    BY <1>7, <2>1, <2>3, <2>4, <2>5, <2>7
  <2> QED BY <2>6, <2>7
<1> QED BY <1>1, <1>5, <1>6, <1>7 DEF OnlyEdits

LEMMA NothingWritten == ASSUME docs' = docs PROVE OnlyEdits
BY DEF OnlyEdits

LEMMA HeldInit == ASSUME DocumentAssumption, Init PROVE Held /\ Unwritten
<1>1. PendingRows = {} /\ ~saving
  BY DEF Init, PendingRows, saving
<1> QED BY <1>1 DEF Held, Unwritten

(* When nobody submits a query or edits while the page is busy, runs a     *)
(* query over unsaved edits or reads only some fields, no edit is lost and *)
(* none is made up: an answer takes with it only drafts that were saved or *)
(* discarded, and a save changes a document only where the user did, but   *)
(* for what an earlier save that failed had changed.                       *)
THEOREM NoEditIsLost ==
  ASSUME {"overlap", "editWhileBusy", "dirtyRun", "projection"} \cap Features = {}
  PROVE  Spec => EditsAreKept
<1>0. ~May("overlap") /\ ~May("editWhileBusy") /\ ~May("dirtyRun") /\ ~May("projection")
  BY DEF May
<1>1. Init => Quiet
  BY <1>0, SoundInit, AloneInit, HeldInit, DocumentAssumption DEF Quiet
<1>2. Quiet /\ [Next]_vars => Quiet' /\ EditsSurvive /\ OnlyEdits
  <2> SUFFICES ASSUME Quiet, [Next]_vars PROVE Quiet' /\ EditsSurvive /\ OnlyEdits
    OBVIOUS
  <2>0. Sound /\ Alone /\ Asking /\ Truth /\ Held /\ Unwritten
    BY DEF Quiet
  <2>1. Sound' /\ Step
    BY <2>0, SoundStep, DocumentAssumption
  <2>2. Alone' /\ Asking' /\ Truth' /\ Held' /\ Unwritten'
    BY <1>0, <2>0, <2>1, AloneStep, AskingStep, TruthStep, HeldStep, UnwrittenStep, DocumentAssumption
  <2>3. EditsSurvive
    BY <2>0, HeldSurvives
  <2>4. (\E N : Saving(N) /\ CarriedOut(N)) \/ docs' = docs
    BY <2>0, <2>1, Grows, DocumentAssumption
  <2>5. OnlyEdits
    BY <2>0, <2>4, OnlyEditsStep, NothingWritten, DocumentAssumption
  <2> QED BY <2>1, <2>2, <2>3, <2>5 DEF Quiet
<1>3. Quiet /\ [Next]_vars => [EditsSurvive /\ OnlyEdits]_vars
  BY <1>2
<1> QED BY <1>1, <1>2, <1>3, PTL DEF Spec, EditsAreKept

=============================================================================
