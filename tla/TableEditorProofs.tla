-------------------------- MODULE TableEditorProofs --------------------------
(***************************************************************************)
(* Proofs about TableEditor, for every table, page size and number of      *)
(* requests: the types, that a row the user added is inserted at most      *)
(* once, that the page shows what it says, that "Everything saved" is      *)
(* true, and that no edit is lost between the grid and the table.          *)
(*                                                                         *)
(* saveTableChanges runs the statements of a batch one after the other.    *)
(* What it does is proved by induction on their number: InductionTo, from  *)
(* the least number that would be a counterexample.                        *)
(***************************************************************************)
EXTENDS TableEditor, PositionsProofs

-----------------------------------------------------------------------------
(* A batch as a sequence of steps.                                         *)
\* The transaction after each of its statements, as saveTableChanges runs them.
Steps(b) ==
  CHOOSE tx : tx = [k \in 0..Len(b) |-> IF k = 0 THEN Tx(db, nextId) ELSE Run(tx[k - 1], b[k])]

\* The recursion of saveTableChanges defines a function.
LEMMA StepsExist ==
  ASSUME NEW b, Len(b) \in Nat
  PROVE  \E tx : tx = [k \in 0..Len(b) |-> IF k = 0 THEN Tx(db, nextId) ELSE Run(tx[k - 1], b[k])]
<1> DEFINE Upto(m) == \E tx : tx = [k \in 0..m |-> IF k = 0 THEN Tx(db, nextId) ELSE Run(tx[k - 1], b[k])]
           S == {m \in 0..Len(b) : Upto(m)}
<1>1. 0 \in S
  <2>1. Upto(0)
    <3> DEFINE f == [k \in 0..0 |-> Tx(db, nextId)]
    <3>1. f = [k \in 0..0 |-> IF k = 0 THEN Tx(db, nextId) ELSE Run(f[k - 1], b[k])]
      OBVIOUS
    <3> QED BY <3>1
  <2> QED BY <2>1
<1>2. ASSUME NEW m \in 1..Len(b), m - 1 \in S
      PROVE  m \in S
  <2>1. PICK f : f = [k \in 0..m - 1 |-> IF k = 0 THEN Tx(db, nextId) ELSE Run(f[k - 1], b[k])]
    BY <1>2
  <2> DEFINE g == [k \in 0..m |-> IF k = m THEN Run(f[m - 1], b[m]) ELSE f[k]]
  <2>2. \A k \in 0..m : g[k] = IF k = 0 THEN Tx(db, nextId) ELSE Run(g[k - 1], b[k])
    <3> TAKE k \in 0..m
    <3>1. CASE k = 0
      <4>1. g[0] = f[0] /\ f[0] = Tx(db, nextId)
        BY <2>1
      <4> QED BY <3>1, <4>1
    <3>2. CASE k = m
      <4>1. g[m - 1] = f[m - 1] /\ g[m] = Run(f[m - 1], b[m])
        OBVIOUS
      <4> QED BY <3>2, <4>1
    <3>3. CASE k # 0 /\ k # m
      <4>1. k \in 0..m - 1 /\ k - 1 \in 0..m /\ k - 1 # m
        BY <3>3
      <4>2. g[k - 1] = f[k - 1] /\ g[k] = f[k]
        BY <4>1
      <4>3. f[k] = Run(f[k - 1], b[k])
        BY <4>1, <3>3, <2>1
      <4> QED BY <3>3, <4>2, <4>3
    <3> QED BY <3>1, <3>2, <3>3
  <2>3. g = [k \in 0..m |-> IF k = 0 THEN Tx(db, nextId) ELSE Run(g[k - 1], b[k])]
    <3> DEFINE h == [k \in 0..m |-> IF k = 0 THEN Tx(db, nextId) ELSE Run(g[k - 1], b[k])]
    <3>1. \A k \in 0..m : h[k] = g[k]
      BY <2>2
    <3>2. DOMAIN g = 0..m /\ DOMAIN h = 0..m /\ g = [k \in 0..m |-> g[k]] /\ h = [k \in 0..m |-> h[k]]
      OBVIOUS
    <3> HIDE DEF g, h
    <3>3. g = h
      BY <3>1, <3>2
    <3> QED BY <3>3 DEF h
  <2>4. Upto(m)
    BY <2>3
  <2> QED BY <2>4
<1>3. S = 0..Len(b)
  <2> HIDE DEF S
  <2>1. S \in SUBSET (0..Len(b))
    BY DEF S
  <2> QED BY <1>1, <1>2, <2>1, InductionTo
<1>4. Upto(Len(b))
  BY <1>3
<1> QED BY <1>4

\* The transaction starts with the table and each statement changes what the last one left.
LEMMA StepsAre ==
  ASSUME NEW b, Len(b) \in Nat
  PROVE  /\ Steps(b)[0] = Tx(db, nextId)
         /\ \A k \in 1..Len(b) : Steps(b)[k] = Run(Steps(b)[k - 1], b[k])
<1> DEFINE tx == Steps(b)
<1>1. tx = [k \in 0..Len(b) |-> IF k = 0 THEN Tx(db, nextId) ELSE Run(tx[k - 1], b[k])]
  BY StepsExist, Zenon DEF Steps
<1> HIDE DEF tx
<1>2. tx[0] = Tx(db, nextId)
  BY <1>1
<1>3. \A k \in 1..Len(b) : tx[k] = Run(tx[k - 1], b[k])
  <2> TAKE k \in 1..Len(b)
  <2>1. k \in 0..Len(b) /\ k # 0
    OBVIOUS
  <2> QED BY <1>1, <2>1, Zenon
<1> QED BY <1>2, <1>3 DEF tx

\* saveTableChanges is the last of these steps.
LEMMA SaveIs ==
  ASSUME NEW batch
  PROVE  saveTableChanges(batch) = Steps(Ordered(batch))[Len(Ordered(batch))]
BY Zenon DEF saveTableChanges, Steps

-----------------------------------------------------------------------------
(* The statements of a batch, and what one of them does.                   *)
\* A draft is new when it was not read from the table.
NewIsNew(d) == (d.orig = None) = (d.state = "new")
\* A batch: pending drafts.
Changed(batch) ==
  batch \in Seq(Drafts) /\ \A i \in DOMAIN batch : NewIsNew(batch[i]) /\ Pending(batch[i])

\* The statements b of a batch are its drafts, each once, the N new ones first.
Arranged(batch, b, N) ==
  /\ b \in Seq(Drafts) /\ N \in 0..Len(b) /\ Len(b) \in Nat
  /\ DOMAIN b = 1..Len(b)
  /\ \A k \in 1..Len(b) : NewIsNew(b[k]) /\ Pending(b[k]) /\ (b[k].state = "new") = (k <= N)
  /\ \E pos \in [1..Len(b) -> DOMAIN batch] :
       /\ \A k \in 1..Len(b) : b[k] = batch[pos[k]]
       /\ \A k, l \in 1..Len(b) : pos[k] = pos[l] => k = l
       /\ \A i \in DOMAIN batch : \E k \in 1..Len(b) : pos[k] = i

\* Inserts first, then updates, then deletes: each draft of the batch once.
LEMMA OrderedIs ==
  ASSUME NEW batch, Changed(batch)
  PROVE  Arranged(batch, Ordered(batch), Len(Of(batch, "new")))
<1> DEFINE A == {i \in DOMAIN batch : batch[i].state = "new"}
           B == {i \in DOMAIN batch : batch[i].state = "modified"}
           C == {i \in DOMAIN batch : batch[i].state = "deleted"}
           b == Parts(batch, A, B, C)
           x == Cardinality(A)
<1>1. batch \in Seq(Drafts) /\ \A i \in DOMAIN batch : NewIsNew(batch[i]) /\ Pending(batch[i])
  BY DEF Changed
<1>2. A \in SUBSET DOMAIN batch /\ B \in SUBSET DOMAIN batch /\ C \in SUBSET DOMAIN batch
  OBVIOUS
<1>3. DOMAIN batch = A \cup B \cup C
  <2> SUFFICES ASSUME NEW i \in DOMAIN batch PROVE i \in A \cup B \cup C
    OBVIOUS
  <2>1. batch[i] \in Drafts /\ batch[i].state # "clean"
    BY <1>1 DEF Pending
  <2>2. batch[i].state \in {"clean", "modified", "new", "deleted"}
    BY <2>1 DEF Drafts
  <2> QED BY <2>1, <2>2
<1>4. A \cap B = {} /\ A \cap C = {} /\ B \cap C = {} /\ \A i \in DOMAIN batch : i \in A <=> batch[i].state = "new"
  OBVIOUS
<1>5. Ordered(batch) = b /\ Of(batch, "new") = At(batch, A)
  BY DEF Ordered, Of, Parts
<1> HIDE DEF A, B, C
<1>6. /\ x \in Nat /\ Len(At(batch, A)) = x /\ b \in Seq(Drafts)
      /\ Cardinality(B) \in Nat /\ Cardinality(C) \in Nat
      /\ Len(b) = x + Cardinality(B) + Cardinality(C)
      /\ \E pos : Lists(b, batch, A, B, C, pos)
  <2> HIDE DEF b, x
  <2>2. batch \in Seq(Drafts) /\ A \cap B = {} /\ A \cap C = {} /\ B \cap C = {}
    BY <1>1, <1>4
  <2>3. /\ Cardinality(A) \in Nat /\ Cardinality(B) \in Nat /\ Cardinality(C) \in Nat
        /\ Len(At(batch, A)) = Cardinality(A)
        /\ Parts(batch, A, B, C) \in Seq(Drafts)
        /\ Len(Parts(batch, A, B, C)) = Cardinality(A) + Cardinality(B) + Cardinality(C)
        /\ \E pos : Lists(Parts(batch, A, B, C), batch, A, B, C, pos)
    BY ONLY <1>2, <2>2, ThreeParts, Zenon
  <2> QED BY <2>3 DEF b, x
<1>7. PICK pos : Lists(b, batch, A, B, C, pos)
  BY <1>6
<1> HIDE DEF b, x
<1>8. /\ pos \in [1..Len(b) -> DOMAIN batch]
      /\ \A k \in 1..Len(b) : b[k] = batch[pos[k]]
      /\ \A k \in 1..Len(b) : (pos[k] \in A) = (k <= x)
      /\ \A k, l \in 1..Len(b) : pos[k] = pos[l] => k = l
      /\ \A i \in DOMAIN batch : \E k \in 1..Len(b) : pos[k] = i
  BY <1>7, <1>3 DEF Lists, x
<1>9. \A k \in 1..Len(b) : NewIsNew(b[k]) /\ Pending(b[k]) /\ (b[k].state = "new") = (k <= x)
  <2> TAKE k \in 1..Len(b)
  <2>1. pos[k] \in DOMAIN batch /\ b[k] = batch[pos[k]] /\ (pos[k] \in A) = (k <= x)
    BY <1>8
  <2> QED BY <2>1, <1>1, <1>4
<1>10. x \in 0..Len(b) /\ Len(b) \in Nat /\ DOMAIN b = 1..Len(b)
  BY <1>6
<1>11. Arranged(batch, b, x)
  BY <1>6, <1>8, <1>9, <1>10 DEF Arranged
<1> QED BY <1>5, <1>6, <1>11

\* A transaction under way.
Shape(t) == DOMAIN t = {"db", "next", "ok"} /\ t.ok \in BOOLEAN

\* What a statement that is not refused did to the table.
Ran(t, d, u) ==
  /\ u.ok => t.ok
  /\ u.ok /\ d.state = "new" =>
       /\ d.val \notin Refused /\ u.next = t.next + 1
       /\ u.db = [id \in DOMAIN t.db \cup {t.next} |->
                    IF id = t.next THEN [val |-> d.val, by |-> d.uid] ELSE t.db[id]]
  /\ u.ok /\ d.state = "modified" =>
       /\ d.val \notin Refused /\ u.next = t.next
       /\ u.db = [id \in DOMAIN t.db |->
                    IF id \in Matches(t, d) THEN [t.db[id] EXCEPT !.val = d.val] ELSE t.db[id]]
  /\ u.ok /\ d.state = "deleted" =>
       /\ u.next = t.next
       /\ u.db = [id \in DOMAIN t.db \ Matches(t, d) |-> t.db[id]]

\* What one statement does, by its kind.
LEMMA RunIs ==
  ASSUME NEW t, NEW d, Shape(t), d.state \in {"new", "modified", "deleted"}
  PROVE  Shape(Run(t, d)) /\ Ran(t, d, Run(t, d))
<1> DEFINE u == Run(t, d)
<1> SUFFICES Shape(u) /\ Ran(t, d, u)
  OBVIOUS
<1>1. CASE ~ t.ok
  <2>1. u = t
    BY <1>1 DEF Run
  <2>2. Shape(u) /\ ~ u.ok
    BY <2>1, <1>1
  <2> HIDE DEF u
  <2> QED BY <2>2 DEF Ran
<1>2. CASE t.ok /\ d.state # "deleted" /\ d.val \in Refused
  <2>1. u = [t EXCEPT !.ok = FALSE]
    BY <1>2 DEF Run
  <2>2. Shape(u) /\ ~ u.ok
    BY <2>1 DEF Shape
  <2> HIDE DEF u
  <2> QED BY <2>2, <1>2 DEF Ran
<1>3. CASE t.ok /\ d.state = "new" /\ d.val \notin Refused
  <2> DEFINE T == [id \in DOMAIN t.db \cup {t.next} |->
                     IF id = t.next THEN [val |-> d.val, by |-> d.uid] ELSE t.db[id]]
  <2>1. u = [t EXCEPT !.db = T, !.next = t.next + 1]
    BY <1>3 DEF Run
  <2>2. Shape(u) /\ u.db = T /\ u.next = t.next + 1
    <3> HIDE DEF T, u
    <3> QED BY <2>1 DEF Shape
  <2> HIDE DEF u
  <2> QED BY <2>2, <1>3 DEF Ran
<1>4. CASE t.ok /\ d.state = "modified" /\ d.val \notin Refused
  <2> DEFINE T == [id \in DOMAIN t.db |->
                           IF id \in Matches(t, d) THEN [t.db[id] EXCEPT !.val = d.val]
                           ELSE t.db[id]]
  <2>1. u = [t EXCEPT !.db = T]
    BY <1>4 DEF Run
  <2>2. Shape(u) /\ u.db = T /\ u.next = t.next
    <3> HIDE DEF T, u
    <3> QED BY <2>1 DEF Shape
  <2> HIDE DEF u
  <2> QED BY <2>2, <1>4 DEF Ran
<1>5. CASE t.ok /\ d.state = "deleted"
  <2> DEFINE T == [id \in DOMAIN t.db \ Matches(t, d) |-> t.db[id]]
  <2>1. u = [t EXCEPT !.db = T]
    BY <1>5 DEF Run
  <2>2. Shape(u) /\ u.db = T /\ u.next = t.next
    <3> HIDE DEF T, u
    <3> QED BY <2>1 DEF Shape
  <2> HIDE DEF u
  <2> QED BY <2>2, <1>5 DEF Ran
<1>6. t.ok \in BOOLEAN
  BY DEF Shape
<1> HIDE DEF u
<1> QED BY <1>1, <1>2, <1>3, <1>4, <1>5, <1>6

-----------------------------------------------------------------------------
(* Which keys a batch hands out, and who inserted which row.               *)
TableRows == [val : Values \ Refused, by : 0..MaxDrafts]
\* The table: its rows, and keys among those handed out.
TableOK ==
  /\ nextId \in Nat \ {0} /\ db \in [DOMAIN db -> TableRows]
  /\ DOMAIN db \subseteq 1..nextId - 1

Inserted(N, k) == IF k <= N THEN k ELSE N

\* After k of the statements b, the first N of which insert: the keys handed
\* out so far, and by which draft each row was inserted.
Kept(t, b, N, k) ==
  /\ Shape(t)
  /\ t.ok =>
       /\ t.next = nextId + Inserted(N, k)
       /\ t.db \in [DOMAIN t.db -> TableRows]
       /\ DOMAIN t.db \subseteq 1..t.next - 1
       /\ \A id \in DOMAIN t.db : id < nextId => id \in DOMAIN db /\ t.db[id].by = db[id].by
       /\ \A id \in DOMAIN t.db : id >= nextId => t.db[id].by = b[id - nextId + 1].uid

\* A statement hands out the next key or none, and leaves who inserted a row alone.
LEMMA KeptStep ==
  ASSUME EditorAssumption, TableOK, NEW b \in Seq(Drafts), NEW N \in 0..Len(b), NEW k \in 1..Len(b),
         \A i \in 1..Len(b) : Pending(b[i]) /\ (b[i].state = "new") = (i <= N),
         NEW t, Kept(t, b, N, k - 1)
  PROVE  Kept(Run(t, b[k]), b, N, k)
<1> DEFINE d == b[k]
           u == Run(t, d)
<1>1. d \in Drafts /\ d.state \in {"new", "modified", "deleted"} /\ d.val \in Values
      /\ d.uid \in 0..MaxDrafts /\ (d.state = "new") = (k <= N)
  <2>1. d \in Drafts /\ Pending(d) /\ (d.state = "new") = (k <= N)
    OBVIOUS
  <2> HIDE DEF d
  <2> QED BY <2>1 DEF Drafts, Pending
<1>2. Shape(t)
  BY DEF Kept
<1>3. Shape(u) /\ Ran(t, d, u)
  <2> HIDE DEF d
  <2> QED BY <1>1, <1>2, RunIs
<1> HIDE DEF u
<1> SUFFICES ASSUME u.ok
             PROVE  /\ u.next = nextId + Inserted(N, k)
                    /\ u.db \in [DOMAIN u.db -> TableRows]
                    /\ DOMAIN u.db \subseteq 1..u.next - 1
                    /\ \A id \in DOMAIN u.db : id < nextId => id \in DOMAIN db /\ u.db[id].by = db[id].by
                    /\ \A id \in DOMAIN u.db : id >= nextId => u.db[id].by = b[id - nextId + 1].uid
  BY <1>3 DEF Kept, u
<1>4. /\ t.ok
      /\ d.state = "new" =>
              /\ d.val \notin Refused /\ u.next = t.next + 1
              /\ u.db = [id \in DOMAIN t.db \cup {t.next} |->
                           IF id = t.next THEN [val |-> d.val, by |-> d.uid] ELSE t.db[id]]
      /\ d.state = "modified" =>
              /\ d.val \notin Refused /\ u.next = t.next
              /\ u.db = [id \in DOMAIN t.db |->
                           IF id \in Matches(t, d) THEN [t.db[id] EXCEPT !.val = d.val]
                           ELSE t.db[id]]
      /\ d.state = "deleted" =>
              /\ u.next = t.next
              /\ u.db = [id \in DOMAIN t.db \ Matches(t, d) |-> t.db[id]]
  <2> HIDE DEF d
  <2> QED BY <1>3 DEF Ran
<1>5. /\ t.next = nextId + Inserted(N, k - 1)
      /\ t.db \in [DOMAIN t.db -> TableRows]
      /\ DOMAIN t.db \subseteq 1..t.next - 1
      /\ \A id \in DOMAIN t.db : id < nextId => id \in DOMAIN db /\ t.db[id].by = db[id].by
      /\ \A id \in DOMAIN t.db : id >= nextId => t.db[id].by = b[id - nextId + 1].uid
  BY <1>4 DEF Kept
<1>6. nextId \in Nat \ {0} /\ N \in Nat /\ k \in Nat \ {0} /\ t.next \in Nat \ {0} /\ t.next >= nextId
  <2>1. Len(b) \in Nat /\ nextId \in Nat \ {0}
    BY DEF TableOK
  <2>2. N \in Nat /\ k \in Nat \ {0} /\ Inserted(N, k - 1) \in Nat
    BY <2>1 DEF Inserted
  <2> QED BY <2>1, <2>2, <1>5
<1>a. /\ k <= N => Inserted(N, k) = k /\ Inserted(N, k - 1) = k - 1
      /\ ~ (k <= N) => Inserted(N, k) = Inserted(N, k - 1)
      /\ Inserted(N, k) \in Nat /\ Inserted(N, k - 1) \in Nat
  BY <1>6 DEF Inserted
<1>b. b[k] = d
  OBVIOUS
<1> HIDE DEF d
<1>7. CASE d.state = "new"
  <2>1. k <= N /\ t.next = nextId + k - 1 /\ u.next = nextId + k
    BY <1>7, <1>1, <1>4, <1>5, <1>6, <1>a, SMTT(30)
  <2>2. u.db = [id \in DOMAIN t.db \cup {t.next} |->
                           IF id = t.next THEN [val |-> d.val, by |-> d.uid] ELSE t.db[id]]
    BY <1>7, <1>4
  <2>3. [val |-> d.val, by |-> d.uid] \in TableRows
    BY <1>7, <1>1, <1>4 DEF TableRows
  <2>4. DOMAIN u.db = DOMAIN t.db \cup {t.next}
    BY <2>2
  <2>5. u.db[t.next] = [val |-> d.val, by |-> d.uid]
    BY <2>2
  <2>6. \A id \in DOMAIN t.db : id # t.next /\ u.db[id] = t.db[id] /\ id \in Nat
    BY <2>2, <1>5, <1>6
  <2>7. u.db \in [DOMAIN u.db -> TableRows]
    BY <2>2, <2>3, <1>5
  <2>8. DOMAIN u.db \subseteq 1..u.next - 1
    BY <2>1, <2>4, <1>5, <1>6
  <2>9. u.db[t.next].by = b[t.next - nextId + 1].uid
    <3>1. t.next - nextId + 1 = k
      BY <2>1, <1>6
    <3>2. u.db[t.next].by = d.uid
      BY <2>5
    <3> QED BY <3>1, <3>2, <1>b
  <2>10. \A id \in DOMAIN u.db : id < nextId => id \in DOMAIN db /\ u.db[id].by = db[id].by
    BY <2>1, <2>4, <2>6, <1>5, <1>6
  <2>11. \A id \in DOMAIN u.db : id >= nextId => u.db[id].by = b[id - nextId + 1].uid
    BY <2>4, <2>6, <2>9, <1>5
  <2>12. u.next = nextId + Inserted(N, k)
    BY <2>1, <1>a
  <2> QED BY <2>7, <2>8, <2>10, <2>11, <2>12
<1>8. CASE d.state = "modified"
  <2>1. ~ (k <= N) /\ u.next = t.next /\ u.next = nextId + Inserted(N, k)
    BY <1>8, <1>1, <1>4, <1>5, <1>6, <1>a
  <2>2. u.db = [id \in DOMAIN t.db |->
                           IF id \in Matches(t, d) THEN [t.db[id] EXCEPT !.val = d.val]
                           ELSE t.db[id]]
    BY <1>8, <1>4
  <2>3. \A id \in DOMAIN t.db : u.db[id] \in TableRows /\ u.db[id].by = t.db[id].by
    <3> TAKE id \in DOMAIN t.db
    <3>1. t.db[id] \in TableRows /\ d.val \in Values \ Refused
      BY <1>5, <1>1, <1>4, <1>8
    <3>2. [t.db[id] EXCEPT !.val = d.val] \in TableRows
          /\ [t.db[id] EXCEPT !.val = d.val].by = t.db[id].by
      BY <3>1 DEF TableRows
    <3> QED BY <2>2, <3>1, <3>2
  <2>4. DOMAIN u.db = DOMAIN t.db
    BY <2>2
  <2>5. u.db \in [DOMAIN u.db -> TableRows]
    <3> QED BY <2>2, <2>3, <2>4
  <2> QED BY <2>1, <2>3, <2>4, <2>5, <1>5
<1>9. CASE d.state = "deleted"
  <2>1. ~ (k <= N) /\ u.next = t.next /\ u.next = nextId + Inserted(N, k)
    BY <1>9, <1>1, <1>4, <1>5, <1>6, <1>a
  <2>2. u.db = [id \in DOMAIN t.db \ Matches(t, d) |-> t.db[id]]
    BY <1>9, <1>4
  <2>3. DOMAIN u.db \subseteq DOMAIN t.db /\ \A id \in DOMAIN u.db : u.db[id] = t.db[id]
    BY <2>2
  <2>4. u.db \in [DOMAIN u.db -> TableRows]
    BY <2>2, <1>5
  <2> QED BY <2>1, <2>3, <2>4, <1>5
<1> QED BY <1>1, <1>7, <1>8, <1>9

\* So do any number of them.
LEMMA KeptAll ==
  ASSUME EditorAssumption, TableOK, NEW b \in Seq(Drafts), NEW N \in 0..Len(b),
         \A i \in 1..Len(b) : Pending(b[i]) /\ (b[i].state = "new") = (i <= N)
  PROVE  \A k \in 0..Len(b) : Kept(Steps(b)[k], b, N, k)
<1> DEFINE S == {k \in 0..Len(b) : Kept(Steps(b)[k], b, N, k)}
<1>1. Len(b) \in Nat
  OBVIOUS
<1>2. 0 \in S
  <2>1. Steps(b)[0] = [db |-> db, next |-> nextId, ok |-> TRUE]
    BY <1>1, StepsAre DEF Tx
  <2> DEFINE t == Steps(b)[0]
  <2>2. Shape(t) /\ t.db = db /\ t.next = nextId
    BY <2>1 DEF Shape
  <2>3. Inserted(N, 0) = 0
    BY DEF Inserted
  <2> HIDE DEF t
  <2>4. Kept(t, b, N, 0)
    BY <2>2, <2>3 DEF Kept, TableOK
  <2> QED BY <2>4, <1>1 DEF t
<1>3. ASSUME NEW k \in 1..Len(b), k - 1 \in S
      PROVE  k \in S
  <2>1. Kept(Steps(b)[k - 1], b, N, k - 1)
    BY <1>3
  <2>2. Kept(Run(Steps(b)[k - 1], b[k]), b, N, k)
    BY <2>1, KeptStep
  <2>3. Steps(b)[k] = Run(Steps(b)[k - 1], b[k])
    BY <1>1, StepsAre
  <2> QED BY <2>2, <2>3
<1>4. S \in SUBSET (0..Len(b))
  OBVIOUS
<1>5. S = 0..Len(b)
  <2> HIDE DEF S
  <2> QED BY <1>1, <1>2, <1>3, <1>4, InductionTo
<1> QED BY <1>5

-----------------------------------------------------------------------------
(* With a primary key a batch does each edit to its own row.               *)
\* After k of the statements b the edits of those are done to the rows they
\* are about, and to no other.
Did(t, b, k) ==
  t.ok =>
    /\ \A i \in 1..k : b[i].state = "new" =>
         /\ nextId + i - 1 \in DOMAIN t.db
         /\ t.db[nextId + i - 1] = [val |-> b[i].val, by |-> b[i].uid]
    /\ \A i \in 1..k : b[i].state = "modified" =>
         b[i].id \in DOMAIN t.db /\ t.db[b[i].id].val = b[i].val
    /\ \A i \in 1..k : b[i].state = "deleted" => b[i].id \notin DOMAIN t.db
    /\ \A id \in DOMAIN db : (\A i \in 1..k : b[i].orig # None => b[i].id # id) =>
         id \in DOMAIN t.db /\ t.db[id] = db[id]

\* Each row of the table is there once.
OneEach(seq) ==
  \A i, j \in DOMAIN seq :
    seq[i].orig # None /\ seq[j].orig # None /\ seq[i].id = seq[j].id => i = j
\* Every draft read from the table is still in it.
InTable(seq) == \A i \in DOMAIN seq : seq[i].orig # None => seq[i].id \in DOMAIN db

\* A statement does its own edit and undoes none of those before it.
LEMMA DidStep ==
  ASSUME EditorAssumption, TableOK, Keyed, NEW b \in Seq(Drafts), NEW N \in 0..Len(b),
         NEW k \in 1..Len(b),
         \A i \in 1..Len(b) : NewIsNew(b[i]) /\ Pending(b[i]) /\ (b[i].state = "new") = (i <= N),
         OneEach(b), InTable(b),
         NEW t, Kept(t, b, N, k - 1), Did(t, b, k - 1)
  PROVE  Did(Run(t, b[k]), b, k)
<1> DEFINE d == b[k]
           u == Run(t, d)
<1>1. d.state \in {"new", "modified", "deleted"} /\ (d.state = "new") = (k <= N)
      /\ (d.orig = None) = (d.state = "new")
  <2>1. d \in Drafts /\ Pending(d) /\ (d.state = "new") = (k <= N) /\ NewIsNew(d)
    OBVIOUS
  <2> HIDE DEF d
  <2> QED BY <2>1 DEF Drafts, Pending, NewIsNew
<1>2. Shape(t)
  BY DEF Kept
<1>3. Ran(t, d, u)
  <2> HIDE DEF d
  <2> QED BY <1>1, <1>2, RunIs
<1>b. d = b[k] /\ DOMAIN b = 1..Len(b) /\ Len(b) \in Nat
  OBVIOUS
<1>c. Did(u, b, k) => Did(Run(t, b[k]), b, k)
  OBVIOUS
<1> HIDE DEF u, d
<1> SUFFICES ASSUME u.ok PROVE Did(u, b, k)
  BY <1>c DEF Did
<1>4. t.ok
  BY <1>3 DEF Ran
<1>5. /\ t.next = nextId + Inserted(N, k - 1)
      /\ DOMAIN t.db \subseteq 1..t.next - 1
  BY <1>4 DEF Kept
<1>6. nextId \in Nat \ {0} /\ N \in Nat /\ k \in Nat \ {0} /\ Inserted(N, k - 1) \in Nat
      /\ (k <= N => Inserted(N, k - 1) = k - 1)
  <2>1. Len(b) \in Nat /\ nextId \in Nat \ {0}
    BY DEF TableOK
  <2> QED BY <2>1 DEF Inserted
<1>7. /\ \A i \in 1..k - 1 : b[i].state = "new" =>
           /\ nextId + i - 1 \in DOMAIN t.db
           /\ t.db[nextId + i - 1] = [val |-> b[i].val, by |-> b[i].uid]
      /\ \A i \in 1..k - 1 : b[i].state = "modified" =>
           b[i].id \in DOMAIN t.db /\ t.db[b[i].id].val = b[i].val
      /\ \A i \in 1..k - 1 : b[i].state = "deleted" => b[i].id \notin DOMAIN t.db
      /\ \A id \in DOMAIN db : (\A i \in 1..k - 1 : b[i].orig # None => b[i].id # id) =>
           id \in DOMAIN t.db /\ t.db[id] = db[id]
  BY <1>4 DEF Did
<1>8. \A i \in 1..k : i \in 1..Len(b) /\ (i \in 1..k - 1 \/ i = k)
  BY <1>6, <1>b
<1>9. \A i \in 1..k : b[i].state # "new" => b[i].orig # None /\ b[i].id \in DOMAIN db /\ b[i].id \in 1..nextId - 1
  BY <1>8, <1>b DEF InTable, NewIsNew, TableOK
<1>10. \A i, j \in 1..k : b[i].state # "new" /\ b[j].state # "new" /\ b[i].id = b[j].id => i = j
  BY <1>8, <1>9, <1>b DEF OneEach
<1>11. \A i \in 1..k : nextId + i - 1 >= nextId
  BY <1>6
<1>12. \A i \in 1..k : b[i].state = "new" => b[i].orig = None
  BY <1>8 DEF NewIsNew
<1>13. CASE d.state = "new"
  <2>1. t.next = nextId + k - 1
    BY <1>13, <1>1, <1>5, <1>6
  <2>2. u.db = [id \in DOMAIN t.db \cup {t.next} |->
                           IF id = t.next THEN [val |-> d.val, by |-> d.uid] ELSE t.db[id]]
    BY <1>13, <1>3 DEF Ran
  <2>3. DOMAIN u.db = DOMAIN t.db \cup {t.next} /\ u.db[t.next] = [val |-> d.val, by |-> d.uid]
    BY <2>2
  <2>4. \A id \in DOMAIN t.db : id # t.next /\ u.db[id] = t.db[id] /\ id \in DOMAIN u.db
    BY <2>2, <1>5, <1>6, <2>1
  <2>5. t.next \notin 1..nextId - 1
    BY <2>1, <1>6
  <2>6. \A i \in 1..k : b[i].state = "new" =>
           /\ nextId + i - 1 \in DOMAIN u.db
           /\ u.db[nextId + i - 1] = [val |-> b[i].val, by |-> b[i].uid]
    BY <2>1, <2>3, <2>4, <1>7, <1>8, <1>b
  <2>7. \A i \in 1..k : b[i].state = "modified" =>
           b[i].id \in DOMAIN u.db /\ u.db[b[i].id].val = b[i].val
    BY <2>4, <1>7, <1>8, <1>13, <1>b
  <2>8. \A i \in 1..k : b[i].state = "deleted" => b[i].id \notin DOMAIN u.db
    BY <2>3, <2>5, <1>7, <1>8, <1>9, <1>13, <1>b
  <2>9. \A id \in DOMAIN db : (\A i \in 1..k : b[i].orig # None => b[i].id # id) =>
           id \in DOMAIN u.db /\ u.db[id] = db[id]
    <3> SUFFICES ASSUME NEW id \in DOMAIN db, \A i \in 1..k : b[i].orig # None => b[i].id # id
                 PROVE  id \in DOMAIN u.db /\ u.db[id] = db[id]
      OBVIOUS
    <3>1. \A i \in 1..k - 1 : b[i].orig # None => b[i].id # id
      BY <1>6
    <3> QED BY <3>1, <1>7, <2>4
  <2> QED BY <2>6, <2>7, <2>8, <2>9 DEF Did
<1>14. CASE d.state = "modified"
  <2>1. d.id \in DOMAIN db /\ d.id \in 1..nextId - 1 /\ d.orig # None
    BY <1>9, <1>14, <1>b, <1>6
  <2>2. d.id \in DOMAIN t.db
    <3>1. \A i \in 1..k - 1 : b[i].orig # None => b[i].id # d.id
      <4> SUFFICES ASSUME NEW i \in 1..k - 1, b[i].orig # None, b[i].id = d.id PROVE FALSE
        OBVIOUS
      <4>1. i \in 1..k /\ k \in 1..k /\ i # k
        BY <1>6
      <4>2. b[i].state # "new"
        BY <4>1, <1>12
      <4> QED BY <4>1, <4>2, <1>10, <1>14, <1>b
    <3> QED BY <3>1, <2>1, <1>7
  <2>3. Matches(t, d) = {d.id}
    BY <2>2 DEF Matches
  <2>4. u.db = [id \in DOMAIN t.db |->
                           IF id \in Matches(t, d) THEN [t.db[id] EXCEPT !.val = d.val]
                           ELSE t.db[id]]
    BY <1>14, <1>3 DEF Ran
  <2>5. DOMAIN u.db = DOMAIN t.db /\ \A id \in DOMAIN t.db : id # d.id => u.db[id] = t.db[id]
    BY <2>3, <2>4
  <2>6. u.db[d.id].val = d.val
    <3>1. u.db[d.id] = [t.db[d.id] EXCEPT !.val = d.val]
      BY <2>2, <2>3, <2>4
    <3>2. t.db[d.id] \in TableRows
      BY <2>2, <1>4 DEF Kept
    <3> QED BY <3>1, <3>2 DEF TableRows
  <2>7. \A i \in 1..k : b[i].state = "new" =>
           /\ nextId + i - 1 \in DOMAIN u.db
           /\ u.db[nextId + i - 1] = [val |-> b[i].val, by |-> b[i].uid]
    <3> SUFFICES ASSUME NEW i \in 1..k, b[i].state = "new"
                 PROVE  /\ nextId + i - 1 \in DOMAIN u.db
                        /\ u.db[nextId + i - 1] = [val |-> b[i].val, by |-> b[i].uid]
      OBVIOUS
    <3>1. i \in 1..k - 1
      BY <1>8, <1>14, <1>b
    <3>2. nextId + i - 1 # d.id
      BY <2>1, <1>6
    <3> QED BY <3>1, <3>2, <2>5, <1>7
  <2>8. \A i \in 1..k : b[i].state = "modified" =>
           b[i].id \in DOMAIN u.db /\ u.db[b[i].id].val = b[i].val
    <3> SUFFICES ASSUME NEW i \in 1..k, b[i].state = "modified"
                 PROVE  b[i].id \in DOMAIN u.db /\ u.db[b[i].id].val = b[i].val
      OBVIOUS
    <3>1. CASE i = k
      BY <3>1, <2>2, <2>5, <2>6, <1>b
    <3>2. CASE i # k
      <4>1. i \in 1..k - 1 /\ k \in 1..k
        BY <3>2, <1>8, <1>6
      <4>2. b[i].id # d.id
        BY <4>1, <3>2, <1>10, <1>14, <1>b
      <4> QED BY <4>1, <4>2, <2>5, <1>7
    <3> QED BY <3>1, <3>2
  <2>9. \A i \in 1..k : b[i].state = "deleted" => b[i].id \notin DOMAIN u.db
    BY <2>5, <1>7, <1>8, <1>14, <1>b
  <2>10. \A id \in DOMAIN db : (\A i \in 1..k : b[i].orig # None => b[i].id # id) =>
           id \in DOMAIN u.db /\ u.db[id] = db[id]
    <3> SUFFICES ASSUME NEW id \in DOMAIN db, \A i \in 1..k : b[i].orig # None => b[i].id # id
                 PROVE  id \in DOMAIN u.db /\ u.db[id] = db[id]
      OBVIOUS
    <3>1. (\A i \in 1..k - 1 : b[i].orig # None => b[i].id # id) /\ d.id # id
      BY <1>6, <1>b, <2>1
    <3> QED BY <3>1, <1>7, <2>5
  <2> QED BY <2>7, <2>8, <2>9, <2>10 DEF Did
<1>15. CASE d.state = "deleted"
  <2>1. d.id \in DOMAIN db /\ d.id \in 1..nextId - 1 /\ d.orig # None
    BY <1>9, <1>15, <1>b, <1>6
  <2>2. u.db = [id \in DOMAIN t.db \ Matches(t, d) |-> t.db[id]]
    BY <1>15, <1>3 DEF Ran
  <2>3. DOMAIN u.db = DOMAIN t.db \ {d.id} /\ \A id \in DOMAIN u.db : u.db[id] = t.db[id]
    BY <2>2 DEF Matches
  <2>4. \A i \in 1..k : b[i].state = "new" =>
           /\ nextId + i - 1 \in DOMAIN u.db
           /\ u.db[nextId + i - 1] = [val |-> b[i].val, by |-> b[i].uid]
    <3> SUFFICES ASSUME NEW i \in 1..k, b[i].state = "new"
                 PROVE  /\ nextId + i - 1 \in DOMAIN u.db
                        /\ u.db[nextId + i - 1] = [val |-> b[i].val, by |-> b[i].uid]
      OBVIOUS
    <3>1. i \in 1..k - 1
      BY <1>8, <1>15, <1>b
    <3>2. nextId + i - 1 # d.id
      BY <2>1, <1>6
    <3> QED BY <3>1, <3>2, <2>3, <1>7
  <2>5. \A i \in 1..k : b[i].state = "modified" =>
           b[i].id \in DOMAIN u.db /\ u.db[b[i].id].val = b[i].val
    <3> SUFFICES ASSUME NEW i \in 1..k, b[i].state = "modified"
                 PROVE  b[i].id \in DOMAIN u.db /\ u.db[b[i].id].val = b[i].val
      OBVIOUS
    <3>1. i \in 1..k - 1 /\ k \in 1..k /\ i # k
      BY <1>8, <1>6, <1>15, <1>b
    <3>2. b[i].id # d.id
      BY <3>1, <1>10, <1>15, <1>b
    <3> QED BY <3>1, <3>2, <2>3, <1>7
  <2>6. \A i \in 1..k : b[i].state = "deleted" => b[i].id \notin DOMAIN u.db
    BY <2>3, <1>7, <1>8, <1>b
  <2>7. \A id \in DOMAIN db : (\A i \in 1..k : b[i].orig # None => b[i].id # id) =>
           id \in DOMAIN u.db /\ u.db[id] = db[id]
    <3> SUFFICES ASSUME NEW id \in DOMAIN db, \A i \in 1..k : b[i].orig # None => b[i].id # id
                 PROVE  id \in DOMAIN u.db /\ u.db[id] = db[id]
      OBVIOUS
    <3>1. (\A i \in 1..k - 1 : b[i].orig # None => b[i].id # id) /\ d.id # id
      BY <1>6, <1>b, <2>1
    <3> QED BY <3>1, <1>7, <2>3
  <2> QED BY <2>4, <2>5, <2>6, <2>7 DEF Did
<1> QED BY <1>1, <1>13, <1>14, <1>15

\* So after all of them every edit is done.
LEMMA DidAll ==
  ASSUME EditorAssumption, TableOK, Keyed, NEW b \in Seq(Drafts), NEW N \in 0..Len(b),
         \A i \in 1..Len(b) : NewIsNew(b[i]) /\ Pending(b[i]) /\ (b[i].state = "new") = (i <= N),
         OneEach(b), InTable(b)
  PROVE  \A k \in 0..Len(b) : Did(Steps(b)[k], b, k)
<1> DEFINE S == {k \in 0..Len(b) : Did(Steps(b)[k], b, k)}
<1>1. Len(b) \in Nat
  OBVIOUS
<1>2. 0 \in S
  <2>1. Steps(b)[0] = [db |-> db, next |-> nextId, ok |-> TRUE]
    BY <1>1, StepsAre DEF Tx
  <2> DEFINE t == Steps(b)[0]
  <2>2. t.db = db
    BY <2>1
  <2> HIDE DEF t
  <2>3. Did(t, b, 0)
    BY <2>2 DEF Did
  <2> QED BY <2>3, <1>1 DEF t
<1>3. ASSUME NEW k \in 1..Len(b), k - 1 \in S
      PROVE  k \in S
  <2>1. Did(Steps(b)[k - 1], b, k - 1) /\ k - 1 \in 0..Len(b)
    BY <1>3
  <2>2. Kept(Steps(b)[k - 1], b, N, k - 1)
    BY <2>1, KeptAll
  <2>3. Did(Run(Steps(b)[k - 1], b[k]), b, k)
    BY <2>1, <2>2, DidStep
  <2>4. Steps(b)[k] = Run(Steps(b)[k - 1], b[k])
    BY <1>1, StepsAre
  <2> QED BY <2>3, <2>4
<1>4. S \in SUBSET (0..Len(b))
  OBVIOUS
<1>5. S = 0..Len(b)
  <2> HIDE DEF S
  <2> QED BY <1>1, <1>2, <1>3, <1>4, InductionTo
<1> QED BY <1>5

-----------------------------------------------------------------------------
(* What saveTableChanges and a page of the table are.                      *)
\* Each added row is there once.
Uids(seq) ==
  \A i, j \in DOMAIN seq :
    seq[i].orig = None /\ seq[j].orig = None /\ seq[i].uid = seq[j].uid => i = j

\* A batch that commits has kept who inserted which row.
LEMMA Fold ==
  ASSUME EditorAssumption, TableOK, NEW batch, Changed(batch)
  PROVE  LET b == Ordered(batch)
             tx == saveTableChanges(batch)
             N == Len(Of(batch, "new"))
         IN Arranged(batch, b, N) /\ Kept(tx, b, N, Len(b))
<1> DEFINE b == Ordered(batch)
           N == Len(Of(batch, "new"))
<1>1. Arranged(batch, b, N)
  BY OrderedIs
<1>2. saveTableChanges(batch) = Steps(b)[Len(b)]
  BY SaveIs
<1> HIDE DEF b, N
<1>3. b \in Seq(Drafts) /\ N \in 0..Len(b) /\ Len(b) \in 0..Len(b)
      /\ \A i \in 1..Len(b) : Pending(b[i]) /\ (b[i].state = "new") = (i <= N)
  BY <1>1 DEF Arranged
<1>4. Kept(Steps(b)[Len(b)], b, N, Len(b))
  BY <1>3, KeptAll
<1> QED BY <1>1, <1>2, <1>4 DEF b, N

\* A batch that is carried out leaves a table of rows of its type, with no
\* more new keys than the batch has new drafts, each row inserted by the
\* draft it was inserted by before or by one of the batch.
LEMMA SaveKeeps ==
  ASSUME EditorAssumption, TableOK, NEW batch, Changed(batch)
  PROVE  LET tx == saveTableChanges(batch) IN
         /\ tx.ok \in BOOLEAN
         /\ tx.ok =>
              /\ tx.next \in nextId..nextId + Len(Of(batch, "new"))
              /\ tx.db \in [DOMAIN tx.db -> TableRows]
              /\ DOMAIN tx.db \subseteq 1..tx.next - 1
              /\ \A id \in DOMAIN tx.db : id < nextId => id \in DOMAIN db /\ tx.db[id].by = db[id].by
              /\ \A id \in DOMAIN tx.db : id >= nextId =>
                   \E i \in DOMAIN batch : batch[i].orig = None /\ tx.db[id].by = batch[i].uid
              /\ Uids(batch) => \A x, y \in DOMAIN tx.db :
                   x >= nextId /\ y >= nextId /\ tx.db[x].by = tx.db[y].by => x = y
<1> DEFINE tx == saveTableChanges(batch)
           b == Ordered(batch)
           N == Len(Of(batch, "new"))
<1>1. Arranged(batch, b, N) /\ Kept(tx, b, N, Len(b))
  BY Fold
<1> HIDE DEF tx, b, N
<1>2. /\ b \in Seq(Drafts) /\ N \in 0..Len(b) /\ Len(b) \in Nat
      /\ \A k \in 1..Len(b) : NewIsNew(b[k]) /\ (b[k].state = "new") = (k <= N)
  BY <1>1 DEF Arranged
<1>3. tx.ok \in BOOLEAN
  BY <1>1 DEF Kept, Shape
<1> SUFFICES ASSUME tx.ok
             PROVE  /\ tx.next \in nextId..nextId + N
                    /\ tx.db \in [DOMAIN tx.db -> TableRows]
                    /\ DOMAIN tx.db \subseteq 1..tx.next - 1
                    /\ \A id \in DOMAIN tx.db : id < nextId => id \in DOMAIN db /\ tx.db[id].by = db[id].by
                    /\ \A id \in DOMAIN tx.db : id >= nextId =>
                        \E i \in DOMAIN batch : batch[i].orig = None /\ tx.db[id].by = batch[i].uid
                    /\ Uids(batch) => \A x, y \in DOMAIN tx.db :
                         x >= nextId /\ y >= nextId /\ tx.db[x].by = tx.db[y].by => x = y
  BY <1>3 DEF tx, N
<1>4. nextId \in Nat \ {0} /\ Inserted(N, Len(b)) = N
  BY <1>2 DEF TableOK, Inserted
<1>5. /\ tx.next = nextId + N
      /\ tx.db \in [DOMAIN tx.db -> TableRows]
      /\ DOMAIN tx.db \subseteq 1..tx.next - 1
      /\ \A id \in DOMAIN tx.db : id < nextId => id \in DOMAIN db /\ tx.db[id].by = db[id].by
      /\ \A id \in DOMAIN tx.db : id >= nextId => tx.db[id].by = b[id - nextId + 1].uid
  BY <1>1, <1>4 DEF Kept
<1>6. PICK pos \in [1..Len(b) -> DOMAIN batch] :
        /\ \A k \in 1..Len(b) : b[k] = batch[pos[k]]
        /\ \A k, l \in 1..Len(b) : pos[k] = pos[l] => k = l
  BY <1>1 DEF Arranged
<1>7. \A id \in DOMAIN tx.db : id >= nextId =>
        /\ id \in Nat /\ id - nextId + 1 \in 1..Len(b)
        /\ pos[id - nextId + 1] \in DOMAIN batch
        /\ batch[pos[id - nextId + 1]].orig = None
        /\ tx.db[id].by = batch[pos[id - nextId + 1]].uid
  <2> SUFFICES ASSUME NEW id \in DOMAIN tx.db, id >= nextId
               PROVE  /\ id \in Nat /\ id - nextId + 1 \in 1..Len(b)
                      /\ pos[id - nextId + 1] \in DOMAIN batch
                      /\ batch[pos[id - nextId + 1]].orig = None
                      /\ tx.db[id].by = batch[pos[id - nextId + 1]].uid
    OBVIOUS
  <2> DEFINE k == id - nextId + 1
  <2>1. id \in 1..tx.next - 1
    BY <1>5
  <2>2. id \in Nat /\ k \in 1..Len(b) /\ k <= N
    BY <2>1, <1>2, <1>4, <1>5
  <2>3. tx.db[id].by = b[k].uid
    BY <1>5
  <2> HIDE DEF k
  <2>4. b[k] = batch[pos[k]] /\ pos[k] \in DOMAIN batch /\ b[k].orig = None
    BY <2>2, <1>2, <1>6 DEF NewIsNew
  <2> QED BY <2>2, <2>3, <2>4 DEF k
<1>8. ASSUME Uids(batch), NEW x \in DOMAIN tx.db, NEW y \in DOMAIN tx.db,
             x >= nextId, y >= nextId, tx.db[x].by = tx.db[y].by
      PROVE  x = y
  <2> DEFINE k == x - nextId + 1
             l == y - nextId + 1
  <2>1. x \in Nat /\ y \in Nat /\ k \in 1..Len(b) /\ l \in 1..Len(b)
        /\ pos[k] \in DOMAIN batch /\ pos[l] \in DOMAIN batch
        /\ batch[pos[k]].orig = None /\ batch[pos[l]].orig = None
        /\ batch[pos[k]].uid = batch[pos[l]].uid
    BY <1>7, <1>8
  <2>2. k = l
    <3> HIDE DEF k, l
    <3> QED BY <2>1, <1>6, <1>8 DEF Uids
  <2> QED BY <2>1, <2>2, <1>4
<1>9. \A id \in DOMAIN tx.db : id >= nextId =>
        \E i \in DOMAIN batch : batch[i].orig = None /\ tx.db[id].by = batch[i].uid
  BY <1>7
<1> QED BY <1>2, <1>4, <1>5, <1>8, <1>9

\* What Stored says of a table after a batch.
StoredIn(after, batch) ==
  /\ \A d \in ToSet(batch) :
       CASE d.state = "modified" -> d.id \in DOMAIN after /\ after[d.id].val = d.val
         [] d.state = "deleted" -> d.id \notin DOMAIN after
         [] d.state = "new" -> \E id \in DOMAIN after \ DOMAIN db :
                                  after[id] = [val |-> d.val, by |-> d.uid]
  /\ \A id \in DOMAIN db : ~Edited(batch, id) => id \in DOMAIN after /\ after[id] = db[id]

\* A batch that commits did each of its edits, each to its own row, and nothing else.
LEMMA SaveStores ==
  ASSUME EditorAssumption, TableOK, Keyed, NEW batch, Changed(batch), OneEach(batch), InTable(batch),
         saveTableChanges(batch).ok
  PROVE  StoredIn(saveTableChanges(batch).db, batch)
<1> DEFINE tx == saveTableChanges(batch)
           b == Ordered(batch)
           N == Len(Of(batch, "new"))
<1>1. Arranged(batch, b, N) /\ Kept(tx, b, N, Len(b))
  BY Fold
<1>2. tx = Steps(b)[Len(b)]
  BY SaveIs
<1> HIDE DEF b, N
<1>3. /\ b \in Seq(Drafts) /\ N \in 0..Len(b) /\ Len(b) \in Nat /\ DOMAIN b = 1..Len(b)
      /\ \A k \in 1..Len(b) : NewIsNew(b[k]) /\ Pending(b[k]) /\ (b[k].state = "new") = (k <= N)
  BY <1>1 DEF Arranged
<1>4. PICK pos \in [1..Len(b) -> DOMAIN batch] :
        /\ \A k \in 1..Len(b) : b[k] = batch[pos[k]]
        /\ \A k, l \in 1..Len(b) : pos[k] = pos[l] => k = l
        /\ \A i \in DOMAIN batch : \E k \in 1..Len(b) : pos[k] = i
  BY <1>1 DEF Arranged
<1>5. OneEach(b)
  <2> SUFFICES ASSUME NEW i \in 1..Len(b), NEW j \in 1..Len(b), b[i].orig # None, b[j].orig # None,
                      b[i].id = b[j].id
               PROVE  i = j
    BY <1>3 DEF OneEach
  <2>1. pos[i] = pos[j]
    BY <1>4 DEF OneEach
  <2> QED BY <2>1, <1>4
<1>6. InTable(b)
  <2> SUFFICES ASSUME NEW i \in 1..Len(b), b[i].orig # None PROVE b[i].id \in DOMAIN db
    BY <1>3 DEF InTable
  <2> QED BY <1>4 DEF InTable
<1>7. Did(tx, b, Len(b))
  <2>1. Len(b) \in 0..Len(b)
    BY <1>3
  <2>2. Did(Steps(b)[Len(b)], b, Len(b))
    BY <1>3, <1>5, <1>6, <2>1, DidAll
  <2> QED BY <2>2, <1>2
<1> HIDE DEF tx
<1>8. tx.ok
  BY DEF tx
<1>9. /\ \A i \in 1..Len(b) : b[i].state = "new" =>
           /\ nextId + i - 1 \in DOMAIN tx.db
           /\ tx.db[nextId + i - 1] = [val |-> b[i].val, by |-> b[i].uid]
      /\ \A i \in 1..Len(b) : b[i].state = "modified" =>
           b[i].id \in DOMAIN tx.db /\ tx.db[b[i].id].val = b[i].val
      /\ \A i \in 1..Len(b) : b[i].state = "deleted" => b[i].id \notin DOMAIN tx.db
      /\ \A id \in DOMAIN db : (\A i \in 1..Len(b) : b[i].orig # None => b[i].id # id) =>
           id \in DOMAIN tx.db /\ tx.db[id] = db[id]
  BY <1>7, <1>8 DEF Did
<1>10. ASSUME NEW d \in ToSet(batch)
       PROVE  CASE d.state = "modified" -> d.id \in DOMAIN tx.db /\ tx.db[d.id].val = d.val
                [] d.state = "deleted" -> d.id \notin DOMAIN tx.db
                [] d.state = "new" -> \E id \in DOMAIN tx.db \ DOMAIN db :
                                         tx.db[id] = [val |-> d.val, by |-> d.uid]
  <2>1. PICK i \in DOMAIN batch : d = batch[i]
    BY <1>10 DEF ToSet
  <2>2. PICK k \in 1..Len(b) : b[k] = d
    BY <2>1, <1>4
  <2>3. b[k] \in Drafts /\ Pending(b[k])
    BY <1>3
  <2>4. d.state \in {"new", "modified", "deleted"}
    BY <2>2, <2>3 DEF Drafts, Pending
  <2>5. CASE d.state = "new"
    <3>1. nextId + k - 1 \in DOMAIN tx.db /\ tx.db[nextId + k - 1] = [val |-> d.val, by |-> d.uid]
      BY <2>2, <2>5, <1>9
    <3>2. nextId + k - 1 \notin DOMAIN db
      BY DEF TableOK
    <3> QED BY <3>1, <3>2, <2>5
  <2>6. CASE d.state = "modified"
    BY <2>2, <2>6, <1>9
  <2>7. CASE d.state = "deleted"
    BY <2>2, <2>7, <1>9
  <2> QED BY <2>4, <2>5, <2>6, <2>7
<1>11. ASSUME NEW id \in DOMAIN db, ~ Edited(batch, id)
       PROVE  id \in DOMAIN tx.db /\ tx.db[id] = db[id]
  <2>1. \A i \in 1..Len(b) : b[i].orig # None => b[i].id # id
    <3> SUFFICES ASSUME NEW i \in 1..Len(b), b[i].orig # None, b[i].id = id PROVE FALSE
      OBVIOUS
    <3>1. b[i] \in ToSet(batch)
      BY <1>4 DEF ToSet
    <3> QED BY <3>1, <1>11 DEF Edited
  <2> QED BY <2>1, <1>9
<1>12. StoredIn(tx.db, batch)
  BY <1>10, <1>11 DEF StoredIn
<1> QED BY <1>12 DEF tx

\* There is always a first page.
LEMMA PageCountIs == ASSUME EditorAssumption, total \in Nat PROVE pageCount \in Nat \ {0}
<1>1. PageSize \in Nat \ {0}
  BY DEF EditorAssumption
<1>2. CASE total = 0
  BY <1>2 DEF pageCount
<1>3. CASE total # 0
  <2> DEFINE n == total + PageSize - 1
             q == n \div PageSize
  <2>1. n \in Nat /\ n >= PageSize
    BY <1>1, <1>3
  <2>2. q \in Nat /\ q # 0
    <3> HIDE DEF n
    <3> QED BY <1>1, <2>1
  <2> QED BY <2>2, <1>3 DEF pageCount
<1> QED BY <1>2, <1>3

\* A page holds some of the table's rows, each once.
LEMMA PageIs ==
  ASSUME EditorAssumption, TableOK, NEW p \in Nat \ {0}, NEW w
  PROVE  /\ Page(p, w) \in Seq(DOMAIN db)
         /\ \A i, j \in DOMAIN Page(p, w) : Page(p, w)[i] = Page(p, w)[j] => i = j
         /\ Len(Found(w)) \in 0..nextId - 1
<1> DEFINE S == {id \in DOMAIN db : w = None \/ db[id].val = w}
           all == Found(w)
           m == (p - 1) * PageSize + 1
           n == IF p * PageSize < Len(all) THEN p * PageSize ELSE Len(all)
<1>1. nextId \in Nat \ {0} /\ S \subseteq 1..nextId - 1 /\ S \in SUBSET Nat
  BY DEF TableOK
<1>2. all = InOrder(S)
  BY DEF Found
<1>3. IsFiniteSet(S) /\ Cardinality(S) <= nextId - 1
  <2> HIDE DEF S
  <2>1. nextId - 1 \in Nat
    BY <1>1
  <2>2. IsFiniteSet(1..nextId - 1) /\ Cardinality(1..nextId - 1) = nextId - 1
    BY <2>1, FirstNumbers
  <2> DEFINE T == 1..nextId - 1
  <2>3. S \in SUBSET T /\ IsFiniteSet(T) /\ Cardinality(T) = nextId - 1
    BY <1>1, <2>2
  <2> HIDE DEF T
  <2>4. IsFiniteSet(S) /\ Cardinality(S) <= Cardinality(T)
    BY <2>3, FS_Subset
  <2> QED BY <2>3, <2>4
<1>4. S \subseteq DOMAIN db
  OBVIOUS
<1> HIDE DEF S, all
<1>5. /\ all \in Seq(S) /\ Len(all) = Cardinality(S) /\ DOMAIN all = 1..Cardinality(S)
      /\ Cardinality(S) \in Nat
      /\ \A k, l \in DOMAIN all : all[k] = all[l] => k = l
  BY <1>1, <1>2, <1>3, InOrderIs
<1>6. PageSize \in Nat \ {0} /\ (p - 1) * PageSize \in Nat /\ p * PageSize \in Nat
  BY DEF EditorAssumption
<1>7. m \in Nat /\ m >= 1 /\ n \in Nat /\ n <= Len(all)
  BY <1>5, <1>6
<1> HIDE DEF m, n
<1>8. \A i \in m..n : i \in 1..Len(all) /\ all[i] \in DOMAIN db
  BY <1>4, <1>5, <1>7
<1>9. /\ SubSeq(all, m, n) \in Seq(DOMAIN db)
      /\ Len(SubSeq(all, m, n)) = IF m <= n THEN n - m + 1 ELSE 0
      /\ \A i \in 1..n - m + 1 : SubSeq(all, m, n)[i] = all[m + i - 1]
  BY <1>7, <1>8, SubSeqProperties
<1> DEFINE q == SubSeq(all, m, n)
<1>10. \A i \in DOMAIN q : i \in Nat /\ q[i] = all[m + i - 1] /\ m + i - 1 \in DOMAIN all
  <2> HIDE DEF q
  <2>1. DOMAIN q = 1..Len(q)
    BY <1>9 DEF q
  <2> SUFFICES ASSUME NEW i \in 1..Len(q)
               PROVE  i \in Nat /\ q[i] = all[m + i - 1] /\ m + i - 1 \in DOMAIN all
    BY <2>1
  <2>2. m <= n /\ i \in 1..n - m + 1
    BY <1>7, <1>9 DEF q
  <2>3. m + i - 1 \in 1..Len(all)
    BY <2>2, <1>7, <1>5
  <2> QED BY <2>2, <2>3, <1>5, <1>9 DEF q
<1>11. \A i, j \in DOMAIN q : q[i] = q[j] => i = j
  <2> HIDE DEF q
  <2> QED BY <1>5, <1>7, <1>10
<1>12. Page(p, w) = q
  BY DEF Page, m, n, all
<1>13. Len(all) \in 0..nextId - 1
  BY <1>1, <1>3, <1>5
<1> QED BY <1>9, <1>11, <1>12, <1>13 DEF all

-----------------------------------------------------------------------------
(* Drafts and the edits of the grid.                                       *)
\* A clean draft shows what was read, or its deletion was taken back.
Told(d) == d.state = "clean" => d.val = d.orig \/ d.revived
CleanIsTold(seq) == \A i \in DOMAIN seq : Told(seq[i])

\* A draft keeps which row of the table it is about.
SameRow(d, e) == e.orig = d.orig /\ e.id = d.id /\ e.uid = d.uid
\* What an edit of one draft may do.
Edits(d, e) ==
  /\ e \in Drafts /\ NewIsNew(e) /\ SameRow(d, e)
  /\ Told(d) => Told(e)

\* A value typed into a draft.
LEMMA WithValueIs ==
  ASSUME EditorAssumption, NEW d \in Drafts, NewIsNew(d), NEW v \in Values
  PROVE  Edits(d, WithValue(d, v))
<1>1. CASE d.state = "deleted"
  <2>1. WithValue(d, v) = d
    BY <1>1 DEF WithValue
  <2> QED BY <2>1 DEF Edits, SameRow
<1>2. CASE d.state # "deleted"
  <2> DEFINE st == IF d.orig = None THEN "new" ELSE IF v # d.orig THEN "modified" ELSE "clean"
             e == [d EXCEPT !.val = v]
             x == [e EXCEPT !.state = st, !.revived = FALSE]
  <2>1. e \in Drafts /\ e.val = v /\ SameRow(d, e) /\ e.state = d.state
    BY DEF Drafts, SameRow
  <2>2. WithValue(d, v) = x
    BY <1>2, <2>1 DEF WithValue, Recomputed, SameRow
  <2> HIDE DEF e
  <2>3. st \in {"clean", "modified", "new", "deleted"} /\ (d.orig = None) = (st = "new")
        /\ (st = "clean" => v = d.orig)
    OBVIOUS
  <2> HIDE DEF st
  <2>4. x \in Drafts /\ x.val = v /\ SameRow(d, x) /\ x.state = st
    BY <2>1, <2>3 DEF Drafts, SameRow
  <2> HIDE DEF x
  <2> QED BY <2>2, <2>3, <2>4 DEF Edits, NewIsNew, SameRow, Told
<1> QED BY <1>1, <1>2

\* A row of the table deleted, or deleted again.
LEMMA ToggledIs ==
  ASSUME NEW d \in Drafts, d.orig # None
  PROVE  Edits(d, Toggled(d))
<1> DEFINE st == IF d.state = "deleted" THEN "clean" ELSE "deleted"
           back == d.state = "deleted" /\ d.val # d.orig
<1>1. Toggled(d) = [d EXCEPT !.state = st, !.revived = back]
  BY DEF Toggled
<1>2. st \in {"clean", "deleted"} /\ back \in BOOLEAN /\ (st = "clean" => d.val = d.orig \/ back)
  OBVIOUS
<1> HIDE DEF st, back
<1>3. /\ Toggled(d) \in Drafts /\ SameRow(d, Toggled(d)) /\ Toggled(d).val = d.val
      /\ Toggled(d).state = st /\ Toggled(d).revived = back
  BY <1>1, <1>2 DEF Drafts, SameRow
<1> QED BY <1>2, <1>3 DEF NewIsNew, SameRow, Edits, Told

\* A draft discarded.
LEMMA RestoredIs ==
  ASSUME NEW d \in Drafts, NewIsNew(d), d.orig # None
  PROVE  Edits(d, Restored(d))
<1>1. CASE d.state = "deleted"
  BY <1>1 DEF Restored, Edits, SameRow
<1>2. CASE d.state # "deleted"
  <2>1. Restored(d) = [d EXCEPT !.val = d.orig, !.state = "clean", !.revived = FALSE]
    BY <1>2 DEF Restored
  <2>2. d.orig \in Values
    BY DEF Drafts
  <2> QED BY <2>1, <2>2 DEF Drafts, Edits, NewIsNew, SameRow, Told
<1> QED BY <1>1, <1>2

\* A row added.
LEMMA AddedIs ==
  ASSUME EditorAssumption, NEW u \in 0..MaxDrafts, NEW v \in Values
  PROVE  Added(u, v) \in Drafts /\ NewIsNew(Added(u, v)) /\ Added(u, v).orig = None
         /\ Added(u, v).uid = u /\ Added(u, v).state = "new"
<1>1. 0 \in 0..MaxId
  BY DEF EditorAssumption
<1> QED BY <1>1 DEF Added, Drafts, NewIsNew

\* What an edit makes of the grid: each draft comes from one that was there,
\* or is one the user added; none that was read from the table is dropped.
EditedFrom(src) ==
  /\ rows' \in Seq(Drafts) /\ drafted' \in drafted..MaxDrafts
  /\ src \in [DOMAIN rows' -> 0..Len(rows)]
  /\ \A j \in DOMAIN rows' : NewIsNew(rows'[j])
  /\ \A j \in DOMAIN rows' : src[j] = 0 =>
       rows'[j].orig = None /\ rows'[j].uid \in drafted + 1..drafted'
  /\ \A j \in DOMAIN rows' : src[j] # 0 => SameRow(rows[src[j]], rows'[j])
  /\ \A j, l \in DOMAIN rows' :
       src[j] = src[l] /\ (src[j] # 0 \/ rows'[j].uid = rows'[l].uid) => j = l
  /\ \A i \in DOMAIN rows : rows[i].orig # None => \E j \in DOMAIN rows' : src[j] = i
  /\ CleanIsTold(rows) => CleanIsTold(rows')

\* The types an edit of the grid needs.
Grid == rows \in Seq(Drafts) /\ drafted \in 0..MaxDrafts /\ \A i \in DOMAIN rows : NewIsNew(rows[i])

\* Drafts edited where they are.
LEMMA EditInPlace ==
  ASSUME Grid, drafted' = drafted, rows' = [i \in DOMAIN rows |-> rows'[i]],
         \A i \in DOMAIN rows : Edits(rows[i], rows'[i])
  PROVE  EditedFrom([i \in DOMAIN rows |-> i])
<1> DEFINE src == [i \in DOMAIN rows |-> i]
           n == Len(rows)
<1>1. n \in Nat /\ DOMAIN rows = 1..n /\ rows \in Seq(Drafts)
  BY DEF Grid
<1>2. DOMAIN rows' = 1..n
  <2>1. DOMAIN rows' = DOMAIN rows
    OBVIOUS
  <2> QED BY <2>1, <1>1
<1>3. rows' \in [1..n -> Drafts]
  BY <1>1, <1>2 DEF Edits
<1>4. rows' \in Seq(Drafts)
  BY <1>1, <1>3
<1>5. src \in [DOMAIN rows' -> 0..Len(rows)]
  BY <1>1, <1>2
<1>6. \A i \in DOMAIN rows : src[i] = i /\ i # 0
  BY <1>1
<1>7. CleanIsTold(rows) => CleanIsTold(rows')
  BY <1>1, <1>2 DEF CleanIsTold, Edits
<1>8. drafted' \in drafted..MaxDrafts
  BY DEF Grid
<1> HIDE DEF src
<1> QED BY <1>1, <1>2, <1>4, <1>5, <1>6, <1>7, <1>8 DEF EditedFrom, Edits, src

\* Some drafts the user added dropped, the others edited.
LEMMA EditWithout ==
  ASSUME Grid, drafted' = drafted, NEW f, NEW gone, DOMAIN f = DOMAIN rows,
         rows' = Without(f, gone),
         \A i \in DOMAIN rows \ gone : f[i] \in Drafts /\ NewIsNew(f[i]) /\ SameRow(rows[i], f[i]),
         \A i \in gone : rows[i].orig = None,
         CleanIsTold(rows) => \A i \in DOMAIN rows \ gone : Told(f[i])
  PROVE  \E src : EditedFrom(src)
<1> DEFINE S == DOMAIN rows \ gone
           c == Cardinality(S)
           src == [k \in 1..c |-> Nth(S, k)]
<1>1. Len(rows) \in Nat /\ DOMAIN rows = 1..Len(rows)
  BY DEF Grid
<1>2. rows' = At(f, S)
  BY DEF Without
<1>3. S \in SUBSET (1..Len(rows)) /\ \A i \in S : f[i] \in Drafts
  BY <1>1
<1> HIDE DEF S
<1>4. /\ c \in Nat /\ rows' \in Seq(Drafts) /\ DOMAIN rows' = 1..c
      /\ \A k \in 1..c : Nth(S, k) \in S /\ rows'[k] = f[Nth(S, k)]
      /\ \A k, l \in 1..c : Nth(S, k) = Nth(S, l) => k = l
      /\ \A i \in S : \E k \in 1..c : Nth(S, k) = i
  BY ONLY <1>1, <1>2, <1>3, AtOf, SMTT(30) DEF c
<1> HIDE DEF c
<1>5. \A k \in 1..c : src[k] = Nth(S, k) /\ src[k] \in 1..Len(rows) /\ src[k] # 0
  <2> SUFFICES ASSUME NEW k \in 1..c
               PROVE  src[k] = Nth(S, k) /\ src[k] \in 1..Len(rows) /\ src[k] # 0
    OBVIOUS
  <2>1. src[k] = Nth(S, k)
    OBVIOUS
  <2>2. Nth(S, k) \in S
    BY <1>4
  <2>3. src[k] \in 1..Len(rows)
    BY ONLY <1>3, <2>1, <2>2
  <2>4. src[k] # 0
    BY ONLY <2>3
  <2> QED BY ONLY <2>1, <2>3, <2>4
<1>6. src \in [DOMAIN rows' -> 0..Len(rows)]
  BY <1>1, <1>4, <1>5
<1> HIDE DEF src
<1>7. \A k \in 1..c : NewIsNew(rows'[k]) /\ SameRow(rows[src[k]], rows'[k])
  BY <1>4, <1>5 DEF S
<1>8. \A i \in DOMAIN rows : rows[i].orig # None => \E j \in DOMAIN rows' : src[j] = i
  <2> SUFFICES ASSUME NEW i \in DOMAIN rows, rows[i].orig # None
               PROVE  \E j \in DOMAIN rows' : src[j] = i
    OBVIOUS
  <2>1. i \in S
    BY DEF S
  <2>2. PICK k \in 1..c : Nth(S, k) = i
    BY <1>4, <2>1
  <2> QED BY <1>4, <1>5, <2>2
<1>9. CleanIsTold(rows) => CleanIsTold(rows')
  BY <1>4 DEF CleanIsTold, S
<1>10. drafted' \in drafted..MaxDrafts
  BY DEF Grid
<1>11. EditedFrom(src)
  BY <1>4, <1>5, <1>6, <1>7, <1>8, <1>9, <1>10 DEF EditedFrom
<1> QED BY <1>11

-----------------------------------------------------------------------------
(* Every edit is one of EditedFrom.                                        *)
\* commitEditing edits one draft in place.
LEMMA CommitIs ==
  ASSUME EditorAssumption, Grid, NEW i \in DOMAIN rows, NEW v \in Values, commitEditing(i, v)
  PROVE  \E src : EditedFrom(src)
<1>1. rows' = [rows EXCEPT ![i] = WithValue(rows[i], v)] /\ drafted' = drafted
  BY DEF commitEditing
<1>2. rows' = [k \in DOMAIN rows |-> rows'[k]]
  BY <1>1
<1>3. ASSUME NEW k \in DOMAIN rows PROVE Edits(rows[k], rows'[k])
  <2>1. rows[k] \in Drafts /\ NewIsNew(rows[k])
    BY DEF Grid
  <2>2. CASE k = i
    <3>1. rows'[k] = WithValue(rows[k], v)
      BY <1>1, <2>2
    <3> QED BY <2>1, <3>1, WithValueIs
  <2>3. CASE k # i
    <3>1. rows'[k] = rows[k]
      BY <1>1, <2>3
    <3> QED BY <2>1, <3>1 DEF Edits, SameRow
  <2> QED BY <2>2, <2>3
<1> QED BY <1>1, <1>2, <1>3, EditInPlace, Zenon

\* setSelectionToNull edits the selected drafts in place.
LEMMA NullIs ==
  ASSUME EditorAssumption, Grid, NEW r \in Ranges, setSelectionToNull(r)
  PROVE  \E src : EditedFrom(src)
<1>1. /\ rows' = [k \in DOMAIN rows |-> IF In(k, r) THEN WithValue(rows[k], Null) ELSE rows[k]]
      /\ drafted' = drafted
  BY DEF setSelectionToNull
<1>2. rows' = [k \in DOMAIN rows |-> rows'[k]]
  BY <1>1
<1>3. ASSUME NEW k \in DOMAIN rows PROVE Edits(rows[k], rows'[k])
  <2>1. rows[k] \in Drafts /\ NewIsNew(rows[k]) /\ Null \in Values
    BY DEF Grid, EditorAssumption
  <2>2. Edits(rows[k], WithValue(rows[k], Null))
    BY <2>1, WithValueIs
  <2>3. Edits(rows[k], rows[k])
    BY <2>1 DEF Edits, SameRow
  <2> QED BY <1>1, <2>2, <2>3
<1> QED BY <1>1, <1>2, <1>3, EditInPlace, Zenon

\* addRow adds one draft.
LEMMA AddIs ==
  ASSUME EditorAssumption, Grid, addRow
  PROVE  \E src : EditedFrom(src)
<1> DEFINE n == Len(rows)
           src == [j \in 1..n + 1 |-> IF j = n + 1 THEN 0 ELSE j]
           d == Added(drafted + 1, Null)
<1>1. /\ rows' = Append(rows, d) /\ drafted' = drafted + 1
      /\ n \in Nat /\ DOMAIN rows = 1..n /\ rows \in Seq(Drafts)
      /\ drafted + 1 \in 0..MaxDrafts
  BY DEF addRow, Grid, EditorAssumption
<1>2. /\ d \in Drafts /\ NewIsNew(d) /\ d.orig = None /\ d.uid = drafted + 1 /\ d.state = "new"
  <2>1. Null \in Values
    BY DEF EditorAssumption
  <2> QED BY <1>1, <2>1, AddedIs
<1> HIDE DEF d
<1>3. /\ rows' \in Seq(Drafts) /\ DOMAIN rows' = 1..n + 1
      /\ rows'[n + 1] = d /\ \A j \in 1..n : rows'[j] = rows[j]
  BY <1>1, <1>2
<1>4. src \in [DOMAIN rows' -> 0..Len(rows)]
  BY <1>1, <1>3
<1>5. /\ src[n + 1] = 0 /\ \A j \in 1..n : src[j] = j /\ j # 0
      /\ \A j \in 1..n + 1 : j = n + 1 \/ j \in 1..n
  BY <1>1
<1> HIDE DEF n, src
<1>6. \A j \in 1..n : NewIsNew(rows[j])
  BY <1>1 DEF Grid
<1>7. \A j \in DOMAIN rows' : NewIsNew(rows'[j])
  BY <1>2, <1>3, <1>5, <1>6
<1>8. \A j \in DOMAIN rows' :
        /\ src[j] = 0 => rows'[j].orig = None /\ rows'[j].uid \in drafted + 1..drafted'
        /\ src[j] # 0 => SameRow(rows[src[j]], rows'[j])
  BY <1>1, <1>2, <1>3, <1>5 DEF SameRow, Grid
<1>9. \A j, l \in DOMAIN rows' : src[j] = src[l] => j = l
  BY <1>3, <1>5
<1>10. \A i \in DOMAIN rows : \E j \in DOMAIN rows' : src[j] = i
  <2> SUFFICES ASSUME NEW i \in DOMAIN rows PROVE \E j \in DOMAIN rows' : src[j] = i
    OBVIOUS
  <2>1. i \in 1..n /\ i \in 1..n + 1
    BY <1>1
  <2> QED BY <2>1, <1>3, <1>5
<1>11. CleanIsTold(rows) => CleanIsTold(rows')
  BY <1>1, <1>2, <1>3, <1>5 DEF CleanIsTold, Told
<1>12. drafted' \in drafted..MaxDrafts
  BY <1>1 DEF Grid
<1>13. EditedFrom(src)
  BY <1>3, <1>4, <1>7, <1>8, <1>9, <1>10, <1>11, <1>12 DEF EditedFrom
<1> QED BY <1>13

\* deleteSelectedRows drops only drafts the user added.
LEMMA DeleteIs ==
  ASSUME EditorAssumption, Grid, NEW r \in Ranges, deleteSelectedRows(r)
  PROVE  \E src : EditedFrom(src)
<1> DEFINE f == [i \in DOMAIN rows |-> IF In(i, r) THEN Toggled(rows[i]) ELSE rows[i]]
           gone == {i \in DOMAIN rows : In(i, r) /\ rows[i].orig = None}
<1>1. rows' = Without(f, gone) /\ drafted' = drafted /\ DOMAIN f = DOMAIN rows
  BY DEF deleteSelectedRows
<1>2. \A i \in DOMAIN rows : rows[i] \in Drafts /\ NewIsNew(rows[i])
  BY DEF Grid
<1>3. ASSUME NEW i \in DOMAIN rows \ gone
      PROVE  /\ f[i] \in Drafts /\ NewIsNew(f[i]) /\ SameRow(rows[i], f[i])
             /\ CleanIsTold(rows) => Told(f[i])
  <2>1. CASE In(i, r)
    <3>1. f[i] = Toggled(rows[i]) /\ rows[i].orig # None /\ rows[i] \in Drafts
      BY <2>1, <1>2
    <3>2. Edits(rows[i], f[i])
      BY <3>1, ToggledIs
    <3> QED BY <3>2 DEF Edits, CleanIsTold
  <2>2. CASE ~ In(i, r)
    <3>1. f[i] = rows[i]
      BY <2>2
    <3> QED BY <3>1, <1>2 DEF SameRow, CleanIsTold
  <2> QED BY <2>1, <2>2
<1>4. \A i \in gone : rows[i].orig = None
  OBVIOUS
<1> HIDE DEF f, gone
<1> QED BY <1>1, <1>3, <1>4, EditWithout, Zenon

\* discardSelectedChanges drops only drafts the user added.
LEMMA DiscardIs ==
  ASSUME EditorAssumption, Grid, NEW r \in Ranges, discardSelectedChanges(r)
  PROVE  \E src : EditedFrom(src)
<1> DEFINE f == [i \in DOMAIN rows |-> IF In(i, r) THEN Restored(rows[i]) ELSE rows[i]]
           gone == {i \in DOMAIN rows : In(i, r) /\ rows[i].orig = None}
<1>1. rows' = Without(f, gone) /\ drafted' = drafted /\ DOMAIN f = DOMAIN rows
  BY DEF discardSelectedChanges
<1>2. \A i \in DOMAIN rows : rows[i] \in Drafts /\ NewIsNew(rows[i])
  BY DEF Grid
<1>3. ASSUME NEW i \in DOMAIN rows \ gone
      PROVE  /\ f[i] \in Drafts /\ NewIsNew(f[i]) /\ SameRow(rows[i], f[i])
             /\ CleanIsTold(rows) => Told(f[i])
  <2>1. CASE In(i, r)
    <3>1. f[i] = Restored(rows[i]) /\ rows[i].orig # None /\ rows[i] \in Drafts /\ NewIsNew(rows[i])
      BY <2>1, <1>2
    <3>2. Edits(rows[i], f[i])
      BY <3>1, RestoredIs
    <3> QED BY <3>2 DEF Edits, CleanIsTold
  <2>2. CASE ~ In(i, r)
    <3>1. f[i] = rows[i]
      BY <2>2
    <3> QED BY <3>1, <1>2 DEF SameRow, CleanIsTold
  <2> QED BY <2>1, <2>2
<1>4. \A i \in gone : rows[i].orig = None
  OBVIOUS
<1> HIDE DEF f, gone
<1> QED BY <1>1, <1>3, <1>4, EditWithout, Zenon

\* duplicateSelectedRows puts copies, new drafts of their own, below the selection.
LEMMA DuplicateIs ==
  ASSUME EditorAssumption, Grid, NEW r \in Ranges, duplicateSelectedRows(r)
  PROVE  \E src : EditedFrom(src)
<1> DEFINE S == {i \in DOMAIN rows : In(i, r) /\ rows[i].state # "deleted"}
           copied == At(rows, S)
           copies == [k \in DOMAIN copied |-> Added(drafted + k, copied[k].val)]
           c == Len(copied)
           m == r[2]
           n == Len(rows)
           src == [j \in 1..n + c |-> IF j <= m THEN j ELSE IF j <= m + c THEN 0 ELSE j - c]
<1>1. /\ drafted + Len(copies) <= MaxDrafts
      /\ rows' = SubSeq(rows, 1, m) \o copies \o SubSeq(rows, m + 1, n)
      /\ drafted' = drafted + Len(copies)
  BY DEF duplicateSelectedRows
<1>2. rows \in Seq(Drafts) /\ drafted \in Nat /\ n \in Nat /\ DOMAIN rows = 1..n
  BY DEF Grid
<1>3. m \in 0..n
  BY <1>2 DEF Ranges
<1>4. c \in Nat /\ DOMAIN copied = 1..c /\ \A k \in 1..c : copied[k] \in Drafts
  <2>1. S \in SUBSET DOMAIN rows
    OBVIOUS
  <2> HIDE DEF S
  <2>2. copied \in Seq(Drafts)
    BY <1>2, <2>1, AtIs
  <2> QED BY <2>2
<1> HIDE DEF copied
<1>5. Len(copies) = c /\ DOMAIN copies = 1..c
  BY <1>4
<1> HIDE DEF c
<1>6. \A k \in 1..c :
        /\ copies[k] \in Drafts /\ NewIsNew(copies[k]) /\ copies[k].orig = None
        /\ copies[k].uid = drafted + k /\ copies[k].state = "new"
  <2> SUFFICES ASSUME NEW k \in 1..c
               PROVE  /\ copies[k] \in Drafts /\ NewIsNew(copies[k]) /\ copies[k].orig = None
                      /\ copies[k].uid = drafted + k /\ copies[k].state = "new"
    OBVIOUS
  <2>1. copies[k] = Added(drafted + k, copied[k].val)
    BY <1>4
  <2>2. drafted + k \in 0..MaxDrafts
    BY <1>1, <1>2, <1>4, <1>5 DEF EditorAssumption
  <2>3. copied[k].val \in Values
    BY <1>4 DEF Drafts
  <2> HIDE DEF copies
  <2> QED BY <2>1, <2>2, <2>3, AddedIs
<1>7. copies \in Seq(Drafts)
  <2>1. copies \in [1..c -> Drafts]
    BY <1>4, <1>6
  <2> QED BY <2>1, <1>4
<1> HIDE DEF copies, m, n
<1>8. /\ rows' \in Seq(Drafts) /\ Len(rows') = n + c
      /\ \A j \in 1..m : rows'[j] = rows[j]
      /\ \A j \in m + 1..m + c : rows'[j] = copies[j - m]
      /\ \A j \in m + c + 1..n + c : rows'[j] = rows[j - c]
  <2>1. /\ rows' \in Seq(Drafts) /\ Len(rows') = n + Len(copies)
        /\ \A j \in 1..m : rows'[j] = rows[j]
        /\ \A j \in m + 1..m + Len(copies) : rows'[j] = copies[j - m]
        /\ \A j \in m + Len(copies) + 1..n + Len(copies) : rows'[j] = rows[j - Len(copies)]
    <3>0. rows \in Seq(Drafts) /\ copies \in Seq(Drafts)
      BY <1>2, <1>7
    <3>1. m \in 0..Len(rows)
      BY <1>3 DEF n
    <3>2. rows' = Spliced(rows, copies, m)
      BY <1>1 DEF n, Spliced
    <3>3. SplicedOK(Drafts, rows, copies, m)
      BY <3>0, <3>1, Between, Zenon
    <3> QED BY <3>2, <3>3, Zenon DEF SplicedOK, n
  <2> QED BY <1>5, <2>1
<1>9. DOMAIN rows' = 1..n + c
  BY <1>8, <1>2, <1>4
<1>10. \A j \in DOMAIN rows' :
         \/ j \in 1..m /\ src[j] = j /\ j # 0 /\ j \in 1..n
         \/ j \in m + 1..m + c /\ src[j] = 0 /\ j - m \in 1..c
         \/ j \in m + c + 1..n + c /\ src[j] = j - c /\ j - c \in m + 1..n /\ j - c # 0
  <2> SUFFICES ASSUME NEW j \in 1..n + c
               PROVE  \/ j \in 1..m /\ src[j] = j /\ j # 0 /\ j \in 1..n
                      \/ j \in m + 1..m + c /\ src[j] = 0 /\ j - m \in 1..c
                      \/ j \in m + c + 1..n + c /\ src[j] = j - c /\ j - c \in m + 1..n /\ j - c # 0
    BY <1>9
  <2>1. n \in Nat /\ c \in Nat /\ m \in Nat /\ m <= n
    BY <1>2, <1>3, <1>4
  <2>2. src[j] = IF j <= m THEN j ELSE IF j <= m + c THEN 0 ELSE j - c
    OBVIOUS
  <2> HIDE DEF src
  <2>3. CASE j <= m
    BY <2>1, <2>2, <2>3
  <2>4. CASE ~ (j <= m) /\ j <= m + c
    BY <2>1, <2>2, <2>4
  <2>5. CASE ~ (j <= m) /\ ~ (j <= m + c)
    BY <2>1, <2>2, <2>5
  <2> QED BY <2>1, <2>3, <2>4, <2>5
<1>11. src \in [DOMAIN rows' -> 0..Len(rows)]
  <2>1. DOMAIN src = DOMAIN rows'
    BY <1>9
  <2>2. \A j \in DOMAIN rows' : src[j] \in 0..Len(rows)
    <3> HIDE DEF src
    <3> QED BY <1>10, <1>2, <1>3, <1>4, SMTT(30) DEF n
  <2> QED BY <2>1, <2>2
<1> HIDE DEF src
<1>12. \A j \in 1..n : NewIsNew(rows[j])
  BY <1>2 DEF Grid
<1>13. ASSUME NEW j \in DOMAIN rows'
       PROVE  /\ NewIsNew(rows'[j])
              /\ src[j] = 0 => rows'[j].orig = None /\ rows'[j].uid \in drafted + 1..drafted'
              /\ src[j] # 0 => SameRow(rows[src[j]], rows'[j])
              /\ CleanIsTold(rows) => Told(rows'[j])
  <2>1. CASE j \in 1..m /\ src[j] = j /\ j # 0 /\ j \in 1..n
    <3>1. rows'[j] = rows[j]
      BY <1>8, <2>1
    <3> QED BY <2>1, <3>1, <1>2, <1>12 DEF SameRow, CleanIsTold
  <2>2. CASE j \in m + 1..m + c /\ src[j] = 0 /\ j - m \in 1..c
    <3>1. rows'[j] = copies[j - m]
      BY <1>8, <2>2
    <3>2. drafted + (j - m) \in drafted + 1..drafted'
      BY <1>1, <1>2, <1>4, <1>5, <2>2, SMTT(30)
    <3> QED BY <2>2, <3>1, <3>2, <1>6 DEF Told
  <2>3. CASE j \in m + c + 1..n + c /\ src[j] = j - c /\ j - c \in m + 1..n /\ j - c # 0
    <3>1. rows'[j] = rows[j - c] /\ j - c \in 1..n
      BY <1>8, <2>3, <1>3, <1>4, <1>2
    <3> QED BY <2>3, <3>1, <1>2, <1>12 DEF SameRow, CleanIsTold
  <2> QED BY <1>10, <2>1, <2>2, <2>3
<1>14. ASSUME NEW j \in DOMAIN rows', NEW l \in DOMAIN rows', src[j] = src[l],
              src[j] # 0 \/ rows'[j].uid = rows'[l].uid
       PROVE  j = l
  <2>1. CASE src[j] = 0
    <3>1. /\ j \in m + 1..m + c /\ j - m \in 1..c
          /\ l \in m + 1..m + c /\ l - m \in 1..c
      BY <2>1, <1>10, <1>14, <1>4, <1>3
    <3>2. rows'[j].uid = drafted + (j - m) /\ rows'[l].uid = drafted + (l - m)
      BY <3>1, <1>8, <1>6
    <3>3. drafted + (j - m) = drafted + (l - m)
      BY <3>2, <2>1, <1>14
    <3>4. j \in Nat /\ l \in Nat /\ m \in Nat
      BY <3>1, <1>3, <1>4
    <3> QED BY <3>3, <3>4, <1>2
  <2>2. CASE src[j] # 0
    <3>1. \/ j \in 1..m /\ src[j] = j
          \/ j \in m + c + 1..n + c /\ src[j] = j - c /\ j - c \in m + 1..n
      BY <2>2, <1>10
    <3>2. \/ l \in 1..m /\ src[l] = l
          \/ l \in m + c + 1..n + c /\ src[l] = l - c /\ l - c \in m + 1..n
      BY <2>2, <1>10, <1>14
    <3> QED BY <3>1, <3>2, <1>14, <1>2, <1>3, <1>4, SMTT(30)
  <2> QED BY <2>1, <2>2
<1>15. ASSUME NEW i \in DOMAIN rows PROVE \E j \in DOMAIN rows' : src[j] = i
  <2>1. CASE i <= m
    <3>1. i \in DOMAIN rows' /\ src[i] = i
      BY <2>1, <1>2, <1>3, <1>4, <1>9, <1>10
    <3> QED BY <3>1
  <2>2. CASE i > m
    <3>1. i + c \in DOMAIN rows' /\ src[i + c] = i
      BY <2>2, <1>2, <1>3, <1>4, <1>9, <1>10
    <3> QED BY <3>1
  <2> QED BY <2>1, <2>2, <1>2, <1>3
<1>16. CleanIsTold(rows) => CleanIsTold(rows')
  BY <1>13 DEF CleanIsTold
<1>17. drafted' \in drafted..MaxDrafts
  BY <1>1, <1>2, <1>4, <1>5 DEF EditorAssumption
<1>18. EditedFrom(src)
  BY <1>8, <1>11, <1>13, <1>14, <1>15, <1>16, <1>17 DEF EditedFrom
<1> QED BY <1>18

\* Every edit of the grid is one of EditedFrom.
LEMMA EditIs ==
  ASSUME EditorAssumption, Grid, Edit
  PROVE  /\ CanEdit /\ UNCHANGED <<table, shown, flags, calls>>
         /\ \E src : EditedFrom(src)
<1>1. CASE \E i \in DOMAIN rows, v \in Values : commitEditing(i, v)
  BY <1>1, CommitIs DEF commitEditing
<1>2. CASE addRow
  BY <1>2, AddIs DEF addRow
<1>3. CASE \E r \in Ranges : setSelectionToNull(r)
  BY <1>3, NullIs DEF setSelectionToNull
<1>4. CASE \E r \in Ranges : duplicateSelectedRows(r)
  BY <1>4, DuplicateIs DEF duplicateSelectedRows
<1>5. CASE \E r \in Ranges : deleteSelectedRows(r)
  BY <1>5, DeleteIs DEF deleteSelectedRows
<1>6. CASE \E r \in Ranges : discardSelectedChanges(r)
  BY <1>6, DiscardIs DEF discardSelectedChanges
<1> QED BY <1>1, <1>2, <1>3, <1>4, <1>5, <1>6, Zenon DEF Edit

-----------------------------------------------------------------------------
(* What the steps do to the requests in flight.                            *)
\* A draft as it was read, and a request the code can have sent.
IsRead(d) == d.state = "clean" /\ d.orig # None /\ d.val = d.orig
CallOK(c) ==
  /\ c.what = "save" => c.why = "save"
  /\ c.what = "details" => c.why = "refresh"
  /\ c.reply # None /\ c.what # "load" => c.reply \in [ok : BOOLEAN]
  /\ c.reply # None /\ c.what = "load" /\ c.reply.ok =>
       /\ c.reply.rows \in Seq(Drafts) /\ c.reply.total \in 0..MaxId
       /\ \A i \in DOMAIN c.reply.rows : IsRead(c.reply.rows[i])
  /\ Changed(c.batch)
Calls == calls \in [Slots -> Requests \cup {None}] /\ \A s \in Slots : calls[s] # None => CallOK(calls[s])

\* Only the request in this slot changes.
OnlyAt(s) == calls' \in [Slots -> Requests \cup {None}] /\ \A t \in Slots \ {s} : calls'[t] = calls[t]
SameRequest(c, e) ==
  e.what = c.what /\ e.why = c.why /\ e.page = c.page /\ e.where = c.where /\ e.batch = c.batch

\* The user asks: a request appears in a slot that was free.
Asked(s) ==
  /\ OnlyAt(s) /\ calls[s] = None /\ calls'[s] # None /\ calls'[s].reply = None
  /\ Idle \/ May("overlap")
  /\ UNCHANGED <<table, grid, shown>>
  /\ CallOK(calls'[s])
AsksRefresh(s) ==
  /\ Asked(s) /\ UNCHANGED flags
  /\ calls'[s].what = "details" /\ calls'[s].why = "refresh"
  /\ PendingRows = {} \/ May("dirtyRefresh")
AsksRows(s) ==
  /\ Asked(s) /\ loading' = TRUE /\ UNCHANGED saving
  /\ calls'[s].what = "load" /\ calls'[s].why \in {"discard", "page", "where"}
  /\ calls'[s].why # "where" => calls'[s].where = where
  /\ calls'[s].why # "discard" => PendingRows = {}
AsksSave(s) ==
  /\ Asked(s) /\ ~ saving /\ saving' = TRUE /\ UNCHANGED loading
  /\ calls'[s].what = "save" /\ calls'[s].why = "save" /\ calls'[s].batch = Changes
  /\ nextId + Len(Of(Changes, "new")) <= MaxId + 1

\* The server answers, or the request fails.
Replied(s, x) ==
  /\ OnlyAt(s) /\ calls[s] # None /\ calls[s].reply = None
  /\ calls'[s] # None /\ SameRequest(calls[s], calls'[s]) /\ calls'[s].reply = x
  /\ x # None /\ x.ok \in BOOLEAN
  /\ UNCHANGED <<grid, shown, flags>>
RepliesDetails(s) ==
  Replied(s, [ok |-> TRUE]) /\ calls[s].what = "details" /\ UNCHANGED table
RepliesRows(s, x) ==
  /\ Replied(s, x) /\ x.ok /\ calls[s].what = "load" /\ UNCHANGED table
  /\ x.rows \in Seq(Drafts) /\ x.total \in 0..MaxId
  /\ DOMAIN x.rows = DOMAIN Page(calls[s].page, calls[s].where)
  /\ \A i \in DOMAIN x.rows : x.rows[i] = Loaded(Page(calls[s].page, calls[s].where)[i])
Commits(s, ok) ==
  /\ Replied(s, [ok |-> ok]) /\ calls[s].what = "save" /\ (ok \/ May("lostReply"))
  /\ LET tx == saveTableChanges(calls[s].batch) IN tx.ok /\ db' = tx.db /\ nextId' = tx.next
  /\ unsure' = IF ok THEN unsure ELSE unsure \cup NewIn(calls[s].batch)
Fails(s) ==
  /\ Replied(s, [ok |-> FALSE]) /\ UNCHANGED table
  /\ calls[s].what = "load" =>
       IF calls[s].why = "save" THEN May("failedReload") ELSE May("failedLoads")

\* An answer arrives.
Landed(s) ==
  /\ OnlyAt(s) /\ calls[s] # None /\ calls[s].reply # None
  /\ UNCHANGED <<db, nextId, drafted>> /\ (detailed \in BOOLEAN => detailed' \in BOOLEAN)
Ends(s) ==
  /\ Landed(s) /\ calls'[s] = None /\ UNCHANGED <<rows, page, where, total>>
  /\ \/ calls[s].what = "details" /\ UNCHANGED <<flags, unsure>>
     \/ /\ calls[s].what = "save" /\ ~ calls[s].reply.ok
        /\ saving' = FALSE /\ UNCHANGED <<loading, unsure>>
     \/ /\ calls[s].what = "load" /\ ~ calls[s].reply.ok
        /\ loading' = FALSE /\ saving' = (saving /\ calls[s].why # "save")
        /\ unsure' = unsure \cup NewIn(calls[s].batch)
Reloads(s) ==
  /\ Landed(s) /\ calls'[s] # None /\ UNCHANGED <<rows, page, where, total, saving, unsure>>
  /\ loading' = TRUE
  /\ calls[s].what \in {"details", "save"} /\ calls[s].reply.ok
  /\ calls'[s].what = "load" /\ calls'[s].why = calls[s].why /\ calls'[s].reply = None
  /\ calls'[s].page = page /\ calls'[s].where = where
  /\ calls'[s].batch = IF calls[s].what = "save" THEN calls[s].batch ELSE <<>>
Shows(s) ==
  /\ Landed(s) /\ calls'[s] = None
  /\ calls[s].what = "load" /\ calls[s].reply.ok /\ UNCHANGED unsure
  /\ loading' = FALSE /\ saving' = (saving /\ calls[s].why # "save")
  /\ rows' = calls[s].reply.rows /\ total' = calls[s].reply.total /\ page' = calls[s].page
  /\ where' = IF calls[s].why = "where" THEN calls[s].where ELSE where

\* The numbers of the drafts.
LEMMA UidIs ==
  ASSUME NEW d \in Drafts
  PROVE  d.uid \in 0..MaxDrafts
BY DEF Drafts

LEMMA DraftAt ==
  ASSUME NEW seq \in Seq(Drafts), NEW k \in DOMAIN seq
  PROVE  seq[k] \in Drafts
OBVIOUS

\* The rows a batch inserts, by number.
LEMMA NewInIs ==
  ASSUME NEW batch, Changed(batch)
  PROVE  /\ NewIn(batch) \subseteq 0..MaxDrafts
         /\ \A i \in DOMAIN batch : batch[i].orig = None => batch[i].uid \in NewIn(batch)
         /\ batch = <<>> => NewIn(batch) = {}
<1> DEFINE S == {i \in DOMAIN batch : batch[i].state = "new"}
           b == At(batch, S)
           c == Cardinality(S)
<1>1. Of(batch, "new") = b /\ batch \in Seq(Drafts) /\ S \in SUBSET DOMAIN batch
  BY DEF Changed, Of
<1>2. \A i \in DOMAIN batch : batch[i].orig = None => i \in S
  BY DEF Changed, NewIsNew
<1>3. batch = <<>> => S = {}
  OBVIOUS
<1> HIDE DEF S
<1>4. /\ b \in Seq(Drafts) /\ DOMAIN b = 1..c
      /\ \A k \in 1..c : Nth(S, k) \in S /\ b[k] = batch[Nth(S, k)]
      /\ \A i \in S : \E k \in 1..c : Nth(S, k) = i
  BY <1>1, AtIs
<1> HIDE DEF b, c
<1>5. NewIn(batch) = {d.uid : d \in ToSet(b)} /\ ToSet(b) = {b[k] : k \in DOMAIN b}
  BY <1>1 DEF NewIn, ToSet
<1>6. \A d \in ToSet(b) : d.uid \in 0..MaxDrafts
  <2>1. \A k \in DOMAIN b : b[k] \in Drafts
    BY <1>4, DraftAt
  <2> QED BY <1>4, <1>5, <2>1, UidIs
<1>7. \A i \in DOMAIN batch : batch[i].orig = None => batch[i].uid \in NewIn(batch)
  <2> SUFFICES ASSUME NEW i \in DOMAIN batch, batch[i].orig = None PROVE batch[i].uid \in NewIn(batch)
    OBVIOUS
  <2>1. PICK k \in 1..c : Nth(S, k) = i
    BY <1>2, <1>4
  <2>2. batch[i] \in ToSet(b)
    BY <1>4, <1>5, <2>1
  <2> QED BY <1>5, <2>2
<1>8. batch = <<>> => NewIn(batch) = {}
  <2>1. ASSUME batch = <<>> PROVE ToSet(b) = {}
    BY <1>3, <1>4, <1>5, <2>1
  <2> QED BY <1>5, <2>1
<1> QED BY <1>5, <1>6, <1>7, <1>8

\* The batch of a request that is no save.
LEMMA EmptyIsChanged == Changed(<<>>)
BY DEF Changed

\* A request when it is sent.
LEMMA RequestIs ==
  ASSUME NEW what \in {"details", "load", "save"},
         NEW why \in {"refresh", "discard", "page", "where", "save"},
         NEW p \in Nat \ {0}, NEW w \in Filters \cup {None}, NEW b \in Seq(Drafts)
  PROVE  LET r == Request(what, why, p, w, b) IN
         /\ r \in Requests /\ r # None
         /\ r.what = what /\ r.why = why /\ r.page = p /\ r.where = w /\ r.batch = b /\ r.reply = None
<1> DEFINE r == Request(what, why, p, w, b)
<1>1. r \in Requests
  BY DEF Request, Requests
<1>2. r # None
  BY <1>1, NoneAssumption
<1> QED BY <1>1, <1>2 DEF Request

\* The same without a batch.
LEMMA RequestEmpty ==
  ASSUME NEW what \in {"details", "load", "save"},
         NEW why \in {"refresh", "discard", "page", "where", "save"},
         NEW p \in Nat \ {0}, NEW w \in Filters \cup {None}
  PROVE  LET r == Request(what, why, p, w, <<>>) IN
         /\ r \in Requests /\ r # None
         /\ r.what = what /\ r.why = why /\ r.page = p /\ r.where = w /\ r.batch = <<>> /\ r.reply = None
<1> DEFINE b == <<>>
           r == Request(what, why, p, w, b)
<1>1. b \in Seq(Drafts)
  OBVIOUS
<1> HIDE DEF b
<1>2. r \in Requests
  BY <1>1 DEF Request, Requests
<1>3. r # None
  BY <1>2, NoneAssumption
<1>4. r.what = what /\ r.why = why /\ r.page = p /\ r.where = w /\ r.batch = b /\ r.reply = None
  BY DEF Request
<1> HIDE DEF r
<1>5. r \in Requests /\ r # None
      /\ r.what = what /\ r.why = why /\ r.page = p /\ r.where = w /\ r.batch = b /\ r.reply = None
  BY <1>2, <1>3, <1>4
<1> QED BY <1>5, Zenon DEF r, b

\* A request is put into a slot that was free.
LEMMA SendIs ==
  ASSUME EditorAssumption, Calls, NEW r \in Requests, Send(r)
  PROVE  \E s \in Slots : /\ OnlyAt(s) /\ calls[s] = None /\ calls'[s] = r
                          /\ Idle \/ May("overlap")
<1> DEFINE free == {s \in Slots : calls[s] = None}
           s == CHOOSE s \in free : \A t \in free : s <= t
<1>1. free # {} /\ (Idle \/ May("overlap")) /\ calls' = [calls EXCEPT ![s] = r]
  BY DEF Send
<1>2. s \in free
  <2>1. free \in SUBSET Nat
    BY DEF EditorAssumption
  <2> HIDE DEF free
  <2>2. \E c \in free : \A t \in free : c <= t
    BY <1>1, <2>1, LeastExists, Zenon
  <2> QED BY <2>2
<1>3. s \in Slots /\ calls[s] = None
  BY <1>2
<1> HIDE DEF s, free
<1>4. OnlyAt(s) /\ calls'[s] = r
  BY <1>1, <1>3 DEF Calls, OnlyAt
<1> QED BY <1>1, <1>3, <1>4

\* So the user asks.
LEMMA AskedIs ==
  ASSUME EditorAssumption, Calls, NEW r \in Requests, Send(r), CallOK(r), r.reply = None,
         UNCHANGED <<table, grid, shown>>
  PROVE  \E s \in Slots : Asked(s) /\ calls'[s] = r
<1>1. r # None
  BY NoneAssumption
<1> QED BY <1>1, SendIs DEF Asked

\* The batch of a save: each pending draft of the grid, once.
LEMMA ChangesIs ==
  ASSUME Grid
  PROVE  /\ Changed(Changes)
         /\ \E src \in [DOMAIN Changes -> DOMAIN rows] :
              /\ \A k \in DOMAIN Changes : Changes[k] = rows[src[k]]
              /\ \A k, l \in DOMAIN Changes : src[k] = src[l] => k = l
              /\ \A i \in DOMAIN rows : Pending(rows[i]) => \E k \in DOMAIN Changes : src[k] = i
<1> DEFINE S == {i \in DOMAIN rows : Pending(rows[i])}
           c == Cardinality(S)
           src == [k \in 1..c |-> Nth(S, k)]
<1>1. Changes = At(rows, S)
  BY DEF Changes
<1>2. rows \in Seq(Drafts) /\ S \in SUBSET DOMAIN rows
  BY DEF Grid
<1>3. \A i \in S : i \in DOMAIN rows /\ NewIsNew(rows[i]) /\ Pending(rows[i])
  BY DEF Grid
<1>4. \A i \in DOMAIN rows : Pending(rows[i]) => i \in S
  OBVIOUS
<1> HIDE DEF S
<1>5. /\ Changes \in Seq(Drafts) /\ DOMAIN Changes = 1..c
      /\ \A k \in 1..c : Nth(S, k) \in S /\ Changes[k] = rows[Nth(S, k)]
      /\ \A k, l \in 1..c : Nth(S, k) = Nth(S, l) => k = l
      /\ \A i \in S : \E k \in 1..c : Nth(S, k) = i
  BY <1>1, <1>2, AtIs
<1> HIDE DEF c
<1>6. Changed(Changes)
  BY <1>3, <1>5 DEF Changed
<1>7. src \in [DOMAIN Changes -> DOMAIN rows]
  BY <1>3, <1>5
<1>8. \A k \in DOMAIN Changes : src[k] = Nth(S, k)
  BY <1>5
<1> HIDE DEF src
<1>9. \A k \in DOMAIN Changes : Changes[k] = rows[src[k]]
  BY <1>5, <1>8
<1>10. \A k, l \in DOMAIN Changes : src[k] = src[l] => k = l
  BY <1>5, <1>8
<1>11. ASSUME NEW i \in DOMAIN rows, Pending(rows[i]) PROVE \E k \in DOMAIN Changes : src[k] = i
  <2>1. i \in S
    BY <1>4, <1>11
  <2>2. PICK k \in 1..c : Nth(S, k) = i
    BY <2>1, <1>5
  <2> QED BY <2>2, <1>5, <1>8
<1> QED BY <1>6, <1>7, <1>9, <1>10, <1>11

\* Every request of the user is one of the three.
LEMMA AskIs ==
  ASSUME EditorAssumption, TypeOK, Calls, Ask
  PROVE  \E s \in Slots : AsksRefresh(s) \/ AsksRows(s) \/ AsksSave(s)
<1>1. page \in Nat \ {0} /\ where \in Filters \cup {None} /\ <<>> \in Seq(Drafts) /\ total \in Nat
  <2>1. total \in 0..MaxId
    BY DEF TypeOK
  <2> QED BY <2>1 DEF TypeOK
<1>2. Grid
  BY DEF TypeOK, Grid, NewIsNew
<1>3. CASE refreshTable
  <2> DEFINE r == Request("details", "refresh", page, where, <<>>)
  <2>1. /\ r \in Requests /\ r.what = "details" /\ r.why = "refresh" /\ r.reply = None
        /\ r.batch = <<>>
    BY <1>1, RequestEmpty
  <2>2. Send(r) /\ UNCHANGED <<table, grid, shown, flags>>
    BY <1>3 DEF refreshTable
  <2>3. PendingRows = {} \/ May("dirtyRefresh")
    BY <1>3 DEF refreshTable, hasPendingChanges
  <2> HIDE DEF r
  <2>4. CallOK(r)
    BY <2>1, EmptyIsChanged DEF CallOK
  <2>5. PICK s \in Slots : Asked(s) /\ calls'[s] = r
    BY <2>1, <2>2, <2>4, AskedIs
  <2> QED BY <2>1, <2>2, <2>3, <2>5 DEF AsksRefresh
<1>4. ASSUME NEW why \in {"discard", "page", "where"}, NEW p \in Nat \ {0}, NEW w \in Filters \cup {None},
             loadRows(why, p, w), UNCHANGED <<table, grid, shown, saving>>,
             why # "where" => w = where, why # "discard" => PendingRows = {}
      PROVE  \E s \in Slots : AsksRows(s)
  <2> DEFINE r == Request("load", why, p, w, <<>>)
  <2>1. /\ r \in Requests /\ r.what = "load" /\ r.why = why /\ r.where = w /\ r.reply = None
        /\ r.batch = <<>>
    BY <1>1, RequestEmpty
  <2>2. Send(r) /\ loading' = TRUE
    BY <1>4 DEF loadRows
  <2> HIDE DEF r
  <2>4. CallOK(r)
    BY <2>1, EmptyIsChanged DEF CallOK
  <2>5. PICK s \in Slots : Asked(s) /\ calls'[s] = r
    BY <2>1, <2>2, <2>4, <1>4, AskedIs
  <2> QED BY <2>1, <2>2, <2>5, <1>4 DEF AsksRows
<1>5. CASE discardChanges
  BY <1>1, <1>4, <1>5 DEF discardChanges
<1>6. ASSUME NEW q \in 1..pageCount + 1, changePage(q)
      PROVE  \E s \in Slots : AsksRows(s)
  <2> DEFINE p == IF q < pageCount THEN q ELSE pageCount
  <2>1. p \in Nat \ {0}
    BY <1>1, PageCountIs
  <2>2. loadRows("page", p, where) /\ UNCHANGED <<table, grid, shown, saving>> /\ PendingRows = {}
    BY <1>6 DEF changePage, guardPendingChanges, hasPendingChanges
  <2> HIDE DEF p
  <2> QED BY <2>1, <2>2, <1>1, <1>4
<1>7. ASSUME NEW w \in Filters \cup {None}, applyWhereClause(w)
      PROVE  \E s \in Slots : AsksRows(s)
  <2>1. loadRows("where", 1, w) /\ UNCHANGED <<table, grid, shown, saving>> /\ PendingRows = {}
    BY <1>7 DEF applyWhereClause, guardPendingChanges, hasPendingChanges
  <2>2. 1 \in Nat \ {0}
    OBVIOUS
  <2> QED BY <2>1, <2>2, <1>4
<1>8. CASE saveChanges
  <2> DEFINE r == Request("save", "save", page, where, Changes)
  <2>0. Changed(Changes) /\ Changes \in Seq(Drafts)
    BY <1>2, ChangesIs DEF Changed
  <2>1. /\ r \in Requests /\ r.what = "save" /\ r.why = "save" /\ r.reply = None
        /\ r.batch = Changes
    BY <1>1, <2>0, RequestIs
  <2>2. Send(r) /\ UNCHANGED <<table, grid, shown, loading>> /\ ~ saving /\ saving' = TRUE
        /\ nextId + Len(Of(Changes, "new")) <= MaxId + 1
    BY <1>8 DEF saveChanges
  <2> HIDE DEF r
  <2>4. CallOK(r)
    BY <2>0, <2>1 DEF CallOK
  <2>5. PICK s \in Slots : Asked(s) /\ calls'[s] = r
    BY <2>1, <2>2, <2>4, AskedIs
  <2> QED BY <2>1, <2>2, <2>5 DEF AsksSave
<1> QED BY <1>3, <1>5, <1>6, <1>7, <1>8, Zenon DEF Ask

-----------------------------------------------------------------------------
(* Every step of the network is one of the above.                          *)
\* An answer is put into the request it is for.
LEMMA AnswerIs ==
  ASSUME EditorAssumption, Calls, NEW s \in Slots, Unserved(s), NEW x \in Answers, Answer(s, x),
         UNCHANGED <<grid, shown, flags>>
  PROVE  Replied(s, x)
<1> DEFINE c == calls[s]
           e == [c EXCEPT !.reply = x]
<1>1. c \in Requests /\ c # None /\ c.reply = None
  BY DEF Calls, Unserved
<1>2. x # None /\ x.ok \in BOOLEAN
  <2>1. x # None
    BY NoneAssumption
  <2>2. CASE x \in [ok : BOOLEAN]
    BY <2>1, <2>2
  <2>3. CASE x \in [ok : {TRUE}, rows : Seq(Drafts), total : 0..MaxId]
    BY <2>1, <2>3
  <2> QED BY <2>1, <2>2, <2>3 DEF Answers
<1>3. calls' = [calls EXCEPT ![s] = e]
  BY DEF Answer
<1> HIDE DEF c
<1>4. /\ e.what = c.what /\ e.why = c.why /\ e.page = c.page /\ e.where = c.where
      /\ e.batch = c.batch /\ e.reply = x
  BY <1>1 DEF Requests
<1>5. e \in Requests
  BY <1>1 DEF Requests
<1> HIDE DEF e
<1>6. e # None
  BY <1>5, NoneAssumption
<1>7. OnlyAt(s) /\ calls'[s] = e
  BY <1>3, <1>5 DEF Calls, OnlyAt
<1> QED BY <1>1, <1>2, <1>4, <1>6, <1>7 DEF Replied, SameRequest, c

\* An answer without data.
LEMMA OkIs == \A ok \in BOOLEAN : [ok |-> ok] \in Answers /\ [ok |-> ok].ok = ok
BY DEF Answers

\* The server answers a load with a page of the table.
LEMMA ServeRowsIs ==
  ASSUME EditorAssumption, TypeOK, TableOK, Calls, NEW s \in Slots, ServeRows(s)
  PROVE  \E x : RepliesRows(s, x)
<1> DEFINE p == calls[s].page
           w == calls[s].where
           ids == Page(p, w)
           r == [k \in DOMAIN ids |-> Loaded(ids[k])]
           x == [ok |-> TRUE, rows |-> r, total |-> Len(Found(w))]
<1>1. /\ Unserved(s) /\ calls[s].what = "load" /\ Answer(s, x)
      /\ UNCHANGED <<table, grid, shown, flags>>
  BY DEF ServeRows
<1>2. calls[s] \in Requests
  BY <1>1 DEF Unserved, Calls
<1>3. p \in Nat \ {0}
  BY <1>2 DEF Requests
<1>4. ids \in Seq(DOMAIN db) /\ Len(Found(w)) \in 0..nextId - 1
  BY <1>3, PageIs
<1>5. Len(Found(w)) \in 0..MaxId
  BY <1>4, SMTT(30) DEF TypeOK, EditorAssumption
<1>6. ASSUME NEW id \in DOMAIN db PROVE Loaded(id) \in Drafts
  <2>1. id \in 0..MaxId /\ db[id].val \in Values /\ 0 \in 0..MaxDrafts
    BY SMTT(30) DEF TypeOK, TableOK, TableRows, EditorAssumption
  <2> QED BY <2>1 DEF Loaded, Drafts
<1> HIDE DEF ids
<1>7. r \in Seq(Drafts)
  <2>1. Len(ids) \in Nat /\ DOMAIN ids = 1..Len(ids) /\ \A k \in 1..Len(ids) : ids[k] \in DOMAIN db
    BY <1>4
  <2>2. r \in [1..Len(ids) -> Drafts]
    BY <2>1, <1>6
  <2> QED BY <2>1, <2>2
<1>8. DOMAIN r = DOMAIN ids /\ \A k \in DOMAIN ids : r[k] = Loaded(ids[k])
  OBVIOUS
<1> HIDE DEF r
<1>9. x \in Answers /\ x.ok /\ x.rows = r /\ x.total = Len(Found(w))
  BY <1>5, <1>7 DEF Answers
<1> HIDE DEF x
<1>10. Replied(s, x)
  BY <1>1, <1>9, AnswerIs
<1>11. RepliesRows(s, x)
  BY <1>1, <1>5, <1>7, <1>8, <1>9, <1>10 DEF RepliesRows, ids
<1> QED BY <1>11

\* The server commits a batch or leaves the table alone.
LEMMA ServeSaveIs ==
  ASSUME EditorAssumption, TypeOK, TableOK, Calls, NEW s \in Slots, ServeSave(s)
  PROVE  Fails(s) \/ \E ok \in BOOLEAN : Commits(s, ok)
<1> DEFINE tx == saveTableChanges(calls[s].batch)
<1>1. /\ Unserved(s) /\ calls[s].what = "save" /\ UNCHANGED <<grid, shown, flags>>
      /\ IF tx.ok THEN db' = tx.db /\ nextId' = tx.next ELSE UNCHANGED <<db, nextId>>
      /\ \/ Answer(s, [ok |-> tx.ok]) /\ UNCHANGED unsure
         \/ /\ May("lostReply") /\ tx.ok /\ Answer(s, [ok |-> FALSE])
            /\ unsure' = unsure \cup NewIn(calls[s].batch)
  BY DEF ServeSave
<1>2. Changed(calls[s].batch)
  BY <1>1 DEF Unserved, Calls, CallOK
<1>3. tx.ok \in BOOLEAN
  BY <1>2, SaveKeeps
<1> HIDE DEF tx
<1>4. ASSUME NEW ok \in BOOLEAN, Answer(s, [ok |-> ok])
      PROVE  Replied(s, [ok |-> ok])
  <2>1. [ok |-> ok] \in Answers
    BY OkIs
  <2> QED BY <2>1, <1>1, <1>4, AnswerIs
<1>5. CASE tx.ok
  <2>1. CASE Answer(s, [ok |-> tx.ok]) /\ UNCHANGED unsure
    <3>1. tx.ok = TRUE
      BY <1>3, <1>5
    <3>2. Commits(s, TRUE)
      BY <1>1, <1>4, <1>5, <2>1, <3>1 DEF Commits, tx
    <3> QED BY <3>2
  <2>2. CASE /\ May("lostReply") /\ Answer(s, [ok |-> FALSE])
             /\ unsure' = unsure \cup NewIn(calls[s].batch)
    <3>1. Commits(s, FALSE)
      BY <1>1, <1>4, <1>5, <2>2 DEF Commits, tx
    <3> QED BY <3>1
  <2> QED BY <1>1, <2>1, <2>2
<1>6. CASE ~ tx.ok
  <2>1. tx.ok = FALSE
    BY <1>3, <1>6
  <2>2. Replied(s, [ok |-> FALSE])
    BY <1>1, <1>4, <2>1
  <2> QED BY <1>1, <1>6, <2>2 DEF Fails, table
<1> QED BY <1>5, <1>6

\* A load follows the request it belongs to, in its slot.
LEMMA ReloadIs ==
  ASSUME EditorAssumption, TypeOK, Calls, NEW s \in Slots,
         NEW why \in {"refresh", "save"}, NEW b \in Seq(Drafts), Reload(s, why, b)
  PROVE  /\ OnlyAt(s) /\ calls'[s] # None /\ loading' = TRUE
         /\ calls'[s].what = "load" /\ calls'[s].why = why /\ calls'[s].reply = None
         /\ calls'[s].page = page /\ calls'[s].where = where /\ calls'[s].batch = b
<1> DEFINE r == Request("load", why, page, where, b)
<1>1. /\ r \in Requests /\ r # None /\ r.what = "load" /\ r.why = why /\ r.reply = None
      /\ r.page = page /\ r.where = where /\ r.batch = b
  <2>1. r \in Requests
    BY DEF TypeOK, Request, Requests
  <2> QED BY <2>1, NoneAssumption DEF Request
<1>2. calls' = [calls EXCEPT ![s] = r] /\ loading' = TRUE
  BY DEF Reload
<1> HIDE DEF r
<1>3. OnlyAt(s) /\ calls'[s] = r
  BY <1>1, <1>2 DEF OnlyAt, Calls
<1> QED BY <1>1, <1>2, <1>3

\* A request ends.
LEMMA FreeIs ==
  ASSUME Calls, NEW s \in Slots, Free(s)
  PROVE  OnlyAt(s) /\ calls'[s] = None
BY DEF Calls, Free, OnlyAt

\* Every step of the network is one of those named above, or another client's.
LEMMA NetworkIs ==
  ASSUME EditorAssumption, TypeOK, TableOK, Calls, Network
  PROVE  \/ \E s \in Slots : \/ RepliesDetails(s) \/ (\E x : RepliesRows(s, x))
                             \/ (\E ok \in BOOLEAN : Commits(s, ok)) \/ Fails(s)
                             \/ Ends(s) \/ Reloads(s) \/ Shows(s)
         \/ \E id \in DOMAIN db : otherClient(id)
<1>1. CASE \E id \in DOMAIN db : otherClient(id)
  BY <1>1
<1>2. ASSUME NEW s \in Slots, Progress(s)
      PROVE  \/ RepliesDetails(s) \/ (\E x : RepliesRows(s, x))
             \/ (\E ok \in BOOLEAN : Commits(s, ok)) \/ Fails(s)
             \/ Ends(s) \/ Reloads(s) \/ Shows(s)
  <2>1. CASE ServeDetails(s)
    <3>1. [ok |-> TRUE] \in Answers
      BY OkIs
    <3>2. Replied(s, [ok |-> TRUE])
      BY <2>1, <3>1, AnswerIs DEF ServeDetails
    <3> QED BY <2>1, <3>2 DEF ServeDetails, RepliesDetails
  <2>2. CASE ServeRows(s)
    BY <2>2, ServeRowsIs
  <2>3. CASE ServeSave(s)
    BY <2>3, ServeSaveIs
  <2>4. CASE Fail(s)
    <3>1. [ok |-> FALSE] \in Answers
      BY OkIs
    <3>2. Replied(s, [ok |-> FALSE])
      BY <2>4, <3>1, AnswerIs DEF Fail
    <3> QED BY <2>4, <3>2 DEF Fail, Fails
  <2>5. CASE DetailsArrive(s)
    <3>1. /\ Answered(s, "details") /\ UNCHANGED <<table, grid, page, where, total, saving>>
          /\ detailed' \in {detailed, TRUE}
          /\ \/ ~calls[s].reply.ok /\ Free(s) /\ UNCHANGED loading
             \/ calls[s].reply.ok /\ Reload(s, "refresh", <<>>)
      BY <2>5 DEF DetailsArrive
    <3>2. calls[s] # None /\ calls[s].reply # None /\ calls[s].what = "details" /\ calls[s].why = "refresh"
      BY <3>1 DEF Answered, Calls, CallOK
    <3>3. CASE Free(s) /\ UNCHANGED loading
      BY <3>1, <3>2, <3>3, FreeIs DEF Ends, Landed, grid, flags, table
    <3>4. CASE calls[s].reply.ok /\ Reload(s, "refresh", <<>>)
      <4> DEFINE b == <<>>
      <4>1. b \in Seq(Drafts) /\ Reload(s, "refresh", b)
        BY <3>4
      <4> HIDE DEF b
      <4>2. /\ OnlyAt(s) /\ calls'[s] # None /\ loading' = TRUE
            /\ calls'[s].what = "load" /\ calls'[s].why = "refresh" /\ calls'[s].reply = None
            /\ calls'[s].page = page /\ calls'[s].where = where /\ calls'[s].batch = b
        BY <4>1, ReloadIs
      <4> QED BY <3>1, <3>2, <3>4, <4>2 DEF Reloads, Landed, grid, table, b
    <3> QED BY <3>1, <3>3, <3>4
  <2>6. CASE SaveArrives(s)
    <3>1. /\ Answered(s, "save") /\ UNCHANGED <<table, grid, shown>>
          /\ \/ ~calls[s].reply.ok /\ Free(s) /\ saving' = FALSE /\ UNCHANGED loading
             \/ calls[s].reply.ok /\ Reload(s, "save", calls[s].batch) /\ UNCHANGED saving
      BY <2>6 DEF SaveArrives
    <3>2. /\ calls[s] # None /\ calls[s].reply # None /\ calls[s].what = "save" /\ calls[s].why = "save"
          /\ calls[s].batch \in Seq(Drafts)
      BY <3>1 DEF Answered, Calls, CallOK, Changed
    <3>3. CASE ~calls[s].reply.ok /\ Free(s) /\ saving' = FALSE /\ UNCHANGED loading
      BY <3>1, <3>2, <3>3, FreeIs DEF Ends, Landed, grid, table, shown
    <3>4. CASE calls[s].reply.ok /\ Reload(s, "save", calls[s].batch) /\ UNCHANGED saving
      <4>1. /\ OnlyAt(s) /\ calls'[s] # None /\ loading' = TRUE
            /\ calls'[s].what = "load" /\ calls'[s].why = "save" /\ calls'[s].reply = None
            /\ calls'[s].page = page /\ calls'[s].where = where /\ calls'[s].batch = calls[s].batch
        BY <3>2, <3>4, ReloadIs
      <4> QED BY <3>1, <3>2, <3>4, <4>1 DEF Reloads, Landed, grid, table, shown
    <3> QED BY <3>1, <3>3, <3>4
  <2>7. CASE RowsArrive(s)
    <3>1. /\ Answered(s, "load") /\ Free(s) /\ UNCHANGED <<db, nextId, drafted>>
          /\ loading' = FALSE /\ saving' = (saving /\ calls[s].why # "save")
          /\ detailed' \in {detailed, TRUE}
          /\ \/ /\ ~calls[s].reply.ok /\ UNCHANGED <<rows, page, where, total>>
                /\ unsure' = unsure \cup NewIn(calls[s].batch)
             \/ /\ calls[s].reply.ok /\ UNCHANGED unsure
                /\ rows' = calls[s].reply.rows
                /\ page' = calls[s].page
                /\ total' = calls[s].reply.total
                /\ where' = IF calls[s].why = "where" THEN calls[s].where ELSE where
      BY <2>7 DEF RowsArrive
    <3>2. Landed(s) /\ calls'[s] = None /\ calls[s].what = "load"
      BY <3>1, FreeIs DEF Landed, Answered
    <3> QED BY <3>1, <3>2 DEF Ends, Shows
  <2> QED BY <1>2, <2>1, <2>2, <2>3, <2>4, <2>5, <2>6, <2>7 DEF Progress
<1> QED BY <1>1, <1>2 DEF Network

-----------------------------------------------------------------------------
(* One save at a time, room for its keys, and the types.                   *)
OfSave(s) == calls[s] # None /\ calls[s].why = "save"
ToServe(s) == calls[s] # None /\ calls[s].what = "save" /\ calls[s].reply = None
\* isSaving is set while one request, a save or its reload, is under way.
OneSave ==
  /\ saving \in BOOLEAN /\ (saving <=> \E s \in Slots : OfSave(s))
  /\ \A s, t \in Slots : OfSave(s) /\ OfSave(t) => s = t
\* A save that is still to be served finds keys for its new rows.
Room ==
  \A s \in Slots : ToServe(s) => nextId + Len(Of(calls[s].batch, "new")) <= MaxId + 1
\* The inductive invariant behind every theorem below.
Sound == TypeOK /\ TableOK /\ Calls /\ OneSave /\ Room

\* The steps of the specification, by what they do.
EditStep == CanEdit /\ UNCHANGED <<table, shown, flags, calls>> /\ \E src : EditedFrom(src)
CallStep(s) ==
  \/ AsksRefresh(s) \/ AsksRows(s) \/ AsksSave(s)
  \/ RepliesDetails(s) \/ (\E x : RepliesRows(s, x))
  \/ (\E ok \in BOOLEAN : Commits(s, ok)) \/ Fails(s)
  \/ Ends(s) \/ Reloads(s) \/ Shows(s)

\* So every step is an edit, a step of one request, another client's, or none.
LEMMA StepIs ==
  ASSUME EditorAssumption, Sound, [Next]_vars
  PROVE  \/ EditStep \/ (\E s \in Slots : CallStep(s))
         \/ (\E id \in DOMAIN db : otherClient(id)) \/ UNCHANGED vars
<1>1. TypeOK /\ TableOK /\ Calls /\ Grid
  BY DEF Sound, TypeOK, Grid, NewIsNew
<1>2. CASE Edit
  BY <1>1, <1>2, EditIs DEF EditStep
<1>3. CASE Ask
  BY <1>1, <1>3, AskIs DEF CallStep
<1>4. CASE Network
  BY <1>1, <1>4, NetworkIs DEF CallStep
<1> QED BY <1>2, <1>3, <1>4 DEF Next

\* A step of a request keeps every request one the code can have sent.
LEMMA CallsKept ==
  ASSUME EditorAssumption, Sound, NEW s \in Slots, CallStep(s)
  PROVE  Calls'
<1>1. Calls /\ \A t \in Slots : calls[t] # None => CallOK(calls[t])
  BY DEF Sound, Calls
<1>2. OnlyAt(s)
  BY DEF CallStep, AsksRefresh, AsksRows, AsksSave, Asked, RepliesDetails, RepliesRows, Commits, Fails,
         Replied, Ends, Reloads, Shows, Landed
<1>3. calls'[s] # None => CallOK(calls'[s])
  <2>1. CASE Asked(s)
    BY <2>1 DEF Asked
  <2>2. CASE RepliesDetails(s)
    BY <1>1, <2>2 DEF RepliesDetails, Replied, SameRequest, CallOK
  <2>3. ASSUME NEW x, RepliesRows(s, x) PROVE CallOK(calls'[s])
    <3>1. /\ calls'[s].reply = x /\ SameRequest(calls[s], calls'[s]) /\ CallOK(calls[s])
          /\ x.rows \in Seq(Drafts) /\ x.total \in 0..MaxId /\ calls[s].what = "load"
          /\ \A i \in DOMAIN x.rows : x.rows[i] = Loaded(Page(calls[s].page, calls[s].where)[i])
      BY <1>1, <2>3 DEF RepliesRows, Replied
    <3>2. \A i \in DOMAIN x.rows : IsRead(x.rows[i])
      <4> SUFFICES ASSUME NEW i \in DOMAIN x.rows PROVE IsRead(x.rows[i])
        OBVIOUS
      <4> DEFINE id == Page(calls[s].page, calls[s].where)[i]
      <4>1. id \in DOMAIN db
        <5>1. calls[s] \in Requests
          BY <1>1, <2>3 DEF RepliesRows, Replied, Calls
        <5>2. calls[s].page \in Nat \ {0}
          BY <5>1 DEF Requests
        <5>3. Page(calls[s].page, calls[s].where) \in Seq(DOMAIN db)
          BY <5>2, PageIs DEF Sound
        <5>4. i \in DOMAIN Page(calls[s].page, calls[s].where)
          BY <2>3 DEF RepliesRows
        <5> QED BY <5>3, <5>4
      <4>2. db[id].val \in Values
        BY <4>1 DEF Sound, TableOK, TableRows
      <4>3. x.rows[i] = Loaded(id)
        BY <3>1
      <4> HIDE DEF id
      <4>4. db[id].val # None
        BY <4>2 DEF EditorAssumption
      <4> QED BY <4>3, <4>4 DEF Loaded, IsRead
    <3> QED BY <3>1, <3>2 DEF SameRequest, CallOK
  <2>4. ASSUME NEW ok \in BOOLEAN, Commits(s, ok) PROVE CallOK(calls'[s])
    BY <1>1, <2>4 DEF Commits, Replied, SameRequest, CallOK
  <2>5. CASE Fails(s)
    BY <1>1, <2>5 DEF Fails, Replied, SameRequest, CallOK
  <2>6. CASE Reloads(s)
    BY <1>1, <2>6, EmptyIsChanged DEF Reloads, Landed, CallOK
  <2> QED BY <2>1, <2>2, <2>3, <2>4, <2>5, <2>6
       DEF CallStep, AsksRefresh, AsksRows, AsksSave, Ends, Shows
<1>4. calls' \in [Slots -> Requests \cup {None}] /\ \A t \in Slots : calls'[t] # None => CallOK(calls'[t])
  BY <1>1, <1>2, <1>3 DEF OnlyAt
<1> QED BY <1>4 DEF Calls, CallOK, Changed, IsRead

\* isSaving is set exactly while one save, or its reload, is under way.
LEMMA OneSaveKept ==
  ASSUME EditorAssumption, Sound, NEW s \in Slots, CallStep(s)
  PROVE  OneSave'
<1>1. /\ OneSave
      /\ calls[s] # None => CallOK(calls[s])
  BY DEF Sound, Calls
<1>2. \A t \in Slots \ {s} : OfSave(t)' <=> OfSave(t)
  BY DEF CallStep, AsksRefresh, AsksRows, AsksSave, Asked, RepliesDetails, RepliesRows, Commits, Fails,
         Replied, Ends, Reloads, Shows, Landed, OnlyAt, OfSave
<1>3. CASE (OfSave(s)' <=> OfSave(s)) /\ saving' = saving
  BY <1>1, <1>2, <1>3 DEF OneSave
<1>4. CASE OfSave(s) /\ ~ OfSave(s)' /\ saving' = FALSE
  BY <1>1, <1>2, <1>4 DEF OneSave
<1>5. CASE ~ saving /\ OfSave(s)' /\ saving' = TRUE
  BY <1>1, <1>2, <1>5 DEF OneSave
<1>6. CASE AsksRefresh(s) \/ AsksRows(s)
  BY <1>3, <1>6 DEF AsksRefresh, AsksRows, Asked, OfSave, flags
<1>7. CASE AsksSave(s)
  BY <1>5, <1>7 DEF AsksSave, Asked, OfSave
<1>8. ASSUME NEW x, Replied(s, x) PROVE OneSave'
  BY <1>3, <1>8 DEF Replied, SameRequest, OfSave, flags
<1>9. CASE Ends(s)
  <2>1. CASE calls[s].what = "details" /\ UNCHANGED flags
    BY <1>1, <1>3, <1>9, <2>1 DEF Ends, Landed, OfSave, CallOK, flags
  <2>2. CASE calls[s].what = "save" /\ saving' = FALSE
    BY <1>1, <1>4, <1>9, <2>2 DEF Ends, Landed, OfSave, CallOK
  <2>3. CASE calls[s].what = "load" /\ saving' = (saving /\ calls[s].why # "save")
    <3>1. CASE calls[s].why = "save"
      BY <1>4, <1>9, <2>3, <3>1 DEF Ends, Landed, OfSave
    <3>2. CASE calls[s].why # "save"
      <4>1. saving' = saving
        BY <1>1, <2>3, <3>2 DEF OneSave
      <4> QED BY <1>3, <1>9, <4>1, <3>2 DEF Ends, Landed, OfSave
    <3> QED BY <3>1, <3>2
  <2> QED BY <1>9, <2>1, <2>2, <2>3 DEF Ends
<1>10. CASE Reloads(s)
  BY <1>3, <1>10 DEF Reloads, Landed, OfSave
<1>11. CASE Shows(s)
  <2>1. CASE calls[s].why = "save"
    BY <1>4, <1>11, <2>1 DEF Shows, Landed, OfSave
  <2>2. CASE calls[s].why # "save"
    <3>1. saving' = saving
      BY <1>1, <1>11, <2>2 DEF OneSave, Shows
    <3> QED BY <1>3, <1>11, <3>1, <2>2 DEF Shows, Landed, OfSave
  <2> QED BY <2>1, <2>2
<1> QED BY <1>6, <1>7, <1>8, <1>9, <1>10, <1>11
     DEF CallStep, RepliesDetails, RepliesRows, Commits, Fails

\* A save in flight leaves room for the keys it will need.
LEMMA RoomKept ==
  ASSUME EditorAssumption, Sound, NEW s \in Slots, CallStep(s)
  PROVE  Room'
<1>1. /\ OneSave /\ Room
      /\ \A t \in Slots : calls[t] # None => CallOK(calls[t])
  BY DEF Sound, Calls
<1>2. \A t \in Slots \ {s} : calls'[t] = calls[t]
  BY DEF CallStep, AsksRefresh, AsksRows, AsksSave, Asked, RepliesDetails, RepliesRows, Commits, Fails,
         Replied, Ends, Reloads, Shows, Landed, OnlyAt
<1>3. CASE nextId' = nextId /\ ~ ToServe(s)'
  BY <1>1, <1>2, <1>3 DEF Room, ToServe
<1>4. CASE AsksRefresh(s) \/ AsksRows(s)
  BY <1>3, <1>4 DEF AsksRefresh, AsksRows, Asked, ToServe, table
<1>5. CASE AsksSave(s)
  BY <1>1, <1>2, <1>5 DEF AsksSave, Asked, Room, ToServe, table
<1>6. ASSUME NEW x, Replied(s, x), UNCHANGED table PROVE Room'
  BY <1>3, <1>6 DEF Replied, ToServe, table
<1>7. ASSUME NEW ok \in BOOLEAN, Commits(s, ok) PROVE Room'
  <2>1. OfSave(s) /\ ~ ToServe(s)'
    BY <1>1, <1>7 DEF Commits, Replied, OfSave, ToServe, CallOK
  <2>2. \A t \in Slots \ {s} : ~ ToServe(t)'
    BY <1>1, <1>2, <2>1 DEF OneSave, OfSave, ToServe, CallOK
  <2> QED BY <2>1, <2>2 DEF Room, ToServe
<1>8. CASE Ends(s) \/ Reloads(s) \/ Shows(s)
  BY <1>3, <1>8 DEF Ends, Reloads, Shows, Landed, ToServe, table
<1> QED BY <1>4, <1>5, <1>6, <1>7, <1>8 DEF CallStep, RepliesDetails, RepliesRows, Fails

\* The table keeps its type, and its keys are those handed out.
LEMMA TableKept ==
  ASSUME EditorAssumption, Sound, NEW s \in Slots, CallStep(s)
  PROVE  /\ TableOK' /\ nextId' \in 1..MaxId + 1
<1>1. TableOK /\ nextId \in 1..MaxId + 1
  BY DEF Sound, TypeOK
<1>2. CASE UNCHANGED <<db, nextId>>
  BY <1>1, <1>2 DEF TableOK, TableRows
<1>3. ASSUME NEW ok \in BOOLEAN, Commits(s, ok) PROVE TableOK' /\ nextId' \in 1..MaxId + 1
  <2> DEFINE batch == calls[s].batch
             tx == saveTableChanges(batch)
             n == Len(Of(batch, "new"))
  <2>1. Changed(batch) /\ ToServe(s)
    BY <1>3 DEF Sound, Calls, CallOK, Commits, Replied, ToServe
  <2>2. tx.ok /\ db' = tx.db /\ nextId' = tx.next
    BY <1>3 DEF Commits
  <2>3. /\ tx.next \in nextId..nextId + n
        /\ tx.db \in [DOMAIN tx.db -> TableRows]
        /\ DOMAIN tx.db \subseteq 1..tx.next - 1
    BY <1>1, <2>1, <2>2, SaveKeeps
  <2>4. nextId + n <= MaxId + 1
    BY <2>1 DEF Sound, Room
  <2>5. n \in Nat /\ MaxId \in Nat
    <3>1. Of(batch, "new") \in Seq(Drafts)
      <4> DEFINE S == {i \in DOMAIN batch : batch[i].state = "new"}
      <4>1. S \in SUBSET DOMAIN batch /\ batch \in Seq(Drafts) /\ Of(batch, "new") = At(batch, S)
        BY <2>1 DEF Changed, Of
      <4> HIDE DEF S, batch
      <4> QED BY <4>1, AtIs
    <3> QED BY <3>1 DEF EditorAssumption
  <2> HIDE DEF tx, n
  <2>6. nextId' \in 1..MaxId + 1
    BY <1>1, <2>2, <2>3, <2>4, <2>5
  <2>7. nextId' \in Nat \ {0} /\ db' \in [DOMAIN db' -> TableRows] /\ DOMAIN db' \subseteq 1..nextId' - 1
    BY <2>2, <2>3, <2>5, <2>6
  <2> QED BY <2>6, <2>7 DEF TableOK, TableRows
<1> QED BY <1>2, <1>3 DEF CallStep, AsksRefresh, AsksRows, AsksSave, Asked, RepliesDetails, RepliesRows,
          Fails, Ends, Reloads, Shows, Landed, table

\* Another client inserts no row.
LEMMA OtherKeeps ==
  ASSUME EditorAssumption, Sound, NEW id \in DOMAIN db, otherClient(id)
  PROVE  TableOK' /\ \A k \in DOMAIN db' : k \in DOMAIN db /\ db'[k].by = db[k].by
<1>1. /\ TableOK /\ nextId' = nextId
  BY DEF Sound, otherClient
<1>2. /\ db' \in [DOMAIN db' -> TableRows]
      /\ \A k \in DOMAIN db' : k \in DOMAIN db /\ db'[k].by = db[k].by
  <2>1. CASE \E v \in Values \ (Refused \cup {db[id].val}) : db' = [db EXCEPT ![id].val = v]
    <3>1. PICK v \in Values \ Refused : db' = [db EXCEPT ![id].val = v]
      BY <2>1
    <3>2. db[id] \in TableRows
      BY <1>1 DEF TableOK
    <3>3. [db[id] EXCEPT !.val = v] \in TableRows /\ [db[id] EXCEPT !.val = v].by = db[id].by
      BY <3>2 DEF TableRows
    <3>4. DOMAIN db' = DOMAIN db /\ db'[id] = [db[id] EXCEPT !.val = v]
          /\ \A k \in DOMAIN db \ {id} : db'[k] = db[k]
      BY <1>1, <3>1 DEF TableOK
    <3>5. db' = [k \in DOMAIN db' |-> db'[k]]
      BY <3>1
    <3>6. \A k \in DOMAIN db' : k \in DOMAIN db /\ db'[k].by = db[k].by /\ db'[k] \in TableRows
      <4> SUFFICES ASSUME NEW k \in DOMAIN db'
                   PROVE  k \in DOMAIN db /\ db'[k].by = db[k].by /\ db'[k] \in TableRows
        OBVIOUS
      <4>1. k \in DOMAIN db /\ db[k] \in TableRows
        BY <1>1, <3>4 DEF TableOK
      <4>2. CASE k = id
        BY <3>3, <3>4, <4>1, <4>2
      <4>3. CASE k # id
        <5>1. db'[k] = db[k]
          BY <3>4, <4>1, <4>3
        <5> QED BY <4>1, <5>1
      <4> QED BY <4>2, <4>3
    <3> QED BY <3>5, <3>6
  <2>2. CASE db' = [i \in DOMAIN db \ {id} |-> db[i]]
    BY <1>1, <2>2 DEF TableOK
  <2> QED BY <2>1, <2>2 DEF otherClient
<1> QED BY <1>1, <1>2 DEF TableOK, TableRows

\* The types of the grid.
GridOK ==
  /\ rows \in Seq(Drafts) /\ drafted \in 0..MaxDrafts
  /\ \A i \in DOMAIN rows : NewIsNew(rows[i])
  /\ page \in Nat \ {0} /\ where \in Filters \cup {None} /\ total \in 0..MaxId
  /\ detailed \in BOOLEAN /\ loading \in BOOLEAN
  /\ unsure \subseteq 0..MaxDrafts

\* The parts of the type invariant.
LEMMA TypesAre ==
  ASSUME TableOK, nextId \in 1..MaxId + 1, MaxId \in Nat, GridOK, Calls, saving \in BOOLEAN
  PROVE  TypeOK
<1>1. DOMAIN db \subseteq 1..MaxId /\ db \in [DOMAIN db -> [val : Values \ Refused, by : 0..MaxDrafts]]
  BY DEF TableOK, TableRows
<1> QED BY <1>1 DEF TypeOK, GridOK, Calls, NewIsNew

\* The grid and what the page says it shows keep their types.
LEMMA GridKept ==
  ASSUME EditorAssumption, Sound, NEW s \in Slots, CallStep(s)
  PROVE  GridOK'
<1>1. GridOK /\ calls \in [Slots -> Requests \cup {None}] /\ (calls[s] # None => CallOK(calls[s]))
  BY DEF Sound, TypeOK, GridOK, Calls, NewIsNew
<1>2. CASE /\ UNCHANGED <<grid, page, where, total>> /\ loading' \in BOOLEAN /\ detailed' \in BOOLEAN
           /\ unsure' \subseteq 0..MaxDrafts
  BY <1>1, <1>2 DEF GridOK, grid
<1>3. CASE AsksRefresh(s) \/ AsksRows(s) \/ AsksSave(s)
  BY <1>1, <1>2, <1>3 DEF AsksRefresh, AsksRows, AsksSave, Asked, flags, shown, table, GridOK
<1>a. calls[s] # None => NewIn(calls[s].batch) \subseteq 0..MaxDrafts
  BY <1>1, NewInIs DEF CallOK
<1>4. ASSUME NEW x, Replied(s, x), unsure' \subseteq 0..MaxDrafts PROVE GridOK'
  BY <1>1, <1>2, <1>4 DEF Replied, flags, shown, GridOK
<1>b. ASSUME NEW ok \in BOOLEAN, Commits(s, ok) PROVE unsure' \subseteq 0..MaxDrafts
  BY <1>1, <1>a, <1>b DEF Commits, Replied, GridOK
<1>c. UNCHANGED table => unsure' \subseteq 0..MaxDrafts
  BY <1>1 DEF table, GridOK
<1>5. CASE Ends(s) \/ Reloads(s)
  <2>1. unsure' \subseteq 0..MaxDrafts
    BY <1>1, <1>a, <1>5 DEF Ends, Reloads, Landed, GridOK
  <2> QED BY <1>1, <1>2, <1>5, <2>1 DEF Ends, Reloads, Landed, flags, GridOK, grid
<1>6. CASE Shows(s)
  <2>1. /\ calls[s].reply.rows \in Seq(Drafts) /\ calls[s].reply.total \in 0..MaxId
        /\ \A i \in DOMAIN calls[s].reply.rows : IsRead(calls[s].reply.rows[i])
    BY <1>1, <1>6 DEF Shows, Landed, CallOK
  <2>2. calls[s] \in Requests
    BY <1>1, <1>6 DEF Shows, Landed
  <2>3. calls[s].page \in Nat \ {0} /\ calls[s].where \in Filters \cup {None}
    BY <2>2 DEF Requests
  <2> QED BY <1>1, <1>6, <2>1, <2>3 DEF Shows, Landed, GridOK, IsRead, NewIsNew
<1> QED BY <1>3, <1>4, <1>b, <1>c, <1>5, <1>6 DEF CallStep, RepliesDetails, RepliesRows, Commits, Fails

\* The page is mounted with one request, for the details, under way.
LEMMA SoundInit == ASSUME EditorAssumption, Init PROVE Sound
<1>1. TableOK /\ nextId \in 1..MaxId + 1 /\ MaxId \in Nat
  <2>1. FirstRows \in Nat /\ MaxId \in Nat /\ FirstRows <= MaxId /\ 0 \in 0..MaxDrafts
    BY DEF EditorAssumption
  <2>2. DOMAIN db = 1..FirstRows /\ nextId = FirstRows + 1
    BY DEF Init
  <2>3. db \in [1..FirstRows -> TableRows]
    BY <2>1 DEF Init, TableRows
  <2> QED BY <2>1, <2>2, <2>3 DEF TableOK
<1>2. GridOK /\ saving = FALSE
  <2>1. rows \in Seq(Drafts) /\ DOMAIN rows = {} /\ drafted \in 0..MaxDrafts /\ unsure \subseteq 0..MaxDrafts
    BY DEF Init, EditorAssumption
  <2>2. page \in Nat \ {0} /\ where \in Filters \cup {None} /\ total \in 0..MaxId
    BY DEF Init, EditorAssumption
  <2>3. detailed \in BOOLEAN /\ loading \in BOOLEAN /\ saving = FALSE
    BY DEF Init
  <2> QED BY <2>1, <2>2, <2>3 DEF GridOK
<1>3. ASSUME NEW s \in Slots
      PROVE  /\ calls[s] \in Requests \cup {None}
             /\ calls[s] # None => CallOK(calls[s]) /\ calls[s].why # "save" /\ calls[s].what # "save"
  <2>1. CASE \A t \in Slots : s <= t
    <3> DEFINE r == Request("details", "refresh", 1, None, <<>>)
    <3>1. calls[s] = r
      BY <2>1 DEF Init
    <3>2. r \in Requests /\ r.what = "details" /\ r.why = "refresh" /\ r.reply = None /\ r.batch = <<>>
      <4>1. 1 \in Nat \ {0} /\ None \in Filters \cup {None}
        OBVIOUS
      <4> QED BY <4>1, RequestEmpty
    <3> HIDE DEF r
    <3> QED BY <3>1, <3>2, EmptyIsChanged DEF CallOK
  <2>2. CASE ~ \A t \in Slots : s <= t
    BY <2>2 DEF Init
  <2> QED BY <2>1, <2>2
<1>4. calls = [s \in Slots |-> calls[s]]
  BY DEF Init
<1>5. Calls
  <2>1. calls \in [Slots -> Requests \cup {None}]
    BY <1>3, <1>4
  <2> QED BY <1>3, <2>1 DEF Calls
<1>6. OneSave /\ Room
  BY <1>2, <1>3 DEF OneSave, Room, OfSave, ToServe
<1>7. TypeOK
  BY <1>1, <1>2, <1>5, TypesAre
<1> QED BY <1>1, <1>5, <1>6, <1>7 DEF Sound

\* Every step keeps the types and the requests sound.
LEMMA SoundStep == ASSUME EditorAssumption, Sound, [Next]_vars PROVE Sound'
<1>1. TypeOK /\ TableOK /\ Calls /\ OneSave /\ Room /\ GridOK /\ MaxId \in Nat
  BY DEF Sound, TypeOK, GridOK, NewIsNew, EditorAssumption
<1>2. ASSUME TableOK', nextId' \in 1..MaxId + 1, GridOK', Calls', OneSave', Room'
      PROVE  Sound'
  <2>1. TypeOK'
    <3>1. /\ DOMAIN db' \subseteq 1..MaxId
          /\ db' \in [DOMAIN db' -> [val : Values \ Refused, by : 0..MaxDrafts]]
      BY <1>1, <1>2 DEF TableOK, TableRows
    <3> QED BY <1>2, <3>1 DEF TypeOK, GridOK, Calls, OneSave, NewIsNew
  <2> QED BY <1>2, <2>1 DEF Sound
<1>3. CASE EditStep
  <2>1. UNCHANGED <<table, shown, flags, calls>>
    BY <1>3 DEF EditStep
  <2>2. PICK src : EditedFrom(src)
    BY <1>3 DEF EditStep
  <2>3. GridOK'
    <3>1. rows' \in Seq(Drafts) /\ drafted' \in drafted..MaxDrafts
          /\ \A j \in DOMAIN rows' : NewIsNew(rows'[j])
      BY <2>2 DEF EditedFrom
    <3>2. drafted' \in 0..MaxDrafts
      BY <1>1, <3>1 DEF GridOK
    <3> QED BY <1>1, <2>1, <3>1, <3>2 DEF GridOK, shown, flags, table, NewIsNew
  <2>4. TableOK' /\ nextId' \in 1..MaxId + 1
    BY <1>1, <2>1 DEF TableOK, TableRows, table, TypeOK
  <2>5. Calls' /\ OneSave' /\ Room'
    BY <1>1, <2>1 DEF Calls, OneSave, Room, OfSave, ToServe, flags, table
  <2> QED BY <1>2, <2>3, <2>4, <2>5
<1>4. ASSUME NEW s \in Slots, CallStep(s) PROVE Sound'
  BY <1>2, <1>4, CallsKept, OneSaveKept, RoomKept, TableKept, GridKept
<1>5. ASSUME NEW id \in DOMAIN db, otherClient(id) PROVE Sound'
  <2>1. UNCHANGED <<nextId, unsure, grid, shown, flags, calls>>
    BY <1>5 DEF otherClient
  <2>2. TableOK'
    BY <1>5, OtherKeeps
  <2>3. GridOK' /\ nextId' \in 1..MaxId + 1
    BY <1>1, <2>1 DEF GridOK, grid, shown, flags, TypeOK, NewIsNew
  <2>4. Calls' /\ OneSave' /\ Room'
    BY <1>1, <2>1 DEF Calls, OneSave, Room, OfSave, ToServe, flags
  <2> QED BY <1>2, <2>2, <2>3, <2>4
<1>6. CASE UNCHANGED vars
  <2>1. UNCHANGED <<table, grid, shown, flags, calls>>
    BY <1>6 DEF vars
  <2>2. TableOK' /\ nextId' \in 1..MaxId + 1
    BY <1>1, <2>1 DEF TableOK, TableRows, table, TypeOK
  <2>3. GridOK'
    BY <1>1, <2>1 DEF GridOK, grid, shown, flags, table, NewIsNew
  <2>4. Calls' /\ OneSave' /\ Room'
    BY <1>1, <2>1 DEF Calls, OneSave, Room, OfSave, ToServe, flags, table
  <2> QED BY <1>2, <2>2, <2>3, <2>4
<1> QED BY <1>3, <1>4, <1>5, <1>6, StepIs

\* In every run of the page, whatever fails, is lost or overlaps, each variable
\* of SQLTableView.vue and of the grid keeps its type, and a save hands out no
\* key beyond those the model has room for.
THEOREM TypeCorrect == Spec => []TypeOK
<1>1. Init => Sound
  BY SoundInit, EditorAssumption
<1>2. Sound /\ [Next]_vars => Sound'
  BY SoundStep, EditorAssumption
<1>3. Sound => TypeOK
  BY DEF Sound
<1> QED BY <1>1, <1>2, <1>3, PTL DEF Spec

-----------------------------------------------------------------------------
(* InsertedOnce.                                                           *)
\* The server has carried out the save, or the reload has begun.
Served(s) == calls[s].what = "load" \/ (calls[s].reply # None /\ calls[s].reply.ok)
Drafted(seq) == \A i \in DOMAIN seq : seq[i].orig = None => seq[i].uid \in 1..drafted
\* The page does not know that this row was inserted, or is about to learn it.
Excused(u) ==
  u \in unsure \/ \E s \in Slots : OfSave(s) /\ Served(s) /\ u \in NewIn(calls[s].batch)
NotYet(seq) ==
  \A i \in DOMAIN seq, id \in DOMAIN db :
    seq[i].orig = None => db[id].by # seq[i].uid \/ Excused(seq[i].uid)
ToInsert(seq) == Uids(seq) /\ Drafted(seq) /\ NotYet(seq)

\* A new draft has a number of its own, not in the table, unless a save has
\* inserted it and the page does not know: the reload under way replaces the
\* grid, or the row is in unsure.
Once ==
  /\ Uids(rows) /\ Drafted(rows)
  /\ \A id \in DOMAIN db : db[id].by <= drafted
  /\ InsertedOnce
  /\ NotYet(rows)
  /\ \A s \in Slots : ToServe(s) => ToInsert(calls[s].batch)

\* What holds of the new drafts of the grid holds of those of the batch.
LEMMA ChangesToInsert ==
  ASSUME Grid, Uids(rows), Drafted(rows), NotYet(rows)
  PROVE  ToInsert(Changes)
<1>1. PICK src \in [DOMAIN Changes -> DOMAIN rows] :
         /\ \A k \in DOMAIN Changes : Changes[k] = rows[src[k]]
         /\ \A k, l \in DOMAIN Changes : src[k] = src[l] => k = l
  BY ChangesIs
<1> DEFINE c == Changes
<1>2. /\ \A k \in DOMAIN c : c[k] = rows[src[k]] /\ src[k] \in DOMAIN rows
      /\ \A k, l \in DOMAIN c : src[k] = src[l] => k = l
  BY <1>1
<1> HIDE DEF c
<1>3. Uids(c)
  BY <1>2 DEF Uids
<1>4. Drafted(c) /\ NotYet(c)
  BY <1>2 DEF Drafted, NotYet
<1> QED BY <1>3, <1>4 DEF ToInsert, c

\* The edits: an added row has a number nobody had.
LEMMA OnceEdit ==
  ASSUME EditorAssumption, Sound, Once, EditStep
  PROVE  Once'
<1>1. UNCHANGED <<table, shown, flags, calls>>
  BY DEF EditStep
<1>2. PICK src : EditedFrom(src)
  BY DEF EditStep
<1>3. Uids(rows) /\ Drafted(rows) /\ drafted \in Nat
      /\ db' = db /\ calls' = calls /\ unsure' = unsure
      /\ (\A id \in DOMAIN db : db[id].by <= drafted /\ db[id].by \in Nat)
  BY <1>1 DEF Once, Sound, TypeOK, TableOK, TableRows, table
<1>4. /\ drafted' \in Nat /\ drafted <= drafted'
      /\ \A j \in DOMAIN rows' : src[j] \in 0..Len(rows)
      /\ \A j \in DOMAIN rows' : src[j] = 0 => rows'[j].uid \in drafted + 1..drafted'
      /\ \A j \in DOMAIN rows' : src[j] # 0 => SameRow(rows[src[j]], rows'[j])
      /\ \A j, l \in DOMAIN rows' :
           src[j] = src[l] /\ (src[j] # 0 \/ rows'[j].uid = rows'[l].uid) => j = l
  BY <1>2, <1>3 DEF EditedFrom, EditorAssumption
<1>5. \A j \in DOMAIN rows' : src[j] # 0 => src[j] \in DOMAIN rows
  <2>1. rows \in Seq(Drafts)
    BY DEF Sound, TypeOK
  <2>2. DOMAIN rows = 1..Len(rows) /\ Len(rows) \in Nat
    BY <2>1
  <2> QED BY <1>4, <2>2
<1>6. \A j \in DOMAIN rows' : rows'[j].orig = None =>
        \/ src[j] = 0 /\ rows'[j].uid \in drafted + 1..drafted'
        \/ /\ src[j] # 0 /\ src[j] \in DOMAIN rows /\ rows[src[j]].orig = None
           /\ rows'[j].uid = rows[src[j]].uid /\ rows'[j].uid \in 1..drafted
  BY <1>3, <1>4, <1>5 DEF SameRow, Drafted
<1>7. Uids(rows)'
  <2> SUFFICES ASSUME NEW j \in DOMAIN rows', NEW l \in DOMAIN rows',
                      rows'[j].orig = None, rows'[l].orig = None, rows'[j].uid = rows'[l].uid
               PROVE  j = l
    BY DEF Uids
  <2>1. CASE src[j] = 0 /\ src[l] = 0
    BY <1>4, <2>1
  <2>2. CASE src[j] # 0 /\ src[l] # 0
    <3>1. src[j] = src[l]
      BY <1>3, <1>6, <2>2 DEF Uids
    <3> QED BY <1>4, <2>2, <3>1
  <2>3. CASE (src[j] = 0) # (src[l] = 0)
    BY <1>3, <1>4, <1>6, <2>3
  <2> QED BY <2>1, <2>2, <2>3
<1>8. Drafted(rows)'
  BY <1>3, <1>4, <1>6 DEF Drafted
<1>a. \A u : Excused(u)' <=> Excused(u)
  BY <1>3 DEF Excused, OfSave, Served
<1>9. NotYet(rows)'
  <2> SUFFICES ASSUME NEW j \in DOMAIN rows', NEW id \in DOMAIN db, rows'[j].orig = None
               PROVE  db[id].by # rows'[j].uid \/ Excused(rows'[j].uid)
    BY <1>3, <1>a DEF NotYet
  <2>1. CASE src[j] = 0
    BY <1>3, <1>4, <1>6, <2>1
  <2>2. CASE src[j] # 0
    BY <1>6, <2>2 DEF Once, NotYet
  <2> QED BY <2>1, <2>2
<1>10. InsertedOnce' /\ (\A id \in DOMAIN db : db[id].by <= drafted)'
  BY <1>3, <1>4 DEF Once, InsertedOnce
<1>11. \A s \in Slots : ToServe(s)' => ToInsert(calls[s].batch)'
  BY <1>3, <1>4, <1>a DEF Once, ToServe, ToInsert, Uids, Drafted, NotYet
<1> QED BY <1>7, <1>8, <1>9, <1>10, <1>11 DEF Once

\* A step of a request that changes neither the table nor the grid.
LEMMA OnceSame ==
  ASSUME Once, NEW s \in Slots, OnlyAt(s), UNCHANGED <<db, rows, drafted>>, unsure \subseteq unsure',
         \A u : Excused(u) => Excused(u)', ToServe(s)' => ToInsert(calls'[s].batch)
  PROVE  Once'
<1>1. InsertedOnce'
  BY DEF Once, InsertedOnce
<1>2. Uids(rows)' /\ Drafted(rows)' /\ (\A id \in DOMAIN db : db[id].by <= drafted)' /\ NotYet(rows)'
  BY DEF Once, Uids, Drafted, NotYet
<1>3. \A t \in Slots : ToServe(t)' => ToInsert(calls[t].batch)'
  BY DEF Once, OnlyAt, ToServe, ToInsert, Uids, Drafted, NotYet
<1> QED BY <1>1, <1>2, <1>3 DEF Once

\* A batch that commits inserts each of its new drafts once, and none that was in
\* the table, unless the page did not know of it.
LEMMA OnceCommits ==
  ASSUME EditorAssumption, Sound, Once, NEW s \in Slots, NEW ok \in BOOLEAN, Commits(s, ok)
  PROVE  Once'
<1> DEFINE batch == calls[s].batch
           tx == saveTableChanges(batch)
<1>1. /\ Changed(batch) /\ ToServe(s) /\ OfSave(s) /\ TableOK
      /\ tx.ok /\ db' = tx.db /\ UNCHANGED <<rows, drafted>>
  BY DEF Sound, Calls, CallOK, Commits, Replied, ToServe, OfSave, grid
<1>2. Uids(batch) /\ Drafted(batch) /\ NotYet(batch)
  BY <1>1 DEF Once, ToInsert
<1>3. /\ \A id \in DOMAIN tx.db : id < nextId => id \in DOMAIN db /\ tx.db[id].by = db[id].by
      /\ \A id \in DOMAIN tx.db : id >= nextId =>
           \E i \in DOMAIN batch : batch[i].orig = None /\ tx.db[id].by = batch[i].uid
      /\ \A x, y \in DOMAIN tx.db :
           x >= nextId /\ y >= nextId /\ tx.db[x].by = tx.db[y].by => x = y
      /\ DOMAIN tx.db \subseteq 1..tx.next - 1 /\ tx.next \in nextId..nextId + Len(Of(batch, "new"))
  BY <1>1, <1>2, SaveKeeps
<1>4. /\ \A id \in DOMAIN db' : id < nextId => id \in DOMAIN db /\ db'[id].by = db[id].by
      /\ \A id \in DOMAIN db' : id >= nextId =>
           \E i \in DOMAIN batch : batch[i].orig = None /\ db'[id].by = batch[i].uid
      /\ \A x, y \in DOMAIN db' : x >= nextId /\ y >= nextId /\ db'[x].by = db'[y].by => x = y
      /\ \A id \in DOMAIN db' : id \in Nat
      /\ nextId \in Nat
  BY <1>1, <1>3 DEF TableOK
<1>5. \A u : Excused(u) => u \in unsure
  <2>1. ~ Served(s) /\ \A t \in Slots : OfSave(t) => t = s
    BY <1>1 DEF Sound, OneSave, ToServe, Served
  <2> QED BY <2>1 DEF Excused
<1>6. \A u \in unsure \cup NewIn(batch) : Excused(u)'
  <2>1. CASE ok
    <3>1. OfSave(s)' /\ Served(s)' /\ calls'[s].batch = batch /\ unsure' = unsure
      BY <1>1, <2>1 DEF Commits, Replied, SameRequest, OfSave, Served
    <3> QED BY <3>1 DEF Excused
  <2>2. CASE ~ ok
    BY <2>2 DEF Commits, Excused
  <2> QED BY <2>1, <2>2
<1>7. \A i \in DOMAIN batch : batch[i].orig = None => batch[i].uid \in NewIn(batch)
  BY <1>1, NewInIs
<1>8. unsure \subseteq unsure'
  BY DEF Commits
<1> HIDE DEF batch, tx
<1>9. \A id \in DOMAIN db' : id >= nextId =>
        /\ db'[id].by \in 1..drafted /\ db'[id].by \in NewIn(batch)
        /\ \A k \in DOMAIN db : db[k].by # db'[id].by \/ db'[id].by \in unsure
  <2> SUFFICES ASSUME NEW id \in DOMAIN db', id >= nextId
               PROVE  /\ db'[id].by \in 1..drafted /\ db'[id].by \in NewIn(batch)
                      /\ \A k \in DOMAIN db : db[k].by # db'[id].by \/ db'[id].by \in unsure
    OBVIOUS
  <2>1. PICK i \in DOMAIN batch : batch[i].orig = None /\ db'[id].by = batch[i].uid
    BY <1>4
  <2> QED BY <1>2, <1>5, <1>7, <2>1 DEF Drafted, NotYet
<1>10. InsertedOnce'
  <2> SUFFICES ASSUME NEW a \in DOMAIN db', NEW b \in DOMAIN db', db'[a].by = db'[b].by, db'[a].by # 0,
                      db'[a].by \notin unsure'
               PROVE  a = b
    BY DEF InsertedOnce
  <2>1. CASE a < nextId /\ b < nextId
    BY <1>4, <1>8, <2>1 DEF Once, InsertedOnce
  <2>2. CASE a >= nextId /\ b >= nextId
    BY <1>4, <2>2
  <2>3. CASE a < nextId /\ b >= nextId
    BY <1>4, <1>8, <1>9, <2>3
  <2>4. CASE a >= nextId /\ b < nextId
    BY <1>4, <1>8, <1>9, <2>4
  <2> QED BY <1>4, <2>1, <2>2, <2>3, <2>4
<1>11. \A id \in DOMAIN db' : db'[id].by <= drafted
  <2> SUFFICES ASSUME NEW id \in DOMAIN db' PROVE db'[id].by <= drafted
    OBVIOUS
  <2>1. CASE id < nextId
    BY <1>4, <2>1 DEF Once
  <2>2. CASE id >= nextId
    <3>1. drafted \in Nat
      BY DEF Sound, TypeOK, EditorAssumption
    <3> QED BY <1>9, <2>2, <3>1
  <2> QED BY <1>4, <2>1, <2>2
<1>12. NotYet(rows)'
  <2> SUFFICES ASSUME NEW i \in DOMAIN rows, NEW id \in DOMAIN db', NEW u, rows[i].orig = None,
                      u = rows[i].uid, db'[id].by = u
               PROVE  Excused(u)'
    BY <1>1 DEF NotYet
  <2>1. CASE id < nextId
    <3>1. id \in DOMAIN db /\ db[id].by = u
      BY <1>4, <2>1
    <3>2. Excused(u)
      BY <3>1 DEF Once, NotYet
    <3> QED BY <1>5, <1>6, <3>2
  <2>2. CASE id >= nextId
    <3>1. u \in NewIn(batch)
      BY <1>9, <2>2
    <3> QED BY <1>6, <3>1
  <2>3. id < nextId \/ id >= nextId
    BY <1>4
  <2> QED BY <2>1, <2>2, <2>3
<1>13. \A t \in Slots : ~ ToServe(t)'
  <2>1. ~ ToServe(s)'
    BY DEF Commits, Replied, ToServe
  <2>2. \A t \in Slots \ {s} : ~ OfSave(t) /\ calls'[t] = calls[t]
    BY <1>1 DEF Sound, OneSave, Commits, Replied, OnlyAt
  <2>3. \A t \in Slots \ {s} : ~ ToServe(t)'
    BY <2>2 DEF Sound, Calls, CallOK, OfSave, ToServe
  <2> QED BY <2>1, <2>3
<1>14. Uids(rows)' /\ Drafted(rows)'
  BY <1>1 DEF Once, Uids, Drafted
<1> QED BY <1>1, <1>10, <1>11, <1>12, <1>13, <1>14 DEF Once

\* The steps of a request.
LEMMA OnceCall ==
  ASSUME EditorAssumption, Sound, Once, NEW s \in Slots, CallStep(s)
  PROVE  Once'
<1>1. /\ OneSave /\ Grid
      /\ \A t \in Slots : calls[t] # None => CallOK(calls[t])
  BY DEF Sound, Calls, TypeOK, Grid, NewIsNew
<1>2. ASSUME OnlyAt(s), unsure \subseteq unsure',
             OfSave(s) /\ Served(s) =>
               \/ OfSave(s)' /\ Served(s)' /\ calls'[s].batch = calls[s].batch
               \/ NewIn(calls[s].batch) \subseteq unsure'
      PROVE  \A u : Excused(u) => Excused(u)'
  <2>1. \A t \in Slots \ {s} : OfSave(t) /\ Served(t) =>
          OfSave(t)' /\ Served(t)' /\ calls'[t].batch = calls[t].batch
    BY <1>2 DEF OnlyAt, OfSave, Served
  <2> SUFFICES ASSUME NEW u, Excused(u) PROVE Excused(u)'
    OBVIOUS
  <2>2. CASE u \in unsure
    BY <1>2, <2>2 DEF Excused
  <2>3. ASSUME NEW t \in Slots \ {s}, OfSave(t) /\ Served(t) /\ u \in NewIn(calls[t].batch) PROVE Excused(u)'
    BY <2>1, <2>3 DEF Excused
  <2>4. CASE OfSave(s) /\ Served(s) /\ u \in NewIn(calls[s].batch)
    BY <1>2, <2>4 DEF Excused
  <2> QED BY <2>2, <2>3, <2>4 DEF Excused
<1>3. CASE AsksRefresh(s) \/ AsksRows(s) \/ AsksSave(s)
  <2>1. /\ OnlyAt(s) /\ UNCHANGED <<db, unsure, rows, drafted>> /\ ~ OfSave(s)
        /\ calls'[s].what = "save" => calls'[s].batch = Changes
    BY <1>3 DEF AsksRefresh, AsksRows, AsksSave, Asked, OfSave, table, grid
  <2>2. ToInsert(Changes)
    BY <1>1, ChangesToInsert DEF Once
  <2>3. \A u : Excused(u) => Excused(u)'
    BY <1>2, <2>1
  <2>4. ToServe(s)' => ToInsert(calls'[s].batch)
    <3>1. ToServe(s)' => calls'[s].batch = Changes
      BY <2>1 DEF ToServe
    <3> QED BY <2>2, <3>1
  <2> QED BY <2>1, <2>3, <2>4, OnceSame
<1>4. ASSUME NEW x, Replied(s, x), UNCHANGED table PROVE Once'
  <2>1. OnlyAt(s) /\ UNCHANGED <<db, unsure, rows, drafted>> /\ ~ ToServe(s)'
    BY <1>4 DEF Replied, ToServe, table, grid
  <2>2. OfSave(s) /\ Served(s) => OfSave(s)' /\ Served(s)' /\ calls'[s].batch = calls[s].batch
    BY <1>4 DEF Replied, SameRequest, OfSave, Served
  <2> QED BY <1>2, <2>1, <2>2, OnceSame
<1>5. ASSUME NEW ok \in BOOLEAN, Commits(s, ok) PROVE Once'
  BY <1>5, OnceCommits
<1>6. CASE Ends(s)
  <2>1. /\ OnlyAt(s) /\ UNCHANGED <<db, rows, drafted>> /\ ~ ToServe(s)'
        /\ calls[s] # None /\ unsure \subseteq unsure'
    BY <1>6 DEF Ends, Landed, ToServe
  <2>2. OfSave(s) /\ Served(s) => NewIn(calls[s].batch) \subseteq unsure'
    BY <1>1, <1>6, <2>1 DEF Ends, OfSave, Served, CallOK
  <2> QED BY <1>2, <2>1, <2>2, OnceSame
<1>7. CASE Reloads(s)
  <2>1. /\ OnlyAt(s) /\ UNCHANGED <<db, unsure, rows, drafted>> /\ ~ ToServe(s)'
        /\ calls[s] # None
    BY <1>7 DEF Reloads, Landed, ToServe
  <2>2. OfSave(s) => OfSave(s)' /\ Served(s)' /\ calls'[s].batch = calls[s].batch
    BY <1>1, <1>7, <2>1 DEF Reloads, OfSave, Served, CallOK
  <2> QED BY <1>2, <2>1, <2>2, OnceSame
<1>8. CASE Shows(s)
  <2>1. /\ OnlyAt(s) /\ UNCHANGED <<db, unsure, drafted>> /\ ~ ToServe(s)'
        /\ rows' = calls[s].reply.rows /\ calls[s] # None /\ calls[s].what = "load"
        /\ \A i \in DOMAIN rows' : rows'[i].orig # None
    BY <1>1, <1>8 DEF Shows, Landed, ToServe, CallOK, IsRead
  <2>2. Uids(rows)' /\ Drafted(rows)' /\ NotYet(rows)'
    BY <2>1 DEF Uids, Drafted, NotYet
  <2>3. InsertedOnce' /\ (\A id \in DOMAIN db : db[id].by <= drafted)'
    BY <2>1 DEF Once, InsertedOnce
  <2>4. ASSUME NEW t \in Slots, ToServe(t)' PROVE ToInsert(calls[t].batch)'
    <3>1. t # s /\ calls'[t] = calls[t] /\ ToServe(t) /\ OfSave(t)
      BY <1>1, <2>1, <2>4 DEF OnlyAt, ToServe, OfSave, CallOK
    <3>2. ~ OfSave(s)
      BY <1>1, <3>1 DEF OneSave
    <3>3. \A u : Excused(u) => Excused(u)'
      BY <1>2, <2>1, <3>2
    <3> QED BY <2>1, <3>1, <3>3 DEF Once, ToInsert, Uids, Drafted, NotYet
  <2> QED BY <2>2, <2>3, <2>4 DEF Once
<1> QED BY <1>3, <1>4, <1>5, <1>6, <1>7, <1>8 DEF CallStep, RepliesDetails, RepliesRows, Fails

\* A row the user added with addRow or duplicateSelectedRows is inserted at most
\* once, however requests overlap, fail or are lost and whatever other clients do,
\* unless a save inserted it and the page did not learn of it: the answer was
\* lost or the reload failed, and saveChanges keeps the draft.
THEOREM RowsInsertedOnce == Spec => []InsertedOnce
<1>1. Init => Sound /\ Once
  <2> SUFFICES ASSUME Init PROVE Once
    BY SoundInit, EditorAssumption
  <2>1. /\ \A id \in DOMAIN db : db[id].by = 0
        /\ rows = <<>> /\ drafted = 0 /\ DOMAIN rows = {}
    BY DEF Init
  <2>2. \A s \in Slots : ~ ToServe(s)
    <3>1. \A s \in Slots : calls[s] # None => calls[s].what = "details"
      BY DEF Init, Request
    <3> QED BY <3>1 DEF ToServe
  <2> QED BY <2>1, <2>2 DEF Once, Uids, Drafted, NotYet, InsertedOnce
<1>2. Sound /\ Once /\ [Next]_vars => (Sound /\ Once)'
  <2> SUFFICES ASSUME Sound, Once, [Next]_vars PROVE Once'
    BY SoundStep, EditorAssumption
  <2>1. CASE EditStep
    BY <2>1, OnceEdit, EditorAssumption
  <2>2. ASSUME NEW s \in Slots, CallStep(s) PROVE Once'
    BY <2>2, OnceCall, EditorAssumption
  <2>3. ASSUME NEW id \in DOMAIN db, otherClient(id) PROVE Once'
    <3>1. /\ \A k \in DOMAIN db' : k \in DOMAIN db /\ db'[k].by = db[k].by
          /\ UNCHANGED <<nextId, unsure, grid, shown, flags, calls>>
      BY <2>3, OtherKeeps, EditorAssumption DEF otherClient
    <3>2. \A u : Excused(u)' <=> Excused(u)
      BY <3>1 DEF Excused, OfSave, Served
    <3>3. Uids(rows)' /\ Drafted(rows)' /\ NotYet(rows)'
      BY <3>1, <3>2 DEF Once, Uids, Drafted, NotYet, grid
    <3>4. InsertedOnce' /\ (\A k \in DOMAIN db : db[k].by <= drafted)'
      BY <3>1 DEF Once, InsertedOnce, grid
    <3>5. \A s \in Slots : ToServe(s)' => ToInsert(calls[s].batch)'
      BY <3>1, <3>2 DEF Once, ToServe, ToInsert, Uids, Drafted, NotYet, grid
    <3> QED BY <3>3, <3>4, <3>5 DEF Once
  <2>4. CASE UNCHANGED vars
    <3>1. \A u : Excused(u)' <=> Excused(u)
      BY <2>4 DEF vars, table, Excused, OfSave, Served
    <3> QED BY <2>4, <3>1 DEF vars, grid, table, Once, Uids, Drafted, NotYet, InsertedOnce,
                  ToServe, ToInsert
  <2> QED BY <2>1, <2>2, <2>3, <2>4, StepIs, EditorAssumption
<1>3. Once => InsertedOnce
  BY DEF Once
<1> QED BY <1>1, <1>2, <1>3, PTL DEF Spec

-----------------------------------------------------------------------------
(* PageIsTrue.                                                             *)
\* A save has been carried out, and its reload is due.
SaveServed == \E s \in Slots : OfSave(s) /\ Served(s)
\* The reload after a save does not fail.
ReloadsWork ==
  \A s \in Slots : OfSave(s) /\ calls[s].what = "load" => calls[s].reply = None \/ calls[s].reply.ok

\* No reload of a save fails, by assumption.
LEMMA ReloadsWorkStep ==
  ASSUME Sound, ReloadsWork, ~ May("failedReload"), NEW s \in Slots, CallStep(s)
  PROVE  ReloadsWork'
<1>1. \A t \in Slots \ {s} : calls'[t] = calls[t]
  BY DEF CallStep, AsksRefresh, AsksRows, AsksSave, Asked, RepliesDetails, RepliesRows, Commits, Fails,
         Replied, Ends, Reloads, Shows, Landed, OnlyAt
<1>2. CASE ~ OfSave(s)' \/ calls'[s].what # "load" \/ calls'[s].reply = None \/ calls'[s].reply.ok
  BY <1>1, <1>2 DEF ReloadsWork, OfSave
<1>3. CASE AsksRefresh(s) \/ AsksRows(s) \/ AsksSave(s)
  BY <1>2, <1>3 DEF AsksRefresh, AsksRows, AsksSave, Asked
<1>4. CASE RepliesDetails(s)
  BY <1>2, <1>4 DEF RepliesDetails, Replied, SameRequest
<1>5. ASSUME NEW x, RepliesRows(s, x) PROVE ReloadsWork'
  BY <1>2, <1>5 DEF RepliesRows, Replied
<1>6. ASSUME NEW ok \in BOOLEAN, Commits(s, ok) PROVE ReloadsWork'
  BY <1>2, <1>6 DEF Commits, Replied, SameRequest
<1>7. CASE Fails(s)
  BY <1>2, <1>7 DEF Fails, Replied, SameRequest, OfSave
<1>8. CASE Ends(s) \/ Reloads(s) \/ Shows(s)
  BY <1>2, <1>8 DEF Ends, Reloads, Shows, OfSave
<1> QED BY <1>3, <1>4, <1>5, <1>6, <1>7, <1>8 DEF CallStep

\* Found and Page, with the table as an argument.
FoundIn(d, w) == InOrder({id \in DOMAIN d : w = None \/ d[id].val = w})
PageOf(d, p, w) ==
  LET all == FoundIn(d, w)
  IN SubSeq(all, (p - 1) * PageSize + 1,
            IF p * PageSize < Len(all) THEN p * PageSize ELSE Len(all))

\* Page, with the table as an argument.
LEMMA PageOfIs == \A p, w : Page(p, w) = PageOf(db, p, w)
BY DEF Page, PageOf, Found, FoundIn

Ids(seq) == {seq[i].id : i \in {j \in DOMAIN seq : seq[j].orig # None}}
CurrentIn(d, seq) ==
  \A i \in DOMAIN seq : seq[i].orig # None => seq[i].id \in DOMAIN d /\ d[seq[i].id].val = seq[i].orig
Brings(s) ==
  calls[s] # None /\ calls[s].what = "load" /\ calls[s].reply # None /\ calls[s].reply.ok

Alone == \A s, t \in Slots : calls[s] # None /\ calls[t] # None => s = t
\* The grid shows the page it says; an answer brings the page it was asked for.
GridTrue == (total > 0 => Ids(rows) = ToSet(PageOf(db, page, where))) /\ CurrentIn(db, rows)
AnswerTrue(c) ==
  Ids(c.reply.rows) = ToSet(PageOf(db, c.page, c.where)) /\ CurrentIn(db, c.reply.rows)
\* One request at a time; the page is true, or the reload of a save will make it
\* true; an answer under way is true too.
Paged ==
  /\ Alone
  /\ GridTrue \/ SaveServed
  /\ \A s \in Slots : Brings(s) => AnswerTrue(calls[s])
  /\ \A s \in Slots : calls[s] # None /\ calls[s].what = "load" /\ calls[s].why # "where" =>
       calls[s].where = where

\* The edits drop and add no row of the table.
LEMMA EditKeepsIds ==
  ASSUME EditorAssumption, Sound, NEW src, EditedFrom(src)
  PROVE  /\ Ids(rows') = Ids(rows)
         /\ \A d : CurrentIn(d, rows) => CurrentIn(d, rows')
<1>1. rows \in Seq(Drafts) /\ DOMAIN rows = 1..Len(rows) /\ Len(rows) \in Nat
  BY DEF Sound, TypeOK
<1>2. /\ \A j \in DOMAIN rows' : rows'[j].orig # None =>
           /\ src[j] \in DOMAIN rows /\ rows[src[j]].orig = rows'[j].orig
           /\ rows[src[j]].id = rows'[j].id
      /\ \A i \in DOMAIN rows : rows[i].orig # None =>
           \E j \in DOMAIN rows' : rows'[j].orig # None /\ rows'[j].id = rows[i].id
  <2>1. /\ \A j \in DOMAIN rows' : src[j] \in 0..Len(rows)
        /\ \A j \in DOMAIN rows' : src[j] = 0 => rows'[j].orig = None
        /\ \A j \in DOMAIN rows' : src[j] # 0 => SameRow(rows[src[j]], rows'[j])
        /\ \A i \in DOMAIN rows : rows[i].orig # None => \E j \in DOMAIN rows' : src[j] = i
    BY DEF EditedFrom
  <2>2. \A j \in DOMAIN rows' : src[j] # 0 => src[j] \in DOMAIN rows
    BY <1>1, <2>1
  <2>3. \A i \in DOMAIN rows : i # 0
    BY <1>1
  <2>4. \A i \in DOMAIN rows : rows[i].orig # None =>
          \E j \in DOMAIN rows' : rows'[j].orig # None /\ rows'[j].id = rows[i].id
    <3> SUFFICES ASSUME NEW i \in DOMAIN rows, rows[i].orig # None
                 PROVE  \E j \in DOMAIN rows' : rows'[j].orig # None /\ rows'[j].id = rows[i].id
      OBVIOUS
    <3>1. PICK j \in DOMAIN rows' : src[j] = i
      BY <2>1
    <3> QED BY <2>1, <2>3, <3>1 DEF SameRow
  <2> QED BY <2>1, <2>2, <2>4 DEF SameRow
<1>3. Ids(rows') = Ids(rows)
  <2>1. ASSUME NEW x \in Ids(rows') PROVE x \in Ids(rows)
    BY <1>2, <2>1 DEF Ids
  <2>2. ASSUME NEW x \in Ids(rows) PROVE x \in Ids(rows')
    <3>1. PICK i \in DOMAIN rows : rows[i].orig # None /\ x = rows[i].id
      BY <2>2 DEF Ids
    <3>2. PICK j \in DOMAIN rows' : rows'[j].orig # None /\ rows'[j].id = rows[i].id
      BY <1>2, <3>1
    <3> QED BY <3>1, <3>2 DEF Ids
  <2> QED BY <2>1, <2>2
<1>4. ASSUME NEW d, CurrentIn(d, rows) PROVE CurrentIn(d, rows')
  BY <1>2, <1>4 DEF CurrentIn
<1> QED BY <1>3, <1>4

\* The answer to a load is the page asked for, each row once and as it is in the table.
LEMMA RowsAnswerTrue ==
  ASSUME EditorAssumption, Sound, NEW s \in Slots, NEW x, RepliesRows(s, x)
  PROVE  /\ Ids(x.rows) = ToSet(PageOf(db, calls[s].page, calls[s].where))
         /\ CurrentIn(db, x.rows)
         /\ \A i, j \in DOMAIN x.rows : x.rows[i].id = x.rows[j].id => i = j
<1> DEFINE ids == PageOf(db, calls[s].page, calls[s].where)
<1>0. ids = Page(calls[s].page, calls[s].where)
  BY PageOfIs
<1>1. calls[s].page \in Nat \ {0}
  <2>1. calls[s] \in Requests
    BY DEF RepliesRows, Replied, Sound, Calls
  <2> QED BY <2>1 DEF Requests
<1>2. ids \in Seq(DOMAIN db) /\ \A i, j \in DOMAIN ids : ids[i] = ids[j] => i = j
  <2>1. TableOK
    BY DEF Sound
  <2>2. /\ Page(calls[s].page, calls[s].where) \in Seq(DOMAIN db)
        /\ \A i, j \in DOMAIN Page(calls[s].page, calls[s].where) :
             Page(calls[s].page, calls[s].where)[i] = Page(calls[s].page, calls[s].where)[j] => i = j
    BY <1>1, <2>1, PageIs
  <2> HIDE DEF ids
  <2> QED BY <1>0, <2>2, Zenon
<1>3. DOMAIN x.rows = DOMAIN ids /\ \A i \in DOMAIN ids : x.rows[i] = Loaded(ids[i])
  BY <1>0 DEF RepliesRows
<1> HIDE DEF ids
<1>4. \A i \in DOMAIN ids : /\ ids[i] \in DOMAIN db
                            /\ x.rows[i].id = ids[i] /\ x.rows[i].orig = db[ids[i]].val
                            /\ x.rows[i].orig # None
  <2> SUFFICES ASSUME NEW i \in DOMAIN ids
               PROVE  /\ ids[i] \in DOMAIN db
                      /\ x.rows[i].id = ids[i] /\ x.rows[i].orig = db[ids[i]].val
                      /\ x.rows[i].orig # None
    OBVIOUS
  <2>1. ids[i] \in DOMAIN db
    BY <1>2
  <2>2. db[ids[i]].val \in Values
    BY <2>1 DEF Sound, TableOK, TableRows
  <2>3. db[ids[i]].val # None
    BY <2>2 DEF EditorAssumption
  <2>4. x.rows[i].id = ids[i] /\ x.rows[i].orig = db[ids[i]].val
    <3> DEFINE id == ids[i]
    <3>1. x.rows[i] = Loaded(id)
      BY <1>3
    <3> HIDE DEF id
    <3>2. x.rows[i].id = id /\ x.rows[i].orig = db[id].val
      BY <3>1 DEF Loaded
    <3> QED BY <3>2 DEF id
  <2> QED BY <2>1, <2>3, <2>4
<1>5. Ids(x.rows) = ToSet(ids)
  BY <1>3, <1>4 DEF Ids, ToSet
<1>6. CurrentIn(db, x.rows)
  BY <1>3, <1>4 DEF CurrentIn
<1> QED BY <1>2, <1>3, <1>4, <1>5, <1>6 DEF ids

\* A step of a request that changes neither the table nor the grid.
LEMMA PagedSame ==
  ASSUME Paged, NEW s \in Slots, OnlyAt(s), UNCHANGED <<db, rows, page, where, total>>,
         Idle \/ calls[s] # None, GridTrue \/ SaveServed',
         Brings(s)' => AnswerTrue(calls'[s]),
         calls'[s] # None /\ calls'[s].what = "load" /\ calls'[s].why # "where" => calls'[s].where = where
  PROVE  Paged'
<1>1. \A t \in Slots \ {s} : calls'[t] = None
  BY DEF Paged, Alone, Idle, OnlyAt
<1>2. GridTrue => GridTrue'
  BY DEF GridTrue
<1>3. \A t \in Slots : Brings(t)' => AnswerTrue(calls[t])'
  BY <1>1 DEF Brings, AnswerTrue
<1> QED BY <1>1, <1>2, <1>3 DEF Paged, Alone

\* The steps of a request.
LEMMA PagedCall ==
  ASSUME EditorAssumption, Sound, Paged, ReloadsWork, ~ May("overlap"), ~ May("lostReply"),
         NEW s \in Slots, CallStep(s)
  PROVE  Paged'
<1>1. /\ \A t \in Slots : calls[t] # None => CallOK(calls[t])
      /\ calls[s] # None => \A t \in Slots \ {s} : calls[t] = None
  BY DEF Sound, Calls, Paged, Alone
<1>2. CASE Asked(s) /\ (calls'[s].what = "load" /\ calls'[s].why # "where" => calls'[s].where = where)
  <2>1. Idle /\ OnlyAt(s) /\ UNCHANGED <<db, rows, page, where, total>> /\ ~ Brings(s)'
    BY <1>2 DEF Asked, table, grid, shown, Brings
  <2>2. GridTrue
    BY <2>1 DEF Paged, Idle, SaveServed, OfSave
  <2> QED BY <1>2, <2>1, <2>2, PagedSame
<1>3. CASE AsksRefresh(s) \/ AsksRows(s) \/ AsksSave(s)
  BY <1>2, <1>3 DEF AsksRefresh, AsksRows, AsksSave
<1>4. ASSUME NEW x, Replied(s, x), UNCHANGED db, Brings(s)' => AnswerTrue(calls'[s]) PROVE Paged'
  <2>1. OnlyAt(s) /\ UNCHANGED <<db, rows, page, where, total>> /\ calls[s] # None
    BY <1>4 DEF Replied, grid, shown
  <2>2. GridTrue \/ SaveServed'
    <3>1. OfSave(s) /\ Served(s) => OfSave(s)' /\ Served(s)'
      BY <1>4 DEF Replied, SameRequest, OfSave, Served
    <3> QED BY <1>1, <2>1, <3>1 DEF Paged, SaveServed, OfSave
  <2>3. calls'[s].what = "load" /\ calls'[s].why # "where" => calls'[s].where = where
    BY <1>4, <2>1 DEF Paged, Replied, SameRequest
  <2> QED BY <1>4, <2>1, <2>2, <2>3, PagedSame
<1>5. CASE RepliesDetails(s)
  BY <1>4, <1>5 DEF RepliesDetails, Replied, SameRequest, Brings, table
<1>6. ASSUME NEW x, RepliesRows(s, x) PROVE Paged'
  <2>1. AnswerTrue(calls'[s])
    BY <1>6, RowsAnswerTrue DEF RepliesRows, Replied, SameRequest, AnswerTrue
  <2> QED BY <1>4, <1>6, <2>1 DEF RepliesRows, table
<1>7. CASE Fails(s)
  BY <1>4, <1>7 DEF Fails, Replied, Brings, table
<1>8. ASSUME NEW ok \in BOOLEAN, Commits(s, ok) PROVE Paged'
  <2>1. Replied(s, [ok |-> TRUE]) /\ calls[s].what = "save"
    BY <1>8 DEF Commits
  <2>2. /\ \A t \in Slots \ {s} : calls'[t] = None
        /\ calls'[s] # None /\ calls'[s].what = "save" /\ calls'[s].why = "save"
        /\ calls'[s].reply # None /\ calls'[s].reply.ok
    BY <1>1, <2>1 DEF Replied, SameRequest, OnlyAt, CallOK
  <2>3. SaveServed'
    BY <2>2 DEF SaveServed, OfSave, Served
  <2> QED BY <2>2, <2>3 DEF Paged, Alone, Brings
<1>9. ASSUME Landed(s), UNCHANGED <<rows, page, where, total>>, calls'[s] = None, ~ (OfSave(s) /\ Served(s)) PROVE Paged'
  <2>1. OnlyAt(s) /\ UNCHANGED <<db, rows, page, where, total>> /\ calls[s] # None /\ ~ Brings(s)'
    BY <1>9 DEF Landed, table, Brings
  <2>2. GridTrue
    BY <1>1, <1>9, <2>1 DEF Paged, SaveServed, OfSave
  <2> QED BY <1>9, <2>1, <2>2, PagedSame
<1>10. CASE Ends(s)
  <2>1. CASE calls[s].what = "details"
    BY <1>1, <1>9, <1>10, <2>1 DEF Ends, Landed, OfSave, CallOK
  <2>2. CASE calls[s].what = "save" /\ ~ calls[s].reply.ok
    BY <1>9, <1>10, <2>2 DEF Ends, Landed, Served
  <2>3. CASE calls[s].what = "load" /\ ~ calls[s].reply.ok
    <3>1. ~ OfSave(s)
      BY <1>10, <2>3 DEF ReloadsWork, Ends, Landed
    <3> QED BY <1>9, <1>10, <3>1 DEF Ends
  <2> QED BY <1>10, <2>1, <2>2, <2>3 DEF Ends
<1>11. CASE Reloads(s)
  <2>1. /\ OnlyAt(s) /\ UNCHANGED <<db, rows, page, where, total>> /\ calls[s] # None /\ ~ Brings(s)'
        /\ calls'[s].where = where
    BY <1>11 DEF Reloads, Landed, table, Brings
  <2>2. GridTrue \/ SaveServed'
    <3>1. OfSave(s) => OfSave(s)' /\ Served(s)'
      BY <1>11 DEF Reloads, OfSave, Served
    <3> QED BY <1>1, <2>1, <3>1 DEF Paged, SaveServed, OfSave
  <2> QED BY <2>1, <2>2, PagedSame
<1>12. CASE Shows(s)
  <2>1. /\ \A t \in Slots : calls'[t] = None
        /\ rows' = calls[s].reply.rows /\ page' = calls[s].page /\ db' = db
        /\ Brings(s)
    BY <1>1, <1>12 DEF Shows, Landed, OnlyAt, table, Brings
  <2>2. where' = calls[s].where
    BY <1>12 DEF Paged, Shows, Landed
  <2>3. GridTrue'
    BY <2>1, <2>2 DEF Paged, AnswerTrue, GridTrue
  <2> QED BY <2>1, <2>3 DEF Paged, Alone, Brings
<1> QED BY <1>3, <1>5, <1>6, <1>7, <1>8, <1>10, <1>11, <1>12 DEF CallStep

\* The edits.
LEMMA PagedEdit ==
  ASSUME EditorAssumption, Sound, Paged, EditStep
  PROVE  Paged'
<1>1. UNCHANGED <<table, shown, flags, calls>>
  BY DEF EditStep
<1>2. PICK src : EditedFrom(src)
  BY DEF EditStep
<1>3. Ids(rows') = Ids(rows) /\ \A d : CurrentIn(d, rows) => CurrentIn(d, rows')
  BY <1>2, EditKeepsIds
<1>4. GridTrue => GridTrue'
  BY <1>1, <1>3 DEF GridTrue, table, shown
<1>5. SaveServed => SaveServed'
  BY <1>1 DEF SaveServed, OfSave, Served
<1> QED BY <1>1, <1>4, <1>5 DEF Paged, Alone, Brings, AnswerTrue, table, shown

\* At first the page says it shows nothing.
LEMMA PagedInit == ASSUME EditorAssumption, Init PROVE Paged
<1>1. rows = <<>> /\ DOMAIN rows = {} /\ total = 0 /\ where = None
  BY DEF Init
<1>2. GridTrue
  BY <1>1 DEF GridTrue, CurrentIn
<1>3. \A s \in Slots : calls[s] # None =>
        (\A t \in Slots : s <= t) /\ calls[s].where = None /\ calls[s].reply = None
  BY DEF Init, Request
<1>4. \A s \in Slots : s \in Nat
  BY DEF EditorAssumption
<1>5. Alone
  BY <1>3, <1>4 DEF Alone
<1> QED BY <1>1, <1>2, <1>3, <1>5 DEF Paged, Brings

\* Every step keeps the page and the answers under way true.
LEMMA PagedStep ==
  ASSUME {"overlap", "failedReload", "lostReply", "otherClient"} \cap Features = {},
         Sound, Paged, ReloadsWork, [Next]_vars
  PROVE  Paged' /\ ReloadsWork'
<1>0. ~ May("failedReload") /\ ~ May("lostReply") /\ ~ May("overlap") /\ ~ May("otherClient")
  BY DEF May
<1>1. CASE EditStep
  <2>1. ReloadsWork'
    BY <1>1 DEF EditStep, ReloadsWork, OfSave
  <2> QED BY <1>1, <2>1, PagedEdit, EditorAssumption
<1>2. ASSUME NEW s \in Slots, CallStep(s) PROVE Paged' /\ ReloadsWork'
  BY <1>0, <1>2, PagedCall, ReloadsWorkStep, EditorAssumption
<1>3. ASSUME NEW id \in DOMAIN db, otherClient(id) PROVE FALSE
  BY <1>0, <1>3 DEF otherClient
<1>4. CASE UNCHANGED vars
  <2>1. UNCHANGED <<table, grid, shown, calls>>
    BY <1>4 DEF vars
  <2> QED BY <2>1 DEF grid, table, shown, Paged, Alone, GridTrue, AnswerTrue, Brings, SaveServed,
              ReloadsWork, OfSave, Served
<1> QED BY <1>1, <1>2, <1>3, <1>4, StepIs, EditorAssumption

\* At first no save is under way.
LEMMA ReloadsWorkInit == ASSUME Init PROVE ReloadsWork
<1>1. \A s \in Slots : calls[s] # None => calls[s].reply = None
  BY DEF Init, Request
<1> QED BY <1>1 DEF ReloadsWork, OfSave

\* With nothing in flight the grid of SQLTableView.vue shows the page and filter
\* the footer names, and its originals are the rows of the table: as long as one
\* request is under way at a time, the answer of a save and its reload arrive,
\* and nobody else writes.  Other requests may fail, and the user may edit while
\* a save is under way.
THEOREM PageAlwaysTrue ==
  ASSUME {"overlap", "failedReload", "lostReply", "otherClient"} \cap Features = {}
  PROVE  Spec => []PageIsTrue
<1>1. Init => Sound /\ Paged /\ ReloadsWork
  BY SoundInit, PagedInit, ReloadsWorkInit, EditorAssumption
<1>2. Sound /\ Paged /\ ReloadsWork /\ [Next]_vars => (Sound /\ Paged /\ ReloadsWork)'
  BY SoundStep, PagedStep, EditorAssumption
<1>3. Paged => PageIsTrue
  <2> SUFFICES ASSUME Paged, Idle PROVE GridTrue
    <3>1. GridTrue => PageShown /\ Fresh
      BY PageOfIs DEF GridTrue, PageShown, Fresh, Ids, CurrentIn
    <3>2. ~ Idle => PageShown /\ Fresh
      BY DEF PageShown, Fresh
    <3> QED BY <3>1, <3>2 DEF PageIsTrue
  <2> QED BY DEF Paged, Idle, SaveServed, OfSave
<1> QED BY <1>1, <1>2, <1>3, PTL DEF Spec

-----------------------------------------------------------------------------
(* EverythingSaved and EditsAreKept.                                       *)
\* When GenericTableView.vue says "Everything saved" every cell shows what was read,
\* whatever fails, overlaps, is deleted, restored or discarded, but in a row whose
\* deletion deleteSelectedRows took back while it held an unsaved edit.
THEOREM FooterIsTrue == Spec => []EverythingSaved
<1>1. Init => Sound /\ CleanIsTold(rows)
  <2>1. Init => rows = <<>> /\ DOMAIN rows = {}
    BY DEF Init
  <2> QED BY <2>1, SoundInit, EditorAssumption DEF CleanIsTold
<1>2. Sound /\ CleanIsTold(rows) /\ [Next]_vars => (Sound /\ CleanIsTold(rows))'
  <2> SUFFICES ASSUME Sound, CleanIsTold(rows), [Next]_vars PROVE CleanIsTold(rows)'
    BY SoundStep, EditorAssumption
  <2>1. CASE EditStep
    BY <2>1 DEF EditStep, EditedFrom
  <2>2. CASE UNCHANGED rows
    BY <2>2 DEF CleanIsTold
  <2>3. ASSUME NEW s \in Slots, Shows(s) PROVE CleanIsTold(rows)'
    BY <2>3 DEF Shows, Landed, Sound, Calls, CallOK, IsRead, CleanIsTold, Told
  <2>4. ASSUME NEW s \in Slots, CallStep(s) PROVE CleanIsTold(rows)'
    <3>1. Shows(s) \/ UNCHANGED rows
      BY <2>4 DEF CallStep, AsksRefresh, AsksRows, AsksSave, Asked, RepliesDetails, RepliesRows,
                  Commits, Fails, Replied, Ends, Reloads, grid
    <3> QED BY <2>2, <2>3, <3>1
  <2> QED BY <2>1, <2>2, <2>4, StepIs, EditorAssumption DEF vars, grid, otherClient
<1>3. Sound /\ CleanIsTold(rows) => EverythingSaved
  BY DEF CleanIsTold, Told, EverythingSaved, hasPendingChanges, PendingRows, Pending
<1> QED BY <1>1, <1>2, <1>3, PTL DEF Spec

\* What is pending while a request that replaces the grid is under way.
Still ==
  \A s \in Slots : calls[s] # None =>
    /\ calls[s].what = "load" => loading
    /\ calls[s].why \in {"refresh", "page", "where"} => PendingRows = {}
    /\ calls[s].why = "save" => PendingRows \subseteq ToSet(calls[s].batch)

\* While a request is under way that will replace the grid, nothing is edited that it does not know of.
LEMMA StillStep ==
  ASSUME {"overlap", "editWhileSaving", "dirtyRefresh"} \cap Features = {},
         Sound, Alone, Still, [Next]_vars
  PROVE  Still'
<1>0. ~ May("overlap") /\ ~ May("editWhileSaving") /\ ~ May("dirtyRefresh")
  BY DEF May
<1>1. /\ \A t \in Slots : calls[t] # None => CallOK(calls[t])
      /\ \A t \in Slots : calls[t] # None => calls[t].what \in {"details", "load", "save"}
      /\ OneSave /\ Grid
  BY DEF Sound, Calls, TypeOK, Grid, NewIsNew, Requests
<1>2. CASE EditStep
  <2>1. ~ loading /\ ~ saving
        /\ ~ \E s \in Slots : calls[s] # None /\ calls[s].what = "details"
    BY <1>0, <1>2 DEF EditStep, CanEdit
  <2>2. \A s \in Slots : calls[s] = None
    <3> SUFFICES ASSUME NEW s \in Slots, calls[s] # None PROVE FALSE
      OBVIOUS
    <3>1. calls[s].what # "load"
      BY <2>1 DEF Still
    <3>2. calls[s].what # "save"
      BY <1>1, <2>1 DEF OneSave, OfSave, CallOK
    <3> QED BY <1>1, <2>1, <3>1, <3>2
  <2> QED BY <1>2, <2>2 DEF EditStep, Still
<1>3. ASSUME NEW s \in Slots, OnlyAt(s), UNCHANGED rows, Idle \/ calls[s] # None,
             calls'[s] # None =>
               /\ calls'[s].what = "load" => loading'
               /\ calls'[s].why \in {"refresh", "page", "where"} => PendingRows = {}
               /\ calls'[s].why = "save" => PendingRows \subseteq ToSet(calls'[s].batch)
      PROVE  Still'
  <2>1. \A t \in Slots \ {s} : calls'[t] = None
    BY <1>3 DEF Alone, Idle, OnlyAt
  <2>2. PendingRows' = PendingRows
    BY <1>3 DEF PendingRows
  <2> QED BY <1>3, <2>1, <2>2 DEF Still
<1>4. ASSUME NEW s \in Slots, CallStep(s) PROVE Still'
  <2>1. CASE AsksRefresh(s)
    BY <1>0, <1>3, <2>1 DEF AsksRefresh, Asked, grid
  <2>2. CASE AsksRows(s)
    BY <1>0, <1>3, <2>2 DEF AsksRows, Asked, grid
  <2>3. CASE AsksSave(s)
    <3>1. PendingRows \subseteq ToSet(Changes)
      <4> SUFFICES ASSUME NEW d \in PendingRows PROVE d \in ToSet(Changes)
        OBVIOUS
      <4>1. PICK i \in DOMAIN rows : Pending(rows[i]) /\ d = rows[i]
        BY DEF PendingRows
      <4>2. PICK src \in [DOMAIN Changes -> DOMAIN rows] :
              /\ \A k \in DOMAIN Changes : Changes[k] = rows[src[k]]
              /\ \A j \in DOMAIN rows : Pending(rows[j]) => \E k \in DOMAIN Changes : src[k] = j
        BY <1>1, ChangesIs
      <4>3. PICK k \in DOMAIN Changes : src[k] = i
        BY <4>1, <4>2
      <4>4. d = Changes[k]
        BY <4>1, <4>2, <4>3
      <4> QED BY <4>4 DEF ToSet
    <3> QED BY <1>0, <1>3, <2>3, <3>1 DEF AsksSave, Asked, grid
  <2>4. ASSUME NEW x, Replied(s, x) PROVE Still'
    BY <1>3, <2>4 DEF Replied, SameRequest, Still, grid, flags
  <2>5. CASE Ends(s)
    BY <1>3, <2>5 DEF Ends, Landed
  <2>6. CASE Reloads(s)
    BY <1>1, <1>3, <2>6 DEF Reloads, Landed, Still, CallOK
  <2>7. CASE Shows(s)
    <3>1. \A t \in Slots : calls'[t] = None
      BY <2>7 DEF Shows, Landed, Alone, OnlyAt
    <3> QED BY <3>1 DEF Still
  <2> QED BY <1>4, <2>1, <2>2, <2>3, <2>4, <2>5, <2>6, <2>7
       DEF CallStep, RepliesDetails, RepliesRows, Commits, Fails
<1>5. ASSUME NEW id \in DOMAIN db, otherClient(id) PROVE Still'
  BY <1>5 DEF otherClient, Still, PendingRows, grid, flags
<1>6. CASE UNCHANGED vars
  BY <1>6 DEF vars, Still, PendingRows, grid, flags
<1> QED BY <1>2, <1>4, <1>5, <1>6, StepIs, EditorAssumption

\* The next save changes each row once, and only rows of the table.
Apart ==
  /\ OneEach(rows)
  /\ \A s \in Slots : Brings(s) => OneEach(calls[s].reply.rows)
  /\ \A s \in Slots : ToServe(s) => OneEach(calls[s].batch) /\ InTable(calls[s].batch)

\* The grid has each row of the table once, and so has the batch.
LEMMA ApartStep ==
  ASSUME {"overlap", "failedReload", "lostReply", "otherClient"} \cap Features = {},
         Sound, Paged, Apart, [Next]_vars
  PROVE  Apart'
<1>0. ~ May("overlap") /\ ~ May("otherClient")
  BY DEF May
<1>1. Grid /\ Alone
  BY DEF Sound, TypeOK, Grid, NewIsNew, Paged
<1>2. CASE EditStep
  <2>1. PICK src : EditedFrom(src)
    BY <1>2 DEF EditStep
  <2>2. /\ \A j \in DOMAIN rows' : src[j] \in 0..Len(rows)
        /\ \A j \in DOMAIN rows' : src[j] = 0 => rows'[j].orig = None
        /\ \A j \in DOMAIN rows' : src[j] # 0 => SameRow(rows[src[j]], rows'[j])
        /\ \A j, l \in DOMAIN rows' : src[j] = src[l] /\ src[j] # 0 => j = l
    BY <2>1 DEF EditedFrom
  <2>3. \A j \in DOMAIN rows' : src[j] # 0 => src[j] \in DOMAIN rows
    <3>1. DOMAIN rows = 1..Len(rows) /\ Len(rows) \in Nat
      BY <1>1 DEF Grid
    <3> QED BY <2>2, <3>1
  <2>4. OneEach(rows)'
    BY <2>2, <2>3 DEF Apart, OneEach, SameRow
  <2> QED BY <1>2, <2>4 DEF EditStep, Apart, Brings, ToServe, OneEach, InTable, table
<1>3. ASSUME NEW s \in Slots, OnlyAt(s), UNCHANGED rows, Idle \/ calls[s] # None,
             Brings(s)' => OneEach(calls'[s].reply.rows),
             ToServe(s)' => OneEach(calls'[s].batch) /\ InTable(calls'[s].batch) /\ db' = db
      PROVE  Apart'
  <2>1. \A t \in Slots \ {s} : calls'[t] = None
    BY <1>1, <1>3 DEF Alone, Idle, OnlyAt
  <2>2. \A t \in Slots : Brings(t)' => OneEach(calls[t].reply.rows)'
    BY <1>3, <2>1 DEF Brings, OneEach
  <2>3. \A t \in Slots : ToServe(t)' => OneEach(calls[t].batch)' /\ InTable(calls[t].batch)'
    BY <1>3, <2>1 DEF ToServe, OneEach, InTable
  <2> QED BY <1>3, <2>2, <2>3 DEF Apart, OneEach
<1>4. ASSUME NEW s \in Slots, CallStep(s) PROVE Apart'
  <2>1. CASE AsksRefresh(s) \/ AsksRows(s)
    BY <1>0, <1>3, <2>1 DEF AsksRefresh, AsksRows, Asked, grid, Brings, ToServe
  <2>2. CASE AsksSave(s)
    <3>1. /\ Idle /\ OnlyAt(s) /\ UNCHANGED <<db, rows>> /\ ~ Brings(s)' /\ calls'[s].batch = Changes
      BY <1>0, <2>2 DEF AsksSave, Asked, grid, table, Brings
    <3>2. CurrentIn(db, rows)
      BY <3>1 DEF Paged, GridTrue, SaveServed, OfSave, Idle
    <3>3. PICK src \in [DOMAIN Changes -> DOMAIN rows] :
            /\ \A k \in DOMAIN Changes : Changes[k] = rows[src[k]]
            /\ \A k, l \in DOMAIN Changes : src[k] = src[l] => k = l
      BY <1>1, ChangesIs
    <3> DEFINE c == Changes
    <3>4. /\ \A k \in DOMAIN c : c[k] = rows[src[k]] /\ src[k] \in DOMAIN rows
          /\ \A k, l \in DOMAIN c : src[k] = src[l] => k = l
      BY <3>3
    <3> HIDE DEF c
    <3>5. OneEach(c) /\ InTable(c)
      BY <3>2, <3>4 DEF Apart, OneEach, InTable, CurrentIn
    <3> QED BY <1>3, <3>1, <3>5 DEF c
  <2>3. ASSUME NEW x, Replied(s, x), Brings(s)' => OneEach(calls'[s].reply.rows) PROVE Apart'
    BY <1>3, <2>3 DEF Replied, grid, ToServe
  <2>4. ASSUME NEW x, RepliesRows(s, x) PROVE Apart'
    <3>1. OneEach(x.rows)
      BY <2>4, RowsAnswerTrue, EditorAssumption DEF OneEach, RepliesRows
    <3> QED BY <2>3, <2>4, <3>1 DEF RepliesRows, Replied
  <2>5. CASE RepliesDetails(s)
    BY <2>3, <2>5 DEF RepliesDetails, Replied, SameRequest, Brings
  <2>6. ASSUME NEW ok \in BOOLEAN, Commits(s, ok) PROVE Apart'
    BY <2>3, <2>6 DEF Commits, Replied, SameRequest, Brings
  <2>7. CASE Fails(s)
    BY <2>3, <2>7 DEF Fails, Replied, Brings
  <2>8. CASE Ends(s) \/ Reloads(s)
    BY <1>3, <2>8 DEF Ends, Reloads, Landed, Brings, ToServe
  <2>9. CASE Shows(s)
    <3>1. /\ \A t \in Slots : calls'[t] = None
          /\ rows' = calls[s].reply.rows /\ Brings(s)
      BY <1>1, <2>9 DEF Shows, Landed, Alone, OnlyAt, Brings
    <3> QED BY <3>1 DEF Apart, Brings, ToServe, OneEach
  <2> QED BY <1>4, <2>1, <2>2, <2>4, <2>5, <2>6, <2>7, <2>8, <2>9 DEF CallStep
<1>5. ASSUME NEW id \in DOMAIN db, otherClient(id) PROVE FALSE
  BY <1>0, <1>5 DEF otherClient
<1>6. CASE UNCHANGED vars
  BY <1>6 DEF vars, grid, table, Apart, Brings, ToServe, OneEach, InTable
<1> QED BY <1>2, <1>4, <1>5, <1>6, StepIs, EditorAssumption

\* So an answer that replaces the grid takes no edit with it.
LEMMA Survive ==
  ASSUME {"overlap", "failedReload", "lostReply", "otherClient"} \cap Features = {},
         Sound, Paged, Still, [Next]_vars
  PROVE  EditsSurvive
<1> SUFFICES ASSUME NEW s \in Slots, calls[s] # None, calls[s].what = "load", calls[s].why # "discard"
             PROVE  PendingRows \subseteq ToSet(calls[s].batch)
  BY DEF EditsSurvive
<1>1. calls[s].why \in {"refresh", "page", "where", "save"}
  BY DEF Sound, Calls, Requests
<1> QED BY <1>1 DEF Still

\* And a save that is answered without an error did the edits of its batch.
LEMMA DoesTheEdits ==
  ASSUME {"overlap", "failedReload", "lostReply", "otherClient"} \cap Features = {}, Keyed,
         Sound, Paged, Apart, [Next]_vars
  PROVE  SaveDoesTheEdits
<1> SUFFICES ASSUME NEW s \in Slots, Unserved(s), calls[s].what = "save", calls'[s] # calls[s]
             PROVE  \/ calls'[s].reply.ok /\ Stored(calls[s].batch)
                    \/ ~ calls'[s].reply.ok /\ db' = db
  BY DEF SaveDoesTheEdits
<1>1. calls[s] # None /\ calls[s].reply = None /\ ToServe(s) /\ Changed(calls[s].batch)
  BY DEF Unserved, ToServe, Sound, Calls, CallOK
<1>2. CallStep(s)
  <2>1. ASSUME NEW t \in Slots, CallStep(t) PROVE t = s
    <3>1. \A u \in Slots \ {t} : calls'[u] = calls[u]
      BY <2>1 DEF CallStep, AsksRefresh, AsksRows, AsksSave, Asked, RepliesDetails, RepliesRows, Commits,
                  Fails, Replied, Ends, Reloads, Shows, Landed, OnlyAt
    <3> QED BY <3>1
  <2>2. ~ EditStep /\ ~ UNCHANGED vars /\ ~ \E id \in DOMAIN db : otherClient(id)
    BY DEF EditStep, vars, otherClient
  <2> QED BY <2>1, <2>2, StepIs, EditorAssumption
<1>3. (\E ok \in BOOLEAN : Commits(s, ok)) \/ Fails(s)
  BY <1>1, <1>2 DEF CallStep, AsksRefresh, AsksRows, AsksSave, Asked, RepliesDetails, RepliesRows,
                    Ends, Reloads, Shows, Landed
<1>4. CASE Fails(s)
  BY <1>4 DEF Fails, Replied, table
<1>5. ASSUME NEW ok \in BOOLEAN, Commits(s, ok)
      PROVE  Stored(calls[s].batch) /\ calls'[s].reply.ok
  <2>1. ok = TRUE
    BY <1>5 DEF Commits, May
  <2>2. calls'[s].reply.ok
    BY <1>5, <2>1 DEF Commits, Replied
  <2>3. OneEach(calls[s].batch) /\ InTable(calls[s].batch) /\ TableOK
    BY <1>1 DEF Apart, Sound
  <2>4. saveTableChanges(calls[s].batch).ok /\ db' = saveTableChanges(calls[s].batch).db
    BY <1>5 DEF Commits
  <2>5. StoredIn(saveTableChanges(calls[s].batch).db, calls[s].batch)
    BY <1>1, <2>3, <2>4, SaveStores, EditorAssumption
  <2>6. StoredIn(db', calls[s].batch)
    BY <2>4, <2>5, Zenon
  <2> QED BY <2>2, <2>6 DEF StoredIn, Stored
<1> QED BY <1>3, <1>4, <1>5

\* No edit is lost between the grid and a table with a primary key: an answer
\* takes no pending draft with it that is not discarded or saved, and a save
\* answered without an error did exactly the edits of its batch.  The user may
\* undelete rows and any request but the reload of a save may fail.
THEOREM NoEditIsLost ==
  ASSUME {"overlap", "editWhileSaving", "dirtyRefresh", "failedReload", "lostReply", "otherClient"}
           \cap Features = {}, Keyed
  PROVE  Spec => EditsAreKept
<1> DEFINE Inv == Sound /\ Paged /\ ReloadsWork /\ Still /\ Apart
<1>1. Init => Inv
  <2> SUFFICES ASSUME Init PROVE Still /\ Apart
    BY SoundInit, PagedInit, ReloadsWorkInit, EditorAssumption
  <2>1. rows = <<>> /\ DOMAIN rows = {} /\ loading = TRUE
    BY DEF Init
  <2>2. \A s \in Slots : calls[s] # None =>
          calls[s].what = "details" /\ calls[s].why = "refresh" /\ calls[s].reply = None
    BY DEF Init, Request
  <2>3. PendingRows = {}
    BY <2>1 DEF PendingRows
  <2> QED BY <2>1, <2>2, <2>3 DEF Still, Apart, OneEach, Brings, ToServe
<1>2. Inv /\ [Next]_vars => Inv'
  <2>1. Inv /\ [Next]_vars => Sound' /\ Paged' /\ ReloadsWork'
    BY SoundStep, PagedStep, EditorAssumption
  <2>2. Inv /\ [Next]_vars => Still'
    BY StillStep DEF Paged
  <2>3. Inv /\ [Next]_vars => Apart'
    BY ApartStep
  <2> QED BY <2>1, <2>2, <2>3
<1>3. Inv /\ [Next]_vars => [EditsSurvive /\ SaveDoesTheEdits]_vars
  BY Survive, DoesTheEdits
<1> HIDE DEF Inv
<1> QED BY <1>1, <1>2, <1>3, PTL DEF Spec, EditsAreKept
=============================================================================
