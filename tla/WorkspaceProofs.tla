-------------------------- MODULE WorkspaceProofs ---------------------------
(***************************************************************************)
(* What useWorkspace.ts, auth-store.ts and App.vue keep in every run of    *)
(* the model, for all sets of backends, profiles, projects and tokens: the *)
(* types, and the three properties that are checked by TLC.                *)
(*                                                                         *)
(* One invariant is built on another.  Typed says that a chain under way   *)
(* is one of the 28 sequences below.  Undisturbed says who may be under    *)
(* way together, and to which server a request was sent: whatever fails,   *)
(* as long as the user waits for one chain before starting the next.       *)
(* Guarding adds that guarded answers reach only who is signed in, and     *)
(* Clean that, when nobody interferes, each part of the screen is what the *)
(* selected server holds or a chain under way is about to bring it.        *)
(***************************************************************************)
EXTENDS Workspace, FiniteSetTheorems, SequenceTheorems, WellFoundedInduction, TLAPS

-----------------------------------------------------------------------------
(* What chains have still to do.  The digit counts the entries; 1 and 2 at  *)
(* a load's entries stand for a load alone and for the one a page starts    *)
(* with, which asks for the status and loads once more.                     *)

L1 == <<"load">>
L2 == <<"load", "syncStatus", "load">>
SL == <<"syncStatus", "load">>
I1 == <<"info", "projects", "sources", "loaded">>
P1 == <<"projects", "sources", "loaded">>
S1 == <<"sources", "loaded">>
D1 == <<"loaded">>
I2 == <<"info", "projects", "sources", "loaded", "syncStatus", "load">>
P2 == <<"projects", "sources", "loaded", "syncStatus", "load">>
S2 == <<"sources", "loaded", "syncStatus", "load">>
D2 == <<"loaded", "syncStatus", "load">>
Login3 == <<"login", "status", "load">>
Logout3 == <<"logout", "status", "load">>
Status2 == <<"status", "load">>
Create4 == <<"create", "projects", "select", "sources">>
Create3 == <<"projects", "select", "sources">>
Create2 == <<"select", "sources">>
Sources1 == <<"sources">>
Rename3 == <<"rename", "projects", "sourcesIfSame">>
Rename2 == <<"projects", "sourcesIfSame">>
Rename1 == <<"sourcesIfSame">>
Delete4 == <<"delete", "projects", "sources", "save">>
Delete3 == <<"projects", "sources", "save">>
Delete2 == <<"sources", "save">>
Delete1 == <<"save">>
Add2 == <<"addSource", "sources">>
Change2 == <<"changeSource", "sources">>
Drop2 == <<"dropSource", "sources">>

\* A load of the workspace, and one that has its list of projects to come.
Loads == {L1, L2, SL, I1, P1, S1, D1, I2, P2, S2, D2}
Reloads == {L1, L2, SL, I1, P1, I2, P2, S2, D2}
Todos ==
  Loads \cup {Login3, Logout3, Status2, Create4, Create3, Create2, Sources1, Rename3, Rename2,
              Rename1, Delete4, Delete3, Delete2, Delete1, Add2, Change2, Drop2}

\* What their next step is, and what it leaves to do.
NextStep(t) == Head(t)
Rest(t) == Tail(t)
Nil == <<>>

\* The next step and the rest of each of the sequences.
LEMMA HeadTail ==
  /\ NextStep(L1) = "load" /\ Rest(L1) = Nil
  /\ NextStep(L2) = "load" /\ Rest(L2) = SL
  /\ NextStep(SL) = "syncStatus" /\ Rest(SL) = L1
  /\ NextStep(I1) = "info" /\ Rest(I1) = P1
  /\ NextStep(P1) = "projects" /\ Rest(P1) = S1
  /\ NextStep(S1) = "sources" /\ Rest(S1) = D1
  /\ NextStep(D1) = "loaded" /\ Rest(D1) = Nil
  /\ NextStep(I2) = "info" /\ Rest(I2) = P2
  /\ NextStep(P2) = "projects" /\ Rest(P2) = S2
  /\ NextStep(S2) = "sources" /\ Rest(S2) = D2
  /\ NextStep(D2) = "loaded" /\ Rest(D2) = SL
  /\ NextStep(Login3) = "login" /\ Rest(Login3) = Status2
  /\ NextStep(Logout3) = "logout" /\ Rest(Logout3) = Status2
  /\ NextStep(Status2) = "status" /\ Rest(Status2) = L1
  /\ NextStep(Create4) = "create" /\ Rest(Create4) = Create3
  /\ NextStep(Create3) = "projects" /\ Rest(Create3) = Create2
  /\ NextStep(Create2) = "select" /\ Rest(Create2) = Sources1
  /\ NextStep(Sources1) = "sources" /\ Rest(Sources1) = Nil
  /\ NextStep(Rename3) = "rename" /\ Rest(Rename3) = Rename2
  /\ NextStep(Rename2) = "projects" /\ Rest(Rename2) = Rename1
  /\ NextStep(Rename1) = "sourcesIfSame" /\ Rest(Rename1) = Nil
  /\ NextStep(Delete4) = "delete" /\ Rest(Delete4) = Delete3
  /\ NextStep(Delete3) = "projects" /\ Rest(Delete3) = Delete2
  /\ NextStep(Delete2) = "sources" /\ Rest(Delete2) = Delete1
  /\ NextStep(Delete1) = "save" /\ Rest(Delete1) = Nil
  /\ NextStep(Add2) = "addSource" /\ Rest(Add2) = Sources1
  /\ NextStep(Change2) = "changeSource" /\ Rest(Change2) = Sources1
  /\ NextStep(Drop2) = "dropSource" /\ Rest(Drop2) = Sources1
BY DEF NextStep, Rest, Nil,
     L1, L2, SL, I1, P1, S1, D1,
     I2, P2, S2, D2, Login3,
     Logout3, Status2, Create4,
     Create3, Create2, Sources1, Rename3, Rename2, Rename1,
     Delete4, Delete3, Delete2, Delete1, Add2, Change2, Drop2

\* Each is a nonempty sequence of steps.
LEMMA EveryTodo == ASSUME NEW t \in Todos  PROVE  t \in Seq(Steps) /\ t # <<>>
<1> USE DEF Steps, Requests
<1>1. L1 \in Seq(Steps) /\ L1 # <<>>  BY DEF L1
<1>2. L2 \in Seq(Steps) /\ L2 # <<>>  BY DEF L2
<1>3. SL \in Seq(Steps) /\ SL # <<>>  BY DEF SL
<1>4. I1 \in Seq(Steps) /\ I1 # <<>>  BY DEF I1
<1>5. P1 \in Seq(Steps) /\ P1 # <<>>  BY DEF P1
<1>6. S1 \in Seq(Steps) /\ S1 # <<>>  BY DEF S1
<1>7. D1 \in Seq(Steps) /\ D1 # <<>>  BY DEF D1
<1>8. I2 \in Seq(Steps) /\ I2 # <<>>  BY DEF I2
<1>9. P2 \in Seq(Steps) /\ P2 # <<>>  BY DEF P2
<1>10. S2 \in Seq(Steps) /\ S2 # <<>>  BY DEF S2
<1>11. D2 \in Seq(Steps) /\ D2 # <<>>  BY DEF D2
<1>12. Login3 \in Seq(Steps) /\ Login3 # <<>>  BY DEF Login3
<1>13. Logout3 \in Seq(Steps) /\ Logout3 # <<>>  BY DEF Logout3
<1>14. Status2 \in Seq(Steps) /\ Status2 # <<>>  BY DEF Status2
<1>15. Create4 \in Seq(Steps) /\ Create4 # <<>>  BY DEF Create4
<1>16. Create3 \in Seq(Steps) /\ Create3 # <<>>  BY DEF Create3
<1>17. Create2 \in Seq(Steps) /\ Create2 # <<>>  BY DEF Create2
<1>18. Sources1 \in Seq(Steps) /\ Sources1 # <<>>  BY DEF Sources1
<1>19. Rename3 \in Seq(Steps) /\ Rename3 # <<>>  BY DEF Rename3
<1>20. Rename2 \in Seq(Steps) /\ Rename2 # <<>>  BY DEF Rename2
<1>21. Rename1 \in Seq(Steps) /\ Rename1 # <<>>  BY DEF Rename1
<1>22. Delete4 \in Seq(Steps) /\ Delete4 # <<>>  BY DEF Delete4
<1>23. Delete3 \in Seq(Steps) /\ Delete3 # <<>>  BY DEF Delete3
<1>24. Delete2 \in Seq(Steps) /\ Delete2 # <<>>  BY DEF Delete2
<1>25. Delete1 \in Seq(Steps) /\ Delete1 # <<>>  BY DEF Delete1
<1>26. Add2 \in Seq(Steps) /\ Add2 # <<>>  BY DEF Add2
<1>27. Change2 \in Seq(Steps) /\ Change2 # <<>>  BY DEF Change2
<1>28. Drop2 \in Seq(Steps) /\ Drop2 # <<>>  BY DEF Drop2
<1> QED  BY <1>1, <1>2, <1>3, <1>4, <1>5, <1>6, <1>7, <1>8, <1>9, <1>10, <1>11, <1>12, <1>13, <1>14,
        <1>15, <1>16, <1>17, <1>18, <1>19, <1>20, <1>21, <1>22, <1>23, <1>24, <1>25, <1>26, <1>27, <1>28 DEF Todos, Loads

\* What loadWorkspaceFromServer has to do once it has reset the screen.
LEMMA LoadOpens ==
  /\ <<"info", "projects", "sources", "loaded">> \o Tail(L1) = I1
  /\ <<"info", "projects", "sources", "loaded">> \o Tail(L2) = I2
  /\ L1 # L2
<1>1. <<"info", "projects", "sources", "loaded">> \o Tail(L1) = I1
  BY DEF I1, L1
<1>2. <<"info", "projects", "sources", "loaded">> \o Tail(L2) = I2
  <2>1. Tail(L2) = <<"syncStatus", "load">>
    BY DEF L2
  <2>2. <<"info", "projects", "sources", "loaded">> \o <<"syncStatus", "load">> = I2
    <3> DEFINE u == <<"info", "projects", "sources", "loaded">>
               v == <<"syncStatus", "load">>
    <3>1. /\ u \in Seq(Steps) /\ Len(u) = 4 /\ v \in Seq(Steps) /\ Len(v) = 2
          /\ u[1] = "info" /\ u[2] = "projects" /\ u[3] = "sources" /\ u[4] = "loaded"
          /\ v[1] = "syncStatus" /\ v[2] = "load"
      BY DEF Steps, Requests
    <3>2. /\ I2 \in Seq(Steps) /\ Len(I2) = 6
          /\ I2[1] = "info" /\ I2[2] = "projects" /\ I2[3] = "sources" /\ I2[4] = "loaded"
          /\ I2[5] = "syncStatus" /\ I2[6] = "load"
      BY DEF I2, Steps, Requests
    <3> HIDE DEF u, v
    <3>3. /\ u \o v \in Seq(Steps) /\ Len(u \o v) = 6
          /\ \A i \in 1..6 : (u \o v)[i] = IF i <= 4 THEN u[i] ELSE v[i - 4]
      <4>1. u \o v \in Seq(Steps) /\ Len(u \o v) = Len(u) + Len(v)
        BY <3>1, ConcatProperties
      <4>2. \A i \in 1..Len(u) + Len(v) :
              (u \o v)[i] = IF i <= Len(u) THEN u[i] ELSE v[i - Len(u)]
        BY <3>1, ConcatProperties
      <4> QED  BY <3>1, <4>1, <4>2
    <3>4. \A i \in 1..6 : (u \o v)[i] = I2[i]
      BY <3>1, <3>2, <3>3
    <3>5. u \o v = I2
      BY <3>2, <3>3, <3>4, SeqEqual
    <3> QED  BY <3>5 DEF u, v
  <2> QED  BY <2>1, <2>2
<1>3. L1 # L2
  BY DEF L1, L2
<1> QED  BY <1>1, <1>2, <1>3

\* Two entries of a sequence, as a sequence.
LEMMA TailOfTwo ==
  ASSUME NEW s \in Seq(Steps), NEW i \in Nat, NEW j \in Nat, i # 0, j = i + 1, Len(s) = j
  PROVE  SubSeq(s, i, j) = <<s[i], s[j]>>
<1>1. i \in 1..Len(s) /\ j \in 1..Len(s) /\ s[i] \in Steps /\ s[j] \in Steps
  OBVIOUS
<1> DEFINE u == SubSeq(s, i, j)
<1>2. u \in Seq(Steps) /\ Len(u) = 2 /\ u[1] = s[i] /\ u[2] = s[j]
  BY <1>1
<1> HIDE DEF u
<1>3. <<s[i], s[j]>> \in Seq(Steps) /\ Len(<<s[i], s[j]>>) = 2
  BY <1>1
<1>4. \A k \in 1..2 : u[k] = <<s[i], s[j]>>[k]
  BY <1>2
<1>5. u = <<s[i], s[j]>>
  BY <1>2, <1>3, <1>4, SeqEqual
<1> QED  BY <1>5 DEF u

\* Where a load goes on whose request failed: it skips to its end.
LEMMA AfterFailure ==
  ASSUME NEW t \in Todos, "loaded" \in ToSet(Tail(t))
  PROVE  \/ t \in {I1, P1, S1} /\ AfterLoad(t) = <<>>
         \/ t \in {I2, P2, S2} /\ AfterLoad(t) = SL
<1>1. "loaded" \notin ToSet(SL)  BY DEF ToSet, SL
<1>2. "loaded" \notin ToSet(L1)  BY DEF ToSet, L1
<1>3. "loaded" \notin ToSet(Status2)  BY DEF ToSet, Status2
<1>4. "loaded" \notin ToSet(Create3)  BY DEF ToSet, Create3
<1>5. "loaded" \notin ToSet(Create2)  BY DEF ToSet, Create2
<1>6. "loaded" \notin ToSet(Sources1)  BY DEF ToSet, Sources1
<1>7. "loaded" \notin ToSet(Rename2)  BY DEF ToSet, Rename2
<1>8. "loaded" \notin ToSet(Rename1)  BY DEF ToSet, Rename1
<1>9. "loaded" \notin ToSet(Delete3)  BY DEF ToSet, Delete3
<1>10. "loaded" \notin ToSet(Delete2)  BY DEF ToSet, Delete2
<1>11. "loaded" \notin ToSet(Delete1)  BY DEF ToSet, Delete1
<1>12. "loaded" \notin ToSet(Nil)  BY DEF ToSet, Nil
<1>13. t \in {I1, P1, S1, I2, P2, S2}
  <2>1. "loaded" \in ToSet(Rest(t))
    BY DEF Rest
  <2> QED  BY <2>1, HeadTail, <1>1, <1>2, <1>3, <1>4, <1>5, <1>6, <1>7, <1>8, <1>9, <1>10, <1>11,
           <1>12 DEF Todos, Loads
<1>14. CASE t = I1
  <2>1. I1[4] = "loaded" /\ DOMAIN I1 = 1..4 /\ \A j \in 1..3 : I1[j] # "loaded"
    BY DEF I1
  <2> DEFINE Ends(i) == I1[i] = "loaded" /\ \A j \in 1..(i - 1) : I1[j] # "loaded"
  <2>2. \A i \in DOMAIN I1 : Ends(i) <=> i = 4
    BY <2>1
  <2>3. (CHOOSE i \in DOMAIN I1 : Ends(i)) = 4
    BY <2>1, <2>2
  <2>4. AfterLoad(t) = SubSeq(I1, 5, 4)
    BY <1>14, <2>3 DEF AfterLoad, I1
  <2>5. SubSeq(I1, 5, 4) = <<>>
    BY DEF I1, SL
  <2> QED  BY <1>14, <2>4, <2>5
<1>15. CASE t = P1
  <2>1. P1[3] = "loaded" /\ DOMAIN P1 = 1..3 /\ \A j \in 1..2 : P1[j] # "loaded"
    BY DEF P1
  <2> DEFINE Ends(i) == P1[i] = "loaded" /\ \A j \in 1..(i - 1) : P1[j] # "loaded"
  <2>2. \A i \in DOMAIN P1 : Ends(i) <=> i = 3
    BY <2>1
  <2>3. (CHOOSE i \in DOMAIN P1 : Ends(i)) = 3
    BY <2>1, <2>2
  <2>4. AfterLoad(t) = SubSeq(P1, 4, 3)
    BY <1>15, <2>3 DEF AfterLoad, P1
  <2>5. SubSeq(P1, 4, 3) = <<>>
    BY DEF P1, SL
  <2> QED  BY <1>15, <2>4, <2>5
<1>16. CASE t = S1
  <2>1. S1[2] = "loaded" /\ DOMAIN S1 = 1..2 /\ \A j \in 1..1 : S1[j] # "loaded"
    BY DEF S1
  <2> DEFINE Ends(i) == S1[i] = "loaded" /\ \A j \in 1..(i - 1) : S1[j] # "loaded"
  <2>2. \A i \in DOMAIN S1 : Ends(i) <=> i = 2
    BY <2>1
  <2>3. (CHOOSE i \in DOMAIN S1 : Ends(i)) = 2
    BY <2>1, <2>2
  <2>4. AfterLoad(t) = SubSeq(S1, 3, 2)
    BY <1>16, <2>3 DEF AfterLoad, S1
  <2>5. SubSeq(S1, 3, 2) = <<>>
    BY DEF S1, SL
  <2> QED  BY <1>16, <2>4, <2>5
<1>17. CASE t = I2
  <2>1. I2[4] = "loaded" /\ DOMAIN I2 = 1..6 /\ \A j \in 1..3 : I2[j] # "loaded"
    BY DEF I2
  <2> DEFINE Ends(i) == I2[i] = "loaded" /\ \A j \in 1..(i - 1) : I2[j] # "loaded"
  <2>2. \A i \in DOMAIN I2 : Ends(i) <=> i = 4
    BY <2>1
  <2>3. (CHOOSE i \in DOMAIN I2 : Ends(i)) = 4
    BY <2>1, <2>2
  <2>4. AfterLoad(t) = SubSeq(I2, 5, 6)
    BY <1>17, <2>3 DEF AfterLoad, I2
  <2>5. SubSeq(I2, 5, 6) = SL
    <3>1. I2 \in Seq(Steps) /\ Len(I2) = 6 /\ I2[5] = "syncStatus" /\ I2[6] = "load"
      BY DEF I2, Steps, Requests
    <3>2. 5 \in Nat /\ 6 \in Nat /\ 5 # 0 /\ 6 = 5 + 1
      OBVIOUS
    <3>3. SubSeq(I2, 5, 6) = <<I2[5], I2[6]>>
      BY <3>1, <3>2, TailOfTwo, Zenon
    <3> QED  BY <3>1, <3>3 DEF SL
  <2> QED  BY <1>17, <2>4, <2>5
<1>18. CASE t = P2
  <2>1. P2[3] = "loaded" /\ DOMAIN P2 = 1..5 /\ \A j \in 1..2 : P2[j] # "loaded"
    BY DEF P2
  <2> DEFINE Ends(i) == P2[i] = "loaded" /\ \A j \in 1..(i - 1) : P2[j] # "loaded"
  <2>2. \A i \in DOMAIN P2 : Ends(i) <=> i = 3
    BY <2>1
  <2>3. (CHOOSE i \in DOMAIN P2 : Ends(i)) = 3
    BY <2>1, <2>2
  <2>4. AfterLoad(t) = SubSeq(P2, 4, 5)
    BY <1>18, <2>3 DEF AfterLoad, P2
  <2>5. SubSeq(P2, 4, 5) = SL
    <3>1. P2 \in Seq(Steps) /\ Len(P2) = 5 /\ P2[4] = "syncStatus" /\ P2[5] = "load"
      BY DEF P2, Steps, Requests
    <3>2. 4 \in Nat /\ 5 \in Nat /\ 4 # 0 /\ 5 = 4 + 1
      OBVIOUS
    <3>3. SubSeq(P2, 4, 5) = <<P2[4], P2[5]>>
      BY <3>1, <3>2, TailOfTwo, Zenon
    <3> QED  BY <3>1, <3>3 DEF SL
  <2> QED  BY <1>18, <2>4, <2>5
<1>19. CASE t = S2
  <2>1. S2[2] = "loaded" /\ DOMAIN S2 = 1..4 /\ \A j \in 1..1 : S2[j] # "loaded"
    BY DEF S2
  <2> DEFINE Ends(i) == S2[i] = "loaded" /\ \A j \in 1..(i - 1) : S2[j] # "loaded"
  <2>2. \A i \in DOMAIN S2 : Ends(i) <=> i = 2
    BY <2>1
  <2>3. (CHOOSE i \in DOMAIN S2 : Ends(i)) = 2
    BY <2>1, <2>2
  <2>4. AfterLoad(t) = SubSeq(S2, 3, 4)
    BY <1>19, <2>3 DEF AfterLoad, S2
  <2>5. SubSeq(S2, 3, 4) = SL
    <3>1. S2 \in Seq(Steps) /\ Len(S2) = 4 /\ S2[3] = "syncStatus" /\ S2[4] = "load"
      BY DEF S2, Steps, Requests
    <3>2. 3 \in Nat /\ 4 \in Nat /\ 3 # 0 /\ 4 = 3 + 1
      OBVIOUS
    <3>3. SubSeq(S2, 3, 4) = <<S2[3], S2[4]>>
      BY <3>1, <3>2, TailOfTwo, Zenon
    <3> QED  BY <3>1, <3>3 DEF SL
  <2> QED  BY <1>19, <2>4, <2>5
<1> QED  BY <1>13, <1>14, <1>15, <1>16, <1>17, <1>18, <1>19

-----------------------------------------------------------------------------
(* The first project, free slots and the server list.                      *)

\* A nonempty set of numbers has a least.
LEMMA LeastExists ==
  ASSUME NEW S \in SUBSET Nat, S # {}
  PROVE  \E c \in S : \A d \in S : c <= d
<1> DEFINE R == OpToRel(<, Nat)
<1>1. IsWellFoundedOn(R, Nat)
  BY NatLessThanWellFounded
<1>2. \A a, b \in Nat : <<a, b>> \in R <=> a < b
  BY DEF OpToRel
<1> HIDE DEF R
<1>3. PICK c \in S : \A d \in S : ~ (<<d, c>> \in R)
  BY <1>1, WFMin, Zenon
<1>4. \A d \in S : c <= d
  <2> TAKE d \in S
  <2>1. c \in Nat /\ d \in Nat /\ ~ (d < c)
    BY <1>2, <1>3
  <2> QED BY <2>1
<1> QED  BY <1>4

\* So has it a lowest member.
LEMMA LowestIn ==
  ASSUME NEW S \in SUBSET Nat, S # {}
  PROVE  Lowest(S) \in S
BY LeastExists DEF Lowest

\* The first of some projects is one of them.
LEMMA FirstIn ==
  ASSUME NEW S \in SUBSET Projects, S # {}, WorkspaceAssumption
  PROVE  First(S) \in S
BY LeastExists DEF First, WorkspaceAssumption

\* A set that counts something is not empty.
LEMMA Some == ASSUME NEW S, Cardinality(S) >= 1 PROVE S # {}
<1>1. CASE S = {}
  <2>1. Cardinality(S) = 0
    BY <1>1, FS_EmptySet
  <2> QED BY <2>1
<1> QED BY <1>1

\* A set of two has another member.
LEMMA Other == ASSUME NEW S, NEW c, Cardinality(S) >= 2 PROVE S \ {c} # {}
<1>1. CASE S \subseteq {c}
  <2>1. S = {} \/ S = {c}
    BY <1>1
  <2>2. Cardinality({}) = 0 /\ Cardinality({c}) = 1
    BY FS_EmptySet, FS_Singleton
  <2> QED BY <2>1, <2>2
<1> QED BY <1>1

\* One chain begins: in a slot that was free.
LEMMA BeginOne ==
  ASSUME WorkspaceAssumption, NEW a, Begin(<<a>>)
 PROVE \E one \in Calls : calls[one] = Over /\ calls' = [calls EXCEPT ![one] = a]
<1>1. Cardinality(Free) >= 1 /\ calls' = [calls EXCEPT ![Lowest(Free)] = a]
  BY DEF Begin
<1>2. Free \in SUBSET Nat
  BY DEF Free, WorkspaceAssumption
<1>3. Lowest(Free) \in Free
  BY <1>1, <1>2, Some, LowestIn
<1> QED BY <1>1, <1>3 DEF Free

\* Two chains begin, in two slots that were free.
LEMMA BeginTwo ==
  ASSUME WorkspaceAssumption, NEW a, NEW b, Begin(<<a, b>>)
 PROVE \E one, two \in Calls : /\ calls[one] = Over /\ calls[two] = Over /\ one # two
                               /\ calls' = [calls EXCEPT ![one] = a, ![two] = b]
<1> DEFINE one == Lowest(Free)
           two == Lowest(Free \ {one})
<1>1. Cardinality(Free) >= 2 /\ calls' = [calls EXCEPT ![one] = a, ![two] = b]
  BY DEF Begin
<1>2. Free \in SUBSET Nat /\ Free \ {one} \in SUBSET Nat
  BY DEF Free, WorkspaceAssumption
<1>3. Free # {} /\ Free \ {one} # {}
  BY <1>1, Other
<1>4. one \in Free /\ two \in Free \ {one}
  BY <1>3, <1>2, LowestIn
<1> QED BY <1>1, <1>4 DEF Free

\* Nothing begins.
LEMMA BeginNone == ASSUME Begin(<<>>) PROVE calls' = calls
BY DEF Begin

\* The selected server is in the list, or the first of the list stands for it.
LEMMA InList ==
  ASSUME NEW list \in Seq(Profiles), list # <<>>, NEW s
  PROVE  ServerOf(s, list) \in ToSet(list) /\ ServerOf(s, list) \in Profiles
BY DEF ServerOf, ToSet

\* A server added to the list is in it once.
LEMMA ListAppend ==
  ASSUME NEW list \in Seq(Profiles), NEW s \in Profiles, IsInjective(list), s \notin ToSet(list)
  PROVE  Append(list, s) \in Seq(Profiles) /\ IsInjective(Append(list, s)) /\ s \in ToSet(Append(list, s))
<1>1. Append(list, s) \in Seq(Profiles) /\ Len(Append(list, s)) = Len(list) + 1
      /\ \A i \in 1..Len(list) : Append(list, s)[i] = list[i]
      /\ Append(list, s)[Len(list) + 1] = s
  OBVIOUS
<1> QED BY <1>1 DEF IsInjective, ToSet

\* A server taken off the list leaves the others, each once.
LEMMA ListRemove ==
  ASSUME NEW list \in Seq(Profiles), IsInjective(list), NEW k \in DOMAIN list, Len(list) > 1
  PROVE  RemoveAt(list, k) \in Seq(Profiles) /\ IsInjective(RemoveAt(list, k)) /\ RemoveAt(list, k) # <<>>
<1> DEFINE r == RemoveAt(list, k)
<1>0. k \in 1..Len(list) /\ Len(list) \in Nat
  OBVIOUS
<1> DEFINE n == Len(list)
           front == SubSeq(list, 1, k - 1)
           back == SubSeq(list, k + 1, n)
<1>a. front \in Seq(Profiles) /\ Len(front) = k - 1 /\ \A i \in 1..(k - 1) : front[i] = list[i]
  BY <1>0
<1>b. back \in Seq(Profiles) /\ Len(back) = n - k /\ \A i \in 1..(n - k) : back[i] = list[i + k]
  BY <1>0
<1>c. r = front \o back
  BY DEF RemoveAt
<1> HIDE DEF r, front, back
<1>1. r \in Seq(Profiles) /\ Len(r) = Len(list) - 1
  BY <1>0, <1>a, <1>b, <1>c
<1>2. \A i \in 1..(n - 1) : r[i] = list[IF i < k THEN i ELSE i + 1]
  <2> TAKE i \in 1..(n - 1)
  <2>1. CASE i < k
    BY <1>0, <1>a, <1>b, <1>c, <2>1
  <2>2. CASE i >= k
    <3>1. r[i] = back[i - (k - 1)]
      BY <1>0, <1>a, <1>b, <1>c, <2>2
    <3>2. i - (k - 1) \in 1..(n - k) /\ i - (k - 1) + k = i + 1
      BY <1>0, <2>2
    <3> QED BY <1>b, <3>1, <3>2, <2>2, <1>0
  <2> QED BY <2>1, <2>2, <1>0
<1>3. IsInjective(r)
  <2> SUFFICES ASSUME NEW a \in 1..(n - 1), NEW b \in 1..(n - 1), r[a] = r[b]  PROVE a = b
    BY <1>0, <1>1 DEF IsInjective
  <2> DEFINE p == IF a < k THEN a ELSE a + 1
             q == IF b < k THEN b ELSE b + 1
  <2>1. p \in 1..n /\ q \in 1..n /\ list[p] = list[q]
    BY <1>0, <1>2
  <2>2. p = q
    BY <2>1, <1>0 DEF IsInjective
  <2> QED BY <2>2, <1>0
<1> QED BY <1>0, <1>1, <1>3 DEF r
-----------------------------------------------------------------------------
(* Types.  A chain under way is well-formed: what it has to do is one of    *)
(* the sequences above, and an answer fits its request.                     *)

Fits(request, data) ==
  /\ request = "info" => data \in Backends
  /\ request = "projects" => data \in SUBSET Projects
  /\ request = "sources" => data \in SUBSET Sources
  /\ request \in {"status", "syncStatus"} =>
       data \in [enabled : BOOLEAN, user : Backends \cup {None}]
  /\ request = "login" => data \in Tokens
  /\ request = "logout" => data = None
  /\ request = "create" => data \in Projects

Ok(k) == k.at = "answered" /\ k.answer.code = "ok"
Chain(k) ==
  /\ DOMAIN k = {"todo", "arg", "at", "sent", "answer"}
  /\ k.todo \in Todos
  /\ k.at \in {"ready", "sent", "answered", "orphan"}
  /\ k.at # "ready" => Head(k.todo) \in Requests /\ k.sent \in Sent
  /\ k.todo \in {Create3, Create2} => k.arg \in Projects
  /\ Ok(k) => Fits(Head(k.todo), k.answer.data)

CallsOK == DOMAIN calls = Calls /\ \A c \in Calls : calls[c] = Over \/ Chain(calls[c])
PlaceOK ==
  /\ servers \in Seq(Profiles) /\ IsInjective(servers)
  /\ url \in [Profiles -> Backends] /\ currentServerId \in ToSet(servers)
ScreenOK == shown \in ShownType
SavedOK == saved \in Selection /\ saved.servers = servers /\ saved.current = currentServerId
StoredOK == stored \in StoredType
TokensOK == tokens \in [Backends -> Tokens \cup {None}]
OpsOK == ops \in 0..MaxOps /\ trouble \subseteq AllFeatures \cup {"readdressed"}

\* A token that is kept, or on its way to be, has been issued.
Issued ==
  /\ \A b \in Backends : tokens[b] # None => stored.issuer[tokens[b]] # None
  /\ \A c \in Calls : calls[c] # Over /\ Ok(calls[c]) /\ Head(calls[c].todo) = "login" =>
       stored.issuer[calls[c].answer.data] # None

Typed ==
  CallsOK /\ PlaceOK /\ ScreenOK /\ SavedOK /\ StoredOK /\ TokensOK /\ OpsOK /\ Issued

\* What is over is not under way.
LEMMA OverIsNoChain == ASSUME NEW k, Chain(k)  PROVE  k # Over
<1>1. k.todo # <<>>
  BY EveryTodo DEF Chain
<1> QED  BY <1>1 DEF Over, Start

\* A chain just begun is well-formed.
LEMMA Started ==
  ASSUME NEW t \in Todos, NEW a, t \in {Create3, Create2} => a \in Projects
  PROVE  /\ Chain(Start(t, a)) /\ Start(t, a).todo = t /\ Start(t, a).arg = a
         /\ Start(t, a).at = "ready"
BY DEF Chain, Start, Ok

\* So is one that sends its request,
LEMMA Sending ==
  ASSUME NEW k, Chain(k), k.at = "ready", Head(k.todo) \in Requests, NEW s \in Sent
  PROVE  LET new == [k EXCEPT !.at = "sent", !.sent = s]
         IN  /\ Chain(new) /\ new.todo = k.todo /\ new.arg = k.arg /\ new.at = "sent"
             /\ new.sent = s
BY DEF Chain, Ok

\* and a request whose page has gone.
LEMMA Orphaned ==
  ASSUME NEW k, Chain(k), k.at # "ready"
  PROVE  LET new == [k EXCEPT !.at = "orphan"] IN Chain(new) /\ new.at = "orphan"
BY DEF Chain, Ok

-----------------------------------------------------------------------------
(* What the backends answer.                                               *)

Refused(o) == o.code \in {"missing", "denied", "failed"} /\ o.after = stored
LoginDone(r, o) ==
  \E t \in Tokens :
    /\ stored.issuer[t] = None /\ r.to \in Secured
    /\ o = Done(t, [stored EXCEPT !.issuer[t] = r.to, !.live = @ \cup {t}])
LogoutDone(r, o) ==
  o = Done(None, [stored EXCEPT !.live = IF Authorised(r) THEN @ \ {r.token} ELSE @])
CreateDone(r, o) ==
  \E p \in stored.unborn :
    Home[p] = r.to /\ o = Done(p, [stored EXCEPT !.projects = @ \cup {p}, !.unborn = @ \ {p}])
DeleteDone(arg, o) ==
  o = Done(None, [stored EXCEPT !.projects = @ \ {arg}, !.sources = @ \ SourcesIn(arg)])
AddDone(r, o) ==
  \E i \in stored.unbornSources :
    /\ Parent[i] = r.project
    /\ o = Done(i, [stored EXCEPT !.sources = @ \cup {i}, !.unbornSources = @ \ {i}])
DropDone(arg, o) == o = Done(None, [stored EXCEPT !.sources = @ \ {arg}])

\* Requests that read answer with what the backend holds, or refuse.
LEMMA Reads ==
  ASSUME NEW r, NEW arg
  PROVE  /\ Outcomes("info", r, arg) = {Is("ok", r.to)}
         /\ Outcomes("status", r, arg) = {Is("ok", StatusAt(r))}
         /\ Outcomes("syncStatus", r, arg) = {Is("ok", StatusAt(r))}
         /\ Outcomes("projects", r, arg) =
              {IF Authorised(r) THEN Is("ok", ProjectsAt(r.to)) ELSE Is("denied", None)}
         /\ Outcomes("sources", r, arg) =
              {IF ~Authorised(r) THEN Is("denied", None)
               ELSE IF r.project \in ProjectsAt(r.to) THEN Is("ok", SourcesIn(r.project))
               ELSE Is("missing", None)}
<1>1. Outcomes("info", r, arg) = {Is("ok", r.to)}
  BY DEF Outcomes
<1>2. Outcomes("status", r, arg) = {Is("ok", StatusAt(r))}
  BY DEF Outcomes
<1>3. Outcomes("syncStatus", r, arg) = {Is("ok", StatusAt(r))}
  BY DEF Outcomes
<1>4. Outcomes("projects", r, arg) = Guarded(r, TRUE, {Is("ok", ProjectsAt(r.to))})
  BY DEF Outcomes
<1>5. Outcomes("sources", r, arg) =
        IF ~Authorised(r) THEN {Is("denied", None)}
        ELSE IF r.project \in ProjectsAt(r.to) THEN {Is("ok", SourcesIn(r.project))}
        ELSE {Is("missing", None)}
  BY DEF Outcomes
<1> QED  BY <1>1, <1>2, <1>3, <1>4, <1>5 DEF Guarded

\* A login is refused or issues a token; a logout always ends one.
LEMMA Sessions ==
  ASSUME NEW r, NEW arg
  PROVE  /\ \A o \in Outcomes("login", r, arg) : Refused(o) \/ LoginDone(r, o)
         /\ \A o \in Outcomes("logout", r, arg) : LogoutDone(r, o)
<1>1. ASSUME NEW o \in Outcomes("login", r, arg)  PROVE  Refused(o) \/ LoginDone(r, o)
  <2>1. CASE r.to \in Secured
    BY <1>1, <2>1 DEF Outcomes, LoginDone
  <2>2. CASE r.to \notin Secured
    BY <1>1, <2>2 DEF Outcomes, Refused, Is
  <2> QED  BY <2>1, <2>2
<1>2. ASSUME NEW o \in Outcomes("logout", r, arg)  PROVE  LogoutDone(r, o)
  BY <1>2 DEF Outcomes, LogoutDone
<1> QED  BY <1>1, <1>2

\* A request to change something is refused, or allowed and done.
LEMMA Changes ==
  ASSUME NEW r, NEW arg
  PROVE  /\ \A o \in Outcomes("create", r, arg) : Refused(o) \/ (Authorised(r) /\ CreateDone(r, o))
         /\ \A o \in Outcomes("rename", r, arg) :
              Refused(o) \/ (Authorised(r) /\ arg \in ProjectsAt(r.to) /\ o = Is("ok", None))
         /\ \A o \in Outcomes("delete", r, arg) :
              Refused(o) \/ (Authorised(r) /\ arg \in ProjectsAt(r.to) /\ DeleteDone(arg, o))
         /\ \A o \in Outcomes("addSource", r, arg) :
              Refused(o) \/ (Authorised(r) /\ r.project \in ProjectsAt(r.to) /\ AddDone(r, o))
         /\ \A o \in Outcomes("changeSource", r, arg) :
              Refused(o) \/ (Authorised(r) /\ o = Is("ok", None))
         /\ \A o \in Outcomes("dropSource", r, arg) :
              Refused(o) \/ (Authorised(r) /\ arg \in SourcesIn(r.project) /\ DropDone(arg, o))
<1> DEFINE here == r.project \in ProjectsAt(r.to)
           mine == arg \in ProjectsAt(r.to)
           item == here /\ arg \in SourcesIn(r.project)
<1>1. ASSUME NEW o \in Outcomes("create", r, arg)
      PROVE  Refused(o) \/ (Authorised(r) /\ CreateDone(r, o))
  <2> DEFINE S == {Done(p, [stored EXCEPT !.projects = @ \cup {p}, !.unborn = @ \ {p}]) :
                     p \in {q \in stored.unborn : Home[q] = r.to}}
  <2>1. o \in Guarded(r, TRUE, S)
    BY <1>1 DEF Outcomes
  <2>2. o \in S => CreateDone(r, o)
    BY DEF CreateDone
  <2> HIDE DEF S
  <2>3. Refused(o) \/ (Authorised(r) /\ o \in S)
    BY <2>1 DEF Guarded, Refused, Is
  <2> QED  BY <2>2, <2>3
<1>2. ASSUME NEW o \in Outcomes("rename", r, arg)
      PROVE  Refused(o) \/ (Authorised(r) /\ mine /\ o = Is("ok", None))
  <2>1. o \in Guarded(r, mine, {Is("ok", None)})
    BY <1>2 DEF Outcomes
  <2> QED  BY <2>1 DEF Guarded, Refused, Is
<1>3. ASSUME NEW o \in Outcomes("delete", r, arg)
      PROVE  Refused(o) \/ (Authorised(r) /\ mine /\ DeleteDone(arg, o))
  <2> DEFINE S == {Done(None, [stored EXCEPT !.projects = @ \ {arg}, !.sources = @ \ SourcesIn(arg)])}
  <2>1. o \in Guarded(r, mine, S)
    BY <1>3 DEF Outcomes
  <2>2. o \in S => DeleteDone(arg, o)
    BY DEF DeleteDone
  <2> HIDE DEF S
  <2>3. Refused(o) \/ (mine /\ Authorised(r) /\ o \in S)
    BY <2>1 DEF Guarded, Refused, Is
  <2> QED  BY <2>2, <2>3
<1>4. ASSUME NEW o \in Outcomes("addSource", r, arg)
      PROVE  Refused(o) \/ (Authorised(r) /\ here /\ AddDone(r, o))
  <2> DEFINE S == {Done(x, [stored EXCEPT !.sources = @ \cup {x}, !.unbornSources = @ \ {x}]) :
                     x \in {y \in stored.unbornSources : Parent[y] = r.project}}
  <2>1. o \in Guarded(r, here, S)
    BY <1>4 DEF Outcomes
  <2>2. o \in S => AddDone(r, o)
    BY DEF AddDone
  <2> HIDE DEF S
  <2>3. Refused(o) \/ (here /\ Authorised(r) /\ o \in S)
    BY <2>1 DEF Guarded, Refused, Is
  <2> QED  BY <2>2, <2>3
<1>5. ASSUME NEW o \in Outcomes("changeSource", r, arg)
      PROVE  Refused(o) \/ (Authorised(r) /\ o = Is("ok", None))
  <2>1. o \in Guarded(r, item, {Is("ok", None)})
    BY <1>5 DEF Outcomes
  <2> QED  BY <2>1 DEF Guarded, Refused, Is
<1>6. ASSUME NEW o \in Outcomes("dropSource", r, arg)
      PROVE  Refused(o) \/ (Authorised(r) /\ item /\ DropDone(arg, o))
  <2> DEFINE S == {Done(None, [stored EXCEPT !.sources = @ \ {arg}])}
  <2>1. o \in Guarded(r, item, S)
    BY <1>6 DEF Outcomes
  <2>2. o \in S => DropDone(arg, o)
    BY DEF DropDone
  <2> HIDE DEF S
  <2>3. Refused(o) \/ (item /\ Authorised(r) /\ o \in S)
    BY <2>1 DEF Guarded, Refused, Is
  <2> QED  BY <2>2, <2>3
<1> QED  BY <1>1, <1>2, <1>3, <1>4, <1>5, <1>6

\* The backends' state after each answer, field by field.
Holds(s, ps, unborn, ss, unbornSs, issuer, live) ==
  /\ s \in StoredType
  /\ s.projects = ps /\ s.unborn = unborn /\ s.sources = ss /\ s.unbornSources = unbornSs
  /\ s.issuer = issuer /\ s.live = live

\* The types of a backend's fields.
LEMMA Fields ==
  ASSUME NEW s \in StoredType
  PROVE  /\ s.projects \in SUBSET Projects /\ s.unborn \in SUBSET Projects
         /\ s.sources \in SUBSET Sources /\ s.unbornSources \in SUBSET Sources
         /\ s.issuer \in [Tokens -> Backends \cup {None}] /\ s.live \in SUBSET Tokens
BY DEF StoredType

\* A token more.
LEMMA NewSession ==
  ASSUME NEW s \in StoredType, NEW t \in Tokens, NEW b \in Backends
  PROVE  Holds([s EXCEPT !.issuer[t] = b, !.live = @ \cup {t}],
               s.projects, s.unborn, s.sources, s.unbornSources,
               [s.issuer EXCEPT ![t] = b], s.live \cup {t})
BY DEF StoredType, Holds

\* A token less.
LEMMA EndedSession ==
  ASSUME NEW s \in StoredType, NEW live \in SUBSET Tokens
  PROVE  Holds([s EXCEPT !.live = live],
               s.projects, s.unborn, s.sources, s.unbornSources, s.issuer, live)
BY DEF StoredType, Holds

\* A project more.
LEMMA NewProject ==
  ASSUME NEW s \in StoredType, NEW ps \in SUBSET Projects, NEW unborn \in SUBSET Projects
  PROVE  Holds([s EXCEPT !.projects = ps, !.unborn = unborn],
               ps, unborn, s.sources, s.unbornSources, s.issuer, s.live)
BY DEF StoredType, Holds

\* A project less, with its data sources.
LEMMA DroppedProject ==
  ASSUME NEW s \in StoredType, NEW ps \in SUBSET Projects, NEW ss \in SUBSET Sources
  PROVE  Holds([s EXCEPT !.projects = ps, !.sources = ss],
               ps, s.unborn, ss, s.unbornSources, s.issuer, s.live)
BY DEF StoredType, Holds

\* A data source more.
LEMMA NewSource ==
  ASSUME NEW s \in StoredType, NEW ss \in SUBSET Sources, NEW unborn \in SUBSET Sources
  PROVE  Holds([s EXCEPT !.sources = ss, !.unbornSources = unborn],
               s.projects, s.unborn, ss, unborn, s.issuer, s.live)
BY DEF StoredType, Holds

\* A data source less.
LEMMA DroppedSource ==
  ASSUME NEW s \in StoredType, NEW ss \in SUBSET Sources
  PROVE  Holds([s EXCEPT !.sources = ss],
               s.projects, s.unborn, ss, s.unbornSources, s.issuer, s.live)
BY DEF StoredType, Holds

\* What sign-in requests leave in each field.
LEMMA AfterSessions ==
  ASSUME StoredOK, NEW r \in Sent, NEW o
  PROVE  /\ LoginDone(r, o) => \E t \in Tokens :
              /\ stored.issuer[t] = None /\ r.to \in Secured /\ o.code = "ok" /\ o.data = t
              /\ Holds(o.after, stored.projects, stored.unborn, stored.sources, stored.unbornSources,
                       [stored.issuer EXCEPT ![t] = r.to], stored.live \cup {t})
         /\ LogoutDone(r, o) =>
              /\ o.code = "ok" /\ o.data = None
              /\ Holds(o.after, stored.projects, stored.unborn, stored.sources, stored.unbornSources,
                       stored.issuer, IF Authorised(r) THEN stored.live \ {r.token} ELSE stored.live)
<1>0. r.to \in Backends /\ stored \in StoredType /\ stored.live \in SUBSET Tokens
  BY Fields DEF Sent, StoredOK
<1>1. ASSUME NEW t \in Tokens
      PROVE  Holds([stored EXCEPT !.issuer[t] = r.to, !.live = @ \cup {t}],
                   stored.projects, stored.unborn, stored.sources, stored.unbornSources,
                   [stored.issuer EXCEPT ![t] = r.to], stored.live \cup {t})
  BY <1>0, NewSession
<1>2. ASSUME NEW live \in SUBSET Tokens
      PROVE  Holds([stored EXCEPT !.live = live], stored.projects, stored.unborn, stored.sources,
                   stored.unbornSources, stored.issuer, live)
  BY <1>0, EndedSession
<1>3. (IF Authorised(r) THEN stored.live \ {r.token} ELSE stored.live) \in SUBSET Tokens
  BY <1>0
<1>4. ASSUME LoginDone(r, o)
      PROVE  \E t \in Tokens :
              /\ stored.issuer[t] = None /\ r.to \in Secured /\ o.code = "ok" /\ o.data = t
              /\ Holds(o.after, stored.projects, stored.unborn, stored.sources, stored.unbornSources,
                       [stored.issuer EXCEPT ![t] = r.to], stored.live \cup {t})
  <2>1. PICK t \in Tokens :
          /\ stored.issuer[t] = None /\ r.to \in Secured
          /\ o = Done(t, [stored EXCEPT !.issuer[t] = r.to, !.live = @ \cup {t}])
    BY <1>4 DEF LoginDone
  <2>2. /\ o.code = "ok" /\ o.data = t
        /\ o.after = [stored EXCEPT !.issuer[t] = r.to, !.live = @ \cup {t}]
    BY <2>1 DEF Done
  <2>3. Holds([stored EXCEPT !.issuer[t] = r.to, !.live = @ \cup {t}],
              stored.projects, stored.unborn, stored.sources, stored.unbornSources,
              [stored.issuer EXCEPT ![t] = r.to], stored.live \cup {t})
    BY <1>1
  <2> QED  BY <2>1, <2>2, <2>3
<1>5. ASSUME LogoutDone(r, o)
      PROVE   /\ o.code = "ok" /\ o.data = None
              /\ Holds(o.after, stored.projects, stored.unborn, stored.sources, stored.unbornSources,
                       stored.issuer, IF Authorised(r) THEN stored.live \ {r.token} ELSE stored.live)
  BY <1>2, <1>3, <1>5 DEF LogoutDone, Done
<1> QED  BY <1>4, <1>5

\* What the other requests leave in each field.
LEMMA AfterChanges ==
  ASSUME StoredOK, NEW r, NEW arg, NEW o
  PROVE  /\ CreateDone(r, o) => \E p \in stored.unborn :
              /\ Home[p] = r.to /\ o.code = "ok" /\ o.data = p
              /\ Holds(o.after, stored.projects \cup {p}, stored.unborn \ {p}, stored.sources,
                       stored.unbornSources, stored.issuer, stored.live)
         /\ DeleteDone(arg, o) =>
              /\ o.code = "ok"
              /\ Holds(o.after, stored.projects \ {arg}, stored.unborn, stored.sources \ SourcesIn(arg),
                       stored.unbornSources, stored.issuer, stored.live)
         /\ AddDone(r, o) => \E i \in stored.unbornSources :
              /\ Parent[i] = r.project /\ o.code = "ok" /\ o.data = i
              /\ Holds(o.after, stored.projects, stored.unborn, stored.sources \cup {i},
                       stored.unbornSources \ {i}, stored.issuer, stored.live)
         /\ DropDone(arg, o) =>
              /\ o.code = "ok"
              /\ Holds(o.after, stored.projects, stored.unborn, stored.sources \ {arg},
                       stored.unbornSources, stored.issuer, stored.live)
<1>0. /\ stored \in StoredType
      /\ stored.projects \in SUBSET Projects /\ stored.unborn \in SUBSET Projects
      /\ stored.sources \in SUBSET Sources /\ stored.unbornSources \in SUBSET Sources
  BY Fields DEF StoredOK
<1>1. ASSUME NEW ps \in SUBSET Projects, NEW unborn \in SUBSET Projects
      PROVE  Holds([stored EXCEPT !.projects = ps, !.unborn = unborn],
                   ps, unborn, stored.sources, stored.unbornSources, stored.issuer, stored.live)
  BY <1>0, NewProject
<1>2. ASSUME NEW ps \in SUBSET Projects, NEW ss \in SUBSET Sources
      PROVE  Holds([stored EXCEPT !.projects = ps, !.sources = ss],
                   ps, stored.unborn, ss, stored.unbornSources, stored.issuer, stored.live)
  BY <1>0, DroppedProject
<1>3. ASSUME NEW ss \in SUBSET Sources, NEW unborn \in SUBSET Sources
      PROVE  Holds([stored EXCEPT !.sources = ss, !.unbornSources = unborn],
                   stored.projects, stored.unborn, ss, unborn, stored.issuer, stored.live)
  BY <1>0, NewSource
<1>4. ASSUME NEW ss \in SUBSET Sources
      PROVE  Holds([stored EXCEPT !.sources = ss],
                   stored.projects, stored.unborn, ss, stored.unbornSources, stored.issuer, stored.live)
  BY <1>0, DroppedSource
<1>5. ASSUME CreateDone(r, o)
      PROVE  \E p \in stored.unborn :
              /\ Home[p] = r.to /\ o.code = "ok" /\ o.data = p
              /\ Holds(o.after, stored.projects \cup {p}, stored.unborn \ {p}, stored.sources,
                       stored.unbornSources, stored.issuer, stored.live)
  <2>1. PICK p \in stored.unborn :
          /\ Home[p] = r.to
          /\ o = Done(p, [stored EXCEPT !.projects = @ \cup {p}, !.unborn = @ \ {p}])
    BY <1>5 DEF CreateDone
  <2>2. stored.projects \cup {p} \in SUBSET Projects /\ stored.unborn \ {p} \in SUBSET Projects
    BY <1>0
  <2>3. Holds([stored EXCEPT !.projects = @ \cup {p}, !.unborn = @ \ {p}],
              stored.projects \cup {p}, stored.unborn \ {p}, stored.sources,
              stored.unbornSources, stored.issuer, stored.live)
    BY <1>1, <2>2
  <2> QED  BY <2>1, <2>3 DEF Done
<1>6. ASSUME DeleteDone(arg, o)
      PROVE   /\ o.code = "ok"
              /\ Holds(o.after, stored.projects \ {arg}, stored.unborn, stored.sources \ SourcesIn(arg),
                       stored.unbornSources, stored.issuer, stored.live)
  BY <1>0, <1>2, <1>6 DEF DeleteDone, Done
<1>7. ASSUME AddDone(r, o)
      PROVE  \E i \in stored.unbornSources :
              /\ Parent[i] = r.project /\ o.code = "ok" /\ o.data = i
              /\ Holds(o.after, stored.projects, stored.unborn, stored.sources \cup {i},
                       stored.unbornSources \ {i}, stored.issuer, stored.live)
  <2>1. PICK i \in stored.unbornSources :
          /\ Parent[i] = r.project
          /\ o = Done(i, [stored EXCEPT !.sources = @ \cup {i}, !.unbornSources = @ \ {i}])
    BY <1>7 DEF AddDone
  <2>2. stored.sources \cup {i} \in SUBSET Sources /\ stored.unbornSources \ {i} \in SUBSET Sources
    BY <1>0
  <2>3. Holds([stored EXCEPT !.sources = @ \cup {i}, !.unbornSources = @ \ {i}],
              stored.projects, stored.unborn, stored.sources \cup {i},
              stored.unbornSources \ {i}, stored.issuer, stored.live)
    BY <1>3, <2>2
  <2> QED  BY <2>1, <2>3 DEF Done
<1>8. ASSUME DropDone(arg, o)
      PROVE   /\ o.code = "ok"
              /\ Holds(o.after, stored.projects, stored.unborn, stored.sources \ {arg},
                       stored.unbornSources, stored.issuer, stored.live)
  BY <1>0, <1>4, <1>8 DEF DropDone, Done
<1> QED  BY <1>5, <1>6, <1>7, <1>8

\* Every outcome of a request has its type.
LEMMA OutcomeTyped ==
  ASSUME WorkspaceAssumption, StoredOK, NEW request \in Requests, NEW r \in Sent, NEW arg,
         NEW o \in Outcomes(request, r, arg)
  PROVE  o.after \in StoredType /\ (o.code = "ok" => Fits(request, o.data))
<1> USE DEF Is, Done, Refused
<1>0. /\ r.to \in Backends
      /\ stored.projects \in SUBSET Projects /\ stored.unborn \in SUBSET Projects
      /\ stored.sources \in SUBSET Sources /\ stored.unbornSources \in SUBSET Sources
      /\ stored.issuer \in [Tokens -> Backends \cup {None}] /\ stored.live \in SUBSET Tokens
  BY DEF Sent, StoredOK, StoredType
<1>1. CASE request \in {"info", "status", "syncStatus", "projects", "sources"}
  <2>1. o.after = stored
    BY <1>1, Reads
  <2>2. o.code = "ok" => Fits(request, o.data)
    <3>1. CASE request = "info"
      BY <1>0, <3>1, Reads DEF Fits
    <3>2. CASE request \in {"status", "syncStatus"}
      <4>1. StatusAt(r) \in [enabled : BOOLEAN, user : Backends \cup {None}]
        BY <1>0 DEF StatusAt
      <4> QED  BY <3>2, <4>1, Reads DEF Fits
    <3>3. CASE request = "projects"
      <4>1. ProjectsAt(r.to) \in SUBSET Projects
        BY <1>0 DEF ProjectsAt
      <4> QED  BY <3>3, <4>1, Reads DEF Fits
    <3>4. CASE request = "sources"
      <4>1. SourcesIn(r.project) \in SUBSET Sources
        BY <1>0 DEF SourcesIn
      <4> QED  BY <3>4, <4>1, Reads DEF Fits
    <3> QED  BY <1>1, <3>1, <3>2, <3>3, <3>4
  <2> QED  BY <2>1, <2>2 DEF StoredOK
<1>2. CASE Refused(o)
  BY <1>2 DEF StoredOK
<1>3. CASE request = "login" /\ LoginDone(r, o)
  <2>1. PICK t \in Tokens : o.code = "ok" /\ o.data = t /\ o.after \in StoredType
    BY <1>3, AfterSessions DEF Holds
  <2> QED  BY <1>3, <2>1 DEF Fits
<1>4. CASE request = "logout" /\ LogoutDone(r, o)
  BY <1>0, <1>4, AfterSessions DEF Holds, Fits
<1>5. CASE request = "create" /\ CreateDone(r, o)
  <2>1. PICK p \in stored.unborn : o.code = "ok" /\ o.data = p /\ o.after \in StoredType
    BY <1>5, AfterChanges DEF Holds
  <2> QED  BY <1>0, <1>5, <2>1 DEF Fits
<1>6. CASE request = "delete" /\ DeleteDone(arg, o)
  BY <1>0, <1>6, AfterChanges DEF Holds, Fits
<1>7. CASE request = "addSource" /\ AddDone(r, o)
  BY <1>0, <1>7, AfterChanges DEF Holds, Fits
<1>8. CASE request = "dropSource" /\ DropDone(arg, o)
  BY <1>0, <1>8, AfterChanges DEF Holds, Fits
<1>9. CASE request \in {"rename", "changeSource"} /\ o = Is("ok", None)
  BY <1>9 DEF StoredOK, Fits
<1> QED
  <2>1. \/ request \in {"info", "status", "syncStatus", "projects", "sources"}
        \/ request \in {"login", "logout"}
        \/ request \in {"create", "rename", "delete"}
        \/ request \in {"addSource", "changeSource", "dropSource"}
    BY DEF Requests
  <2>2. CASE request \in {"login", "logout"}
    BY <2>2, <1>2, <1>3, <1>4, Sessions
  <2>3. CASE request \in {"create", "rename", "delete"}
    BY <2>3, <1>2, <1>5, <1>6, <1>9, Changes
  <2>4. CASE request \in {"addSource", "changeSource", "dropSource"}
    BY <2>4, <1>2, <1>7, <1>8, <1>9, Changes
  <2> QED  BY <1>1, <2>1, <2>2, <2>3, <2>4

\* Only a login and a logout touch the sessions.
LEMMA SessionsKept ==
  ASSUME StoredOK, NEW request \in Requests, NEW r \in Sent, NEW arg,
         NEW o \in Outcomes(request, r, arg), request \notin {"login", "logout"}
  PROVE  o.after.issuer = stored.issuer /\ o.after.live = stored.live
<1> USE DEF Is, Done, Refused
<1>1. CASE request \in {"info", "status", "syncStatus", "projects", "sources"}
  BY <1>1, Reads
<1>2. CASE request \in {"create", "rename", "delete"}
  BY <1>2, Changes, AfterChanges DEF Holds
<1>3. CASE request \in {"addSource", "changeSource", "dropSource"}
  BY <1>3, Changes, AfterChanges DEF Holds
<1> QED  BY <1>1, <1>2, <1>3 DEF Requests

\* An issued token keeps its issuer, and a login's token has none before.
LEMMA IssuerKept ==
  ASSUME WorkspaceAssumption, StoredOK, NEW request \in Requests, NEW r \in Sent, NEW arg,
         NEW o \in Outcomes(request, r, arg)
  PROVE  /\ \A t \in Tokens : stored.issuer[t] # None => o.after.issuer[t] = stored.issuer[t]
         /\ request = "login" /\ o.code = "ok" =>
              o.data \in Tokens /\ o.after.issuer[o.data] = r.to /\ o.data \in o.after.live
<1> USE DEF Is, Done, Refused
<1>0. r.to \in Backends /\ r.to # None
  BY DEF Sent, WorkspaceAssumption
<1>1. CASE request = "login"
  <2>1. Refused(o) \/ LoginDone(r, o)
    BY <1>1, Sessions
  <2>2. CASE Refused(o)
    BY <1>1, <2>2
  <2>3. CASE LoginDone(r, o)
    <3>0. PICK t \in Tokens :
            /\ stored.issuer[t] = None /\ o.data = t
            /\ Holds(o.after, stored.projects, stored.unborn, stored.sources, stored.unbornSources,
                     [stored.issuer EXCEPT ![t] = r.to], stored.live \cup {t})
      BY <2>3, AfterSessions, Zenon
    <3>1. o.after.issuer = [stored.issuer EXCEPT ![t] = r.to] /\ o.after.live = stored.live \cup {t}
      BY <3>0 DEF Holds
    <3>2. stored.issuer \in [Tokens -> Backends \cup {None}]
      BY Fields DEF StoredOK
    <3> QED  BY <3>0, <3>1, <3>2
  <2> QED  BY <2>1, <2>2, <2>3
<1>2. CASE request = "logout"
  BY <1>2, Sessions, AfterSessions DEF Holds, StoredOK, StoredType
<1>3. CASE request \notin {"login", "logout"}
  BY <1>3, SessionsKept
<1> QED  BY <1>1, <1>2, <1>3

-----------------------------------------------------------------------------
(* Steps keep the types.                                                   *)

\* Only one slot changes.
LEMMA OneCall ==
  ASSUME CallsOK, NEW c \in Calls, NEW k, k = Over \/ Chain(k), calls' = [calls EXCEPT ![c] = k]
  PROVE  CallsOK' /\ calls'[c] = k /\ \A d \in Calls : d # c => calls'[d] = calls[d]
<1>1. DOMAIN calls' = Calls /\ calls'[c] = k /\ \A d \in Calls : d # c => calls'[d] = calls[d]
  BY DEF CallsOK
<1>2. \A d \in Calls : calls'[d] = Over \/ Chain(calls'[d])
  BY <1>1 DEF CallsOK
<1> QED  BY <1>1, <1>2 DEF CallsOK

\* What an act of the user does to the calls: new chains, ready to go.
New(k) == Chain(k) /\ k.at = "ready"
Begun(S) ==
  /\ \A c \in Calls : calls'[c] = calls[c] \/ (calls[c] = Over /\ calls'[c] \in S)
  /\ \A k \in S : \E c \in Calls : calls[c] = Over /\ calls'[c] = k

\* One chain more,
LEMMA BegunOne ==
  ASSUME WorkspaceAssumption, CallsOK, NEW a, New(a), Begin(<<a>>)
  PROVE  CallsOK' /\ Begun({a})
<1>1. PICK one \in Calls : calls[one] = Over /\ calls' = [calls EXCEPT ![one] = a]
  BY BeginOne
<1>2. CallsOK' /\ calls'[one] = a /\ \A d \in Calls : d # one => calls'[d] = calls[d]
  BY <1>1, OneCall DEF New
<1> QED  BY <1>1, <1>2 DEF Begun

\* or two, and the types hold.
LEMMA BegunTwo ==
  ASSUME WorkspaceAssumption, CallsOK, NEW a, NEW b, New(a), New(b), Begin(<<a, b>>)
  PROVE  CallsOK' /\ Begun({a, b})
<1>1. PICK one, two \in Calls : /\ calls[one] = Over /\ calls[two] = Over /\ one # two
                                /\ calls' = [calls EXCEPT ![one] = a, ![two] = b]
  BY BeginTwo
<1>2. /\ DOMAIN calls' = Calls /\ calls'[one] = a /\ calls'[two] = b
      /\ \A d \in Calls : d \notin {one, two} => calls'[d] = calls[d]
  BY <1>1 DEF CallsOK
<1>3. \A d \in Calls : calls'[d] = Over \/ Chain(calls'[d])
  BY <1>2 DEF CallsOK, New
<1>4. CallsOK'
  BY <1>2, <1>3 DEF CallsOK
<1> QED  BY <1>1, <1>2, <1>4 DEF Begun

\* What App.vue's watcher adds.
Sync == Start(SL, None)

\* With a new server the watcher's chain comes along.
LEMMA BegunWatched ==
  ASSUME WorkspaceAssumption, CallsOK, NEW server, NEW a, New(a), Begin(Watched(server, a))
  PROVE  /\ CallsOK'
         /\ server = currentServerId => Begun({a})
         /\ server # currentServerId => Begun({a, Sync})
<1>1. syncCurrentServerAuth = Sync /\ New(Sync)
  <2>1. SL \in Todos /\ SL \notin {Create3, Create2}
    BY HeadTail DEF Todos, Loads
  <2> QED  BY <2>1, Started DEF syncCurrentServerAuth, Sync, New, SL
<1>2. CASE server = currentServerId
  <2>1. Begin(<<a>>)
    BY <1>2 DEF Watched
  <2> QED  BY <1>2, <2>1, BegunOne
<1>3. CASE server # currentServerId
  <2>1. Begin(<<a, Sync>>)
    BY <1>1, <1>3 DEF Watched
  <2> QED  BY <1>1, <1>3, <2>1, BegunTwo
<1> QED  BY <1>2, <1>3

\* New chains carry no answer.
LEMMA BegunIssued ==
  ASSUME Issued, NEW S, \A k \in S : New(k), Begun(S), UNCHANGED <<tokens, stored>>
  PROVE  Issued'
<1>1. ASSUME NEW c \in Calls, calls'[c] # Over, Ok(calls'[c])  PROVE  calls'[c] = calls[c]
  BY <1>1 DEF Begun, New, Ok
<1> QED  BY <1>1 DEF Issued

\* An act costs one operation and begins what it says.
LEMMA Acts ==
  ASSUME WorkspaceAssumption, OpsOK, NEW new, NEW extra \in SUBSET {"readdressed"}, UserActs(new, extra)
  PROVE  OpsOK' /\ Begin(new)
BY DEF WorkspaceAssumption, OpsOK, UserActs, AllFeatures

\* A load can begin.
LEMMA L1New == New(Start(L1, None)) /\ Start(<<"load">>, None) = Start(L1, None)
<1>1. L1 \in Todos /\ L1 \notin {Create3, Create2}
  BY HeadTail DEF Todos, Loads
<1> QED  BY <1>1, Started DEF New, L1

\* So can everything the user asks for.
LEMMA NewChains ==
  ASSUME NEW t \in Todos \ {Create3, Create2}, NEW a
  PROVE  New(Start(t, a))
BY Started DEF New

\* persistServers saves the selection it is given.
LEMMA Persisted ==
  ASSUME NEW list \in Seq(Profiles), NEW urls \in [Profiles -> Backends], NEW server \in Profiles,
         NEW project \in Projects \cup {None}, persistServers(list, urls, server, project)
  PROVE  saved' \in Selection /\ saved'.servers = list /\ saved'.current = server
         /\ saved'.project = project
BY DEF persistServers, Selection

\* The selected server is one of the list.
LEMMA CurrentTyped ==
  ASSUME PlaceOK
  PROVE  /\ currentServerId \in Profiles /\ servers # <<>> /\ currentServer = currentServerId
         /\ currentServerUrl = url[currentServerId] /\ currentServerUrl \in Backends
<1>1. currentServerId \in Profiles /\ servers # <<>>
  BY DEF PlaceOK, ToSet
<1>2. currentServer = currentServerId
  BY DEF PlaceOK, currentServer, ServerOf
<1> QED  BY <1>1, <1>2 DEF PlaceOK, currentServerUrl

\* A load, with the watcher's chain or without, keeps the types.
LEMMA WatchedTyped ==
  ASSUME WorkspaceAssumption, CallsOK, Issued, NEW server, Begin(Watched(server, Start(L1, None))),
         UNCHANGED <<tokens, stored>>
  PROVE  CallsOK' /\ Issued'
<1>1. New(Start(L1, None))
  BY L1New
<1>2. New(Sync)
  <2>1. SL \in Todos \ {Create3, Create2}
    BY HeadTail DEF Todos, Loads
  <2> QED  BY <2>1, NewChains DEF Sync
<1>3. CallsOK'
  BY <1>1, BegunWatched
<1>4. CASE server = currentServerId
  <2>1. Begun({Start(L1, None)})
    BY <1>1, <1>4, BegunWatched
  <2> QED  BY <1>1, <1>3, <2>1, BegunIssued
<1>5. CASE server # currentServerId
  <2>1. Begun({Start(L1, None), Sync})
    BY <1>1, <1>5, BegunWatched
  <2>2. \A k \in {Start(L1, None), Sync} : New(k)
    BY <1>1, <1>2
  <2>3. Issued'
    BY <2>1, <2>2, BegunIssued
  <2> QED  BY <1>3, <2>3
<1> QED  BY <1>4, <1>5

\* Selecting a server keeps the types,
LEMMA SelectsTyped ==
  ASSUME WorkspaceAssumption, Typed, NEW list \in Seq(Profiles), IsInjective(list),
         NEW urls \in [Profiles -> Backends], NEW server \in ToSet(list), Selects(list, urls, server)
  PROVE  Typed'
<1>0. server \in Profiles
  BY DEF ToSet
<1>1. PlaceOK'
  BY DEF Selects, PlaceOK
<1>2. ScreenOK'
  BY DEF Selects, ScreenOK, ShownType, Typed
<1>3. SavedOK'
  BY <1>0, Persisted DEF Selects, SavedOK
<1>4. OpsOK' /\ Begin(Watched(server, Start(L1, None)))
  BY Acts, L1New DEF Selects, Typed
<1>5. CallsOK' /\ Issued'
  BY <1>4, WatchedTyped DEF Typed, Selects
<1> QED  BY <1>1, <1>2, <1>3, <1>4, <1>5 DEF Typed, Selects, StoredOK, TokensOK

\* be it by choice,
LEMMA setCurrentServerTyped ==
  ASSUME WorkspaceAssumption, Typed, NEW s \in Profiles, setCurrentServer(s)  PROVE  Typed'
BY SelectsTyped DEF setCurrentServer, Typed, PlaceOK

\* as a new one,
LEMMA addServerTyped ==
  ASSUME WorkspaceAssumption, Typed, NEW s \in Profiles, NEW b \in Backends, addServer(s, b)
  PROVE  Typed'
<1>1. servers \in Seq(Profiles) /\ IsInjective(servers) /\ [url EXCEPT ![s] = b] \in [Profiles -> Backends]
  BY DEF Typed, PlaceOK
<1>2. Append(servers, s) \in Seq(Profiles) /\ IsInjective(Append(servers, s)) /\ s \in ToSet(Append(servers, s))
  BY <1>1, ListAppend DEF addServer
<1> QED  BY <1>1, <1>2, SelectsTyped DEF addServer

\* because it was edited,
LEMMA updateServerTyped ==
  ASSUME WorkspaceAssumption, Typed, NEW s \in Profiles, NEW b \in Backends, updateServer(s, b)
  PROVE  Typed'
<1>0. currentServerId \in Profiles /\ shown.currentProjectId \in Projects \cup {None}
  BY CurrentTyped DEF Typed, ScreenOK, ShownType
<1>1. PlaceOK'
  BY DEF updateServer, Typed, PlaceOK
<1>2. SavedOK'
  BY <1>0, <1>1, Persisted DEF updateServer, SavedOK, PlaceOK
<1>3. CASE s = currentServerId
  <2>1. OpsOK' /\ Begin(<<Start(L1, None)>>)
    BY <1>3, Acts, L1New DEF updateServer, Typed
  <2>2. CallsOK' /\ Begun({Start(L1, None)})
    BY <2>1, L1New, BegunOne DEF Typed
  <2>3. Issued'
    BY <2>2, L1New, BegunIssued DEF Typed, updateServer
  <2> QED  BY <1>1, <1>2, <2>1, <2>2, <2>3 DEF updateServer, Typed, StoredOK, TokensOK, ScreenOK
<1>4. CASE s # currentServerId
  <2>1. OpsOK' /\ Begin(<<>>)
    BY <1>4, Acts DEF updateServer, Typed
  <2>2. calls' = calls
    BY <2>1, BeginNone
  <2> QED  BY <1>1, <1>2, <2>1, <2>2 DEF updateServer, Typed, StoredOK, TokensOK, ScreenOK, CallsOK, Issued
<1> QED  BY <1>3, <1>4

\* or in place of one that was removed.
LEMMA removeServerTyped ==
  ASSUME WorkspaceAssumption, Typed, NEW s \in Profiles, removeServer(s)  PROVE  Typed'
<1>0. shown.currentProjectId \in Projects \cup {None} /\ servers \in Seq(Profiles) /\ IsInjective(servers)
  BY DEF Typed, ScreenOK, ShownType, PlaceOK
<1>1. servers' \in Seq(Profiles) /\ IsInjective(servers') /\ servers' # <<>>
  <2> DEFINE k == CHOOSE i \in DOMAIN servers : servers[i] = s
  <2>1. k \in DOMAIN servers
    BY DEF removeServer, ToSet
  <2>2. servers' = RemoveAt(servers, k)
    BY DEF removeServer, Without
  <2> HIDE DEF k
  <2> QED  BY <1>0, <2>1, <2>2, ListRemove DEF removeServer
<1>2. currentServerId' \in ToSet(servers') /\ currentServerId' \in Profiles
  BY <1>1, InList DEF removeServer
<1>3. PlaceOK'
  BY <1>1, <1>2 DEF removeServer, Typed, PlaceOK
<1>4. SavedOK'
  BY <1>0, <1>1, <1>2, Persisted DEF removeServer, SavedOK, Typed, PlaceOK
<1>5. OpsOK' /\ Begin(Watched(currentServerId', Start(L1, None)))
  BY Acts, L1New DEF removeServer, Typed
<1>6. CallsOK' /\ Issued'
  BY <1>5, WatchedTyped DEF Typed, removeServer
<1> QED  BY <1>3, <1>4, <1>5, <1>6 DEF removeServer, Typed, StoredOK, TokensOK, ScreenOK

\* Asking the backend for something keeps the types,
LEMMA AsksTyped ==
  ASSUME WorkspaceAssumption, Typed, NEW t \in Todos \ {Create3, Create2}, NEW arg, Asks(t, arg)
  PROVE  Typed' /\ Begun({Start(t, arg)})
<1>1. OpsOK' /\ Begin(<<Start(t, arg)>>)
  BY Acts DEF Asks, Typed
<1>2. CallsOK' /\ Begun({Start(t, arg)})
  BY <1>1, NewChains, BegunOne DEF Typed
<1>3. Issued'
  BY <1>2, NewChains, BegunIssued DEF Typed, Asks
<1> QED  BY <1>1, <1>2, <1>3 DEF Asks, place, Typed, PlaceOK, ScreenOK, SavedOK, StoredOK, TokensOK

\* What each of the operations asks.
LEMMA Asked ==
  /\ createProject => Asks(Create4, None)
  /\ \A p \in Projects : updateProject(p) => Asks(Rename3, p)
  /\ \A p \in Projects : deleteProject(p) => Asks(Delete4, p)
  /\ createDataSource => Asks(Add2, None)
  /\ \A x \in Sources : updateDataSource(x) => Asks(Change2, x)
  /\ \A x \in Sources : deleteDataSource(x) => Asks(Drop2, x)
  /\ login => Asks(Login3, None)
  /\ logout => Asks(Logout3, None)
<1>1. /\ Create4 = <<"create", "projects", "select", "sources">>
      /\ Rename3 = <<"rename", "projects", "sourcesIfSame">>
      /\ Delete4 = <<"delete", "projects", "sources", "save">>
      /\ Add2 = <<"addSource", "sources">> /\ Change2 = <<"changeSource", "sources">>
      /\ Drop2 = <<"dropSource", "sources">>
      /\ Login3 = <<"login", "status", "load">> /\ Logout3 = <<"logout", "status", "load">>
  BY DEF Create4, Rename3, Delete4, Add2, Change2, Drop2, Login3, Logout3
<1> QED  BY <1>1 DEF createProject, updateProject, deleteProject, createDataSource, updateDataSource,
                     deleteDataSource, login, logout

Asking == {Create4, Rename3, Delete4, Add2, Change2, Drop2, Login3, Logout3}

\* The sequences a user's request starts with.
LEMMA AskingTodos == Asking \subseteq Todos \ {Create3, Create2}
BY HeadTail DEF Asking, Todos

\* and so does selecting a workspace.
LEMMA setCurrentProjectTyped ==
  ASSUME WorkspaceAssumption, Typed, NEW p \in Projects, setCurrentProject(p)
  PROVE  Typed' /\ Begun({Start(Sources1, None)})
<1>0. Sources1 \in Todos \ {Create3, Create2} /\ <<"sources">> = Sources1
  BY HeadTail DEF Todos, Sources1
<1>1. OpsOK' /\ Begin(<<Start(Sources1, None)>>)
  BY <1>0, Acts DEF setCurrentProject, Typed
<1>2. CallsOK' /\ Begun({Start(Sources1, None)})
  BY <1>0, <1>1, NewChains, BegunOne DEF Typed
<1>3. Issued'
  BY <1>0, <1>2, NewChains, BegunIssued DEF Typed, setCurrentProject
<1>4. ScreenOK'
  BY DEF setCurrentProject, Typed, ScreenOK, ShownType
<1>5. SavedOK'
  BY CurrentTyped, Persisted DEF setCurrentProject, Typed, SavedOK, place, PlaceOK
<1> QED  BY <1>1, <1>2, <1>3, <1>4, <1>5 DEF setCurrentProject, place, Typed, PlaceOK, StoredOK, TokensOK

\* A page load leaves its own chain and the requests that were sent.
Leftover == {c \in Calls : calls[c] # Over /\ calls[c].at \in {"sent", "orphan"}}

\* After a page load there is one chain, and the requests on their way.
LEMMA ReloadedCalls ==
  ASSUME WorkspaceAssumption, Typed, NEW kept \in SUBSET Backends, Reload(kept)
  PROVE  /\ CallsOK'
         /\ \E c \in Calls : /\ calls'[c] = Start(L2, None)
                             /\ \A d \in Calls \ {c} : calls'[d] = Over \/ calls'[d].at = "orphan"
<1> DEFINE c == Lowest(Calls \ Leftover)
<1>1. calls' = Opened(Leftover, c) /\ Calls \ Leftover # {}
  BY DEF Reload, Leftover
<1>2. c \in Calls
  <2>1. Calls \ Leftover \in SUBSET Nat
    BY DEF WorkspaceAssumption
  <2>2. c \in Calls \ Leftover
    BY <1>1, <2>1, LowestIn
  <2> QED  BY <2>2
<1> HIDE DEF c
<1>3. L2 \in Todos \ {Create3, Create2} /\ <<"load", "syncStatus", "load">> = L2
  BY HeadTail DEF Todos, Loads, L2
<1>4. calls'[c] = Start(L2, None) /\ Chain(Start(L2, None)) /\ DOMAIN calls' = Calls
  BY <1>1, <1>2, <1>3, NewChains DEF Opened, New
<1>5. ASSUME NEW d \in Calls \ {c}
      PROVE  calls'[d] = Over \/ (calls'[d].at = "orphan" /\ Chain(calls'[d]))
  <2>1. CASE d \in Leftover
    <3>1. Chain(calls[d]) /\ calls[d].at # "ready"
      BY <2>1 DEF Leftover, Typed, CallsOK
    <3>2. calls'[d] = [calls[d] EXCEPT !.at = "orphan"]
      BY <1>1, <2>1 DEF Opened
    <3> QED  BY <3>1, <3>2, Orphaned
  <2>2. CASE d \notin Leftover
    BY <1>1, <2>2 DEF Opened
  <2> QED  BY <2>1, <2>2
<1>6. CallsOK'
  BY <1>4, <1>5 DEF CallsOK
<1> QED  BY <1>2, <1>4, <1>5, <1>6

\* A page load keeps the types, the list, the server and the saved workspace.
LEMMA ReloadTyped ==
  ASSUME WorkspaceAssumption, Typed, NEW kept \in SUBSET Backends, Reload(kept)
  PROVE  /\ Typed' /\ servers' = servers /\ currentServerId' = currentServerId
         /\ saved'.project = saved.project
<1>0. /\ saved.servers = servers /\ saved.current = currentServerId /\ saved \in Selection
      /\ servers \in Seq(Profiles) /\ IsInjective(servers) /\ currentServerId \in ToSet(servers)
      /\ servers # <<>> /\ currentServerId \in Profiles
  BY CurrentTyped DEF Typed, SavedOK, PlaceOK
<1>1. /\ Restored(saved).servers = servers /\ Restored(saved).current = currentServerId
      /\ Restored(saved).project = saved.project /\ Restored(saved) \in Selection
  <2> DEFINE urls == IF Hosted \in ToSet(servers) THEN [saved.url EXCEPT ![Hosted] = HostedUrl]
                     ELSE saved.url
  <2>1. Restored(saved) = [servers |-> servers, url |-> urls, current |-> ServerOf(currentServerId, servers),
                           project |-> saved.project]
    BY <1>0 DEF Restored
  <2>2. ServerOf(currentServerId, servers) = currentServerId
    BY <1>0 DEF ServerOf
  <2>3. urls \in [Profiles -> Backends]
    BY <1>0 DEF Selection, WorkspaceAssumption
  <2>4. saved.project \in Projects \cup {None}
    BY <1>0 DEF Selection
  <2> HIDE DEF urls
  <2> QED  BY <1>0, <2>1, <2>2, <2>3, <2>4 DEF Selection
<1>2. PlaceOK'
  BY <1>0, <1>1 DEF Reload, PlaceOK, Selection
<1>3. SavedOK'
  BY <1>0, <1>1 DEF Reload, SavedOK
<1>4. ScreenOK'
  BY <1>0, <1>1 DEF Reload, Blank, ScreenOK, ShownType, Selection
<1>5. TokensOK' /\ OpsOK' /\ StoredOK'
  BY DEF Reload, TokensOK, OpsOK, StoredOK, Typed, WorkspaceAssumption
<1>6. CallsOK'
  BY ReloadedCalls
<1>7. Issued'
  <2>1. PICK c \in Calls : /\ calls'[c] = Start(L2, None)
                           /\ \A d \in Calls \ {c} : calls'[d] = Over \/ calls'[d].at = "orphan"
    BY ReloadedCalls
  <2>2. Start(L2, None).at = "ready"
    BY DEF Start
  <2>3. \A d \in Calls : ~ (calls'[d] # Over /\ Ok(calls'[d]))
    BY <2>1, <2>2 DEF Ok
  <2>4. \A b \in Backends : tokens'[b] # None => stored'.issuer[tokens'[b]] # None
    BY DEF Reload, Typed, Issued
  <2> QED  BY <2>3, <2>4 DEF Issued
<1> QED  BY <1>0, <1>1, <1>2, <1>3, <1>4, <1>5, <1>6, <1>7 DEF Typed, Reload

-----------------------------------------------------------------------------
(* The steps of a chain, case by case.                                     *)

\* Which sequences have a next step that is no request.
LEMMA ByHead ==
  ASSUME NEW t \in Todos
  PROVE  /\ Head(t) = "load" => t \in {L1, L2}
         /\ Head(t) = "loaded" => t \in {D1, D2}
         /\ Head(t) = "select" => t = Create2
         /\ Head(t) = "sourcesIfSame" => t = Rename1
         /\ Head(t) = "save" => t = Delete1
         /\ Head(t) = "info" => t \in {I1, I2}
         /\ Head(t) = "projects" => t \in {P1, P2, Create3, Rename2, Delete3}
         /\ Head(t) = "sources" => t \in {S1, S2, Sources1, Delete2}
         /\ Head(t) = "status" => t = Status2
         /\ Head(t) = "syncStatus" => t = SL
         /\ Head(t) = "login" => t = Login3
         /\ Head(t) = "logout" => t = Logout3
         /\ Head(t) = "create" => t = Create4
         /\ Head(t) = "rename" => t = Rename3
         /\ Head(t) = "delete" => t = Delete4
         /\ Head(t) = "addSource" => t = Add2
         /\ Head(t) = "changeSource" => t = Change2
         /\ Head(t) = "dropSource" => t = Drop2
<1>1. /\ NextStep(t) = "load" => t \in {L1, L2}
      /\ NextStep(t) = "loaded" => t \in {D1, D2}
      /\ NextStep(t) = "select" => t = Create2
      /\ NextStep(t) = "sourcesIfSame" => t = Rename1
      /\ NextStep(t) = "save" => t = Delete1
      /\ NextStep(t) = "info" => t \in {I1, I2}
      /\ NextStep(t) = "projects" => t \in {P1, P2, Create3, Rename2, Delete3}
      /\ NextStep(t) = "sources" => t \in {S1, S2, Sources1, Delete2}
  BY HeadTail DEF Todos, Loads
<1>2. /\ NextStep(t) = "status" => t = Status2
      /\ NextStep(t) = "syncStatus" => t = SL
      /\ NextStep(t) = "login" => t = Login3
      /\ NextStep(t) = "logout" => t = Logout3
      /\ NextStep(t) = "create" => t = Create4
      /\ NextStep(t) = "rename" => t = Rename3
      /\ NextStep(t) = "delete" => t = Delete4
      /\ NextStep(t) = "addSource" => t = Add2
      /\ NextStep(t) = "changeSource" => t = Change2
      /\ NextStep(t) = "dropSource" => t = Drop2
  BY HeadTail DEF Todos, Loads
<1> QED  BY <1>1, <1>2 DEF NextStep

\* The chain c goes on with todo, or is over.
Going(todo, arg) == IF todo = <<>> THEN Over ELSE Start(todo, arg)
Moves(c, k) == calls' = [calls EXCEPT ![c] = k]

\* A chain that goes on is well-formed.
LEMMA GoingOn ==
  ASSUME NEW todo, NEW arg, todo = <<>> \/ todo \in Todos, todo \in {Create3, Create2} => arg \in Projects
  PROVE  /\ Going(todo, arg) = Over \/ Chain(Going(todo, arg))
         /\ todo # <<>> => New(Going(todo, arg)) /\ Going(todo, arg).todo = todo
                           /\ Going(todo, arg).arg = arg /\ Going(todo, arg) # Over
         /\ todo = <<>> => Going(todo, arg) = Over
<1>1. CASE todo = <<>>
  BY <1>1 DEF Going
<1>2. CASE todo # <<>>
  <2>1. todo \in Todos
    BY <1>2
  <2>2. New(Going(todo, arg)) /\ Going(todo, arg).todo = todo /\ Going(todo, arg).arg = arg
    BY <1>2, <2>1, Started DEF Going, New
  <2> QED  BY <1>2, <2>2, OverIsNoChain DEF New
<1> QED  BY <1>1, <1>2

\* GoOn moves one chain.
LEMMA Goes ==
  ASSUME NEW c \in Calls, NEW todo, NEW arg, GoOn(c, todo, arg)
  PROVE  Moves(c, Going(todo, arg))
BY DEF GoOn, Moves, Going

ProceedStep(c) ==
  LET t == calls[c].todo
      arg == calls[c].arg
  IN  \/ /\ t \in {L1, L2} /\ Moves(c, Going(IF t = L1 THEN I1 ELSE I2, arg))
         /\ UNCHANGED <<shown, saved>>
      \/ /\ t \in {D1, D2} /\ Moves(c, Going(Rest(t), arg))
         /\ shown' = [shown EXCEPT !.serverError = FALSE] /\ UNCHANGED saved
      \/ /\ t = Create2 /\ Moves(c, Going(Rest(t), arg))
         /\ shown' = [shown EXCEPT !.currentProjectId = arg]
         /\ persistServers(servers, url, currentServerId, arg)
      \/ /\ t = Rename1 /\ Moves(c, Going(IF shown.currentProjectId = arg THEN Sources1 ELSE <<>>, arg))
         /\ UNCHANGED <<shown, saved>>
      \/ /\ t = Delete1 /\ Moves(c, Going(Rest(t), arg))
         /\ persistServers(servers, url, currentServerId, shown.currentProjectId)
         /\ UNCHANGED shown
      \/ /\ t \in {S1, S2, Sources1, Delete2} /\ shown.currentProjectId = None
         /\ Moves(c, Going(Rest(t), arg))
         /\ shown' = [shown EXCEPT !.dataSources = {}] /\ UNCHANGED saved

\* A step between two requests, sequence by sequence.
LEMMA Proceeds ==
  ASSUME CallsOK, NEW c \in Calls, Proceed(c)
  PROVE  /\ calls[c] # Over /\ Chain(calls[c]) /\ calls[c].at = "ready" /\ ProceedStep(c)
         /\ UNCHANGED <<place, tokens, stored, ops, trouble>>
<1> DEFINE t == calls[c].todo
           arg == calls[c].arg
<1>0. calls[c] # Over /\ Chain(calls[c]) /\ calls[c].at = "ready" /\ t \in Todos
  BY DEF Proceed, CallsOK, Chain
<1>a. UNCHANGED <<place, tokens, stored, ops, trouble>>
  BY DEF Proceed
<1>1. ASSUME Head(t) = "load", UNCHANGED <<shown, saved>>,
             GoOn(c, <<"info", "projects", "sources", "loaded">> \o Tail(t), arg)
      PROVE  ProceedStep(c)
  <2>1. t \in {L1, L2}
    BY <1>0, <1>1, ByHead
  <2>2. <<"info", "projects", "sources", "loaded">> \o Tail(t) = IF t = L1 THEN I1 ELSE I2
    BY <1>0, <2>1, LoadOpens
  <2> QED  BY <1>1, <2>1, <2>2, Goes DEF ProceedStep
<1>2. ASSUME Head(t) = "loaded", shown' = [shown EXCEPT !.serverError = FALSE],
             GoOn(c, Tail(t), arg), UNCHANGED saved
      PROVE  ProceedStep(c)
  BY <1>0, <1>2, ByHead, Goes DEF ProceedStep, Rest
<1>3. ASSUME Head(t) = "select", shown' = [shown EXCEPT !.currentProjectId = arg],
             persistServers(servers, url, currentServerId, arg), GoOn(c, Tail(t), arg)
      PROVE  ProceedStep(c)
  BY <1>0, <1>3, ByHead, Goes DEF ProceedStep, Rest
<1>4. ASSUME Head(t) = "sourcesIfSame", UNCHANGED <<shown, saved>>,
             GoOn(c, IF shown.currentProjectId = arg THEN <<"sources">> ELSE <<>>, arg)
      PROVE  ProceedStep(c)
  BY <1>0, <1>4, ByHead, Goes DEF ProceedStep, Sources1
<1>5. ASSUME Head(t) = "save", persistServers(servers, url, currentServerId, shown.currentProjectId),
             GoOn(c, Tail(t), arg), UNCHANGED shown
      PROVE  ProceedStep(c)
  BY <1>0, <1>5, ByHead, Goes DEF ProceedStep, Rest
<1>6. ASSUME Head(t) = "sources", shown.currentProjectId = None,
             shown' = [shown EXCEPT !.dataSources = {}], GoOn(c, Tail(t), arg), UNCHANGED saved
      PROVE  ProceedStep(c)
  BY <1>0, <1>6, ByHead, Goes DEF ProceedStep, Rest
<1>7. ProceedStep(c)
  BY <1>1, <1>2, <1>3, <1>4, <1>5, <1>6 DEF Proceed
<1> QED  BY <1>0, <1>a, <1>7

Sending1(c) == [to |-> currentServerUrl, token |-> tokens[currentServerUrl],
                project |-> shown.currentProjectId]
Others(c) == \A d \in Calls : d # c => calls'[d] = calls[d]
SameChain(c) ==
  Chain(calls'[c]) /\ calls'[c].todo = calls[c].todo /\ calls'[c].arg = calls[c].arg

\* A request that is sent, to whom and with which token.
LEMMA Sends ==
  ASSUME CallsOK, PlaceOK, ScreenOK, TokensOK, NEW c \in Calls, Send(c)
  PROVE  /\ calls[c] # Over /\ Chain(calls[c]) /\ calls[c].at = "ready"
         /\ Head(calls[c].todo) \in Requests
         /\ Head(calls[c].todo) = "sources" => shown.currentProjectId # None
         /\ CallsOK' /\ Others(c) /\ SameChain(c)
         /\ calls'[c].at = "sent" /\ calls'[c].sent = Sending1(c)
         /\ UNCHANGED <<place, shown, saved, tokens, stored, ops, trouble>>
<1> DEFINE new == [calls[c] EXCEPT !.at = "sent", !.sent = Sending1(c)]
<1>1. /\ calls[c] # Over /\ Chain(calls[c]) /\ calls[c].at = "ready"
      /\ Head(calls[c].todo) \in Requests
      /\ Head(calls[c].todo) = "sources" => shown.currentProjectId # None
      /\ UNCHANGED <<place, shown, saved, tokens, stored, ops, trouble>>
  BY DEF Send, CallsOK
<1>2. calls' = [calls EXCEPT ![c] = new]
  BY DEF Send, Sending1, CallsOK
<1>3. Sending1(c) \in Sent
  BY CurrentTyped DEF Sending1, Sent, ScreenOK, ShownType, TokensOK
<1>4. Chain(new) /\ new.todo = calls[c].todo /\ new.arg = calls[c].arg /\ new.at = "sent" /\ new.sent = Sending1(c)
  BY <1>1, <1>3, Sending
<1> HIDE DEF new
<1>5. CallsOK' /\ calls'[c] = new /\ Others(c)
  BY <1>2, <1>4, OneCall DEF Others
<1> QED  BY <1>1, <1>4, <1>5 DEF SameChain

\* Who waits has sent a request.
LEMMA Waiting ==
  ASSUME CallsOK, NEW c \in Calls, calls[c] # Over, calls[c].at # "ready"
  PROVE  Chain(calls[c]) /\ Head(calls[c].todo) \in Requests /\ calls[c].sent \in Sent
BY DEF CallsOK, Chain

Outcome(c) == Outcomes(Head(calls[c].todo), calls[c].sent, calls[c].arg)
Settles(c, code, data) ==
  /\ SameChain(c) /\ calls'[c].at = "answered" /\ calls'[c].sent = calls[c].sent
  /\ calls'[c].answer.code = code /\ calls'[c].answer.data = data

\* An answer reaches its chain; an orphan's is dropped.
LEMMA Answers ==
  ASSUME CallsOK, NEW c \in Calls, calls[c] # Over, calls[c].at \in {"sent", "orphan"}, NEW code, NEW data,
         code = "ok" => Fits(Head(calls[c].todo), data), Answered(c, code, data)
  PROVE  /\ CallsOK' /\ Others(c)
         /\ calls[c].at = "orphan" => calls'[c] = Over
         /\ calls[c].at = "sent" => Settles(c, code, data)
<1>1. CASE calls[c].at = "orphan"
  <2>1. calls' = [calls EXCEPT ![c] = Over]
    BY <1>1 DEF Answered
  <2>2. CallsOK' /\ calls'[c] = Over /\ \A d \in Calls : d # c => calls'[d] = calls[d]
    BY <2>1, OneCall
  <2> QED  BY <1>1, <2>2 DEF Others
<1>2. CASE calls[c].at = "sent"
  <2>0. PICK a : a = [code |-> code, data |-> data]
    OBVIOUS
  <2> DEFINE new == [calls[c] EXCEPT !.at = "answered", !.answer = a]
  <2>1. calls' = [calls EXCEPT ![c] = new]
    BY <1>2, <2>0 DEF Answered, CallsOK
  <2>2. /\ Chain(new) /\ new.todo = calls[c].todo /\ new.arg = calls[c].arg /\ new.at = "answered"
        /\ new.sent = calls[c].sent /\ new.answer = a
    <3>1. Chain(calls[c]) /\ (a.code = "ok" => Fits(Head(calls[c].todo), a.data))
      BY Waiting, <1>2, <2>0
    <3>2. PICK k : k = calls[c]
      OBVIOUS
    <3>3. Chain(k) /\ k.at = "sent" /\ (a.code = "ok" => Fits(Head(k.todo), a.data))
      BY <3>1, <3>2, <1>2
    <3>4. /\ Chain([k EXCEPT !.at = "answered", !.answer = a])
          /\ [k EXCEPT !.at = "answered", !.answer = a].todo = k.todo
          /\ [k EXCEPT !.at = "answered", !.answer = a].arg = k.arg
          /\ [k EXCEPT !.at = "answered", !.answer = a].at = "answered"
          /\ [k EXCEPT !.at = "answered", !.answer = a].sent = k.sent
          /\ [k EXCEPT !.at = "answered", !.answer = a].answer = a
      BY <3>3 DEF Chain, Ok
    <3> QED  BY <3>2, <3>4
  <2> HIDE DEF new
  <2>3. CallsOK' /\ calls'[c] = new /\ Others(c)
    BY <2>1, <2>2, OneCall DEF Others
  <2> QED  BY <1>2, <2>0, <2>2, <2>3 DEF Settles, SameChain
<1> QED  BY <1>1, <1>2

\* A backend answers with one of the outcomes.
LEMMA Serves ==
  ASSUME WorkspaceAssumption, CallsOK, StoredOK, NEW c \in Calls, Serve(c)
  PROVE  /\ calls[c] # Over /\ Chain(calls[c]) /\ CallsOK' /\ StoredOK' /\ Others(c)
         /\ \E o \in Outcome(c) :
              /\ stored' = o.after
              /\ \/ calls[c].at = "orphan" /\ calls'[c] = Over /\ trouble' = trouble \cup {"other"}
                 \/ calls[c].at = "sent" /\ Settles(c, o.code, o.data) /\ trouble' = trouble
         /\ UNCHANGED <<place, shown, saved, tokens, ops>>
<1>1. /\ calls[c] # Over /\ calls[c].at \in {"sent", "orphan"}
      /\ UNCHANGED <<place, shown, saved, tokens, ops>>
  BY DEF Serve
<1>2. PICK o \in Outcome(c) :
        /\ stored' = o.after /\ Answered(c, o.code, o.data)
        /\ trouble' = IF calls[c].at = "orphan" THEN trouble \cup {"other"} ELSE trouble
  BY DEF Serve, Outcome
<1>3. Chain(calls[c]) /\ Head(calls[c].todo) \in Requests /\ calls[c].sent \in Sent
  BY <1>1, Waiting
<1>4. o.after \in StoredType /\ (o.code = "ok" => Fits(Head(calls[c].todo), o.data))
  BY <1>3, OutcomeTyped DEF Outcome
<1>5. /\ CallsOK' /\ Others(c)
      /\ calls[c].at = "orphan" => calls'[c] = Over
      /\ calls[c].at = "sent" => Settles(c, o.code, o.data)
  BY <1>1, <1>2, <1>4, Answers
<1>6. StoredOK'
  BY <1>2, <1>4 DEF StoredOK
<1> QED  BY <1>1, <1>2, <1>3, <1>5, <1>6

\* A request is lost, before or after it took effect.
LEMMA Loses ==
  ASSUME WorkspaceAssumption, CallsOK, StoredOK, NEW c \in Calls, Lose(c)
  PROVE  /\ calls[c] # Over /\ Chain(calls[c]) /\ CallsOK' /\ StoredOK' /\ Others(c)
         /\ calls[c].at = "sent" /\ Settles(c, "failed", None)
         /\ stored' = stored \/ \E o \in Outcome(c) : stored' = o.after
         /\ trouble' = trouble \cup {"failure"}
         /\ UNCHANGED <<place, shown, saved, tokens, ops>>
<1>1. /\ calls[c] # Over /\ calls[c].at = "sent" /\ Answered(c, "failed", None)
      /\ stored' = stored \/ \E o \in Outcome(c) : stored' = o.after
      /\ trouble' = trouble \cup {"failure"}
      /\ UNCHANGED <<place, shown, saved, tokens, ops>>
  BY DEF Lose, Outcome
<1>2. Chain(calls[c]) /\ Head(calls[c].todo) \in Requests /\ calls[c].sent \in Sent
  BY <1>1, Waiting
<1>3. CallsOK' /\ Others(c) /\ Settles(c, "failed", None)
  BY <1>1, Answers
<1>4. StoredOK'
  BY <1>1, <1>2, OutcomeTyped DEF StoredOK, Outcome
<1> QED  BY <1>1, <1>2, <1>3, <1>4

\* A load's requests are followed by its end.
LEMMA LoadedLater ==
  ASSUME NEW t \in {I1, P1, S1, I2, P2, S2}  PROVE  "loaded" \in ToSet(Tail(t))
<1>1. "loaded" \in ToSet(P1)
  <2>1. 3 \in DOMAIN P1 /\ P1[3] = "loaded"
    BY DEF P1
  <2> QED  BY <2>1 DEF ToSet
<1>2. "loaded" \in ToSet(S1)
  <2>1. 2 \in DOMAIN S1 /\ S1[2] = "loaded"
    BY DEF S1
  <2> QED  BY <2>1 DEF ToSet
<1>3. "loaded" \in ToSet(D1)
  <2>1. 1 \in DOMAIN D1 /\ D1[1] = "loaded"
    BY DEF D1
  <2> QED  BY <2>1 DEF ToSet
<1>4. "loaded" \in ToSet(P2)
  <2>1. 3 \in DOMAIN P2 /\ P2[3] = "loaded"
    BY DEF P2
  <2> QED  BY <2>1 DEF ToSet
<1>5. "loaded" \in ToSet(S2)
  <2>1. 2 \in DOMAIN S2 /\ S2[2] = "loaded"
    BY DEF S2
  <2> QED  BY <2>1 DEF ToSet
<1>6. "loaded" \in ToSet(D2)
  <2>1. 1 \in DOMAIN D2 /\ D2[1] = "loaded"
    BY DEF D2
  <2> QED  BY <2>1 DEF ToSet
<1>7. Rest(I1) = P1 /\ Rest(P1) = S1 /\ Rest(S1) = D1 /\ Rest(I2) = P2 /\ Rest(P2) = S2 /\ Rest(S2) = D2
  BY HeadTail
<1> QED  BY <1>1, <1>2, <1>3, <1>4, <1>5, <1>6, <1>7 DEF Rest

ArriveStep(c) ==
  LET t == calls[c].todo
      arg == calls[c].arg
      data == calls[c].answer.data
  IN  \/ /\ t \in {I1, I2} /\ Moves(c, Going(Rest(t), arg))
         /\ shown' = [shown EXCEPT !.serverInfo = data, !.serverError = FALSE]
         /\ UNCHANGED <<saved, tokens>>
      \/ /\ t \in {SL, Status2} /\ Moves(c, Going(Rest(t), arg))
         /\ shown' = [shown EXCEPT !.status = data] /\ UNCHANGED <<saved, tokens>>
      \/ /\ t \in {P1, P2, Create3, Rename2, Delete3} /\ Moves(c, Going(Rest(t), arg))
         /\ ProjectsArrive(data) /\ UNCHANGED tokens
      \/ /\ t \in {S1, S2, Sources1, Delete2} /\ Moves(c, Going(Rest(t), arg))
         /\ shown' = [shown EXCEPT !.dataSources = data] /\ UNCHANGED <<saved, tokens>>
      \/ /\ t \in {Login3, Logout3} /\ Moves(c, Going(Rest(t), arg))
         /\ tokens' = [tokens EXCEPT ![currentServerUrl] = data] /\ UNCHANGED <<shown, saved>>
      \/ /\ t = Delete4 /\ Moves(c, Going(Rest(t), arg))
         /\ shown' = [shown EXCEPT !.currentProjectId = IF @ = arg THEN None ELSE @]
         /\ UNCHANGED <<saved, tokens>>
      \/ /\ t = Create4 /\ Moves(c, Going(Rest(t), data)) /\ UNCHANGED <<shown, saved, tokens>>
      \/ /\ t \in {Rename3, Add2, Change2, Drop2} /\ Moves(c, Going(Rest(t), arg))
         /\ UNCHANGED <<shown, saved, tokens>>

\* What a successful answer does to its chain, sequence by sequence.
LEMMA Arriving ==
  ASSUME NEW c \in Calls, Chain(calls[c]), Head(calls[c].todo) \in Requests,
         Arrives(c, calls[c].answer.data)
  PROVE  ArriveStep(c)
<1> DEFINE t == calls[c].todo
           arg == calls[c].arg
           data == calls[c].answer.data
<1>0. t \in Todos
  BY DEF Chain
<1>1. GoOn(c, Tail(t), IF Head(t) = "create" THEN data ELSE arg)
  BY DEF Arrives
<1>2. Moves(c, Going(Rest(t), IF Head(t) = "create" THEN data ELSE arg))
  BY <1>1, Goes DEF Rest
<1>3. CASE Head(t) = "info"
  BY <1>0, <1>2, <1>3, ByHead DEF Arrives, ArriveStep
<1>4. CASE Head(t) \in {"status", "syncStatus"}
  BY <1>0, <1>2, <1>4, ByHead DEF Arrives, ArriveStep
<1>5. CASE Head(t) = "projects"
  BY <1>0, <1>2, <1>5, ByHead DEF Arrives, ArriveStep
<1>6. CASE Head(t) = "sources"
  BY <1>0, <1>2, <1>6, ByHead DEF Arrives, ArriveStep
<1>7. CASE Head(t) \in {"login", "logout"}
  BY <1>0, <1>2, <1>7, ByHead DEF Arrives, ArriveStep
<1>8. CASE Head(t) = "delete"
  BY <1>0, <1>2, <1>8, ByHead DEF Arrives, ArriveStep
<1>9. CASE Head(t) \in {"create", "rename", "addSource", "changeSource", "dropSource"}
  <2>1. UNCHANGED <<shown, saved, tokens>>
    BY <1>9 DEF Arrives
  <2> QED  BY <1>0, <1>2, <1>9, <2>1, ByHead DEF ArriveStep
<1> QED  BY <1>3, <1>4, <1>5, <1>6, <1>7, <1>8, <1>9 DEF Requests

FailStep(c) ==
  LET t == calls[c].todo
      arg == calls[c].arg
  IN  \/ /\ t \in {I1, P1, S1, I2, P2, S2}
         /\ Moves(c, Going(IF t \in {I1, P1, S1} THEN <<>> ELSE SL, arg))
         /\ shown' = IF calls[c].answer.code = "denied" THEN Denied(shown) ELSE Unreachable(shown)
         /\ UNCHANGED tokens
      \/ /\ t = Logout3 /\ Moves(c, Going(Rest(t), arg))
         /\ tokens' = [tokens EXCEPT ![currentServerUrl] = None] /\ UNCHANGED shown
      \/ /\ t = SL /\ Moves(c, Going(Rest(t), arg)) /\ UNCHANGED <<shown, tokens>>
      \/ /\ t \notin {I1, P1, S1, I2, P2, S2, Logout3, SL}
         /\ Moves(c, Over) /\ UNCHANGED <<shown, tokens>>

\* And an answer that says no.
LEMMA Failing ==
  ASSUME NEW c \in Calls, Chain(calls[c]), Fails(c, calls[c].answer.code)
  PROVE  FailStep(c) /\ UNCHANGED saved
<1> DEFINE t == calls[c].todo
           arg == calls[c].arg
<1>0. t \in Todos /\ UNCHANGED saved
  BY DEF Chain, Fails
<1>1. ASSUME "loaded" \in ToSet(Tail(t)), LoadFails(c, calls[c].answer.code)  PROVE  FailStep(c)
  <2>1. GoOn(c, AfterLoad(t), arg)
    BY <1>1 DEF LoadFails
  <2>2. Moves(c, Going(AfterLoad(t), arg))
    BY <2>1, Goes
  <2>3. \/ t \in {I1, P1, S1} /\ AfterLoad(t) = <<>>
        \/ t \in {I2, P2, S2} /\ AfterLoad(t) = SL
    BY <1>0, <1>1, AfterFailure
  <2>4. t \in {I2, P2, S2} => t \notin {I1, P1, S1}
    <3>1. SL # Nil
      BY DEF SL, Nil
    <3> QED  BY <3>1, HeadTail
  <2> QED  BY <1>1, <2>2, <2>3, <2>4 DEF FailStep, LoadFails
<1>2. ASSUME Head(t) = "logout", tokens' = [tokens EXCEPT ![currentServerUrl] = None],
             GoOn(c, Tail(t), arg), UNCHANGED shown
      PROVE  FailStep(c)
  <2>1. t = Logout3
    BY <1>0, <1>2, ByHead
  <2>2. Moves(c, Going(Rest(t), arg))
    BY <1>2, Goes DEF Rest
  <2> QED  BY <1>2, <2>1, <2>2 DEF FailStep
<1>3. ASSUME Head(t) = "syncStatus", GoOn(c, Tail(t), arg), UNCHANGED <<shown, tokens>>
      PROVE  FailStep(c)
  <2>1. t = SL
    BY <1>0, <1>3, ByHead
  <2>2. Moves(c, Going(Rest(t), arg))
    BY <1>3, Goes DEF Rest
  <2> QED  BY <1>3, <2>1, <2>2 DEF FailStep
<1>4. ASSUME "loaded" \notin ToSet(Tail(t)), Head(t) \notin {"logout", "syncStatus"},
             GoOn(c, <<>>, None), UNCHANGED <<shown, tokens>>
      PROVE  FailStep(c)
  <2>1. t \notin {I1, P1, S1, I2, P2, S2}
    BY <1>4, LoadedLater
  <2>2. t \notin {Logout3, SL}
    BY <1>4, HeadTail DEF NextStep
  <2>3. Moves(c, Going(<<>>, None)) /\ Going(<<>>, None) = Over
    BY <1>4, Goes DEF Going
  <2> QED  BY <1>4, <2>1, <2>2, <2>3 DEF FailStep
<1>5. FailStep(c)
  BY <1>1, <1>2, <1>3, <1>4 DEF Fails
<1> QED  BY <1>0, <1>5

\* A chain takes its answer, one way or the other.
LEMMA Receives ==
  ASSUME CallsOK, NEW c \in Calls, Receive(c)
  PROVE  /\ calls[c] # Over /\ Chain(calls[c]) /\ calls[c].at = "answered"
         /\ \/ calls[c].answer.code = "ok" /\ Fits(Head(calls[c].todo), calls[c].answer.data) /\ ArriveStep(c)
            \/ calls[c].answer.code # "ok" /\ FailStep(c) /\ UNCHANGED saved
         /\ UNCHANGED <<place, stored, ops, trouble>>
<1>1. /\ calls[c] # Over /\ Chain(calls[c]) /\ calls[c].at = "answered"
      /\ Head(calls[c].todo) \in Requests
      /\ UNCHANGED <<place, stored, ops, trouble>>
  BY DEF Receive, CallsOK, Chain
<1>2. CASE calls[c].answer.code = "ok"
  <2>1. Arrives(c, calls[c].answer.data)
    BY <1>2 DEF Receive
  <2>2. Fits(Head(calls[c].todo), calls[c].answer.data)
    BY <1>1, <1>2 DEF Chain, Ok
  <2> QED  BY <1>1, <1>2, <2>1, <2>2, Arriving
<1>3. CASE calls[c].answer.code # "ok"
  <2>1. Fails(c, calls[c].answer.code)
    BY <1>3 DEF Receive
  <2> QED  BY <1>1, <1>3, <2>1, Failing
<1> QED  BY <1>2, <1>3

-----------------------------------------------------------------------------
(* Every step of a chain, of a backend or of somebody else keeps the types. *)

\* What is left of a sequence is one of the sequences, or nothing.
LEMMA RestIsTodo ==
  ASSUME NEW t \in Todos
  PROVE  /\ Rest(t) = <<>> \/ Rest(t) \in Todos
         /\ Rest(t) \in {Create3, Create2} => t \in {Create4, Create3}
<1>1. Rest(t) = Nil \/ Rest(t) \in Todos
  BY HeadTail DEF Todos, Loads
<1>2. Nil \notin {Create3, Create2}
  BY DEF Nil, Create3, Create2
<1>3. Rest(t) \in {Create3, Create2} => t \in {Create4, Create3}
  BY HeadTail, <1>2 DEF Todos, Loads
<1> QED  BY <1>1, <1>3 DEF Nil

\* A chain that goes on: the other chains are as they were.
LEMMA Moved ==
  ASSUME CallsOK, NEW c \in Calls, NEW todo, NEW arg, todo = <<>> \/ todo \in Todos,
         todo \in {Create3, Create2} => arg \in Projects, Moves(c, Going(todo, arg))
  PROVE  /\ CallsOK' /\ Others(c) /\ calls'[c] = Going(todo, arg)
         /\ calls'[c] # Over => calls'[c].at = "ready"
<1>1. PICK k : k = Going(todo, arg)
  OBVIOUS
<1>2. k = Over \/ Chain(k)
  BY <1>1, GoingOn, Zenon
<1>3. calls' = [calls EXCEPT ![c] = k]
  BY <1>1 DEF Moves
<1>4. CallsOK' /\ calls'[c] = k /\ \A d \in Calls : d # c => calls'[d] = calls[d]
  BY <1>2, <1>3, OneCall
<1>5. k # Over => k.at = "ready"
  BY <1>1 DEF Going, Start
<1> QED  BY <1>1, <1>4, <1>5 DEF Others

\* It sends no token that was not issued.
LEMMA MovedIssued ==
  ASSUME Issued, NEW c \in Calls, Others(c), calls'[c] # Over => calls'[c].at = "ready",
         UNCHANGED <<tokens, stored>>
  PROVE  Issued'
<1>1. ASSUME NEW d \in Calls, calls'[d] # Over, Ok(calls'[d])  PROVE  calls'[d] = calls[d]
  BY <1>1 DEF Others, Ok
<1> QED  BY <1>1 DEF Issued

\* A chain that is not told otherwise goes on with the rest.
LEMMA MovedOn ==
  ASSUME CallsOK, NEW c \in Calls, Chain(calls[c]), calls[c].todo # Create4,
         Moves(c, Going(Rest(calls[c].todo), calls[c].arg))
  PROVE  /\ CallsOK' /\ Others(c) /\ calls'[c] = Going(Rest(calls[c].todo), calls[c].arg)
         /\ calls'[c] # Over => calls'[c].at = "ready"
<1>1. calls[c].todo \in Todos /\ (calls[c].todo \in {Create3, Create2} => calls[c].arg \in Projects)
  BY DEF Chain
<1>2. PICK todo, arg : todo = Rest(calls[c].todo) /\ arg = calls[c].arg
  OBVIOUS
<1>3. todo = <<>> \/ todo \in Todos
  BY <1>1, <1>2, RestIsTodo
<1>4. todo \in {Create3, Create2} => arg \in Projects
  BY <1>1, <1>2, RestIsTodo
<1>5. Moves(c, Going(todo, arg))
  BY <1>2
<1>6. CallsOK' /\ Others(c) /\ calls'[c] = Going(todo, arg) /\ (calls'[c] # Over => calls'[c].at = "ready")
  BY <1>3, <1>4, <1>5, Moved, Zenon
<1> QED  BY <1>2, <1>6

\* A step between two requests keeps the types.
LEMMA ProceedTyped ==
  ASSUME WorkspaceAssumption, Typed, NEW c \in Calls, Proceed(c)
  PROVE  Typed' /\ Others(c) /\ (calls'[c] # Over => calls'[c].at = "ready")
<1> DEFINE t == calls[c].todo
           arg == calls[c].arg
<1>0. /\ Chain(calls[c]) /\ ProceedStep(c) /\ UNCHANGED <<place, tokens, stored, ops, trouble>>
      /\ CallsOK
  BY Proceeds DEF Typed
<1>a. t \in Todos /\ (t = Create2 => arg \in Projects) /\ currentServerId \in Profiles
      /\ shown.currentProjectId \in Projects \cup {None}
  BY <1>0, CurrentTyped DEF Chain, Typed, ScreenOK, ShownType
<1>b. {D1, D2, Create2, Delete1, S1, S2, Sources1, Delete2} \cap {Create4} = {}
  BY HeadTail
<1>1. CASE t \in {L1, L2} /\ Moves(c, Going(IF t = L1 THEN I1 ELSE I2, arg))
           /\ UNCHANGED <<shown, saved>>
  <2>1. (IF t = L1 THEN I1 ELSE I2) \in Todos \ {Create3, Create2}
    BY HeadTail DEF Todos, Loads
  <2>2. CallsOK' /\ Others(c) /\ (calls'[c] # Over => calls'[c].at = "ready")
    BY <1>0, <1>1, <2>1, Moved
  <2>3. Issued'
    BY <1>0, <2>2, MovedIssued DEF Typed
  <2> QED  BY <1>0, <1>1, <2>2, <2>3 DEF Typed, place, PlaceOK, ScreenOK, SavedOK, StoredOK, TokensOK, OpsOK
<1>2. CASE t = Rename1 /\ UNCHANGED <<shown, saved>>
           /\ Moves(c, Going(IF shown.currentProjectId = arg THEN Sources1 ELSE <<>>, arg))
  <2>0. PICK todo : todo = IF shown.currentProjectId = arg THEN Sources1 ELSE Nil
    OBVIOUS
  <2>1. (todo = Nil \/ todo \in Todos) /\ todo \notin {Create3, Create2}
    <3>1. Nil \notin {Create3, Create2}
      BY DEF Nil, Create3, Create2
    <3>2. Sources1 \in Todos \ {Create3, Create2}
      BY HeadTail DEF Todos
    <3> QED  BY <2>0, <3>1, <3>2
  <2>2. Moves(c, Going(todo, arg))
    BY <1>2, <2>0 DEF Nil
  <2>3. CallsOK' /\ Others(c) /\ (calls'[c] # Over => calls'[c].at = "ready")
    BY <1>0, <2>1, <2>2, Moved DEF Nil
  <2>4. Issued'
    BY <1>0, <2>3, MovedIssued DEF Typed
  <2> QED  BY <1>0, <1>2, <2>3, <2>4 DEF Typed, place, PlaceOK, ScreenOK, SavedOK, StoredOK, TokensOK, OpsOK
<1>3. CASE /\ t \in {D1, D2, Create2, Delete1, S1, S2, Sources1, Delete2} /\ Moves(c, Going(Rest(t), arg))
           /\ \/ shown' = [shown EXCEPT !.serverError = FALSE] /\ UNCHANGED saved
              \/ /\ t = Create2 /\ shown' = [shown EXCEPT !.currentProjectId = arg]
                 /\ persistServers(servers, url, currentServerId, arg)
              \/ persistServers(servers, url, currentServerId, shown.currentProjectId) /\ UNCHANGED shown
              \/ shown' = [shown EXCEPT !.dataSources = {}] /\ UNCHANGED saved
  <2>1. CallsOK' /\ Others(c) /\ (calls'[c] # Over => calls'[c].at = "ready")
    BY <1>0, <1>3, <1>b, MovedOn
  <2>2. Issued'
    BY <1>0, <2>1, MovedIssued DEF Typed
  <2>3. ScreenOK'
    BY <1>3, <1>a DEF Typed, ScreenOK, ShownType
  <2>4. SavedOK'
    BY <1>0, <1>3, <1>a, Persisted DEF Typed, SavedOK, PlaceOK, place
  <2> QED  BY <1>0, <2>1, <2>2, <2>3, <2>4 DEF Typed, place, PlaceOK, StoredOK, TokensOK, OpsOK
<1> QED  BY <1>0, <1>1, <1>2, <1>3 DEF ProceedStep

\* So does sending a request.
LEMMA SendTyped ==
  ASSUME WorkspaceAssumption, Typed, NEW c \in Calls, Send(c)  PROVE  Typed'
<1>1. /\ CallsOK' /\ Others(c) /\ calls'[c].at = "sent"
      /\ UNCHANGED <<place, shown, saved, tokens, stored, ops, trouble>>
  BY Sends DEF Typed
<1>2. Issued'
  BY <1>1 DEF Typed, Issued, Others, Ok
<1> QED  BY <1>1, <1>2 DEF Typed, place, PlaceOK, ScreenOK, SavedOK, StoredOK, TokensOK, OpsOK

\* A login's token has been issued when the answer arrives.
LEMMA OutcomeIssued ==
  ASSUME WorkspaceAssumption, Typed, NEW c \in Calls, calls[c] # Over, calls[c].at # "ready",
         NEW o \in Outcome(c), stored' = o.after, UNCHANGED tokens, Others(c),
         calls'[c] = Over \/ Settles(c, "failed", None) \/ Settles(c, o.code, o.data)
  PROVE  Issued'
<1>1. Head(calls[c].todo) \in Requests /\ calls[c].sent \in Sent /\ StoredOK /\ Chain(calls[c])
  BY Waiting DEF Typed
<1>2. /\ \A t \in Tokens : stored.issuer[t] # None => stored'.issuer[t] = stored.issuer[t]
      /\ Head(calls[c].todo) = "login" /\ o.code = "ok" =>
           o.data \in Tokens /\ stored'.issuer[o.data] = calls[c].sent.to
  BY <1>1, IssuerKept DEF Outcome
<1>3. calls[c].sent.to # None
  BY <1>1 DEF Sent, WorkspaceAssumption
<1>4. \A b \in Backends : tokens'[b] # None => stored'.issuer[tokens'[b]] # None
  BY <1>2 DEF Typed, TokensOK, Issued
<1>5. ASSUME NEW d \in Calls, calls'[d] # Over, Ok(calls'[d]), Head(calls'[d].todo) = "login"
      PROVE  stored'.issuer[calls'[d].answer.data] # None
  <2>1. CASE d = c
    <3>1. Settles(c, o.code, o.data) /\ o.code = "ok"
      BY <1>5, <2>1 DEF Settles, Ok
    <3>2. Head(calls[c].todo) = "login"
      BY <1>5, <2>1, <3>1 DEF Settles, SameChain
    <3> QED  BY <1>2, <1>3, <2>1, <3>1, <3>2 DEF Settles
  <2>2. CASE d # c
    <3>1. calls'[d] = calls[d]
      BY <2>2 DEF Others
    <3>2. calls[d].answer.data \in Tokens /\ stored.issuer[calls[d].answer.data] # None
      BY <1>5, <3>1 DEF Typed, CallsOK, Chain, Fits, Issued
    <3> QED  BY <1>2, <3>1, <3>2
  <2> QED  BY <2>1, <2>2
<1> QED  BY <1>4, <1>5 DEF Issued

\* An answer keeps the types.
LEMMA ServeTyped ==
  ASSUME WorkspaceAssumption, Typed, NEW c \in Calls, Serve(c)  PROVE  Typed'
<1>1. /\ calls[c] # Over /\ calls[c].at # "ready" /\ CallsOK' /\ StoredOK' /\ Others(c)
      /\ UNCHANGED <<place, shown, saved, tokens, ops>>
  BY Serves DEF Typed, Serve
<1>2. PICK o \in Outcome(c) :
        /\ stored' = o.after
        /\ \/ calls'[c] = Over /\ trouble' = trouble \cup {"other"}
           \/ Settles(c, o.code, o.data) /\ trouble' = trouble
  BY Serves DEF Typed
<1>3. Issued'
  BY <1>1, <1>2, OutcomeIssued
<1> QED  BY <1>1, <1>2, <1>3 DEF Typed, place, PlaceOK, ScreenOK, SavedOK, TokensOK, OpsOK, AllFeatures

\* So does a lost request.
LEMMA LoseTyped ==
  ASSUME WorkspaceAssumption, Typed, NEW c \in Calls, Lose(c)  PROVE  Typed'
<1>1. /\ calls[c] # Over /\ calls[c].at # "ready" /\ CallsOK' /\ StoredOK' /\ Others(c)
      /\ Settles(c, "failed", None)
      /\ stored' = stored \/ \E o \in Outcome(c) : stored' = o.after
      /\ trouble' = trouble \cup {"failure"}
      /\ UNCHANGED <<place, shown, saved, tokens, ops>>
  BY Loses DEF Typed
<1>2. Issued'
  <2>1. CASE stored' = stored
    BY <1>1, <2>1 DEF Typed, Issued, Others, Settles, Ok
  <2>2. CASE \E o \in Outcome(c) : stored' = o.after
    BY <1>1, <2>2, OutcomeIssued
  <2> QED  BY <1>1, <2>1, <2>2
<1> QED  BY <1>1, <1>2 DEF Typed, place, PlaceOK, ScreenOK, SavedOK, TokensOK, OpsOK, AllFeatures

\* The workspace that is selected once the list has arrived.
LEMMA Fetched ==
  ASSUME ScreenOK, NEW ps \in SUBSET Projects, WorkspaceAssumption
  PROVE  (IF shown.currentProjectId \in ps THEN shown.currentProjectId ELSE First(ps))
           \in Projects \cup {None}
<1>1. First(ps) \in Projects \cup {None}
  <2>1. CASE ps = {}
    BY <2>1 DEF First
  <2>2. CASE ps # {}
    BY <2>2, FirstIn
  <2> QED  BY <2>1, <2>2
<1> QED  BY <1>1 DEF ScreenOK, ShownType

\* A list that arrives keeps the types of screen and saved selection.
LEMMA ProjectsTyped ==
  ASSUME WorkspaceAssumption, Typed, NEW ps \in SUBSET Projects, ProjectsArrive(ps), UNCHANGED place
  PROVE  ScreenOK' /\ SavedOK'
<1>1. PICK p \in Projects \cup {None} :
        p = IF shown.currentProjectId \in ps THEN shown.currentProjectId ELSE First(ps)
  BY Fetched DEF Typed
<1>2. shown' = [shown EXCEPT !.projects = ps, !.currentProjectId = p]
  BY <1>1 DEF ProjectsArrive
<1>3. ScreenOK'
  BY <1>2 DEF Typed, ScreenOK, ShownType
<1>4. saved' = saved \/ persistServers(servers, url, currentServerId, p)
  BY <1>1 DEF ProjectsArrive
<1>5. SavedOK'
  BY <1>4, CurrentTyped, Persisted DEF Typed, SavedOK, PlaceOK, place
<1> QED  BY <1>3, <1>5

\* A chain that takes its answer goes on or is over.
LEMMA ReceiveMoves ==
  ASSUME WorkspaceAssumption, Typed, NEW c \in Calls, Receive(c)
  PROVE  CallsOK' /\ Others(c) /\ (calls'[c] # Over => calls'[c].at = "ready")
<1> DEFINE t == calls[c].todo
           arg == calls[c].arg
           data == calls[c].answer.data
<1>0. CallsOK /\ Chain(calls[c]) /\ t \in Todos
  BY Receives DEF Typed, Chain
<1>1. CASE t # Create4 /\ Moves(c, Going(Rest(t), arg))
  BY <1>0, <1>1, MovedOn
<1>2. CASE t = Create4 /\ Moves(c, Going(Rest(t), data)) /\ Fits(Head(t), data)
  <2>1. Rest(t) = Create3 /\ Create3 \in Todos /\ data \in Projects
    BY <1>2, HeadTail DEF Todos, Fits, NextStep
  <2> QED  BY <1>0, <1>2, <2>1, Moved
<1>3. CASE \/ Moves(c, Over)
           \/ t \in {I1, P1, S1, I2, P2, S2} /\ Moves(c, Going(IF t \in {I1, P1, S1} THEN <<>> ELSE SL, arg))
  <2>0. PICK todo : todo = IF t \in {I1, P1, S1} THEN Nil ELSE SL
    OBVIOUS
  <2>1. (todo = Nil \/ todo \in Todos) /\ todo \notin {Create3, Create2} /\ Nil \notin {Create3, Create2}
    <3>1. Nil \notin {Create3, Create2}
      BY DEF Nil, Create3, Create2
    <3>2. SL \in Todos \ {Create3, Create2}
      BY HeadTail DEF Todos, Loads
    <3> QED  BY <2>0, <3>1, <3>2
  <2>2. Moves(c, Going(Nil, arg)) \/ Moves(c, Going(todo, arg))
    BY <1>3, <2>0 DEF Nil, Going
  <2> QED  BY <1>0, <2>1, <2>2, Moved DEF Nil
<1>4. Create4 \notin {I1, I2, SL, Status2, P1, P2, Create3, Rename2, Delete3, S1, S2, Sources1, Delete2,
                      Login3, Logout3, Delete4, Rename3, Add2, Change2, Drop2}
  BY HeadTail
<1>5. CASE Fits(Head(t), data) /\ ArriveStep(c)
  BY <1>1, <1>2, <1>4, <1>5 DEF ArriveStep
<1>6. CASE FailStep(c)
  BY <1>1, <1>3, <1>4, <1>6 DEF FailStep
<1> QED  BY <1>5, <1>6, Receives DEF Typed

\* And the types hold.
LEMMA ReceiveTyped ==
  ASSUME WorkspaceAssumption, Typed, NEW c \in Calls, Receive(c)  PROVE  Typed'
<1> DEFINE t == calls[c].todo
           data == calls[c].answer.data
<1>0. /\ Chain(calls[c]) /\ t \in Todos /\ UNCHANGED <<place, stored, ops, trouble>>
      /\ calls[c] # Over /\ calls[c].at = "answered" /\ currentServerUrl \in Backends
  BY Receives, CurrentTyped DEF Typed, Chain
<1>1. CallsOK' /\ Others(c) /\ (calls'[c] # Over => calls'[c].at = "ready")
  BY ReceiveMoves
<1>2. CASE calls[c].answer.code = "ok" /\ Fits(Head(t), data) /\ ArriveStep(c)
  <2>1. ScreenOK' /\ SavedOK'
    <3>1. CASE ProjectsArrive(data) /\ t \in {P1, P2, Create3, Rename2, Delete3}
      <4>1. data \in SUBSET Projects
        BY <1>2, <3>1, HeadTail DEF Fits, NextStep
      <4> QED  BY <1>0, <3>1, <4>1, ProjectsTyped
    <3>2. CASE UNCHANGED saved /\ t \in {I1, I2} /\ shown' = [shown EXCEPT !.serverInfo = data, !.serverError = FALSE]
      <4>1. data \in Backends
        BY <1>2, <3>2, HeadTail DEF Fits, NextStep
      <4> QED  BY <1>0, <3>2, <4>1 DEF Typed, ScreenOK, ShownType, SavedOK, place
    <3>3. CASE UNCHANGED saved /\ t \in {SL, Status2} /\ shown' = [shown EXCEPT !.status = data]
      <4>1. data \in [enabled : BOOLEAN, user : Backends \cup {None}]
        BY <1>2, <3>3, HeadTail DEF Fits, NextStep
      <4> QED  BY <1>0, <3>3, <4>1 DEF Typed, ScreenOK, ShownType, SavedOK, place
    <3>4. CASE UNCHANGED saved /\ t \in {S1, S2, Sources1, Delete2} /\ shown' = [shown EXCEPT !.dataSources = data]
      <4>1. data \in SUBSET Sources
        BY <1>2, <3>4, HeadTail DEF Fits, NextStep
      <4> QED  BY <1>0, <3>4, <4>1 DEF Typed, ScreenOK, ShownType, SavedOK, place
    <3>5. CASE /\ UNCHANGED saved
               /\ shown' = [shown EXCEPT !.currentProjectId = IF @ = calls[c].arg THEN None ELSE @]
      <4>1. PICK p : p = IF shown.currentProjectId = calls[c].arg THEN None ELSE shown.currentProjectId
        OBVIOUS
      <4>2. p \in Projects \cup {None}
        BY <4>1 DEF Typed, ScreenOK, ShownType
      <4>3. shown' = [shown EXCEPT !.currentProjectId = p]
        BY <3>5, <4>1 DEF Typed, ScreenOK, ShownType
      <4> QED  BY <1>0, <3>5, <4>2, <4>3 DEF Typed, ScreenOK, ShownType, SavedOK, place
    <3>6. CASE UNCHANGED <<shown, saved>>
      BY <1>0, <3>6 DEF Typed, ScreenOK, SavedOK, place
    <3> QED  BY <1>2, <3>1, <3>2, <3>3, <3>4, <3>5, <3>6 DEF ArriveStep
  <2>2. TokensOK' /\ Issued'
    <3>1. CASE UNCHANGED tokens
      BY <1>0, <1>1, <3>1, MovedIssued DEF Typed, TokensOK
    <3>2. CASE t \in {Login3, Logout3} /\ tokens' = [tokens EXCEPT ![currentServerUrl] = data]
      <4>1. data = None \/ (data \in Tokens /\ stored.issuer[data] # None)
        BY <1>0, <1>2, <3>2, HeadTail DEF Fits, NextStep, Typed, Issued, Ok
      <4>2. \A d \in Calls : calls'[d] # Over /\ Ok(calls'[d]) => calls'[d] = calls[d]
        BY <1>1 DEF Others, Ok
      <4>3. \A b \in Backends : tokens'[b] = tokens[b] \/ tokens'[b] = data
        BY <3>2 DEF Typed, TokensOK
      <4>4. TokensOK'
        BY <3>2, <4>1 DEF Typed, TokensOK
      <4> QED  BY <1>0, <4>1, <4>2, <4>3, <4>4 DEF Typed, Issued
    <3> QED  BY <1>2, <3>1, <3>2 DEF ArriveStep
  <2> QED  BY <1>0, <1>1, <2>1, <2>2 DEF Typed, place, PlaceOK, StoredOK, OpsOK
<1>3. CASE calls[c].answer.code # "ok" /\ FailStep(c) /\ UNCHANGED saved
  <2>1. ScreenOK'
    <3>1. shown' = shown \/ shown' = Denied(shown) \/ shown' = Unreachable(shown)
      BY <1>3 DEF FailStep
    <3> QED  BY <3>1 DEF Denied, Unreachable, Typed, ScreenOK, ShownType
  <2>2. SavedOK'
    BY <1>0, <1>3 DEF Typed, SavedOK, place
  <2>3. TokensOK' /\ Issued'
    <3>1. CASE UNCHANGED tokens
      BY <1>0, <1>1, <3>1, MovedIssued DEF Typed, TokensOK
    <3>2. CASE tokens' = [tokens EXCEPT ![currentServerUrl] = None]
      <4>2. \A d \in Calls : calls'[d] # Over /\ Ok(calls'[d]) => calls'[d] = calls[d]
        BY <1>1 DEF Others, Ok
      <4>3. \A b \in Backends : tokens'[b] = tokens[b] \/ tokens'[b] = None
        BY <3>2 DEF Typed, TokensOK
      <4>4. TokensOK'
        BY <3>2 DEF Typed, TokensOK
      <4> QED  BY <1>0, <4>2, <4>3, <4>4 DEF Typed, Issued
    <3> QED  BY <1>3, <3>1, <3>2 DEF FailStep
  <2> QED  BY <1>0, <1>1, <2>1, <2>2, <2>3 DEF Typed, place, PlaceOK, StoredOK, OpsOK
<1> QED  BY <1>2, <1>3, Receives DEF Typed

\* Somebody else's change keeps the types and what this page has.
LEMMA OtherClientTyped ==
  ASSUME WorkspaceAssumption, Typed, OtherClient
  PROVE  /\ Typed' /\ calls' = calls /\ trouble' = trouble \cup {"other"} /\ ops' = ops + 1
         /\ UNCHANGED <<place, shown, saved, tokens>> /\ stored'.issuer = stored.issuer
<1>0. /\ calls' = calls /\ trouble' = trouble \cup {"other"} /\ ops < MaxOps /\ ops' = ops + 1
      /\ UNCHANGED <<place, shown, saved, tokens>>
  BY DEF OtherClient
<1>a. stored \in StoredType /\ stored.live \in SUBSET Tokens /\ stored.projects \in SUBSET Projects
      /\ stored.sources \in SUBSET Sources
  BY Fields DEF Typed, StoredOK
<1>1. StoredOK' /\ stored'.issuer = stored.issuer
  <2>1. CASE \E p \in stored.projects :
               stored' = [stored EXCEPT !.projects = @ \ {p}, !.sources = @ \ SourcesIn(p)]
    <3>0. PICK p \in stored.projects :
            stored' = [stored EXCEPT !.projects = @ \ {p}, !.sources = @ \ SourcesIn(p)]
      BY <2>1
    <3>1. PICK ps \in SUBSET Projects, ss \in SUBSET Sources :
            ps = stored.projects \ {p} /\ ss = stored.sources \ SourcesIn(p)
      BY <1>a
    <3>2. stored' = [stored EXCEPT !.projects = ps, !.sources = ss]
      BY <3>0, <3>1
    <3>3. Holds([stored EXCEPT !.projects = ps, !.sources = ss], ps, stored.unborn, ss,
                stored.unbornSources, stored.issuer, stored.live)
      BY <1>a, DroppedProject
    <3> QED  BY <3>2, <3>3 DEF Holds, StoredOK
  <2>2. CASE \E t \in stored.live : stored' = [stored EXCEPT !.live = @ \ {t}]
    <3>0. PICK t \in stored.live : stored' = [stored EXCEPT !.live = @ \ {t}]
      BY <2>2
    <3>1. PICK live \in SUBSET Tokens : live = stored.live \ {t}
      BY <1>a
    <3>2. stored' = [stored EXCEPT !.live = live]
      BY <3>0, <3>1
    <3> QED  BY <1>a, <3>2, EndedSession DEF Holds, StoredOK
  <2> QED  BY <2>1, <2>2 DEF OtherClient
<1>2. OpsOK'
  BY <1>0 DEF Typed, OpsOK, WorkspaceAssumption, AllFeatures
<1> QED  BY <1>0, <1>1, <1>2 DEF Typed, place, CallsOK, PlaceOK, ScreenOK, SavedOK, TokensOK, Issued

\* The acts of the user, together.
LEMMA ActTyped ==
  ASSUME WorkspaceAssumption, Typed, Act  PROVE  Typed'
<1>1. ASSUME NEW s \in Profiles, setCurrentServer(s) \/ removeServer(s)  PROVE  Typed'
  BY <1>1, setCurrentServerTyped, removeServerTyped
<1>2. ASSUME NEW s \in Profiles, NEW b \in Backends, addServer(s, b) \/ updateServer(s, b)  PROVE  Typed'
  BY <1>2, addServerTyped, updateServerTyped
<1>3. ASSUME NEW t \in Asking, NEW arg, Asks(t, arg)  PROVE  Typed'
  BY <1>3, AskingTodos, AsksTyped
<1>4. ASSUME NEW p \in Projects, setCurrentProject(p) \/ updateProject(p) \/ deleteProject(p)  PROVE  Typed'
  BY <1>3, <1>4, Asked, setCurrentProjectTyped DEF Asking
<1>5. ASSUME NEW x \in Sources, updateDataSource(x) \/ deleteDataSource(x)  PROVE  Typed'
  BY <1>3, <1>5, Asked DEF Asking
<1>6. ASSUME createProject \/ createDataSource \/ login \/ logout  PROVE  Typed'
  BY <1>3, <1>6, Asked DEF Asking
<1>7. ASSUME NEW kept \in SUBSET Backends, Reload(kept)  PROVE  Typed'
  BY <1>7, ReloadTyped
<1> QED  BY <1>1, <1>2, <1>4, <1>5, <1>6, <1>7 DEF Act
-----------------------------------------------------------------------------
(* The page opens.                                                          *)

\* The store starts with the right types and one load under way.
LEMMA Opening ==
  ASSUME WorkspaceAssumption, Init
  PROVE  Typed /\ \E c \in Calls : /\ calls[c] = Start(L2, None)
                                   /\ \A d \in Calls \ {c} : calls[d] = Over
<1>1. PICK project \in FirstProjects \cup {None}, s \in ToSet(FirstServers) :
        saved = [servers |-> FirstServers, url |-> FirstUrl, current |-> s, project |-> project]
  BY DEF Init
<1>2. /\ FirstServers \in Seq(Profiles) /\ IsInjective(FirstServers) /\ FirstServers # <<>>
      /\ s \in Profiles /\ project \in Projects \cup {None}
  BY DEF WorkspaceAssumption, ToSet
<1>3. /\ Restored(saved).servers = FirstServers /\ Restored(saved).current = s
      /\ Restored(saved).url \in [Profiles -> Backends]
  <2> DEFINE urls == IF Hosted \in ToSet(FirstServers) THEN [FirstUrl EXCEPT ![Hosted] = HostedUrl]
                     ELSE FirstUrl
  <2>1. Restored(saved) = [servers |-> FirstServers, url |-> urls, current |-> ServerOf(s, FirstServers),
                           project |-> project]
    BY <1>1, <1>2 DEF Restored
  <2>2. ServerOf(s, FirstServers) = s
    BY DEF ServerOf
  <2>3. urls \in [Profiles -> Backends]
    BY DEF WorkspaceAssumption
  <2> HIDE DEF urls
  <2> QED  BY <2>1, <2>2, <2>3
<1>4. PlaceOK
  BY <1>2, <1>3 DEF Init, PlaceOK
<1>5. SavedOK
  BY <1>1, <1>2, <1>3 DEF Init, SavedOK, Selection, WorkspaceAssumption
<1>6. ScreenOK
  BY <1>1, <1>2 DEF Init, Blank, ScreenOK, ShownType
<1>7. PICK t \in Tokens, b \in Secured, on \in BOOLEAN :
       /\ tokens = [c \in Backends |-> IF on /\ c = b THEN t ELSE None]
       /\ stored = [projects |-> FirstProjects, unborn |-> Projects \ FirstProjects,
                    sources |-> FirstSources, unbornSources |-> Sources \ FirstSources,
                    issuer |-> [u \in Tokens |-> IF on /\ u = t THEN b ELSE None],
                    live |-> IF on THEN {t} ELSE {}]
  BY DEF Init
<1>8. StoredOK
  BY <1>7 DEF StoredOK, StoredType, WorkspaceAssumption
<1>9. TokensOK
  BY <1>7 DEF TokensOK
<1>10. OpsOK
  BY DEF Init, OpsOK, WorkspaceAssumption
<1>11. PICK c \in Calls : /\ DOMAIN calls = Calls /\ calls[c] = Start(L2, None)
                          /\ \A d \in Calls \ {c} : calls[d] = Over
  <2>1. Lowest(Calls) \in Calls
    BY LowestIn DEF WorkspaceAssumption
  <2> QED  BY <2>1 DEF Init, L2
<1>12. New(Start(L2, None))
  <2>1. L2 \in Todos \ {Create3, Create2}
    BY HeadTail DEF Todos, Loads
  <2> QED  BY <2>1, NewChains
<1>13. CallsOK
  BY <1>11, <1>12 DEF CallsOK, New
<1>14. Issued
  <2>1. \A d \in Calls : calls[d] = Over \/ calls[d].at = "ready"
    BY <1>11, <1>12 DEF New
  <2>2. \A a \in Backends : tokens[a] # None => stored.issuer[tokens[a]] # None
    <3>1. b \in Backends /\ b # None
      BY DEF WorkspaceAssumption
    <3> QED  BY <1>7, <3>1
  <2> QED  BY <2>1, <2>2 DEF Issued, Ok
<1> QED  BY <1>4, <1>5, <1>6, <1>8, <1>9, <1>10, <1>11, <1>13, <1>14 DEF Typed

\* Every step keeps the types.
LEMMA NextTyped ==
  ASSUME WorkspaceAssumption, Typed, [Next]_vars  PROVE  Typed'
<1>1. CASE Act
  BY <1>1, ActTyped
<1>2. ASSUME NEW c \in Calls, Proceed(c) \/ Send(c) \/ Serve(c) \/ Lose(c) \/ Receive(c)
      PROVE  Typed'
  BY <1>2, ProceedTyped, SendTyped, ServeTyped, LoseTyped, ReceiveTyped
<1>3. CASE OtherClient
  BY <1>3, OtherClientTyped
<1>4. CASE UNCHANGED vars
  BY <1>4 DEF vars, Typed, CallsOK, PlaceOK, ScreenOK, SavedOK, StoredOK, TokensOK, OpsOK, Issued
<1> QED  BY <1>1, <1>2, <1>3, <1>4 DEF Next

\* The type invariant that TLC checks is a part of these types.
LEMMA TypedIsTypeOK == ASSUME Typed  PROVE  TypeOK
<1>1. ASSUME NEW c \in Calls, calls[c] # Over
      PROVE  /\ calls[c].todo \in Seq(Steps) \ {<<>>}
             /\ calls[c].at \in {"ready", "sent", "answered", "orphan"}
             /\ calls[c].at # "ready" => Head(calls[c].todo) \in Requests /\ calls[c].sent \in Sent
  <2>1. Chain(calls[c]) /\ calls[c].todo \in Todos
    BY <1>1 DEF Typed, CallsOK, Chain
  <2> QED  BY <2>1, EveryTodo DEF Chain
<1> QED  BY <1>1 DEF TypeOK, Typed, CallsOK, PlaceOK, ScreenOK, SavedOK, StoredOK, TokensOK, OpsOK

\* In every run the state of useWorkspace.ts and auth-store.ts has its types,
\* each chain of awaits under way is one the code can have begun, and every
\* token that is stored or sent was issued by a backend.
THEOREM AlwaysTyped == Spec => []Typed
<1>1. Init => Typed
  BY Opening, WorkspaceAssumption
<1>2. Typed /\ [Next]_vars => Typed'
  BY NextTyped, WorkspaceAssumption
<1> QED  BY <1>1, <1>2, PTL DEF Spec

\* So the run's type invariant holds for every value of the constants.
THEOREM WorkspaceTyped == Spec => []TypeOK
<1>1. Typed => TypeOK
  BY TypedIsTypeOK
<1> QED  BY <1>1, AlwaysTyped, PTL
-----------------------------------------------------------------------------
(* What an act of the user comes to, beside a page load.                    *)

Request(c) == NextStep(calls[c].todo)
Todo(c) == calls[c].todo
Data(c) == calls[c].answer.data
Active(c) == calls[c] # Over /\ calls[c].at # "orphan"
Out(c) == Active(c) /\ calls[c].at # "ready"
GotOk(c) == calls[c] # Over /\ Ok(calls[c])

AskBegun(t, arg) == \E c \in Calls : calls[c] = Over /\ calls'[c] = Start(t, arg) /\ Others(c)
LoadBegun ==
  \/ /\ Begun({Start(L1, None)})
     /\ currentServerUrl' = currentServerUrl \/ "readdressed" \in trouble'
  \/ Begun({Start(L1, None), Sync})

\* Another server is selected, or the selected one edited.
Switch ==
  /\ LoadBegun /\ UNCHANGED <<tokens, stored>>
  /\ shown'.projects = shown.projects /\ shown'.status = shown.status
  /\ saved'.project = shown'.currentProjectId
\* A server that is not selected is edited.
Edit ==
  /\ calls' = calls /\ UNCHANGED <<shown, tokens, stored>>
  /\ currentServerUrl' = currentServerUrl /\ saved'.project = shown.currentProjectId
\* Another workspace is selected.
PickProject ==
  /\ UNCHANGED <<place, tokens, stored>> /\ AskBegun(Sources1, None)
  /\ \E p \in shown.projects :
       shown' = [shown EXCEPT !.currentProjectId = p] /\ saved'.project = p
\* An operation whose first await is its own request.
Ask ==
  /\ UNCHANGED <<place, shown, saved, tokens, stored>>
  /\ \E t \in Asking : \E arg : AskBegun(t, arg) /\ (t = Logout3 => shown.status.user # None)

Acted ==
  /\ Switch \/ Edit \/ PickProject \/ Ask
  /\ trouble \subseteq trouble' /\ (Quiet \/ "overlap" \in trouble')

\* What an act comes to reads the server and the screen only.
LEMMA ActedSo ==
  ASSUME NEW new, NEW extra, UserActs(new, extra)
  PROVE  /\ trouble \subseteq trouble' /\ extra \subseteq trouble'
         /\ Quiet \/ "overlap" \in trouble'
         /\ Begin(new)
BY DEF UserActs

\* While no chain is under way, one that begins is alone.
LEMMA BegunAlone ==
  ASSUME WorkspaceAssumption, CallsOK, NEW t, NEW arg, Begin(<<Start(t, arg)>>)
  PROVE  AskBegun(t, arg)
<1>1. PICK one \in Calls : calls[one] = Over /\ calls' = [calls EXCEPT ![one] = Start(t, arg)]
  BY BeginOne
<1>2. calls'[one] = Start(t, arg) /\ Others(one)
  BY <1>1 DEF CallsOK, Others
<1> QED  BY <1>1, <1>2 DEF AskBegun

\* The address of the server that is selected afterwards.
LEMMA UrlNext == ASSUME PlaceOK'  PROVE currentServerUrl' = url'[currentServerId']
BY DEF PlaceOK, currentServerUrl, currentServer, ServerOf

\* A load begins with an act of the user.
LEMMA LoadBegins ==
  ASSUME WorkspaceAssumption, Typed, PlaceOK', NEW server, Begin(Watched(server, Start(L1, None))),
         server = currentServerId => currentServerUrl' = currentServerUrl \/ "readdressed" \in trouble'
  PROVE  LoadBegun
<1>1. New(Start(L1, None))
  BY L1New
<1>2. /\ server = currentServerId => Begun({Start(L1, None)})
      /\ server # currentServerId => Begun({Start(L1, None), Sync})
  BY <1>1, BegunWatched DEF Typed
<1> QED  BY <1>2 DEF LoadBegun

\* What selecting a server comes to,
LEMMA SelectsActs ==
  ASSUME WorkspaceAssumption, Typed, Typed', NEW list, NEW urls, NEW server \in Profiles,
         Selects(list, urls, server), server = currentServerId => urls[server] = url[server]
  PROVE  Acted
<1>1. /\ trouble \subseteq trouble' /\ (Quiet \/ "overlap" \in trouble')
      /\ Begin(Watched(server, Start(L1, None)))
  BY L1New, ActedSo DEF Selects
<1>2. server = currentServerId => currentServerUrl' = currentServerUrl
  <2>1. PlaceOK /\ PlaceOK' /\ url' = urls /\ currentServerId' = server
    BY DEF Typed, Selects
  <2> QED  BY <2>1, UrlNext, CurrentTyped
<1>3. LoadBegun
  BY <1>1, <1>2, LoadBegins DEF Typed
<1>4. shown'.projects = shown.projects /\ shown'.status = shown.status /\ shown'.currentProjectId = None
  BY DEF Selects, Typed, ScreenOK, ShownType
<1>5. saved'.project = None
  BY DEF Selects, persistServers
<1> QED  BY <1>1, <1>3, <1>4, <1>5 DEF Acted, Switch, Selects

\* chosen from the list,
LEMMA setCurrentServerActs ==
  ASSUME WorkspaceAssumption, Typed, Typed', NEW s \in Profiles, setCurrentServer(s)  PROVE  Acted
BY SelectsActs DEF setCurrentServer

\* added to it,
LEMMA addServerActs ==
  ASSUME WorkspaceAssumption, Typed, Typed', NEW s \in Profiles, NEW b \in Backends, addServer(s, b)
  PROVE  Acted
<1>1. s # currentServerId
  BY DEF addServer, Typed, PlaceOK
<1> QED  BY <1>1, SelectsActs DEF addServer

\* edited,
LEMMA updateServerActs ==
  ASSUME WorkspaceAssumption, Typed, Typed', NEW s \in Profiles, NEW b \in Backends, updateServer(s, b)
  PROVE  Acted
<1>0. /\ currentServerUrl = url[currentServerId] /\ currentServerUrl' = url'[currentServerId]
      /\ url \in [Profiles -> Backends] /\ currentServerId \in Profiles
  BY CurrentTyped, UrlNext DEF Typed, PlaceOK, updateServer
<1>1. saved'.project = shown.currentProjectId
  BY DEF updateServer, persistServers
<1>2. CASE s = currentServerId
  <2>1. /\ trouble \subseteq trouble' /\ (Quiet \/ "overlap" \in trouble')
        /\ Begin(<<Start(L1, None)>>) /\ (b # url[s] => "readdressed" \in trouble')
    BY <1>2, L1New, ActedSo DEF updateServer
  <2>2. Begun({Start(L1, None)})
    BY <2>1, L1New, BegunOne DEF Typed
  <2>3. b = url[s] => currentServerUrl' = currentServerUrl
    BY <1>0, <1>2 DEF updateServer
  <2> QED  BY <1>1, <2>1, <2>2, <2>3 DEF Acted, Switch, LoadBegun, updateServer
<1>3. CASE s # currentServerId
  <2>1. /\ trouble \subseteq trouble' /\ (Quiet \/ "overlap" \in trouble') /\ Begin(<<>>)
    BY <1>3, ActedSo DEF updateServer
  <2>2. calls' = calls
    BY <2>1, BeginNone
  <2>3. currentServerUrl' = currentServerUrl
    BY <1>0, <1>3 DEF updateServer
  <2> QED  BY <1>1, <2>1, <2>2, <2>3 DEF Acted, Edit, updateServer
<1> QED  BY <1>2, <1>3

\* or taken off.
LEMMA removeServerActs ==
  ASSUME WorkspaceAssumption, Typed, Typed', NEW s \in Profiles, removeServer(s)  PROVE  Acted
<1>1. /\ trouble \subseteq trouble' /\ (Quiet \/ "overlap" \in trouble')
      /\ Begin(Watched(currentServerId', Start(L1, None)))
  BY L1New, ActedSo DEF removeServer
<1>2. currentServerId' = currentServerId => currentServerUrl' = currentServerUrl
  BY CurrentTyped, UrlNext DEF Typed, removeServer
<1>3. LoadBegun
  BY <1>1, <1>2, LoadBegins DEF Typed
<1>4. saved'.project = shown.currentProjectId
  BY DEF removeServer, persistServers
<1> QED  BY <1>1, <1>3, <1>4 DEF Acted, Switch, removeServer

\* What selecting a workspace comes to.
LEMMA setCurrentProjectActs ==
  ASSUME WorkspaceAssumption, Typed, NEW p \in Projects, setCurrentProject(p)  PROVE  Acted
<1>1. /\ trouble \subseteq trouble' /\ (Quiet \/ "overlap" \in trouble')
      /\ Begin(<<Start(Sources1, None)>>)
  BY ActedSo DEF setCurrentProject, Sources1
<1>2. AskBegun(Sources1, None)
  BY <1>1, BegunAlone DEF Typed
<1>3. saved'.project = p
  BY DEF setCurrentProject, persistServers
<1> QED  BY <1>1, <1>2, <1>3 DEF Acted, PickProject, setCurrentProject

\* What a request comes to.
LEMMA AsksActs ==
  ASSUME WorkspaceAssumption, Typed, NEW t \in Asking, NEW arg, Asks(t, arg),
         t = Logout3 => shown.status.user # None
  PROVE  Acted
<1>1. /\ trouble \subseteq trouble' /\ (Quiet \/ "overlap" \in trouble')
      /\ Begin(<<Start(t, arg)>>)
  BY ActedSo DEF Asks
<1>2. AskBegun(t, arg)
  BY <1>1, BegunAlone DEF Typed
<1> QED  BY <1>1, <1>2 DEF Acted, Ask, Asks

\* Every act is one of these.
LEMMA ActComesTo ==
  ASSUME WorkspaceAssumption, Typed, Typed', Act
  PROVE  Acted \/ \E kept \in SUBSET Backends : Reload(kept)
<1>1. ASSUME NEW s \in Profiles, setCurrentServer(s) \/ removeServer(s)  PROVE  Acted
  BY <1>1, setCurrentServerActs, removeServerActs
<1>2. ASSUME NEW s \in Profiles, NEW b \in Backends, addServer(s, b) \/ updateServer(s, b)  PROVE  Acted
  BY <1>2, addServerActs, updateServerActs
<1>a. \A t \in Asking \ {Logout3} : \A arg : Asks(t, arg) => Acted
  BY AsksActs
<1>b. /\ Create4 \in Asking \ {Logout3} /\ Rename3 \in Asking \ {Logout3} /\ Delete4 \in Asking \ {Logout3}
      /\ Add2 \in Asking \ {Logout3} /\ Change2 \in Asking \ {Logout3} /\ Drop2 \in Asking \ {Logout3}
      /\ Login3 \in Asking \ {Logout3} /\ Logout3 \in Asking
  BY HeadTail DEF Asking
<1>4. ASSUME NEW p \in Projects, setCurrentProject(p) \/ updateProject(p) \/ deleteProject(p)  PROVE  Acted
  BY <1>a, <1>b, <1>4, Asked, setCurrentProjectActs
<1>5. ASSUME NEW x \in Sources, updateDataSource(x) \/ deleteDataSource(x)  PROVE  Acted
  BY <1>a, <1>b, <1>5, Asked
<1>6. ASSUME createProject \/ createDataSource \/ login  PROVE  Acted
  BY <1>a, <1>b, <1>6, Asked
<1>7. ASSUME logout  PROVE  Acted
  BY <1>b, <1>7, Asked, AsksActs DEF logout
<1> QED  BY <1>1, <1>2, <1>4, <1>5, <1>6, <1>7 DEF Act
-----------------------------------------------------------------------------
(* Where the chains lead.                                                   *)

\* What begins is ready.
LEMMA Start1 == ASSUME NEW t, NEW arg  PROVE Start(t, arg).todo = t /\ Start(t, arg).at = "ready"
BY DEF Start

\* A chain goes on with its rest, or is over.
LEMMA GoneOn ==
  ASSUME NEW c \in Calls, NEW todo \in Todos, NEW arg, Others(c), calls'[c] = Going(todo, arg)
  PROVE  /\ calls'[c].todo = todo /\ calls'[c].at = "ready" /\ calls'[c] # Over
         /\ calls'[c].arg = arg
<1>1. todo # <<>>
  BY EveryTodo
<1>2. Start(todo, arg).todo = todo /\ Start(todo, arg).at = "ready" /\ Start(todo, arg).arg = arg
  BY DEF Start
<1>3. Start(todo, arg) # Over
  BY <1>1 DEF Start, Over
<1> QED  BY <1>1, <1>2, <1>3 DEF Going

\* Its next todo, or none.
Leads(c, todo) ==
  \/ calls'[c] = Over /\ todo = Nil
  \/ calls'[c] # Over /\ calls'[c].at = "ready" /\ calls'[c].todo = todo /\ todo \in Todos

\* Where it goes on to.
LEMMA GoesTo ==
  ASSUME NEW c \in Calls, NEW todo, NEW arg, todo = Nil \/ todo \in Todos, Others(c),
         calls'[c] = Going(todo, arg)
  PROVE  Leads(c, todo)
<1>1. CASE todo = Nil
  BY <1>1 DEF Leads, Going, Nil
<1>2. CASE todo \in Todos
  BY <1>2, GoneOn DEF Leads
<1> QED  BY <1>1, <1>2

\* Where a step between two requests leads,
LEMMA ProceedLeads ==
  ASSUME WorkspaceAssumption, Typed, NEW c \in Calls, Proceed(c)
  PROVE  \E todo : /\ Leads(c, todo) /\ todo # Logout3
                   /\ Todo(c) \in Loads => todo \in Loads \cup {Nil}
                   /\ Todo(c) \in Reloads => todo \in Reloads
<1> DEFINE t == calls[c].todo
           arg == calls[c].arg
<1>0. /\ CallsOK /\ Chain(calls[c]) /\ t \in Todos /\ ProceedStep(c) /\ Others(c)
      /\ t \in Todos /\ (Rest(t) = Nil \/ Rest(t) \in Todos)
  BY Proceeds, ProceedTyped, RestIsTodo DEF Typed, Chain, Nil
<1>a. Nil # SL
  BY DEF SL, Nil
<1>1. CASE t \in {L1, L2} /\ Moves(c, Going(IF t = L1 THEN I1 ELSE I2, arg))
  <2>1. PICK todo : todo = IF t = L1 THEN I1 ELSE I2
    OBVIOUS
  <2>2. calls'[c] = Going(todo, arg)
    BY <1>0, <1>1, <2>1 DEF Moves, CallsOK
  <2>3. todo \in Reloads /\ todo \in Loads /\ todo \in Todos /\ todo # Logout3
    BY <2>1, HeadTail DEF Todos, Loads, Reloads
  <2>4. Leads(c, todo)
    BY <1>0, <2>2, <2>3, GoesTo
  <2> QED  BY <2>3, <2>4 DEF Todo
<1>2. CASE t = Rename1 /\ Moves(c, Going(IF shown.currentProjectId = arg THEN Sources1 ELSE <<>>, arg))
  <2>1. PICK todo : todo = IF shown.currentProjectId = arg THEN Sources1 ELSE Nil
    OBVIOUS
  <2>2. calls'[c] = Going(todo, arg)
    BY <1>0, <1>2, <2>1 DEF Moves, CallsOK, Nil
  <2>3. (todo = Nil \/ todo \in Todos) /\ todo # Logout3
    <3>1. Sources1 \in Todos /\ Sources1 # Logout3
      BY HeadTail DEF Todos
    <3>2. Nil # Logout3
      BY DEF Nil, Logout3
    <3> QED  BY <2>1, <3>1, <3>2
  <2>4. Leads(c, todo)
    BY <1>0, <2>2, <2>3, GoesTo
  <2>5. Rename1 \notin Loads /\ Rename1 \notin Reloads
    BY <1>a, HeadTail DEF Loads, Reloads
  <2> QED  BY <1>2, <2>3, <2>4, <2>5 DEF Todo
<1>3. CASE t \in {D1, D2, Create2, Delete1, S1, S2, Sources1, Delete2} /\ Moves(c, Going(Rest(t), arg))
  <2>2. calls'[c] = Going(Rest(t), arg)
    BY <1>0, <1>3 DEF Moves, CallsOK
  <2>3. Leads(c, Rest(t))
    BY <1>0, <2>2, GoesTo
  <2>4. Rest(t) # Logout3 /\ (t \in Loads => Rest(t) \in Loads \cup {Nil})
    <3>1. Nil # Logout3
      BY DEF Nil, Logout3
    <3> QED  BY <1>3, <3>1, HeadTail DEF Loads
  <2>5. t \in Reloads => Rest(t) \in Reloads
    BY <1>3, <1>a, HeadTail DEF Reloads
  <2> QED  BY <2>3, <2>4, <2>5 DEF Todo
<1> QED  BY <1>0, <1>1, <1>2, <1>3 DEF ProceedStep

\* and where an answer does.
LEMMA ReceiveLeads ==
  ASSUME WorkspaceAssumption, Typed, NEW c \in Calls, Receive(c)
  PROVE  \E todo : /\ Leads(c, todo) /\ todo # Logout3
                   /\ Todo(c) \in Loads => todo \in Loads \cup {Nil}
                   /\ calls[c].answer.code = "ok" => todo = Rest(Todo(c))
                   /\ calls[c].answer.code = "ok" /\ Todo(c) \in Reloads \ {P1} => todo \in Reloads
                   /\ calls[c].answer.code # "ok" /\ Todo(c) \in Reloads \ {I1, P1} => todo \in Reloads
<1> DEFINE t == calls[c].todo
           arg == calls[c].arg
<1>0. /\ CallsOK /\ Chain(calls[c]) /\ t \in Todos /\ Others(c) /\ Head(t) \in Requests
      /\ t \in Todos /\ (Rest(t) = Nil \/ Rest(t) \in Todos)
      /\ \/ calls[c].answer.code = "ok" /\ Fits(Head(t), calls[c].answer.data) /\ ArriveStep(c)
         \/ calls[c].answer.code # "ok" /\ FailStep(c)
  BY Receives, ReceiveMoves, RestIsTodo DEF Typed, Chain, Nil
<1>a. Nil # SL /\ Nil # Logout3
  BY DEF SL, Nil, Logout3
<1>b. t \in Loads => t \in {SL, I1, P1, S1, I2, P2, S2}
  BY <1>0, HeadTail DEF Loads, NextStep, Requests
<1>c. t \in Reloads => t \in Loads
  BY DEF Loads, Reloads
<1>d. /\ Rest(t) # Logout3 /\ (t \in Loads => Rest(t) \in Loads \cup {Nil})
      /\ t \in Reloads \ {P1} => Rest(t) \in Reloads
  <2>1. Rest(t) # Logout3
    BY <1>0, <1>a, HeadTail DEF Todos, Loads
  <2>2. t \in Loads => Rest(t) \in Loads \cup {Nil}
    BY <1>b, HeadTail DEF Loads
  <2>3. t \in Reloads \ {P1} => Rest(t) \in Reloads
    <3>1. t \in Reloads => t # S1
      BY <1>a, HeadTail DEF Reloads
    <3> QED  BY <1>b, <1>c, <3>1, HeadTail DEF Reloads
  <2> QED  BY <2>1, <2>2, <2>3
<1>1. ASSUME NEW a, Moves(c, Going(Rest(t), a))  PROVE Leads(c, Rest(t))
  <2>1. calls'[c] = Going(Rest(t), a)
    BY <1>0, <1>1 DEF Moves, CallsOK
  <2> QED  BY <1>0, <2>1, GoesTo
<1>2. CASE calls[c].answer.code = "ok" /\ ArriveStep(c)
  <2>1. \E a : Moves(c, Going(Rest(t), a))
    BY <1>2 DEF ArriveStep
  <2> QED  BY <1>1, <1>2, <1>d, <2>1 DEF Todo
<1>3. CASE calls[c].answer.code # "ok" /\ FailStep(c)
  <2>1. CASE t \in {SL, Logout3} /\ Moves(c, Going(Rest(t), arg))
    BY <1>1, <1>3, <1>d, <2>1, HeadTail DEF Todo
  <2>2. CASE /\ t \in {I1, P1, S1, I2, P2, S2}
             /\ Moves(c, Going(IF t \in {I1, P1, S1} THEN <<>> ELSE SL, arg))
    <3>1. PICK todo : todo = IF t \in {I1, P1, S1} THEN Nil ELSE SL
      OBVIOUS
    <3>2. calls'[c] = Going(todo, arg)
      BY <1>0, <2>2, <3>1 DEF Moves, CallsOK, Nil
    <3>3. SL \in Todos /\ SL \in Loads /\ SL \in Reloads /\ SL # Logout3
      BY HeadTail DEF Todos, Loads, Reloads
    <3>4. Leads(c, todo)
      BY <1>0, <3>1, <3>2, <3>3, GoesTo
    <3>5. t \in Reloads \ {I1, P1} => todo = SL
      <4>1. t \in Reloads => t # S1
        BY <1>a, HeadTail DEF Reloads
      <4> QED  BY <3>1, <4>1
    <3> QED  BY <1>3, <1>a, <3>1, <3>3, <3>4, <3>5 DEF Todo
  <2>3. CASE t \notin {I1, P1, S1, I2, P2, S2, Logout3, SL} /\ Moves(c, Over)
    <3>1. Leads(c, Nil)
      BY <1>0, <2>3 DEF Moves, CallsOK, Leads
    <3>2. t \notin Loads
      BY <1>b, <2>3
    <3> QED  BY <1>3, <1>a, <1>c, <3>1, <3>2 DEF Todo
  <2> QED  BY <1>3, <2>1, <2>2, <2>3 DEF FailStep
<1> QED  BY <1>0, <1>2, <1>3
-----------------------------------------------------------------------------
(* While the user waits for a chain to end, chains overtake each other only *)
(* if they load the workspace, what was asked was asked of the server that  *)
(* is still selected, and another server's list is on screen only until the *)
(* load that is under way replaces it.                                      *)

LocalProjects(ps) == \A p \in ps : Home[p] = currentServerUrl
LocalSources(ss) == \A i \in ss : Home[Parent[i]] = currentServerUrl

Alone == \A c, d \in Calls : Active(c) /\ Active(d) /\ c # d => Todo(c) \in Loads
SentHere ==
  \A c \in Calls : Out(c) =>
    calls[c].sent.to = currentServerUrl /\ calls[c].sent.token = tokens[currentServerUrl]
GotLocal ==
  \A c \in Calls : GotOk(c) =>
    /\ Request(c) = "projects" => LocalProjects(Data(c))
    /\ Request(c) = "sources" => LocalSources(Data(c))
UnderWay(todos) == \E c \in Calls : Active(c) /\ Todo(c) \in todos
ProjectsLocal == LocalProjects(shown.projects) \/ UnderWay(Reloads)
SourcesLocal == LocalSources(shown.dataSources) \/ UnderWay(Reloads \cup {S1})
LogoutAsUser == \A c \in Calls : Active(c) /\ Todo(c) = Logout3 => shown.status.user # None

Settling == Alone /\ SentHere /\ GotLocal /\ ProjectsLocal /\ SourcesLocal /\ LogoutAsUser
Undisturbed == "overlap" \notin trouble => Settling

\* A chain that was led somewhere is there, and has sent nothing yet.
LEMMA LeadsTo ==
  ASSUME NEW c \in Calls, NEW todo, Leads(c, todo)
  PROVE  /\ Active(c)' => Todo(c)' = todo /\ todo \in Todos
         /\ ~Out(c)' /\ ~GotOk(c)'
         /\ todo \in Todos => Active(c)'
<1>1. Nil \notin Todos
  BY EveryTodo DEF Nil
<1>2. CASE calls'[c] = Over /\ todo = Nil
  BY <1>1, <1>2 DEF Active, Out, GotOk
<1>3. CASE calls'[c] # Over /\ calls'[c].at = "ready" /\ calls'[c].todo = todo /\ todo \in Todos
  BY <1>3 DEF Active, Out, GotOk, Ok, Todo
<1> QED  BY <1>2, <1>3 DEF Leads

\* Loads are among the sequences, logins and logouts are no loads.
LEMMA LoadsAreTodos ==
  Loads \subseteq Todos /\ Reloads \subseteq Loads /\ S1 \in Loads /\ Logout3 \notin Loads /\ Login3 \notin Loads
<1>1. Nil # SL
  BY DEF Nil, SL
<1> QED  BY <1>1, HeadTail DEF Loads, Reloads, Todos

\* What is under way stays so when one chain moves within it.
LEMMA UnderWayStill ==
  ASSUME NEW c \in Calls, Others(c), NEW todos, UnderWay(todos),
         Active(c) /\ Todo(c) \in todos => Active(c)' /\ Todo(c)' \in todos
  PROVE  UnderWay(todos)'
<1>1. PICK d \in Calls : Active(d) /\ Todo(d) \in todos
  BY DEF UnderWay
<1>2. CASE d = c
  BY <1>1, <1>2 DEF UnderWay
<1>3. CASE d # c
  <2>1. Active(d)' /\ Todo(d)' \in todos
    BY <1>1, <1>3 DEF Others, Active, Todo
  <2> QED  BY <2>1 DEF UnderWay
<1> QED  BY <1>2, <1>3

\* One chain moves and no other begins.
LEMMA StillAlone ==
  ASSUME Alone, NEW c \in Calls, Active(c), Others(c),
         Active(c)' /\ Todo(c) \in Loads => Todo(c)' \in Loads
  PROVE  Alone'
<1> SUFFICES ASSUME NEW d \in Calls, NEW e \in Calls, Active(d)', Active(e)', d # e
             PROVE  Todo(d)' \in Loads
  BY DEF Alone
<1>1. CASE d = c
  <2>1. Active(e)
    BY <1>1 DEF Others, Active
  <2> QED  BY <1>1, <2>1 DEF Alone
<1>2. CASE d # c
  <2>1. Active(d) /\ Todo(d)' = Todo(d)
    BY <1>2 DEF Others, Active, Todo
  <2>2. \E f \in Calls : f # d /\ Active(f)
    BY <1>2 DEF Others, Active
  <2> QED  BY <2>1, <2>2 DEF Alone
<1> QED  BY <1>1, <1>2

\* The others' requests are still addressed to the selected server.
LEMMA OthersSentHere ==
  ASSUME SentHere, NEW c \in Calls, Others(c), ~Out(c)', UNCHANGED <<place, tokens>>
  PROVE  SentHere'
<1>1. currentServerUrl' = currentServerUrl
  BY DEF place, currentServerUrl, currentServer
<1>2. ASSUME NEW d \in Calls, Out(d)'  PROVE Out(d) /\ calls'[d] = calls[d]
  BY <1>2 DEF Others, Out, Active
<1> QED  BY <1>1, <1>2 DEF SentHere

\* The others' answers are still of the selected server.
LEMMA OthersGotLocal ==
  ASSUME GotLocal, NEW c \in Calls, Others(c), ~GotOk(c)', UNCHANGED place
  PROVE  GotLocal'
<1>1. currentServerUrl' = currentServerUrl
  BY DEF place, currentServerUrl, currentServer
<1>2. ASSUME NEW d \in Calls, GotOk(d)'
      PROVE  GotOk(d) /\ Data(d)' = Data(d) /\ Request(d)' = Request(d)
  BY <1>2 DEF Others, GotOk, Data, Request
<1> QED  BY <1>1, <1>2 DEF GotLocal, LocalProjects, LocalSources

\* A step that leaves the chains where they are.
Unmoved ==
  \A d \in Calls : (Active(d)' <=> Active(d)) /\ (Active(d) => Todo(d)' = Todo(d))

\* Then nothing is disturbed.
LEMMA UnmovedSettling ==
  ASSUME Settling, Unmoved, UNCHANGED <<place, shown>>
  PROVE  Alone' /\ ProjectsLocal' /\ SourcesLocal' /\ LogoutAsUser'
<1>1. currentServerUrl' = currentServerUrl /\ shown' = shown
  BY DEF place, currentServerUrl, currentServer
<1>2. \A todos : UnderWay(todos) => UnderWay(todos)'
  BY DEF UnderWay, Unmoved
<1>3. Alone' /\ LogoutAsUser'
  BY <1>1 DEF Settling, Alone, LogoutAsUser, Unmoved
<1> QED  BY <1>1, <1>2, <1>3 DEF Settling, ProjectsLocal, SourcesLocal, LocalProjects, LocalSources

\* A step that leaves a chain's todo leaves it there.
LEMMA SameIsUnmoved ==
  ASSUME NEW c \in Calls, Others(c), SameChain(c), Active(c), calls'[c].at # "orphan"
  PROVE  Unmoved
<1>1. calls'[c] # Over
  BY OverIsNoChain DEF SameChain
<1> QED  BY <1>1 DEF Unmoved, Active, Todo, SameChain, Others

\* A step between two requests disturbs nothing.
LEMMA ProceedSettles ==
  ASSUME WorkspaceAssumption, Typed, Settling, NEW c \in Calls, Proceed(c)
  PROVE  Settling'
<1>0. /\ Active(c) /\ Others(c) /\ ProceedStep(c) /\ UNCHANGED <<place, tokens, stored, ops, trouble>>
      /\ shown \in ShownType
  BY Proceeds, ProceedTyped DEF Typed, Active, ScreenOK
<1>1. PICK todo : /\ Leads(c, todo) /\ todo # Logout3
                  /\ Todo(c) \in Loads => todo \in Loads \cup {Nil}
                  /\ Todo(c) \in Reloads => todo \in Reloads
  BY ProceedLeads
<1>2. /\ Active(c)' => Todo(c)' = todo /\ todo # Nil
      /\ ~Out(c)' /\ ~GotOk(c)'
      /\ todo \in Todos => Active(c)'
  BY <1>1, LeadsTo, EveryTodo DEF Nil
<1>3. currentServerUrl' = currentServerUrl
  BY <1>0 DEF place, currentServerUrl, currentServer
<1>4. Alone' /\ SentHere' /\ GotLocal'
  BY <1>0, <1>1, <1>2, StillAlone, OthersSentHere, OthersGotLocal DEF Settling
<1>5. shown'.projects = shown.projects /\ shown'.status = shown.status
      /\ (shown'.dataSources = shown.dataSources \/ shown'.dataSources = {})
      /\ (Todo(c) = S1 => shown'.dataSources = {})
  <2>1. S1 \notin {L1, L2, D1, D2, Create2, Rename1, Delete1}
    BY HeadTail
  <2> QED  BY <1>0, <2>1 DEF ProceedStep, ShownType, Todo
<1>6. ProjectsLocal'
  <2>1. CASE UnderWay(Reloads)
    <3>1. UnderWay(Reloads)'
      BY <1>0, <1>1, <1>2, <2>1, UnderWayStill, LoadsAreTodos
    <3> QED  BY <3>1 DEF ProjectsLocal
  <2>2. CASE LocalProjects(shown.projects)
    BY <1>3, <1>5, <2>2 DEF ProjectsLocal, LocalProjects
  <2> QED  BY <2>1, <2>2 DEF Settling, ProjectsLocal
<1>7. SourcesLocal'
  <2>1. CASE shown'.dataSources = {}
    BY <2>1 DEF SourcesLocal, LocalSources
  <2>2. CASE shown'.dataSources # {} /\ UnderWay(Reloads \cup {S1})
    <3>1. Active(c) /\ Todo(c) \in Reloads \cup {S1} => Active(c)' /\ Todo(c)' \in Reloads \cup {S1}
      BY <1>1, <1>2, <1>5, <2>2, LoadsAreTodos
    <3>2. UnderWay(Reloads \cup {S1})'
      BY <1>0, <2>2, <3>1, UnderWayStill
    <3> QED  BY <3>2 DEF SourcesLocal
  <2>3. CASE shown'.dataSources = shown.dataSources /\ LocalSources(shown.dataSources)
    BY <1>3, <2>3 DEF SourcesLocal, LocalSources
  <2> QED  BY <1>5, <2>1, <2>2, <2>3 DEF Settling, SourcesLocal
<1>8. LogoutAsUser'
  BY <1>0, <1>1, <1>2, <1>5 DEF LogoutAsUser, Settling, Others, Active, Todo
<1> QED  BY <1>4, <1>6, <1>7, <1>8 DEF Settling

\* A request goes to the selected server, with its token.
LEMMA SendSettles ==
  ASSUME WorkspaceAssumption, Typed, Settling, NEW c \in Calls, Send(c)
  PROVE  Settling'
<1>1. /\ Active(c) /\ Others(c) /\ SameChain(c) /\ UNCHANGED <<place, shown, tokens>>
      /\ calls'[c].at = "sent" /\ calls'[c].sent = Sending1(c)
  BY Sends DEF Typed, Active
<1>2. Unmoved
  BY <1>1, SameIsUnmoved
<1>3. currentServerUrl' = currentServerUrl
  BY <1>1 DEF place, currentServerUrl, currentServer
<1>4. SentHere'
  <2> SUFFICES ASSUME NEW d \in Calls, Out(d)'
               PROVE  calls'[d].sent.to = currentServerUrl /\ calls'[d].sent.token = tokens[currentServerUrl]
    BY <1>1, <1>3 DEF SentHere
  <2>1. CASE d = c
    BY <1>1, <2>1 DEF Sending1
  <2>2. CASE d # c
    <3>1. Out(d) /\ calls'[d] = calls[d]
      BY <1>1, <2>2 DEF Others, Out, Active
    <3> QED  BY <3>1 DEF Settling, SentHere
  <2> QED  BY <2>1, <2>2
<1>5. GotLocal'
  BY <1>1, OthersGotLocal DEF Settling, GotOk, Ok
<1> QED  BY <1>1, <1>2, <1>4, <1>5, UnmovedSettling DEF Settling

\* A server answers with its own projects and data sources.
LEMMA AnswerLocal ==
  ASSUME WorkspaceAssumption, Typed, Settling, NEW c \in Calls, Active(c), calls[c].at = "sent",
         NEW o \in Outcome(c), o.code = "ok"
  PROVE  /\ Request(c) = "projects" => LocalProjects(o.data)
         /\ Request(c) = "sources" => LocalSources(o.data)
<1>1. calls[c].sent.to = currentServerUrl
  BY DEF Settling, SentHere, Out
<1>2. ASSUME Request(c) = "projects"  PROVE  LocalProjects(o.data)
  <2>1. o = Is("ok", ProjectsAt(calls[c].sent.to))
    BY <1>2, Reads DEF Outcome, Request, NextStep, Is
  <2> QED  BY <1>1, <2>1 DEF Is, ProjectsAt, LocalProjects
<1>3. ASSUME Request(c) = "sources"  PROVE  LocalSources(o.data)
  <2>1. /\ calls[c].sent.project \in ProjectsAt(calls[c].sent.to)
        /\ o = Is("ok", SourcesIn(calls[c].sent.project))
    BY <1>3, Reads DEF Outcome, Request, NextStep, Is
  <2> QED  BY <1>1, <2>1 DEF Is, ProjectsAt, SourcesIn, LocalSources
<1> QED  BY <1>2, <1>3

\* An answer that arrives at its chain.
LEMMA AnswerSettles ==
  ASSUME WorkspaceAssumption, Typed, Settling, NEW c \in Calls, Active(c), calls[c].at = "sent",
         NEW code, NEW data, Settles(c, code, data), Others(c), UNCHANGED <<place, shown, tokens>>,
         code = "ok" => \E o \in Outcome(c) : o.code = "ok" /\ o.data = data
  PROVE  Settling'
<1>1. SameChain(c) /\ calls'[c].at = "answered" /\ calls'[c].sent = calls[c].sent
      /\ calls'[c].answer.code = code /\ calls'[c].answer.data = data
  BY DEF Settles
<1>2. Unmoved
  BY <1>1, SameIsUnmoved
<1>3. currentServerUrl' = currentServerUrl
  BY DEF place, currentServerUrl, currentServer
<1>4. SentHere'
  <2> SUFFICES ASSUME NEW d \in Calls, Out(d)'
               PROVE  calls'[d].sent.to = currentServerUrl /\ calls'[d].sent.token = tokens[currentServerUrl]
    BY <1>1, <1>3 DEF SentHere
  <2>1. Out(d) /\ calls'[d].sent = calls[d].sent
    BY <1>1 DEF Others, Out, Active
  <2> QED  BY <2>1 DEF Settling, SentHere
<1>5. GotLocal'
  <2> SUFFICES ASSUME NEW d \in Calls, GotOk(d)'
               PROVE  /\ Request(d)' = "projects" => LocalProjects(Data(d)')
                      /\ Request(d)' = "sources" => LocalSources(Data(d)')
    BY <1>3 DEF GotLocal, LocalProjects, LocalSources
  <2>1. CASE d = c
    <3>1. code = "ok" /\ Request(d)' = Request(d) /\ Data(d)' = data
      BY <1>1, <2>1 DEF GotOk, Ok, Request, Data, SameChain
    <3> QED  BY <2>1, <3>1, AnswerLocal
  <2>2. CASE d # c
    <3>1. GotOk(d) /\ Request(d)' = Request(d) /\ Data(d)' = Data(d)
      BY <2>2 DEF Others, GotOk, Request, Data
    <3> QED  BY <3>1 DEF Settling, GotLocal
  <2> QED  BY <2>1, <2>2
<1> QED  BY <1>2, <1>4, <1>5, UnmovedSettling DEF Settling

\* What others do, an orphan's outcome too, the chains under way do not see.
LEMMA OthersSettle ==
  ASSUME Settling, UNCHANGED <<place, shown, tokens>>,
         \A d \in Calls : calls'[d] = calls[d] \/ (~Active(d) /\ calls'[d] = Over)
  PROVE  Settling'
<1>1. Unmoved
  BY DEF Unmoved, Active, Todo
<1>2. currentServerUrl' = currentServerUrl
  BY DEF place, currentServerUrl, currentServer
<1>3. \A d \in Calls : Out(d)' => Out(d) /\ calls'[d] = calls[d]
  BY DEF Out, Active
<1>4. \A d \in Calls : GotOk(d)' => GotOk(d) /\ Data(d)' = Data(d) /\ Request(d)' = Request(d)
  BY DEF GotOk, Data, Request
<1>5. SentHere' /\ GotLocal'
  BY <1>2, <1>3, <1>4 DEF Settling, SentHere, GotLocal, LocalProjects, LocalSources
<1> QED  BY <1>1, <1>5, UnmovedSettling DEF Settling

\* A backend's answer disturbs nothing.
LEMMA ServeSettles ==
  ASSUME WorkspaceAssumption, Typed, Settling, NEW c \in Calls, Serve(c)  PROVE  Settling'
<1>1. calls[c] # Over /\ Others(c) /\ UNCHANGED <<place, shown, saved, tokens, ops>>
  BY Serves DEF Typed
<1>2. PICK o \in Outcome(c) :
         \/ calls[c].at = "orphan" /\ calls'[c] = Over
         \/ calls[c].at = "sent" /\ Settles(c, o.code, o.data)
  BY Serves DEF Typed
<1>3. CASE calls[c].at = "orphan" /\ calls'[c] = Over
  BY <1>1, <1>3, OthersSettle DEF Active, Others
<1>4. CASE calls[c].at = "sent" /\ Settles(c, o.code, o.data)
  BY <1>1, <1>4, AnswerSettles DEF Active
<1> QED  BY <1>2, <1>3, <1>4

\* Nor does a lost request.
LEMMA LoseSettles ==
  ASSUME WorkspaceAssumption, Typed, Settling, NEW c \in Calls, Lose(c)  PROVE  Settling'
<1>1. /\ calls[c] # Over /\ Others(c) /\ UNCHANGED <<place, shown, saved, tokens, ops>>
      /\ calls[c].at = "sent" /\ Settles(c, "failed", None)
  BY Loses DEF Typed
<1> QED  BY <1>1, AnswerSettles DEF Active

\* A chain that changes the tokens is alone.
LEMMA ReceiveSentHere ==
  ASSUME Settling, NEW c \in Calls, Active(c), Others(c), ~Out(c)', UNCHANGED place,
         UNCHANGED tokens \/ Todo(c) \notin Loads
  PROVE  SentHere'
<1>1. CASE UNCHANGED tokens
  BY <1>1, OthersSentHere DEF Settling
<1>2. CASE Todo(c) \notin Loads
  <2>1. \A d \in Calls : ~Out(d)'
    BY <1>2 DEF Settling, Alone, Others, Out, Active
  <2> QED  BY <2>1 DEF SentHere
<1> QED  BY <1>1, <1>2

\* An answer that is taken is of the server that is still selected.
LEMMA ReceiveSettles ==
  ASSUME WorkspaceAssumption, Typed, Settling, NEW c \in Calls, Receive(c)
  PROVE  Settling'
<1> DEFINE t == Todo(c)
           data == Data(c)
<1>0. /\ Active(c) /\ Others(c) /\ UNCHANGED <<place, stored, ops, trouble>> /\ shown \in ShownType
      /\ t \in Todos /\ calls[c] # Over /\ calls[c].at = "answered"
      /\ \/ calls[c].answer.code = "ok" /\ GotOk(c) /\ ArriveStep(c)
         \/ calls[c].answer.code # "ok" /\ FailStep(c)
  BY Receives, ReceiveMoves DEF Typed, Active, ScreenOK, GotOk, Ok, Chain, Todo
<1>1. PICK todo : /\ Leads(c, todo) /\ todo # Logout3
                  /\ t \in Loads => todo \in Loads \cup {Nil}
                  /\ calls[c].answer.code = "ok" => todo = Rest(t)
                  /\ calls[c].answer.code = "ok" /\ t \in Reloads \ {P1} => todo \in Reloads
                  /\ calls[c].answer.code # "ok" /\ t \in Reloads \ {I1, P1} => todo \in Reloads
  BY ReceiveLeads
<1>2. /\ Active(c)' => Todo(c)' = todo /\ todo # Nil
      /\ ~Out(c)' /\ ~GotOk(c)'
      /\ todo \in Todos => Active(c)'
  BY <1>1, LeadsTo, EveryTodo DEF Nil
<1>3. currentServerUrl' = currentServerUrl
  BY <1>0 DEF place, currentServerUrl, currentServer
<1>4. Alone' /\ GotLocal'
  BY <1>0, <1>1, <1>2, StillAlone, OthersGotLocal DEF Settling
<1>5. UNCHANGED tokens \/ t \notin Loads
  BY <1>0, LoadsAreTodos DEF ArriveStep, FailStep, Todo
<1>6. SentHere'
  BY <1>0, <1>2, <1>5, ReceiveSentHere
<1>7. shown'.status = shown.status \/ t \in {SL, Status2}
  <2>1. ASSUME ArriveStep(c), t \notin {SL, Status2}  PROVE  shown'.status = shown.status
    BY <1>0, <2>1 DEF ArriveStep, ShownType, ProjectsArrive, Todo
  <2>2. ASSUME FailStep(c)  PROVE  shown'.status = shown.status
    BY <1>0, <2>2 DEF FailStep, Denied, Unreachable, ShownType
  <2> QED  BY <1>0, <2>1, <2>2
<1>8. LogoutAsUser'
  <2> SUFFICES ASSUME NEW d \in Calls, Active(d)', Todo(d)' = Logout3  PROVE  shown'.status.user # None
    BY DEF LogoutAsUser
  <2>1. d # c /\ Active(d) /\ Todo(d) = Logout3
    BY <1>0, <1>1, <1>2 DEF Others, Active, Todo
  <2> QED  BY <1>0, <2>1, LoadsAreTodos DEF Settling, Alone
<1>9. CASE calls[c].answer.code = "ok" /\ GotOk(c) /\ ArriveStep(c)
  <2>1. ProjectsLocal'
    <3>1. CASE t \in {P1, P2, Create3, Rename2, Delete3}
      <4>1. Request(c) = "projects"
        BY <3>1, HeadTail DEF Request, Todo
      <4>2. t \notin {I1, I2, SL, Status2, S1, S2, Sources1, Delete2, Login3, Logout3, Delete4, Create4,
                      Rename3, Add2, Change2, Drop2}
        BY <3>1, HeadTail
      <4>3. shown'.projects = data
        BY <1>0, <1>9, <4>2 DEF ArriveStep, ProjectsArrive, ShownType, Todo, Data
      <4>4. LocalProjects(data)
        BY <1>9, <4>1 DEF Settling, GotLocal
      <4> QED  BY <1>3, <4>3, <4>4 DEF ProjectsLocal, LocalProjects
    <3>2. CASE t \notin {P1, P2, Create3, Rename2, Delete3}
      <4>1. shown'.projects = shown.projects
        BY <1>0, <1>9, <3>2 DEF ArriveStep, ShownType, Todo
      <4>2. UnderWay(Reloads) => UnderWay(Reloads)'
        <5>1. t \in Reloads => todo \in Reloads
          BY <1>1, <1>9, <3>2
        <5> QED  BY <1>0, <1>2, <5>1, UnderWayStill, LoadsAreTodos
      <4> QED  BY <1>3, <4>1, <4>2 DEF Settling, ProjectsLocal, LocalProjects
    <3> QED  BY <3>1, <3>2
  <2>2. SourcesLocal'
    <3>1. CASE t \in {S1, S2, Sources1, Delete2}
      <4>1. Request(c) = "sources"
        BY <3>1, HeadTail DEF Request, Todo
      <4>2. t \notin {I1, I2, SL, Status2, P1, P2, Create3, Rename2, Delete3, Login3, Logout3, Delete4,
                      Create4, Rename3, Add2, Change2, Drop2}
        BY <3>1, HeadTail
      <4>3. shown'.dataSources = data
        BY <1>0, <1>9, <4>2 DEF ArriveStep, ShownType, Todo, Data
      <4>4. LocalSources(data)
        BY <1>9, <4>1 DEF Settling, GotLocal
      <4> QED  BY <1>3, <4>3, <4>4 DEF SourcesLocal, LocalSources
    <3>2. CASE t \notin {S1, S2, Sources1, Delete2}
      <4>1. shown'.dataSources = shown.dataSources
        BY <1>0, <1>9, <3>2 DEF ArriveStep, ShownType, Todo, ProjectsArrive
      <4>2. UnderWay(Reloads \cup {S1}) => UnderWay(Reloads \cup {S1})'
        <5>1. t \in Reloads \cup {S1} => todo \in Reloads \cup {S1}
          BY <1>1, <1>9, <3>2, HeadTail
        <5> QED  BY <1>0, <1>2, <5>1, UnderWayStill, LoadsAreTodos
      <4> QED  BY <1>3, <4>1, <4>2 DEF Settling, SourcesLocal, LocalSources
    <3> QED  BY <3>1, <3>2
  <2> QED  BY <1>4, <1>6, <1>8, <2>1, <2>2 DEF Settling
<1>10. CASE calls[c].answer.code # "ok" /\ FailStep(c)
  <2>1. CASE shown'.projects = {} /\ shown'.dataSources = {}
    BY <1>4, <1>6, <1>8, <2>1 DEF Settling, ProjectsLocal, SourcesLocal, LocalProjects, LocalSources
  <2>2. CASE UNCHANGED shown /\ t \notin {I1, P1, S1, I2, P2, S2}
    <3>1. t \in Reloads \cup {S1} => todo \in Reloads
      BY <1>1, <1>10, <2>2
    <3>2. UnderWay(Reloads) => UnderWay(Reloads)'
      BY <1>0, <1>2, <3>1, UnderWayStill, LoadsAreTodos
    <3>3. UnderWay(Reloads \cup {S1}) => UnderWay(Reloads \cup {S1})'
      BY <1>0, <1>2, <3>1, UnderWayStill, LoadsAreTodos
    <3> QED  BY <1>3, <1>4, <1>6, <1>8, <2>2, <3>2, <3>3
             DEF Settling, ProjectsLocal, SourcesLocal, LocalProjects, LocalSources
  <2>3. t \in {I1, P1, S1, I2, P2, S2} => shown' = Denied(shown) \/ shown' = Unreachable(shown)
    <3>1. Logout3 \notin {I1, P1, S1, I2, P2, S2} /\ SL \notin {I1, P1, S1, I2, P2, S2}
      BY HeadTail
    <3> QED  BY <1>10, <3>1 DEF FailStep, Todo
  <2>4. t \in {I1, P1, S1, I2, P2, S2} => shown'.projects = {} /\ shown'.dataSources = {}
    BY <1>0, <2>3 DEF Denied, Unreachable, ShownType
  <2>5. t \notin {I1, P1, S1, I2, P2, S2} => UNCHANGED shown
    BY <1>10 DEF FailStep, Todo
  <2> QED  BY <2>1, <2>2, <2>4, <2>5
<1> QED  BY <1>0, <1>9, <1>10
\* An act of the user while no chain is under way.
Loading == \A c \in Calls : Active(c) => Todo(c) \in Loads /\ ~Out(c) /\ ~GotOk(c)

\* While a load is under way the screen may be another server's.
LEMMA LoadingSettles ==
  ASSUME Loading', UnderWay(Reloads)'
  PROVE  Settling'
<1>1. \A c \in Calls : GotOk(c)' => Active(c)'
  BY DEF GotOk, Ok, Active
<1>2. Alone' /\ SentHere' /\ GotLocal' /\ LogoutAsUser'
  BY <1>1, LoadsAreTodos DEF Loading, Alone, SentHere, Out, GotLocal, LogoutAsUser
<1>3. ProjectsLocal' /\ SourcesLocal'
  BY DEF ProjectsLocal, SourcesLocal, UnderWay
<1> QED  BY <1>2, <1>3 DEF Settling

\* A chain that has just begun has sent nothing.
LEMMA Fresh ==
  ASSUME NEW t \in Todos, NEW arg, NEW c \in Calls, calls'[c] = Start(t, arg)
  PROVE  Active(c)' /\ Todo(c)' = t /\ ~Out(c)' /\ ~GotOk(c)'
<1>1. Start(t, arg) # Over
  BY EveryTodo DEF Start, Over
<1> QED  BY <1>1, Start1 DEF Active, Todo, Out, GotOk, Ok

\* A load that begins, with the watcher's chain or without, disturbs nothing.
LEMMA LoadBegunLoads ==
  ASSUME Quiet, LoadBegun  PROVE  Loading' /\ UnderWay(Reloads)'
<1>1. L1 \in Loads /\ SL \in Loads /\ L1 \in Reloads /\ L1 \in Todos /\ SL \in Todos
  BY HeadTail, LoadsAreTodos DEF Loads, Reloads
<1>2. \E c \in Calls : calls'[c] = Start(L1, None)
  BY DEF LoadBegun, Begun
<1>3. UnderWay(Reloads)'
  BY <1>1, <1>2, Fresh DEF UnderWay
<1>4. ASSUME NEW c \in Calls, Active(c)'
      PROVE  calls'[c] = Start(L1, None) \/ calls'[c] = Start(SL, None)
  <2>1. ~Active(c)
    BY DEF Quiet, Active
  <2>2. calls'[c] # calls[c]
    BY <1>4, <2>1 DEF Active
  <2> QED  BY <2>2 DEF LoadBegun, Begun, Sync
<1>5. Loading'
  BY <1>1, <1>4, Fresh DEF Loading
<1> QED  BY <1>3, <1>5

\* Nor does one chain that begins alone.
LEMMA QuietAsk ==
  ASSUME Quiet, NEW t \in Todos, NEW arg, NEW c \in Calls, calls'[c] = Start(t, arg), Others(c)
  PROVE  /\ Active(c)' /\ Todo(c)' = t /\ ~Out(c)' /\ ~GotOk(c)'
         /\ \A d \in Calls : d # c => ~Active(d)'
         /\ \A d \in Calls : ~Out(d)' /\ ~GotOk(d)'
<1>1. Active(c)' /\ Todo(c)' = t /\ ~Out(c)' /\ ~GotOk(c)'
  BY Fresh
<1>2. \A d \in Calls : d # c => ~Active(d)' /\ ~Out(d)' /\ ~GotOk(d)'
  BY DEF Quiet, Others, Active, Out, GotOk, Ok
<1> QED  BY <1>1, <1>2

\* In a quiet state nothing is under way.
LEMMA NoneUnderWay == ASSUME Quiet, NEW todos PROVE ~UnderWay(todos)
BY DEF Quiet, UnderWay, Active

\* What the user asks for when nothing is under way disturbs nothing.
LEMMA AskSettles ==
  ASSUME Settling, Quiet, NEW t \in Todos, NEW arg, AskBegun(t, arg), t = Logout3 => shown.status.user # None,
         UNCHANGED place, shown'.projects = shown.projects, shown'.dataSources = shown.dataSources,
         shown'.status = shown.status
  PROVE  Settling'
<1>1. PICK c \in Calls : calls'[c] = Start(t, arg) /\ Others(c)
  BY DEF AskBegun
<1>2. /\ Active(c)' /\ Todo(c)' = t
      /\ \A d \in Calls : d # c => ~Active(d)'
      /\ \A d \in Calls : ~Out(d)' /\ ~GotOk(d)'
  BY <1>1, QuietAsk
<1>3. currentServerUrl' = currentServerUrl
  BY DEF place, currentServerUrl, currentServer
<1>4. LocalProjects(shown.projects) /\ LocalSources(shown.dataSources)
  BY NoneUnderWay DEF Settling, ProjectsLocal, SourcesLocal
<1>5. ProjectsLocal' /\ SourcesLocal'
  BY <1>3, <1>4 DEF ProjectsLocal, SourcesLocal, LocalProjects, LocalSources
<1> QED  BY <1>2, <1>5 DEF Settling, Alone, SentHere, GotLocal, LogoutAsUser

\* What the user can ask for.
LEMMA AskingIsTodos == Asking \cup {Sources1} \subseteq Todos /\ Sources1 # Logout3
BY AskingTodos, HeadTail DEF Todos

\* An act of the user while no chain is under way disturbs nothing.
LEMMA ActedSettles ==
  ASSUME WorkspaceAssumption, Typed, Undisturbed, Acted  PROVE  Undisturbed'
<1> SUFFICES ASSUME "overlap" \notin trouble'  PROVE  Settling'
  BY DEF Undisturbed
<1>1. Quiet /\ Settling /\ shown \in ShownType
  BY DEF Acted, Undisturbed, Typed, ScreenOK
<1>2. CASE Switch
  BY <1>1, <1>2, LoadBegunLoads, LoadingSettles DEF Switch
<1>3. CASE Edit
  <2>1. currentServerUrl' = currentServerUrl /\ shown' = shown /\ calls' = calls
    BY <1>3 DEF Edit
  <2>2. LocalProjects(shown.projects) /\ LocalSources(shown.dataSources)
    BY <1>1, NoneUnderWay DEF Settling, ProjectsLocal, SourcesLocal
  <2>3. ProjectsLocal' /\ SourcesLocal'
    BY <2>1, <2>2 DEF ProjectsLocal, SourcesLocal, LocalProjects, LocalSources
  <2>4. \A c \in Calls : ~Active(c)' /\ ~Out(c)' /\ ~GotOk(c)'
    BY <1>1, <2>1 DEF Quiet, Active, Out, GotOk, Ok
  <2> QED  BY <2>3, <2>4 DEF Settling, Alone, SentHere, GotLocal, LogoutAsUser
<1>4. CASE PickProject
  <2>1. /\ shown'.projects = shown.projects /\ shown'.dataSources = shown.dataSources
        /\ shown'.status = shown.status
    BY <1>1, <1>4 DEF PickProject, ShownType
  <2> QED  BY <1>1, <1>4, <2>1, AskSettles, AskingIsTodos DEF PickProject
<1>5. CASE Ask
  BY <1>1, <1>5, AskSettles, AskingIsTodos DEF Ask
<1> QED  BY <1>2, <1>3, <1>4, <1>5 DEF Acted

\* A page that opens begins with a load.
LEMMA OpenedLoads ==
  ASSUME NEW c \in Calls, calls'[c] = Start(L2, None),
         \A d \in Calls \ {c} : calls'[d] = Over \/ calls'[d].at = "orphan"
  PROVE  Loading' /\ UnderWay(Reloads)' /\ (\A d \in Calls : Active(d)' => d = c /\ Todo(d)' = L2)
<1>1. L2 \in Loads /\ L2 \in Reloads /\ L2 \in Todos
  BY LoadsAreTodos DEF Loads, Reloads
<1>2. Active(c)' /\ Todo(c)' = L2 /\ ~Out(c)' /\ ~GotOk(c)'
  BY <1>1, Fresh
<1>3. \A d \in Calls : d # c => ~Active(d)'
  BY DEF Active
<1> QED  BY <1>1, <1>2, <1>3 DEF Loading, UnderWay

\* A page load disturbs nothing.
LEMMA ReloadSettles ==
  ASSUME WorkspaceAssumption, Typed, NEW kept \in SUBSET Backends, Reload(kept)
  PROVE  Settling'
<1>1. PICK c \in Calls : /\ calls'[c] = Start(L2, None)
                         /\ \A d \in Calls \ {c} : calls'[d] = Over \/ calls'[d].at = "orphan"
  BY ReloadedCalls
<1> QED  BY <1>1, OpenedLoads, LoadingSettles

\* In the first state the first load is under way.
LEMMA OpeningSettles == ASSUME WorkspaceAssumption, Init  PROVE Settling
<1>1. PICK c \in Calls : calls[c] = Start(L2, None) /\ \A d \in Calls \ {c} : calls[d] = Over
  BY Opening
<1>2. L2 \in Loads /\ L2 \in Reloads /\ L2 # <<>>
  BY LoadsAreTodos, EveryTodo DEF Loads, Reloads
<1>3. calls[c] # Over /\ calls[c].at = "ready" /\ calls[c].todo = L2
  BY <1>1, <1>2 DEF Start, Over
<1>4. \A d \in Calls : ~Out(d) /\ ~GotOk(d) /\ (Active(d) => d = c)
  BY <1>1, <1>3 DEF Out, GotOk, Ok, Active
<1>5. Active(c) /\ Todo(c) = L2
  BY <1>3 DEF Active, Todo
<1>6. UnderWay(Reloads) /\ UnderWay(Reloads \cup {S1})
  BY <1>2, <1>5 DEF UnderWay
<1> QED  BY <1>2, <1>4, <1>5, <1>6, LoadsAreTodos
         DEF Settling, Alone, SentHere, GotLocal, ProjectsLocal, SourcesLocal, LogoutAsUser

\* What went wrong stays recorded.
LEMMA TroubleGrows ==
  ASSUME WorkspaceAssumption, Typed, NEW c \in Calls,
         Proceed(c) \/ Send(c) \/ Serve(c) \/ Lose(c) \/ Receive(c)
  PROVE  trouble \subseteq trouble'
BY DEF Proceed, Send, Serve, Lose, Receive

\* Every step disturbs nothing, unless the user did not wait.
LEMMA NextSettles ==
  ASSUME WorkspaceAssumption, Typed, Typed', Undisturbed, [Next]_vars
  PROVE  Undisturbed'
<1>1. CASE Act
  BY <1>1, ActComesTo, ActedSettles, ReloadSettles DEF Undisturbed
<1>2. ASSUME NEW c \in Calls, Proceed(c) \/ Send(c) \/ Serve(c) \/ Lose(c) \/ Receive(c)
      PROVE  Undisturbed'
  BY <1>2, TroubleGrows, ProceedSettles, SendSettles, ServeSettles, LoseSettles, ReceiveSettles
     DEF Undisturbed
<1>3. CASE OtherClient
  <2>1. calls' = calls /\ trouble' = trouble \cup {"other"} /\ UNCHANGED <<place, shown, saved, tokens>>
    BY <1>3 DEF OtherClient
  <2> QED  BY <2>1, OthersSettle DEF Undisturbed
<1>4. CASE UNCHANGED vars
  <2>1. calls' = calls /\ UNCHANGED <<place, shown, tokens, trouble>>
    BY <1>4 DEF vars, place
  <2> QED  BY <2>1, OthersSettle DEF Undisturbed
<1> QED  BY <1>1, <1>2, <1>3, <1>4 DEF Next

\* As long as the user waits for a chain of useWorkspace.ts to end before
\* starting the next, and whatever fails, is lost or is changed by others:
\* chains overlap only with loads, each request under way was sent to the
\* server still selected, and another server's projects and data sources are on
\* screen only until the load under way replaces them.
THEOREM AlwaysUndisturbed == Spec => []Undisturbed
<1>1. Init => Undisturbed
  BY OpeningSettles, WorkspaceAssumption DEF Undisturbed
<1>2. Typed /\ Typed' /\ Undisturbed /\ [Next]_vars => Undisturbed'
  BY NextSettles, WorkspaceAssumption
<1> QED  BY <1>1, <1>2, AlwaysTyped, PTL DEF Spec

\* So a user who waits never sees, in a settled state, a project or a data
\* source of another server.
THEOREM NothingIsForeign == Spec => []NothingForeign
<1>1. Undisturbed => NothingForeign
  BY NoneUnderWay DEF Undisturbed, Settling, ProjectsLocal, SourcesLocal, LocalProjects, LocalSources,
     NothingForeign
<1> QED  BY <1>1, AlwaysUndisturbed, PTL
-----------------------------------------------------------------------------
(* Who is not signed in sees nothing, also when requests fail.              *)

Auth == Authorised(Now)
Guardeds ==
  {"projects", "sources", "create", "rename", "delete", "addSource", "changeSource", "dropSource"}
SignedOut == shown.status.enabled /\ shown.status.user = None

\* What a guarded request brings, it brings to somebody authorised; a login
\* brings a live token of the selected server.
GotAuth == \A c \in Calls : GotOk(c) /\ Request(c) \in Guardeds => Auth
LoginLive ==
  \A c \in Calls : GotOk(c) /\ Request(c) = "login" =>
    Data(c) \in stored.live /\ stored.issuer[Data(c)] = currentServerUrl
OutIsEmpty ==
  ~Auth /\ SignedOut =>
    (shown.projects = {} /\ shown.dataSources = {}) \/ UnderWay(Reloads)

Guarding ==
  /\ trouble \subseteq {"failure", "readdressed"} => GotAuth /\ LoginLive
  /\ trouble \subseteq {"failure"} => OutIsEmpty

\* Who is signed in with the selected server,
LEMMA AuthIs ==
  Auth <=> \/ currentServerUrl \notin Secured
           \/ /\ tokens[currentServerUrl] \in stored.live
              /\ stored.issuer[tokens[currentServerUrl]] = currentServerUrl
BY DEF Auth, Authorised, Now

\* and after the step.
LEMMA AuthNext ==
  Auth' <=> \/ currentServerUrl' \notin Secured
            \/ /\ tokens'[currentServerUrl'] \in stored'.live
               /\ stored'.issuer[tokens'[currentServerUrl']] = currentServerUrl'
BY DEF Auth, Authorised, Now

\* It takes a new server, token or session to change that.
LEMMA AuthKept ==
  ASSUME currentServerUrl' = currentServerUrl, UNCHANGED tokens,
         stored'.live = stored.live, stored'.issuer = stored.issuer
  PROVE  Auth' <=> Auth
BY AuthIs, AuthNext

\* A request is allowed if who sent it still is.
LEMMA SentAuth ==
  ASSUME NEW r, r.to = currentServerUrl, r.token = tokens[currentServerUrl]
  PROVE  Authorised(r) <=> Auth
BY DEF Auth, Authorised, Now

\* The same place has the same address.
LEMMA SameUrl == ASSUME UNCHANGED place  PROVE currentServerUrl' = currentServerUrl
BY DEF place, currentServerUrl, currentServer

\* The others' answers are what they were.
LEMMA OthersGot ==
  ASSUME NEW c \in Calls, Others(c), ~GotOk(c)', NEW d \in Calls, GotOk(d)'
  PROVE  d # c /\ GotOk(d) /\ Request(d)' = Request(d) /\ Data(d)' = Data(d)
BY DEF Others, GotOk, Request, Data

\* What is the matter as long as nothing else has happened.
Waited ==
  /\ Settling /\ GotAuth /\ LoginLive
  /\ trouble' \subseteq {"failure"} => OutIsEmpty

\* A step between two requests shows nothing to who is signed out.
LEMMA ProceedGuards ==
  ASSUME WorkspaceAssumption, Typed, Waited, NEW c \in Calls, Proceed(c)
  PROVE  Guarding'
<1>0. /\ Active(c) /\ Others(c) /\ ProceedStep(c) /\ UNCHANGED <<place, tokens, stored, ops, trouble>>
      /\ shown \in ShownType
  BY Proceeds, ProceedTyped DEF Typed, Active, ScreenOK
<1>1. PICK todo : Leads(c, todo) /\ (Todo(c) \in Reloads => todo \in Reloads)
  BY ProceedLeads
<1>2. /\ Active(c)' => Todo(c)' = todo
      /\ ~GotOk(c)' /\ (todo \in Todos => Active(c)')
  BY <1>1, LeadsTo
<1>3. (Auth' <=> Auth) /\ currentServerUrl' = currentServerUrl
  BY <1>0, SameUrl, AuthKept
<1>4. GotAuth' /\ LoginLive'
  BY <1>0, <1>2, <1>3, OthersGot DEF Waited, GotAuth, LoginLive
<1>5. /\ shown'.projects = shown.projects /\ shown'.status = shown.status
      /\ shown'.dataSources = shown.dataSources \/ shown'.dataSources = {}
  BY <1>0 DEF ProceedStep, ShownType
<1>6. UnderWay(Reloads) => UnderWay(Reloads)'
  BY <1>0, <1>1, <1>2, UnderWayStill, LoadsAreTodos
<1>7. trouble' \subseteq {"failure"} => OutIsEmpty'
  BY <1>3, <1>5, <1>6 DEF Waited, OutIsEmpty, SignedOut
<1> QED  BY <1>4, <1>7 DEF Guarding

\* Nor does a step that leaves the screen.
LEMMA StaysGuarded ==
  ASSUME Waited, NEW c \in Calls, Others(c), Unmoved, ~GotOk(c)',
         UNCHANGED <<place, shown, tokens, stored>>
  PROVE  Guarding'
<1>1. (Auth' <=> Auth) /\ currentServerUrl' = currentServerUrl
  BY SameUrl, AuthKept
<1>2. GotAuth' /\ LoginLive'
  BY <1>1, OthersGot DEF Waited, GotAuth, LoginLive
<1>3. UnderWay(Reloads) => UnderWay(Reloads)'
  BY DEF UnderWay, Unmoved
<1>4. trouble' \subseteq {"failure"} => OutIsEmpty'
  BY <1>1, <1>3 DEF Waited, OutIsEmpty, SignedOut
<1> QED  BY <1>2, <1>4 DEF Guarding

\* Nor does sending a request.
LEMMA SendGuards ==
  ASSUME WorkspaceAssumption, Typed, Waited, NEW c \in Calls, Send(c)
  PROVE  Guarding'
<1>1. /\ Active(c) /\ Others(c) /\ SameChain(c) /\ calls'[c].at = "sent"
      /\ UNCHANGED <<place, shown, tokens, stored>>
  BY Sends DEF Typed, Active
<1>2. Unmoved /\ ~GotOk(c)'
  BY <1>1, SameIsUnmoved DEF GotOk, Ok
<1> QED  BY <1>1, <1>2, StaysGuarded

\* What an answered request has done to the sessions.
LEMMA OutcomeAuth ==
  ASSUME WorkspaceAssumption, Typed, Settling, NEW c \in Calls, Active(c), calls[c].at = "sent",
         NEW o \in Outcome(c), stored' = o.after, UNCHANGED <<place, tokens>>
  PROVE  /\ Todo(c) # Logout3 => (Auth => Auth') /\ stored.live \subseteq stored'.live
         /\ \A t \in Tokens : stored.issuer[t] # None => stored'.issuer[t] = stored.issuer[t]
         /\ o.code = "ok" /\ Request(c) \in Guardeds => Auth'
         /\ o.code = "ok" /\ Request(c) = "login" =>
              o.data \in stored'.live /\ stored'.issuer[o.data] = currentServerUrl
<1>0. /\ StoredOK /\ Head(calls[c].todo) \in Requests /\ calls[c].sent \in Sent /\ Todo(c) \in Todos
      /\ calls[c].sent.to = currentServerUrl /\ calls[c].sent.token = tokens[currentServerUrl]
      /\ currentServerUrl' = currentServerUrl /\ currentServerUrl \in Backends
  BY Waiting, SameUrl, CurrentTyped DEF Typed, Active, Settling, SentHere, Out, Chain, Todo
<1>1. /\ \A t \in Tokens : stored.issuer[t] # None => stored'.issuer[t] = stored.issuer[t]
      /\ Head(calls[c].todo) = "login" /\ o.code = "ok" =>
           /\ stored'.issuer[o.data] = calls[c].sent.to /\ o.data \in stored'.live
  BY <1>0, IssuerKept DEF Outcome
<1>2. Todo(c) # Logout3 => stored.live \subseteq stored'.live
  <2>1. CASE Head(calls[c].todo) = "login"
    <3>1. Refused(o) \/ LoginDone(calls[c].sent, o)
      BY <2>1, Sessions DEF Outcome
    <3>2. CASE Refused(o)
      BY <3>2 DEF Refused
    <3>3. CASE LoginDone(calls[c].sent, o)
      <4>1. PICK t \in Tokens :
              Holds(o.after, stored.projects, stored.unborn, stored.sources, stored.unbornSources,
                    [stored.issuer EXCEPT ![t] = calls[c].sent.to], stored.live \cup {t})
        BY <1>0, <3>3, AfterSessions, Zenon
      <4> QED  BY <4>1 DEF Holds
    <3> QED  BY <3>1, <3>2, <3>3
  <2>2. CASE Head(calls[c].todo) = "logout"
    BY <1>0, <2>2, ByHead DEF Todo
  <2>3. CASE Head(calls[c].todo) \notin {"login", "logout"}
    BY <1>0, <2>3, SessionsKept DEF Outcome
  <2> QED  BY <2>1, <2>2, <2>3
<1>3. Todo(c) # Logout3 => (Auth => Auth')
  <2> SUFFICES ASSUME Todo(c) # Logout3, Auth, currentServerUrl \in Secured  PROVE Auth'
    BY <1>0, AuthNext
  <2>1. /\ tokens[currentServerUrl] \in stored.live
        /\ stored.issuer[tokens[currentServerUrl]] = currentServerUrl
    BY AuthIs
  <2>2. tokens[currentServerUrl] \in Tokens /\ currentServerUrl # None
    BY <1>0, <2>1, Fields DEF StoredOK, WorkspaceAssumption
  <2> QED  BY <1>0, <1>1, <1>2, <2>1, <2>2, AuthNext
<1>4. ASSUME o.code = "ok", Request(c) \in Guardeds  PROVE  Auth'
  <2>1. Authorised(calls[c].sent)
    <3> DEFINE r == calls[c].sent
               arg == calls[c].arg
    <3>0. ~Refused(o)
      BY <1>4 DEF Refused
    <3>1. CASE Request(c) \in {"projects", "sources"}
      <4>1. CASE Request(c) = "projects"
        BY <1>4, <4>1, Reads DEF Outcome, Request, NextStep, Is
      <4>2. CASE Request(c) = "sources"
        BY <1>4, <4>2, Reads DEF Outcome, Request, NextStep, Is
      <4> QED  BY <3>1, <4>1, <4>2
    <3>2. CASE Request(c) \in {"create", "rename", "delete"}
      BY <3>0, <3>2, Changes DEF Outcome, Request, NextStep
    <3>3. CASE Request(c) \in {"addSource", "changeSource", "dropSource"}
      BY <3>0, <3>3, Changes DEF Outcome, Request, NextStep
    <3> QED  BY <1>4, <3>1, <3>2, <3>3 DEF Guardeds
  <2>2. Auth
    BY <1>0, <2>1, SentAuth
  <2>3. Todo(c) # Logout3
    BY <1>4, HeadTail DEF Request, Todo, Guardeds
  <2> QED  BY <1>3, <2>2, <2>3
<1> QED  BY <1>0, <1>1, <1>2, <1>3, <1>4 DEF Request, NextStep

\* A guarded request is answered only to who is signed in.
LEMMA AnswerGuards ==
  ASSUME WorkspaceAssumption, Typed, Waited, NEW c \in Calls, Active(c), calls[c].at = "sent",
         NEW o \in Outcome(c), stored' = o.after, NEW code, NEW data, Settles(c, code, data),
         code = "ok" => o.code = "ok" /\ o.data = data, Others(c), UNCHANGED <<place, shown, tokens>>
  PROVE  Guarding'
<1>0. /\ SameChain(c) /\ calls'[c].at = "answered" /\ currentServerUrl' = currentServerUrl /\ Settling
      /\ calls'[c].answer.code = code /\ calls'[c].answer.data = data
      /\ Request(c)' = Request(c)
  BY SameUrl DEF Settles, Waited, SameChain, Request
<1>1. Unmoved /\ (GotOk(c)' => code = "ok" /\ Data(c)' = data)
  BY <1>0, SameIsUnmoved DEF GotOk, Ok, Data
<1>2. /\ Todo(c) # Logout3 => (Auth => Auth') /\ stored.live \subseteq stored'.live
      /\ \A t \in Tokens : stored.issuer[t] # None => stored'.issuer[t] = stored.issuer[t]
      /\ o.code = "ok" /\ Request(c) \in Guardeds => Auth'
      /\ o.code = "ok" /\ Request(c) = "login" =>
           o.data \in stored'.live /\ stored'.issuer[o.data] = currentServerUrl
  BY <1>0, OutcomeAuth
<1>3. ASSUME NEW d \in Calls, d # c, GotOk(d)'
      PROVE  /\ GotOk(d) /\ Request(d)' = Request(d) /\ Data(d)' = Data(d)
             /\ Todo(c) \in Loads /\ Todo(d) \in Loads /\ Todo(c) # Logout3
  <2>1. GotOk(d) /\ Request(d)' = Request(d) /\ Data(d)' = Data(d) /\ Active(d)
    BY <1>3 DEF Others, GotOk, Request, Data, Ok, Active
  <2> QED  BY <1>0, <1>3, <2>1, LoadsAreTodos DEF Settling, Alone
<1>4. GotAuth'
  <2> SUFFICES ASSUME NEW d \in Calls, GotOk(d)', Request(d)' \in Guardeds  PROVE Auth'
    BY DEF GotAuth
  <2>1. CASE d = c
    BY <1>0, <1>1, <1>2, <2>1
  <2>2. CASE d # c
    BY <1>2, <1>3, <2>2 DEF Waited, GotAuth
  <2> QED  BY <2>1, <2>2
<1>5. LoginLive'
  <2> SUFFICES ASSUME NEW d \in Calls, GotOk(d)', Request(d)' = "login"
               PROVE  Data(d)' \in stored'.live /\ stored'.issuer[Data(d)'] = currentServerUrl
    BY <1>0 DEF LoginLive
  <2>1. CASE d = c
    BY <1>0, <1>1, <1>2, <2>1
  <2>2. CASE d # c
    <3>1. Todo(d) \in Loads /\ NextStep(Todo(d)) = "login"
      BY <1>3, <2>2 DEF Request, Todo
    <3> QED  BY <3>1, HeadTail DEF Loads
  <2> QED  BY <2>1, <2>2
<1>6. UnderWay(Reloads) => UnderWay(Reloads)'
  BY <1>1 DEF UnderWay, Unmoved
<1>7. trouble' \subseteq {"failure"} => OutIsEmpty'
  <2>1. CASE Todo(c) = Logout3
    BY <2>1, <1>0 DEF Settling, LogoutAsUser, OutIsEmpty, SignedOut
  <2>2. CASE Todo(c) # Logout3
    BY <1>2, <1>6, <2>2 DEF Waited, OutIsEmpty, SignedOut
  <2> QED  BY <2>1, <2>2
<1> QED  BY <1>4, <1>5, <1>7 DEF Guarding

\* So are the answers of a backend,
LEMMA ServeGuards ==
  ASSUME WorkspaceAssumption, Typed, Waited, NEW c \in Calls, Serve(c)  PROVE  Guarding'
<1>1. calls[c] # Over /\ Others(c) /\ UNCHANGED <<place, shown, saved, tokens, ops>>
  BY Serves DEF Typed
<1>2. PICK o \in Outcome(c) :
         /\ stored' = o.after
         /\ \/ calls[c].at = "orphan" /\ trouble' = trouble \cup {"other"}
            \/ calls[c].at = "sent" /\ Settles(c, o.code, o.data)
  BY Serves DEF Typed
<1>3. CASE calls[c].at = "orphan" /\ trouble' = trouble \cup {"other"}
  BY <1>3 DEF Guarding
<1>4. CASE calls[c].at = "sent" /\ Settles(c, o.code, o.data)
  BY <1>1, <1>2, <1>4, AnswerGuards DEF Active
<1> QED  BY <1>2, <1>3, <1>4

\* and a lost request is answered to nobody.
LEMMA LoseGuards ==
  ASSUME WorkspaceAssumption, Typed, Waited, NEW c \in Calls, Lose(c)  PROVE  Guarding'
<1>1. /\ Active(c) /\ Others(c) /\ UNCHANGED <<place, shown, saved, tokens, ops>>
      /\ calls[c].at = "sent" /\ Settles(c, "failed", None)
      /\ stored' = stored \/ \E o \in Outcome(c) : stored' = o.after
  BY Loses DEF Typed, Active
<1>2. CASE stored' = stored
  <2>1. SameChain(c) /\ calls'[c].at # "orphan" /\ ~GotOk(c)'
    BY <1>1 DEF Settles, GotOk, Ok
  <2>2. Unmoved
    BY <1>1, <2>1, SameIsUnmoved
  <2> QED  BY <1>1, <1>2, <2>1, <2>2, StaysGuarded
<1>3. CASE \E o \in Outcome(c) : stored' = o.after
  BY <1>1, <1>3, AnswerGuards
<1> QED  BY <1>1, <1>2, <1>3

\* An answer that is taken shows nothing to who is signed out.
LEMMA ReceiveGuards ==
  ASSUME WorkspaceAssumption, Typed, Waited, NEW c \in Calls, Receive(c)
  PROVE  Guarding'
<1> DEFINE t == Todo(c)
           data == Data(c)
<1>0. /\ Active(c) /\ Others(c) /\ UNCHANGED <<place, stored, ops, trouble>> /\ shown \in ShownType
      /\ t \in Todos /\ calls[c] # Over /\ calls[c].at = "answered" /\ Settling
      /\ tokens \in [Backends -> Tokens \cup {None}] /\ currentServerUrl \in Backends
      /\ \/ calls[c].answer.code = "ok" /\ GotOk(c) /\ ArriveStep(c)
         \/ calls[c].answer.code # "ok" /\ FailStep(c)
  BY Receives, ReceiveMoves, CurrentTyped
     DEF Typed, Active, ScreenOK, TokensOK, GotOk, Ok, Chain, Todo, Waited
<1>1. PICK todo : /\ Leads(c, todo)
                  /\ calls[c].answer.code = "ok" => todo = Rest(t)
                  /\ calls[c].answer.code = "ok" /\ t \in Reloads \ {P1} => todo \in Reloads
                  /\ calls[c].answer.code # "ok" /\ t \in Reloads \ {I1, P1} => todo \in Reloads
  BY ReceiveLeads
<1>2. /\ Active(c)' => Todo(c)' = todo
      /\ ~GotOk(c)' /\ (todo \in Todos => Active(c)')
  BY <1>1, LeadsTo
<1>3. currentServerUrl' = currentServerUrl
  BY <1>0, SameUrl
<1>4. UNCHANGED tokens => (Auth' <=> Auth)
  BY <1>0, <1>3, AuthKept
<1>5. UNCHANGED tokens \/ t \in {Login3, Logout3}
  BY <1>0 DEF ArriveStep, FailStep, Todo
<1>6. LoginLive'
  BY <1>0, <1>2, <1>3, OthersGot DEF Waited, LoginLive
<1>7. GotAuth'
  <2>1. CASE UNCHANGED tokens
    BY <1>2, <1>0, <1>4, <2>1, OthersGot DEF Waited, GotAuth
  <2>2. CASE t \in {Login3, Logout3}
    <3>1. ASSUME NEW d \in Calls  PROVE ~GotOk(d)'
      <4>1. GotOk(d)' => d # c /\ GotOk(d)
        BY <1>0, <1>2, OthersGot
      <4>2. GotOk(d) => Active(d)
        BY DEF GotOk, Ok, Active
      <4> QED  BY <1>0, <2>2, <4>1, <4>2, LoadsAreTodos DEF Settling, Alone
    <3> QED  BY <3>1 DEF GotAuth
  <2> QED  BY <1>5, <2>1, <2>2
<1>8. ASSUME todo \in Reloads  PROVE OutIsEmpty'
  BY <1>0, <1>2, <1>8, LoadsAreTodos DEF OutIsEmpty, UnderWay
<1>9. ASSUME t \notin Reloads \/ todo \in Reloads, UNCHANGED tokens, trouble' \subseteq {"failure"},
             shown'.projects = shown.projects /\ shown'.dataSources = shown.dataSources
             /\ shown'.status = shown.status
      PROVE  OutIsEmpty'
  <2>1. UnderWay(Reloads) => UnderWay(Reloads)'
    BY <1>0, <1>2, <1>9, UnderWayStill, LoadsAreTodos
  <2> QED  BY <1>4, <1>9, <2>1 DEF Waited, OutIsEmpty, SignedOut
<1>10. ASSUME t = Logout3, shown'.status = shown.status  PROVE OutIsEmpty'
  BY <1>0, <1>10 DEF Settling, LogoutAsUser, OutIsEmpty, SignedOut
<1>11. ASSUME calls[c].answer.code = "ok", GotOk(c), ArriveStep(c), trouble' \subseteq {"failure"}
       PROVE  OutIsEmpty'
  <2>1. CASE t \in {P1, P2, Create3, Rename2, Delete3, S1, S2, Sources1, Delete2}
    <3>1. Request(c) \in Guardeds
      BY <2>1, HeadTail DEF Request, Todo, Guardeds
    <3>2. UNCHANGED tokens
      BY <1>5, <2>1, HeadTail
    <3> QED  BY <1>11, <1>4, <3>1, <3>2 DEF Waited, GotAuth, OutIsEmpty
  <2>2. CASE t \in {SL, Status2}
    <3>1. todo \in Reloads
      BY <1>1, <1>11, <2>2, HeadTail DEF Reloads
    <3> QED  BY <1>8, <3>1
  <2>3. CASE t \in {I1, I2}
    <3>1. todo \in Reloads
      BY <1>1, <1>11, <2>3, HeadTail DEF Reloads
    <3> QED  BY <1>8, <3>1
  <2>4. CASE t \in {Delete4, Create4, Rename3, Add2, Change2, Drop2}
    <3>1. t \notin {P1, P2, Create3, Rename2, Delete3, S1, S2, Sources1, Delete2, SL, Status2, I1, I2,
                    Login3, Logout3}
      BY <2>4, HeadTail
    <3>2. UNCHANGED tokens /\ shown'.projects = shown.projects /\ shown'.dataSources = shown.dataSources
          /\ shown'.status = shown.status
      BY <1>0, <1>11, <3>1 DEF ArriveStep, ShownType, Todo
    <3>3. t \notin Reloads
      BY <1>0, <2>4, HeadTail DEF Reloads, Requests
    <3> QED  BY <1>9, <1>11, <3>2, <3>3
  <2>5. CASE t \in {Login3, Logout3}
    <3>1. t \notin {P1, P2, Create3, Rename2, Delete3, S1, S2, Sources1, Delete2, SL, Status2, I1, I2,
                    Delete4, Create4, Rename3, Add2, Change2, Drop2}
      BY <2>5, HeadTail
    <3>2. tokens' = [tokens EXCEPT ![currentServerUrl] = data] /\ UNCHANGED shown
      BY <1>11, <3>1 DEF ArriveStep, Todo, Data
    <3>3. CASE t = Logout3
      BY <1>10, <3>2, <3>3
    <3>4. CASE t = Login3
      <4>1. data \in stored.live /\ stored.issuer[data] = currentServerUrl
        <5>1. Request(c) = "login"
          BY <3>4, HeadTail DEF Request, Todo
        <5> QED  BY <1>11, <5>1 DEF Waited, LoginLive
      <4>2. tokens'[currentServerUrl'] = data
        BY <1>0, <1>3, <3>2
      <4>3. Auth'
        BY <1>0, <1>3, <4>1, <4>2, AuthNext
      <4> QED  BY <4>3 DEF OutIsEmpty
    <3> QED  BY <2>5, <3>3, <3>4
  <2> QED  BY <1>11, <2>1, <2>2, <2>3, <2>4, <2>5 DEF ArriveStep, Todo
<1>12. ASSUME calls[c].answer.code # "ok", FailStep(c), trouble' \subseteq {"failure"}
       PROVE  OutIsEmpty'
  <2>1. CASE t \in {I1, P1, S1, I2, P2, S2}
    <3>1. t \notin {Logout3, SL}
      BY <2>1, HeadTail
    <3>2. shown' = Denied(shown) \/ shown' = Unreachable(shown)
      BY <1>12, <2>1, <3>1 DEF FailStep, Todo
    <3>3. shown'.projects = {} /\ shown'.dataSources = {}
      BY <1>0, <3>2 DEF Denied, Unreachable, ShownType
    <3> QED  BY <3>3 DEF OutIsEmpty
  <2>2. CASE t \notin {I1, P1, S1, I2, P2, S2}
    <3>1. UNCHANGED shown /\ (t = Logout3 \/ UNCHANGED tokens)
      BY <1>12, <2>2 DEF FailStep, Todo
    <3>2. t \notin Reloads \/ todo \in Reloads
      BY <1>1, <1>12, <2>2
    <3> QED  BY <1>9, <1>10, <1>12, <3>1, <3>2
  <2> QED  BY <2>1, <2>2
<1> QED  BY <1>0, <1>6, <1>7, <1>11, <1>12 DEF Guarding

\* Where nobody has an answer there is nothing to say of answers.
LEMMA NobodyGot == ASSUME \A c \in Calls : ~GotOk(c)'  PROVE GotAuth' /\ LoginLive'
BY DEF GotAuth, LoginLive

\* An act of the user shows nothing to who is signed out.
LEMMA ActedGuards ==
  ASSUME WorkspaceAssumption, Typed, Undisturbed, Guarding, Acted  PROVE Guarding'
<1> SUFFICES ASSUME trouble' \subseteq {"failure", "readdressed"}
             PROVE  GotAuth' /\ LoginLive' /\ (trouble' \subseteq {"failure"} => OutIsEmpty')
  BY DEF Guarding
<1>1. Quiet /\ shown \in ShownType /\ ~UnderWay(Reloads) /\ (trouble' \subseteq {"failure"} => OutIsEmpty)
  BY NoneUnderWay DEF Acted, Typed, ScreenOK, Guarding
<1>2. CASE Switch
  <2>1. Loading' /\ UnderWay(Reloads)'
    BY <1>1, <1>2, LoadBegunLoads DEF Switch
  <2>2. \A c \in Calls : ~GotOk(c)'
    <3>1. \A c \in Calls : GotOk(c)' => Active(c)'
      BY DEF GotOk, Ok, Active
    <3> QED  BY <2>1, <3>1 DEF Loading
  <2> QED  BY <2>1, <2>2, NobodyGot DEF OutIsEmpty
<1>3. CASE Edit \/ PickProject \/ Ask
  <2>1. \A c \in Calls : ~GotOk(c)'
    <3>1. CASE Edit
      BY <1>1, <3>1 DEF Edit, Quiet, GotOk, Ok
    <3>2. CASE PickProject \/ Ask
      <4>1. PICK t \in Todos : \E arg : AskBegun(t, arg)
        BY <3>2, AskingIsTodos DEF PickProject, Ask
      <4> QED  BY <1>1, <4>1, QuietAsk DEF AskBegun
    <3> QED  BY <1>3, <3>1, <3>2
  <2>2. /\ shown'.projects = shown.projects /\ shown'.dataSources = shown.dataSources
        /\ shown'.status = shown.status /\ currentServerUrl' = currentServerUrl /\ UNCHANGED <<tokens, stored>>
    BY <1>1, <1>3, SameUrl DEF Edit, PickProject, Ask, ShownType
  <2>3. trouble' \subseteq {"failure"} => OutIsEmpty'
    BY <1>1, <2>2, AuthKept DEF OutIsEmpty, SignedOut
  <2> QED  BY <2>1, <2>3, NobodyGot
<1> QED  BY <1>2, <1>3 DEF Acted

\* Nor does a page load.
LEMMA ReloadGuards ==
  ASSUME WorkspaceAssumption, Typed, NEW kept \in SUBSET Backends, Reload(kept)
  PROVE  Guarding'
<1>1. PICK c \in Calls : /\ calls'[c] = Start(L2, None)
                         /\ \A d \in Calls \ {c} : calls'[d] = Over \/ calls'[d].at = "orphan"
  BY ReloadedCalls
<1>2. Loading' /\ UnderWay(Reloads)'
  BY <1>1, OpenedLoads
<1>3. \A d \in Calls : ~GotOk(d)'
  <2>1. \A d \in Calls : GotOk(d)' => Active(d)'
    BY DEF GotOk, Ok, Active
  <2> QED  BY <1>2, <2>1 DEF Loading
<1> QED  BY <1>2, <1>3, NobodyGot DEF Guarding, OutIsEmpty

\* Nothing is on screen in the first state.
LEMMA OpeningGuards == ASSUME WorkspaceAssumption, Init  PROVE Guarding
<1>1. PICK c \in Calls : calls[c] = Start(L2, None) /\ \A d \in Calls \ {c} : calls[d] = Over
  BY Opening
<1>2. \A d \in Calls : ~GotOk(d)
  BY <1>1 DEF GotOk, Ok, Start
<1>3. shown.projects = {} /\ shown.dataSources = {}
  BY DEF Init, Blank
<1> QED  BY <1>2, <1>3 DEF Guarding, GotAuth, LoginLive, OutIsEmpty

\* Every step keeps it so.
LEMMA NextGuards ==
  ASSUME WorkspaceAssumption, Typed, Typed', Undisturbed, Guarding, [Next]_vars
  PROVE  Guarding'
<1>1. CASE Act
  BY <1>1, ActComesTo, ActedGuards, ReloadGuards
<1>2. ASSUME NEW c \in Calls, Proceed(c) \/ Send(c) \/ Serve(c) \/ Lose(c) \/ Receive(c)
      PROVE  Guarding'
  <2>1. trouble \subseteq trouble'
    BY <1>2, TroubleGrows
  <2>2. CASE trouble \subseteq {"failure", "readdressed"}
    <3>1. Waited
      BY <2>1, <2>2 DEF Waited, Guarding, Undisturbed
    <3> QED  BY <1>2, <3>1, ProceedGuards, SendGuards, ServeGuards, LoseGuards, ReceiveGuards
  <2>3. CASE ~(trouble \subseteq {"failure", "readdressed"})
    BY <2>1, <2>3 DEF Guarding
  <2> QED  BY <2>2, <2>3
<1>3. CASE OtherClient
  <2>1. trouble' = trouble \cup {"other"}
    BY <1>3 DEF OtherClient
  <2> QED  BY <2>1 DEF Guarding
<1>4. CASE UNCHANGED vars
  BY <1>4 DEF vars, Guarding, GotAuth, LoginLive, OutIsEmpty, SignedOut, Auth, Authorised, Now,
              currentServerUrl, currentServer, UnderWay, GotOk, Request, Data, Active, Todo
<1> QED  BY <1>1, <1>2, <1>3, <1>4 DEF Next

\* As long as the user waits and nobody else interferes, requests may fail:
\* what a guarded route has answered was answered to somebody allowed to have
\* it, and a screen that says "signed out" lists nothing, or a load that will
\* empty it is under way.
THEOREM AlwaysGuarding == Spec => []Guarding
<1>1. Init => Guarding
  BY OpeningGuards, WorkspaceAssumption
<1>2. Typed /\ Typed' /\ Undisturbed /\ Guarding /\ [Next]_vars => Guarding'
  BY NextGuards, WorkspaceAssumption
<1> QED  BY <1>1, <1>2, AlwaysTyped, AlwaysUndisturbed, PTL DEF Spec

\* The screen of useWorkspace.ts in a settled state shows nothing of another
\* server as long as the user waited for each chain, and nothing at all to a
\* user who is signed out as long as, beside failed requests, nothing went
\* wrong since the page was loaded.
THEOREM NothingIsLeaked == Spec => []NothingLeaks
<1>1. Undisturbed /\ Guarding => NothingLeaks
  <2>1. Undisturbed => NothingForeign
    BY NoneUnderWay DEF Undisturbed, Settling, ProjectsLocal, SourcesLocal, LocalProjects, LocalSources,
       NothingForeign
  <2>2. Guarding => SignedOutSeesNothing
    BY NoneUnderWay DEF Guarding, OutIsEmpty, SignedOut, Auth, SignedOutSeesNothing
  <2> QED  BY <2>1, <2>2 DEF NothingLeaks
<1> QED  BY <1>1, AlwaysUndisturbed, AlwaysGuarding, PTL
-----------------------------------------------------------------------------
(* While nothing fails and nobody interferes, what is on screen is what the *)
(* selected server holds, or a chain under way is about to bring it.        *)

Picked == shown.currentProjectId
Held == SourcesIn(Picked)
Self == StatusAt(Now)
Placed == IF Visible = {} THEN Picked = None ELSE Picked \in Visible

\* An answer is what the server would still say.
Fresh1(c) ==
  calls[c] # Over /\ calls[c].at = "answered" =>
    /\ Request(c) \in {"info", "status", "syncStatus", "logout", "sources"} => calls[c].answer.code = "ok"
    /\ Request(c) = "info" => Data(c) = currentServerUrl
    /\ Request(c) \in {"status", "syncStatus"} => Data(c) = Self
    /\ Request(c) = "projects" =>
         IF Auth THEN calls[c].answer.code = "ok" /\ Data(c) = Visible ELSE calls[c].answer.code = "denied"
    /\ Request(c) = "sources" => Data(c) = Held
    /\ Request(c) = "create" /\ calls[c].answer.code = "ok" => Data(c) \in Visible

\* What a chain is about to do suits the workspace that is selected.
Prepared(c) ==
  Active(c) =>
    /\ Request(c) = "sources" => Auth /\ Placed
    /\ Request(c) = "sources" /\ Out(c) => calls[c].sent.project = Picked /\ Picked \in Visible
    /\ Todo(c) \in {Create3, Create2} => Auth /\ calls[c].arg \in Visible
    /\ Todo(c) \in {Delete3, Rename2, Rename1} => Auth

\* Chains that have yet to bring something: all of some, of others those
\* whose request has succeeded.
Awaits(c, todos, done) == Active(c) /\ (Todo(c) \in todos \/ (Todo(c) \in done /\ GotOk(c)))
Awaited(todos, done) == \E c \in Calls : Awaits(c, todos, done)

InfoTodos == {L1, L2, SL, I1, I2, P2, S2, D2}
ListTodos == Reloads \cup {Status2, Create3, Delete3}
ListDone == {Create4, Delete4, Logout3}
SourceTodos == ListTodos \cup {S1, Sources1, Delete2, Create2}
SourceDone == ListDone \cup {Add2, Drop2}
StatusTodos == {SL, L2, I2, P2, S2, D2, Status2}

Reachable == shown.serverInfo = currentServerUrl /\ ~shown.serverError
Listed == shown.projects = Visible /\ (Auth => Placed)
Sourced == shown.dataSources = IF Auth THEN Held ELSE {}

InfoTrue == Reachable \/ Awaited(InfoTodos, {})
ProjectsTrue == Listed \/ Awaited(ListTodos, ListDone)
SourcesTrue == Sourced \/ Awaited(SourceTodos, SourceDone)

ChainsTrue == \A c \in Calls : Fresh1(c) /\ Prepared(c)
ScreenTrue == InfoTrue /\ ProjectsTrue /\ SourcesTrue
Accurate == ChainsTrue /\ ScreenTrue

\* The rest of what is known meanwhile.
Calm == Settling /\ GotAuth /\ Accurate

WorldKept ==
  /\ currentServerUrl' = currentServerUrl /\ (Auth' <=> Auth) /\ Visible' = Visible
  /\ Picked' = Picked /\ Held' = Held /\ Self' = Self

\* What the selected server lists for this user,
LEMMA VisibleIs == Visible = IF Auth THEN ProjectsAt(currentServerUrl) ELSE {}
BY DEF Visible, Auth

\* and after the step.
LEMMA VisibleNext == Visible' = IF Auth' THEN ProjectsAt(currentServerUrl)' ELSE {}
BY DEF Visible, Auth

\* What it says of the session,
LEMMA SelfIs ==
  Self = [enabled |-> currentServerUrl \in Secured,
          user |-> IF currentServerUrl \in Secured /\ Auth THEN currentServerUrl ELSE None]
BY DEF Self, StatusAt, Auth, Now

\* and after the step.
LEMMA SelfNext ==
  Self' = [enabled |-> currentServerUrl' \in Secured,
           user |-> IF currentServerUrl' \in Secured /\ Auth' THEN currentServerUrl' ELSE None]
BY DEF Self, StatusAt, Auth, Now

\* The same server, tokens and stores mean the same.
LEMMA ServerKept ==
  ASSUME currentServerUrl' = currentServerUrl, UNCHANGED <<tokens, stored>>
  PROVE  (Auth' <=> Auth) /\ Visible' = Visible /\ Self' = Self /\ (Picked' = Picked => Held' = Held)
<1>1. Auth' <=> Auth
  BY AuthKept
<1>2. ProjectsAt(currentServerUrl)' = ProjectsAt(currentServerUrl)
  BY DEF ProjectsAt
<1> QED  BY <1>1, <1>2, VisibleIs, VisibleNext, SelfIs, SelfNext DEF Held, SourcesIn

\* A step of one chain leaves the others' answers as true as they were.
LEMMA OtherChains ==
  ASSUME ChainsTrue, NEW c \in Calls, Others(c), WorldKept, NEW d \in Calls, d # c
  PROVE  Fresh1(d)' /\ Prepared(d)'
<1>1. Fresh1(d) /\ Prepared(d) /\ calls'[d] = calls[d]
  BY DEF ChainsTrue, Others
<1>2. /\ Active(d)' = Active(d) /\ Request(d)' = Request(d) /\ Data(d)' = Data(d)
      /\ Todo(d)' = Todo(d) /\ Out(d)' = Out(d)
  BY <1>1 DEF Active, Request, Data, Todo, Out
<1>3. Placed' <=> Placed
  BY DEF WorldKept, Placed
<1>4. Fresh1(d)'
  BY <1>1, <1>2 DEF Fresh1, WorldKept
<1>5. Prepared(d)'
  BY <1>1, <1>2, <1>3 DEF Prepared, WorldKept
<1> QED  BY <1>4, <1>5

\* Of a chain that is over there is nothing to say.
LEMMA IdleChain == ASSUME NEW d \in Calls, ~Active(d)'  PROVE Fresh1(d)' /\ Prepared(d)'
BY DEF Fresh1, Prepared, Active

\* A chain that is no load is the only one.
LEMMA LoneChain ==
  ASSUME Settling, NEW c \in Calls, Active(c), Todo(c) \notin Loads, Others(c)
  PROVE  /\ \A d \in Calls : d # c => ~Active(d)' /\ ~Active(d) /\ Fresh1(d)' /\ Prepared(d)'
         /\ \A todos, done : Awaited(todos, done) => Awaits(c, todos, done)
<1>1. \A d \in Calls : d # c => ~Active(d) /\ ~Active(d)'
  BY DEF Settling, Alone, Others, Active
<1>2. \A d \in Calls : d # c => Fresh1(d)' /\ Prepared(d)'
  BY <1>1, IdleChain
<1>3. ASSUME NEW todos, NEW done, Awaited(todos, done)  PROVE Awaits(c, todos, done)
  BY <1>1, <1>3 DEF Awaited, Awaits
<1> QED  BY <1>1, <1>2, <1>3

\* What is awaited stays so when one chain moves within it.
LEMMA StillAwaited ==
  ASSUME NEW c \in Calls, Others(c), NEW todos, NEW done, Awaited(todos, done),
         Awaits(c, todos, done) => Awaits(c, todos, done)'
  PROVE  Awaited(todos, done)'
<1>1. PICK d \in Calls : Awaits(d, todos, done)
  BY DEF Awaited
<1>2. d # c => Awaits(d, todos, done)'
  BY <1>1 DEF Awaits, Others, Active, Todo, GotOk
<1> QED  BY <1>1, <1>2 DEF Awaited

\* What a chain is led to may await it.
LEMMA LeadsAwaited ==
  ASSUME NEW c \in Calls, NEW todo, Leads(c, todo), Others(c), NEW todos, NEW done,
         todos \subseteq Todos, Awaits(c, todos, done) => todo \in todos
  PROVE  /\ Awaited(todos, done) => Awaited(todos, done)'
         /\ todo \in todos => Awaited(todos, done)'
<1>1. Active(c)' => Todo(c)' = todo
  BY LeadsTo
<1>2. todo \in todos => Awaits(c, todos, done)'
  BY <1>1, LeadsTo DEF Awaits
<1>3. Awaited(todos, done) => Awaited(todos, done)'
  BY <1>2, StillAwaited
<1> QED  BY <1>2, <1>3 DEF Awaited

\* What can be awaited of is under the sequences.
LEMMA TodoSets ==
  /\ InfoTodos \subseteq Todos /\ ListTodos \subseteq Todos /\ SourceTodos \subseteq Todos
  /\ StatusTodos \subseteq Todos /\ ListTodos \subseteq SourceTodos
BY LoadsAreTodos DEF InfoTodos, ListTodos, SourceTodos, StatusTodos, Todos, Loads

\* The steps that have no chain wait for less.
LEMMA SameAwaited ==
  ASSUME NEW c \in Calls, Others(c), SameChain(c), Active(c), calls[c].at # "answered",
         calls'[c].at # "orphan", NEW todos, NEW done, Awaited(todos, done)
  PROVE  Awaited(todos, done)'
<1>1. Unmoved
  BY SameIsUnmoved
<1>2. ~GotOk(c)
  BY DEF GotOk, Ok
<1>3. Awaits(c, todos, done) => Awaits(c, todos, done)'
  BY <1>1, <1>2 DEF Awaits, Unmoved
<1> QED  BY <1>3, StillAwaited

\* In a quiet state nothing is awaited.
LEMMA NoneAwaited == ASSUME Quiet, NEW todos, NEW done  PROVE ~Awaited(todos, done)
BY DEF Quiet, Awaited, Awaits, Active

\* What a step that leaves part of the screen leaves true.
LEMMA ReachableStays ==
  ASSUME Reachable, currentServerUrl' = currentServerUrl, shown'.serverInfo = shown.serverInfo,
         shown'.serverError \in {shown.serverError, FALSE}
  PROVE  Reachable'
BY DEF Reachable

\* The list,
LEMMA ListedStays ==
  ASSUME Listed, WorldKept, shown'.projects = shown.projects  PROVE Listed'
BY DEF Listed, WorldKept, Placed

\* the data sources.
LEMMA SourcedStays ==
  ASSUME Sourced, WorldKept, shown'.dataSources = shown.dataSources  PROVE Sourced'
BY DEF Sourced, WorldKept

\* The parts of the screen, as records.
LEMMA ScreenFields ==
  ASSUME ScreenOK, NEW x
  PROVE  /\ LET new == [shown EXCEPT !.serverError = x]
            IN  /\ new.serverInfo = shown.serverInfo /\ new.serverError = x
                /\ new.projects = shown.projects /\ new.currentProjectId = Picked
                /\ new.dataSources = shown.dataSources /\ new.status = shown.status
         /\ LET new == [shown EXCEPT !.currentProjectId = x]
            IN  /\ new.serverInfo = shown.serverInfo /\ new.serverError = shown.serverError
                /\ new.projects = shown.projects /\ new.currentProjectId = x
                /\ new.dataSources = shown.dataSources /\ new.status = shown.status
         /\ LET new == [shown EXCEPT !.dataSources = x]
            IN  /\ new.serverInfo = shown.serverInfo /\ new.serverError = shown.serverError
                /\ new.projects = shown.projects /\ new.currentProjectId = Picked
                /\ new.dataSources = x /\ new.status = shown.status
         /\ LET new == [shown EXCEPT !.status = x]
            IN  /\ new.serverInfo = shown.serverInfo /\ new.serverError = shown.serverError
                /\ new.projects = shown.projects /\ new.currentProjectId = Picked
                /\ new.dataSources = shown.dataSources /\ new.status = x
         /\ LET new == [shown EXCEPT !.serverInfo = x, !.serverError = FALSE]
            IN  /\ new.serverInfo = x /\ new.serverError = FALSE
                /\ new.projects = shown.projects /\ new.currentProjectId = Picked
                /\ new.dataSources = shown.dataSources /\ new.status = shown.status
BY DEF ScreenOK, ShownType, Picked

\* What a chain may go on to without more ado.
LEMMA Distinct ==
  /\ Nil \notin Todos /\ D1 # D2 /\ S1 # S2 /\ P1 # P2 /\ P1 # Delete3 /\ P2 # Delete3
  /\ S1 \notin {Sources1, Delete2, S2} /\ S2 \notin {Sources1, Delete2}
<1>1. Nil \notin Todos
  BY EveryTodo DEF Nil
<1>2. SL \in Todos /\ D1 \in Todos /\ D2 \in Todos /\ Delete1 \in Todos
  BY DEF Todos, Loads
<1>3. D1 # D2
  BY <1>1, <1>2, HeadTail
<1>4. S1 \notin {Sources1, Delete2, S2} /\ S2 \notin {Sources1, Delete2}
  <2>1. D1 # Delete1 /\ D2 # Delete1
    BY HeadTail
  <2>2. Rest(S1) = D1 /\ Rest(S2) = D2 /\ Rest(Sources1) = Nil /\ Rest(Delete2) = Delete1
    BY HeadTail
  <2> QED  BY <1>1, <1>2, <1>3, <2>1, <2>2
<1>5. P1 # P2 /\ P1 # Delete3 /\ P2 # Delete3
  BY <1>4, HeadTail
<1> QED  BY <1>1, <1>3, <1>4, <1>5

Unprepared == {Nil, L1, SL, I1, I2, P1, P2, D1, D2, Status2, Delete1}

\* What needs no preparation.
LEMMA NothingToPrepare ==
  ASSUME NEW t \in Unprepared
  PROVE  t \notin {S1, S2, Sources1, Delete2, Create3, Create2, Delete3, Rename2, Rename1}
<1>1. t = Nil => t \notin {S1, S2, Sources1, Delete2, Create3, Create2, Delete3, Rename2, Rename1}
  BY Distinct DEF Todos, Loads
<1>2. t \in {P1, P2} => NextStep(t) = "projects" /\ Rest(t) \in {S1, S2}
  BY HeadTail
<1>3. t \in {P1, P2} => t \notin {Create3, Rename2, Delete3}
  BY <1>2, HeadTail, Distinct
<1>4. t \notin {Nil, P1, P2} =>
        NextStep(t) \in {"load", "syncStatus", "info", "loaded", "status", "save"}
  BY HeadTail DEF Unprepared
<1>5. \A x \in {S1, S2, Sources1, Delete2} : NextStep(x) = "sources"
  BY HeadTail
<1>6. \A x \in {Create3, Delete3, Rename2} : NextStep(x) = "projects"
  BY HeadTail
<1>7. NextStep(Create2) = "select" /\ NextStep(Rename1) = "sourcesIfSame"
  BY HeadTail
<1>8. t \in {P1, P2} => t \notin {S1, S2, Sources1, Delete2, Create2, Rename1}
  BY <1>2, <1>5, <1>7
<1>9. t \notin {Nil, P1, P2} => t \notin {S1, S2, Sources1, Delete2, Create3, Create2, Delete3, Rename2, Rename1}
  BY <1>4, <1>5, <1>6, <1>7
<1> QED  BY <1>1, <1>3, <1>8, <1>9

\* What nothing follows that is awaited.
LEMMA AwaitedNowhere ==
  /\ D1 \notin InfoTodos \cup SourceTodos
  /\ {S1, P1, Sources1, Delete2, Create3, Create2, Delete3, Rename2, Delete1, Rename1} \cap InfoTodos = {}
  /\ {S1, Sources1, Delete2, Create2, Rename2, Delete1, Rename1} \cap ListTodos = {}
  /\ {Rename2, Delete1, Rename1} \cap SourceTodos = {}
  /\ {Login3, Logout3, Create4, Rename3, Delete4, Add2, Change2, Drop2} \cap (InfoTodos \cup SourceTodos) = {}
<1>1. D1 \notin InfoTodos \cup SourceTodos
  BY HeadTail, Distinct DEF InfoTodos, SourceTodos, ListTodos, Reloads
<1>2. \A x \in {S1, P1, Sources1, Delete2, Create3, Create2, Delete3, Rename2, Delete1, Rename1} : x \notin InfoTodos
  <2>1. \A x \in {Sources1, Delete2, S1} : x \notin InfoTodos
    BY HeadTail, Distinct DEF InfoTodos
  <2>2. \A x \in {P1, Create3, Delete3, Rename2} : x \notin InfoTodos
    <3>1. P2 \notin {P1, Create3, Delete3, Rename2}
      BY HeadTail, Distinct
    <3> QED  BY <3>1, HeadTail DEF InfoTodos
  <2>3. \A x \in {Create2, Delete1, Rename1} : x \notin InfoTodos
    BY HeadTail DEF InfoTodos
  <2> QED  BY <2>1, <2>2, <2>3
<1>3. \A x \in {S1, Sources1, Delete2, Create2, Rename2, Delete1, Rename1} : x \notin ListTodos
  <2>1. \A x \in {Sources1, Delete2, S1} : x \notin ListTodos
    BY HeadTail, Distinct DEF ListTodos, Reloads
  <2>2. Rename2 \notin {P1, P2, Create3, Delete3}
    BY HeadTail
  <2>3. Rename2 \notin ListTodos
    BY <2>2, HeadTail DEF ListTodos, Reloads
  <2>4. \A x \in {Create2, Delete1, Rename1} : x \notin ListTodos
    BY HeadTail DEF ListTodos, Reloads
  <2> QED  BY <2>1, <2>3, <2>4
<1>4. \A x \in {Rename2, Delete1, Rename1} : x \notin SourceTodos
  BY <1>3, HeadTail DEF SourceTodos
<1>5. \A x \in {Login3, Logout3, Create4, Rename3, Delete4, Add2, Change2, Drop2} :
        NextStep(x) \in {"login", "logout", "create", "rename", "delete", "addSource", "changeSource", "dropSource"}
  BY HeadTail
<1>6. \A x \in InfoTodos \cup SourceTodos :
        NextStep(x) \in {"load", "syncStatus", "info", "projects", "sources", "loaded", "status", "select"}
  BY HeadTail DEF InfoTodos, ListTodos, SourceTodos, Reloads
<1> QED  BY <1>1, <1>2, <1>3, <1>4, <1>5, <1>6

\* Where a step between two requests leads.
LEMMA ProceedCases ==
  ASSUME WorkspaceAssumption, Typed, NEW c \in Calls, Proceed(c)
  PROVE  LET t == Todo(c)
             arg == calls[c].arg
         IN  /\ Active(c) /\ calls[c].at = "ready" /\ ~GotOk(c) /\ Others(c)
             /\ UNCHANGED <<place, tokens, stored, ops, trouble>>
             /\ \/ /\ t \in {L1, L2} /\ Leads(c, IF t = L1 THEN I1 ELSE I2) /\ UNCHANGED <<shown, saved>>
                \/ /\ t \in {D1, D2} /\ Leads(c, Rest(t)) /\ UNCHANGED saved
                   /\ shown' = [shown EXCEPT !.serverError = FALSE]
                \/ /\ t = Create2 /\ Leads(c, Sources1)
                   /\ shown' = [shown EXCEPT !.currentProjectId = arg]
                   /\ persistServers(servers, url, currentServerId, arg)
                \/ t = Rename1 /\ UNCHANGED <<shown, saved>> /\ (Leads(c, Sources1) \/ Leads(c, Nil))
                \/ /\ t = Delete1 /\ Leads(c, Nil) /\ UNCHANGED shown
                   /\ persistServers(servers, url, currentServerId, Picked)
                \/ /\ t \in {S1, S2, Sources1, Delete2} /\ Leads(c, Rest(t)) /\ Picked = None
                   /\ shown' = [shown EXCEPT !.dataSources = {}] /\ UNCHANGED saved
<1> DEFINE t == Todo(c)
           arg == calls[c].arg
<1>1. /\ Active(c) /\ calls[c].at = "ready" /\ ProceedStep(c) /\ CallsOK /\ ~GotOk(c) /\ Chain(calls[c])
      /\ UNCHANGED <<place, tokens, stored, ops, trouble>> /\ Others(c)
  BY Proceeds, ProceedTyped DEF Typed, Active, GotOk, Ok
<1>2. ASSUME NEW todo, todo = Nil \/ todo \in Todos \ {Create3, Create2}, Moves(c, Going(todo, arg))
      PROVE  Leads(c, todo)
  <2>1. PICK a : a = arg
    OBVIOUS
  <2>2. CallsOK /\ (todo = <<>> \/ todo \in Todos) /\ (todo \in {Create3, Create2} => a \in Projects)
    <3>1. {Create3, Create2} \subseteq Todos
      BY DEF Todos
    <3>2. todo \notin {Create3, Create2}
      BY <1>2, <3>1, Distinct
    <3>3. todo = Nil \/ todo \in Todos
      BY <1>2
    <3>4. todo = <<>> \/ todo \in Todos
      BY <3>3 DEF Nil
    <3>5. CallsOK
      BY <1>1
    <3> QED  BY <3>2, <3>4, <3>5, Zenon
  <2>3. Moves(c, Going(todo, a))
    BY <1>2, <2>1
  <2>4. Others(c) /\ calls'[c] = Going(todo, a)
    BY <2>2, <2>3, Moved, Zenon
  <2> QED  BY <1>2, <2>4, GoesTo
<1>3. /\ {I1, I2, SL, D1, D2, Sources1, Delete1} \subseteq Todos \ {Create3, Create2}
      /\ Rest(D1) = Nil /\ Rest(D2) = SL /\ Rest(Create2) = Sources1 /\ Rest(Delete1) = Nil
      /\ Rest(S1) = D1 /\ Rest(S2) = D2 /\ Rest(Sources1) = Nil /\ Rest(Delete2) = Delete1
  <2>1. \A x \in {I1, I2, SL, D1, D2, Sources1, Delete1} : x # Create3 /\ x # Create2
    BY HeadTail
  <2>2. {I1, I2, SL, D1, D2, Sources1, Delete1} \subseteq Todos
    BY DEF Todos, Loads
  <2> QED  BY <2>1, <2>2, HeadTail
<1>4. CASE t \in {L1, L2} /\ Moves(c, Going(IF t = L1 THEN I1 ELSE I2, arg)) /\ UNCHANGED <<shown, saved>>
  BY <1>1, <1>2, <1>3, <1>4
<1>5. CASE /\ t \in {D1, D2} /\ Moves(c, Going(Rest(t), arg))
           /\ shown' = [shown EXCEPT !.serverError = FALSE] /\ UNCHANGED saved
  BY <1>1, <1>2, <1>3, <1>5
<1>6. CASE /\ t = Create2 /\ Moves(c, Going(Rest(t), arg))
           /\ shown' = [shown EXCEPT !.currentProjectId = arg]
           /\ persistServers(servers, url, currentServerId, arg)
  BY <1>1, <1>2, <1>3, <1>6
<1>7. CASE /\ t = Rename1 /\ Moves(c, Going(IF Picked = arg THEN Sources1 ELSE <<>>, arg))
           /\ UNCHANGED <<shown, saved>>
  <2>1. Leads(c, Sources1) \/ Leads(c, Nil)
    BY <1>2, <1>3, <1>7 DEF Nil
  <2> QED  BY <1>1, <1>7, <2>1
<1>8. CASE /\ t = Delete1 /\ Moves(c, Going(Rest(t), arg)) /\ UNCHANGED shown
           /\ persistServers(servers, url, currentServerId, Picked)
  BY <1>1, <1>2, <1>3, <1>8
<1>9. CASE /\ t \in {S1, S2, Sources1, Delete2} /\ Picked = None /\ Moves(c, Going(Rest(t), arg))
           /\ shown' = [shown EXCEPT !.dataSources = {}] /\ UNCHANGED saved
  BY <1>1, <1>2, <1>3, <1>9
<1>10. \/ t \in {L1, L2} /\ Moves(c, Going(IF t = L1 THEN I1 ELSE I2, arg)) /\ UNCHANGED <<shown, saved>>
       \/ /\ t \in {D1, D2} /\ Moves(c, Going(Rest(t), arg))
          /\ shown' = [shown EXCEPT !.serverError = FALSE] /\ UNCHANGED saved
       \/ /\ t = Create2 /\ Moves(c, Going(Rest(t), arg))
          /\ shown' = [shown EXCEPT !.currentProjectId = arg]
          /\ persistServers(servers, url, currentServerId, arg)
       \/ /\ t = Rename1 /\ Moves(c, Going(IF Picked = arg THEN Sources1 ELSE <<>>, arg))
          /\ UNCHANGED <<shown, saved>>
       \/ /\ t = Delete1 /\ Moves(c, Going(Rest(t), arg)) /\ UNCHANGED shown
          /\ persistServers(servers, url, currentServerId, Picked)
       \/ /\ t \in {S1, S2, Sources1, Delete2} /\ Picked = None /\ Moves(c, Going(Rest(t), arg))
          /\ shown' = [shown EXCEPT !.dataSources = {}] /\ UNCHANGED saved
  BY <1>1 DEF ProceedStep, Todo, Picked
<1> QED  BY <1>4, <1>5, <1>6, <1>7, <1>8, <1>9, <1>10

\* What a chain goes on to is well prepared.
LEMMA LedChain ==
  ASSUME NEW c \in Calls, NEW todo, Leads(c, todo),
         todo \in {S1, S2, Sources1, Delete2} => Auth' /\ Placed',
         todo \in {Create3, Create2} => Auth' /\ calls'[c].arg \in Visible',
         todo \in {Delete3, Rename2, Rename1} => Auth'
  PROVE  Fresh1(c)' /\ Prepared(c)'
<1>1. ~Out(c)' /\ (Active(c)' => Todo(c)' = todo /\ todo \in Todos)
  BY LeadsTo
<1>2. Active(c)' /\ Request(c)' = "sources" => todo \in {S1, S2, Sources1, Delete2}
  BY <1>1, ByHead DEF Request, NextStep, Todo
<1>3. Fresh1(c)'
  BY <1>1 DEF Fresh1, Out, Active
<1>4. Prepared(c)'
  BY <1>1, <1>2 DEF Prepared
<1> QED  BY <1>3, <1>4

\* Then every chain is.
LEMMA LedChains ==
  ASSUME ChainsTrue, NEW c \in Calls, NEW todo, Leads(c, todo), Others(c), WorldKept,
         todo \in {S1, S2, Sources1, Delete2} => Auth /\ Placed,
         todo \in {Create3, Create2} => Auth /\ calls'[c].arg \in Visible,
         todo \in {Delete3, Rename2, Rename1} => Auth
  PROVE  ChainsTrue'
<1>1. Placed' <=> Placed
  BY DEF WorldKept, Placed
<1>2. Fresh1(c)' /\ Prepared(c)'
  BY <1>1, LedChain DEF WorldKept
<1> QED  BY <1>2, OtherChains DEF ChainsTrue

\* No data source is in no workspace.
LEMMA NoneHeld == ASSUME WorkspaceAssumption, StoredOK, Picked = None  PROVE Held = {}
BY DEF WorkspaceAssumption, StoredOK, StoredType, Held, SourcesIn

\* What is not awaited is on screen.
LEMMA NotAwaited ==
  ASSUME ScreenTrue
  PROVE  /\ ~Awaited(InfoTodos, {}) => Reachable
         /\ ~Awaited(ListTodos, ListDone) => Listed
         /\ ~Awaited(SourceTodos, SourceDone) => Sourced
BY DEF ScreenTrue, InfoTrue, ProjectsTrue, SourcesTrue

\* A step between two requests leaves the screen true, or awaited.
LEMMA ProceedAccurate ==
  ASSUME WorkspaceAssumption, Typed, Calm, NEW c \in Calls, Proceed(c)
  PROVE  Accurate'
<1> DEFINE t == Todo(c)
           arg == calls[c].arg
<1>0. /\ Active(c) /\ calls[c].at = "ready" /\ ~GotOk(c) /\ Others(c)
      /\ UNCHANGED <<place, tokens, stored, ops, trouble>>
  BY ProceedCases
<1>1. /\ currentServerUrl' = currentServerUrl /\ (Auth' <=> Auth) /\ Visible' = Visible /\ Self' = Self
      /\ (Picked' = Picked => WorldKept)
  BY <1>0, SameUrl, ServerKept DEF WorldKept
<1>2. ScreenOK /\ StoredOK /\ Settling /\ ChainsTrue /\ ScreenTrue /\ Fresh1(c) /\ Prepared(c)
  BY DEF Typed, Calm, Accurate, ChainsTrue
<1>3. \A todos, done : Awaits(c, todos, done) => t \in todos
  BY <1>0 DEF Awaits
<1>4. CASE t \in {L1, L2} /\ Leads(c, IF t = L1 THEN I1 ELSE I2) /\ UNCHANGED <<shown, saved>>
  <2> DEFINE todo == IF t = L1 THEN I1 ELSE I2
  <2>1. WorldKept
    BY <1>1, <1>4 DEF Picked
  <2>2. todo \in InfoTodos /\ todo \in ListTodos /\ todo \in SourceTodos
    BY DEF InfoTodos, ListTodos, SourceTodos, Reloads
  <2>3. Awaited(InfoTodos, {})' /\ Awaited(ListTodos, ListDone)' /\ Awaited(SourceTodos, SourceDone)'
    BY <1>0, <1>4, <2>2, LeadsAwaited, TodoSets
  <2>4. todo \notin {S1, S2, Sources1, Delete2, Create3, Create2, Delete3, Rename2, Rename1}
    BY NothingToPrepare DEF Unprepared
  <2>5. ChainsTrue'
    BY <1>0, <1>2, <1>4, <2>1, <2>4, LedChains
  <2> QED  BY <2>3, <2>5 DEF Accurate, ScreenTrue, InfoTrue, ProjectsTrue, SourcesTrue
<1>5. CASE /\ t \in {D1, D2} /\ Leads(c, Rest(t)) /\ UNCHANGED saved
           /\ shown' = [shown EXCEPT !.serverError = FALSE]
  <2>1. /\ WorldKept /\ shown'.serverInfo = shown.serverInfo /\ shown'.serverError = FALSE
        /\ shown'.projects = shown.projects /\ shown'.dataSources = shown.dataSources
    BY <1>1, <1>2, <1>5, ScreenFields DEF Picked
  <2>2. /\ t \in InfoTodos => Rest(t) \in InfoTodos
        /\ t \in ListTodos => Rest(t) \in ListTodos
        /\ t \in SourceTodos => Rest(t) \in SourceTodos
    <3>1. t = D2 => Rest(t) \in InfoTodos /\ Rest(t) \in ListTodos /\ Rest(t) \in SourceTodos
      BY HeadTail DEF InfoTodos, ListTodos, SourceTodos, Reloads
    <3>2. D1 \notin InfoTodos /\ D1 \notin ListTodos /\ D1 \notin SourceTodos
      BY AwaitedNowhere, TodoSets
    <3> QED  BY <1>5, <3>1, <3>2
  <2>3. /\ Awaited(InfoTodos, {}) => Awaited(InfoTodos, {})'
        /\ Awaited(ListTodos, ListDone) => Awaited(ListTodos, ListDone)'
        /\ Awaited(SourceTodos, SourceDone) => Awaited(SourceTodos, SourceDone)'
    BY <1>0, <1>3, <1>5, <2>2, LeadsAwaited, TodoSets
  <2>4. Rest(t) \notin {S1, S2, Sources1, Delete2, Create3, Create2, Delete3, Rename2, Rename1}
    <3>1. Rest(t) \in Unprepared
      BY <1>5, HeadTail DEF Unprepared
    <3> QED  BY <3>1, NothingToPrepare
  <2>5. ChainsTrue'
    BY <1>0, <1>2, <1>5, <2>1, <2>4, LedChains
  <2> QED  BY <1>1, <1>2, <2>1, <2>3, <2>5, ReachableStays, ListedStays, SourcedStays
              DEF Accurate, ScreenTrue, InfoTrue, ProjectsTrue, SourcesTrue
<1>6. CASE /\ t = Create2 /\ Leads(c, Sources1)
           /\ shown' = [shown EXCEPT !.currentProjectId = arg]
  <2>1. /\ Picked' = arg /\ shown'.serverInfo = shown.serverInfo /\ shown'.serverError = shown.serverError
        /\ shown'.projects = shown.projects
    BY <1>2, <1>6, ScreenFields DEF Picked
  <2>2. t \notin Loads /\ t \notin InfoTodos /\ t \notin ListTodos
    BY <1>6, HeadTail, AwaitedNowhere DEF Loads
  <2>3. /\ \A d \in Calls : d # c => Fresh1(d)' /\ Prepared(d)'
        /\ ~Awaited(InfoTodos, {}) /\ ~Awaited(ListTodos, ListDone)
    BY <1>0, <1>2, <1>3, <2>2, LoneChain
  <2>4. Reachable' /\ Listed
    BY <1>1, <1>2, <2>1, <2>3, NotAwaited, ReachableStays
  <2>5. Auth /\ arg \in Visible
    BY <1>0, <1>2, <1>6 DEF Prepared
  <2>6. Placed' /\ Auth'
    BY <1>1, <2>1, <2>5 DEF Placed
  <2>7. Listed'
    BY <1>1, <2>1, <2>4, <2>6 DEF Listed
  <2>8. Awaited(SourceTodos, SourceDone)'
    BY <1>0, <1>6, LeadsAwaited, TodoSets DEF SourceTodos
  <2>9. Sources1 \notin {Create3, Create2, Delete3, Rename2, Rename1}
    BY HeadTail
  <2>10. Fresh1(c)' /\ Prepared(c)'
    BY <1>6, <2>6, <2>9, LedChain
  <2> QED  BY <2>3, <2>4, <2>7, <2>8, <2>10
              DEF Accurate, ChainsTrue, ScreenTrue, InfoTrue, ProjectsTrue, SourcesTrue
<1>7. CASE t = Rename1 /\ UNCHANGED <<shown, saved>> /\ (Leads(c, Sources1) \/ Leads(c, Nil))
  <2>1. WorldKept
    BY <1>1, <1>7 DEF Picked
  <2>2. t \notin Loads /\ t \notin InfoTodos /\ t \notin SourceTodos
    BY <1>7, HeadTail, AwaitedNowhere DEF Loads
  <2>3. ~Awaited(InfoTodos, {}) /\ ~Awaited(ListTodos, ListDone) /\ ~Awaited(SourceTodos, SourceDone)
    BY <1>0, <1>2, <1>3, <2>2, LoneChain, TodoSets
  <2>4. Reachable /\ Listed /\ Sourced
    BY <1>2, <2>3, NotAwaited
  <2>5. Reachable' /\ Listed' /\ Sourced'
    BY <1>1, <1>7, <2>1, <2>4, ReachableStays, ListedStays, SourcedStays
  <2>6. Auth /\ Placed
    BY <1>0, <1>2, <1>7, <2>4 DEF Prepared, Listed
  <2>7. /\ Sources1 \notin {Create3, Create2, Delete3, Rename2, Rename1}
        /\ Nil \notin {Create3, Create2, Delete3, Rename2, Rename1}
    BY HeadTail, NothingToPrepare DEF Unprepared
  <2>8. ChainsTrue'
    BY <1>0, <1>2, <1>7, <2>1, <2>6, <2>7, LedChains
  <2> QED  BY <2>5, <2>8 DEF Accurate, ScreenTrue, InfoTrue, ProjectsTrue, SourcesTrue
<1>8. CASE t = Delete1 /\ Leads(c, Nil) /\ UNCHANGED shown
  <2>1. WorldKept
    BY <1>1, <1>8 DEF Picked
  <2>2. t \notin InfoTodos /\ t \notin ListTodos /\ t \notin SourceTodos
    BY <1>8, AwaitedNowhere, TodoSets
  <2>3. /\ Awaited(InfoTodos, {}) => Awaited(InfoTodos, {})'
        /\ Awaited(ListTodos, ListDone) => Awaited(ListTodos, ListDone)'
        /\ Awaited(SourceTodos, SourceDone) => Awaited(SourceTodos, SourceDone)'
    BY <1>0, <1>3, <1>8, <2>2, LeadsAwaited, TodoSets
  <2>4. Nil \notin {S1, S2, Sources1, Delete2, Create3, Create2, Delete3, Rename2, Rename1}
    BY NothingToPrepare DEF Unprepared
  <2>5. ChainsTrue'
    BY <1>0, <1>2, <1>8, <2>1, <2>4, LedChains
  <2> QED  BY <1>1, <1>2, <1>8, <2>1, <2>3, <2>5, ReachableStays, ListedStays, SourcedStays
              DEF Accurate, ScreenTrue, InfoTrue, ProjectsTrue, SourcesTrue
<1>9. CASE /\ t \in {S1, S2, Sources1, Delete2} /\ Leads(c, Rest(t)) /\ Picked = None
           /\ shown' = [shown EXCEPT !.dataSources = {}]
  <2>1. /\ WorldKept /\ shown'.serverInfo = shown.serverInfo /\ shown'.serverError = shown.serverError
        /\ shown'.projects = shown.projects /\ shown'.dataSources = {}
    BY <1>1, <1>2, <1>9, ScreenFields DEF Picked
  <2>2. Rest(t) \in {D1, D2, Nil, Delete1} /\ (t \in InfoTodos \cup ListTodos => Rest(t) = D2)
    BY <1>9, HeadTail, AwaitedNowhere
  <2>3. D2 \in InfoTodos /\ D2 \in ListTodos
    BY DEF InfoTodos, ListTodos, Reloads
  <2>4. /\ Awaited(InfoTodos, {}) => Awaited(InfoTodos, {})'
        /\ Awaited(ListTodos, ListDone) => Awaited(ListTodos, ListDone)'
    BY <1>0, <1>3, <1>9, <2>2, <2>3, LeadsAwaited, TodoSets
  <2>5. Sourced'
    BY <1>1, <1>9, <2>1, <1>2, NoneHeld DEF Sourced, WorldKept
  <2>6. Rest(t) \notin {S1, S2, Sources1, Delete2, Create3, Create2, Delete3, Rename2, Rename1}
    BY <2>2, NothingToPrepare DEF Unprepared
  <2>7. ChainsTrue'
    BY <1>0, <1>2, <1>9, <2>1, <2>6, LedChains
  <2> QED  BY <1>1, <1>2, <2>1, <2>4, <2>5, <2>7, ReachableStays, ListedStays
              DEF Accurate, ScreenTrue, InfoTrue, ProjectsTrue, SourcesTrue
<1> QED  BY <1>4, <1>5, <1>6, <1>7, <1>8, <1>9, ProceedCases

\* So does sending a request.
LEMMA SendAccurate ==
  ASSUME WorkspaceAssumption, Typed, Calm, NEW c \in Calls, Send(c)
  PROVE  Accurate'
<1>0. /\ Active(c) /\ calls[c].at = "ready" /\ Others(c) /\ SameChain(c) /\ Chain(calls[c])
      /\ Head(calls[c].todo) = "sources" => Picked # None
      /\ calls'[c].at = "sent" /\ calls'[c].sent = Sending1(c)
      /\ UNCHANGED <<place, shown, saved, tokens, stored, ops, trouble>>
  BY Sends DEF Typed, Active, Picked
<1>1. WorldKept
  BY <1>0, SameUrl, ServerKept DEF WorldKept, Picked
<1>2. ChainsTrue /\ ScreenTrue /\ Fresh1(c) /\ Prepared(c)
  BY DEF Calm, Accurate, ChainsTrue
<1>3. \A todos, done : Awaited(todos, done) => Awaited(todos, done)'
  BY <1>0, SameAwaited
<1>4. ScreenTrue'
  BY <1>0, <1>1, <1>2, <1>3, ReachableStays, ListedStays, SourcedStays
     DEF ScreenTrue, InfoTrue, ProjectsTrue, SourcesTrue, WorldKept
<1>5. Active(c)' /\ Todo(c)' = Todo(c) /\ Request(c)' = Request(c) /\ calls'[c].arg = calls[c].arg
  BY <1>0, SameIsUnmoved DEF Unmoved, Todo, Request, SameChain
<1>6. Fresh1(c)'
  BY <1>0 DEF Fresh1
<1>7. Placed' <=> Placed
  BY <1>1 DEF WorldKept, Placed
<1>8. Request(c) = "sources" => calls'[c].sent.project = Picked /\ Picked \in Visible
  BY <1>0, <1>2 DEF Request, NextStep, Sending1, Picked, Prepared, Placed
<1>9. Prepared(c)'
  BY <1>0, <1>1, <1>2, <1>5, <1>7, <1>8 DEF Prepared, WorldKept
<1> QED  BY <1>0, <1>1, <1>2, <1>4, <1>6, <1>9, OtherChains DEF Accurate, ChainsTrue

\* What an answered request leaves of the world.
LEMMA AnswerWorld ==
  ASSUME WorkspaceAssumption, Typed, Settling, NEW c \in Calls, Active(c), calls[c].at = "sent",
         NEW o \in Outcome(c), stored' = o.after, UNCHANGED <<place, shown, tokens>>
  PROVE  /\ Todo(c) # Logout3 => (Auth' <=> Auth) /\ Self' = Self
         /\ Todo(c) \notin {Logout3, Create4, Delete4, Add2, Drop2} \/ Refused(o) => WorldKept
         /\ Todo(c) \in {Add2, Drop2} => Visible' = Visible /\ Picked' = Picked
<1>0. /\ StoredOK /\ TokensOK /\ Head(calls[c].todo) \in Requests /\ calls[c].sent \in Sent /\ Todo(c) \in Todos
      /\ calls[c].sent.to = currentServerUrl /\ calls[c].sent.token = tokens[currentServerUrl]
      /\ currentServerUrl' = currentServerUrl /\ currentServerUrl \in Backends /\ Picked' = Picked
      /\ Issued
  BY Waiting, SameUrl, CurrentTyped DEF Typed, Active, Settling, SentHere, Out, Chain, Todo, Picked
<1> DEFINE request == Head(calls[c].todo)
<1>1. CASE o.after = stored
  BY <1>0, <1>1, ServerKept DEF WorldKept
<1>2. Refused(o) => o.after = stored
  BY DEF Refused
<1>3. request \in {"info", "status", "syncStatus", "projects", "sources", "rename", "changeSource"}
        => o.after = stored
  BY <1>2, Reads, Changes DEF Outcome, Is
<1>4. CASE request = "login" /\ ~Refused(o)
  <2>1. PICK t \in Tokens :
          /\ stored.issuer[t] = None
          /\ Holds(o.after, stored.projects, stored.unborn, stored.sources, stored.unbornSources,
                   [stored.issuer EXCEPT ![t] = calls[c].sent.to], stored.live \cup {t})
    BY <1>0, <1>4, Sessions, AfterSessions DEF Outcome
  <2>2. tokens[currentServerUrl] # t
    BY <1>0, <2>1 DEF Issued, WorkspaceAssumption
  <2>3. Auth' <=> Auth
    <3>1. tokens[currentServerUrl] \in stored'.live <=> tokens[currentServerUrl] \in stored.live
      BY <2>1, <2>2 DEF Holds
    <3>2. tokens[currentServerUrl] \in stored.live => tokens[currentServerUrl] \in Tokens
      BY <1>0, Fields DEF StoredOK
    <3>3. tokens[currentServerUrl] \in stored.live =>
            stored'.issuer[tokens[currentServerUrl]] = stored.issuer[tokens[currentServerUrl]]
      BY <1>0, <2>1, <2>2, <3>2, Fields DEF Holds, StoredOK
    <3> QED  BY <1>0, <3>1, <3>3, AuthIs, AuthNext
  <2>4. stored'.projects = stored.projects /\ stored'.sources = stored.sources
    BY <2>1 DEF Holds
  <2> QED  BY <1>0, <2>3, <2>4, VisibleIs, VisibleNext, SelfIs, SelfNext
              DEF WorldKept, Held, SourcesIn, ProjectsAt
<1>5. request \notin {"login", "logout"} => (Auth' <=> Auth) /\ Self' = Self
  BY <1>0, SessionsKept, AuthKept, SelfIs, SelfNext DEF Outcome
<1>6. CASE request \in {"addSource", "dropSource"}
  <2>1. stored'.projects = stored.projects
    <3>1. Refused(o) \/ AddDone(calls[c].sent, o) \/ DropDone(calls[c].arg, o)
      BY <1>6, Changes DEF Outcome
    <3>2. CASE AddDone(calls[c].sent, o)
      BY <1>0, <3>2, AfterChanges DEF Holds
    <3>3. CASE DropDone(calls[c].arg, o)
      BY <1>0, <3>3, AfterChanges DEF Holds
    <3> QED  BY <1>2, <3>1, <3>2, <3>3
  <2>2. Visible' = Visible
    BY <1>0, <1>5, <1>6, <2>1, VisibleIs, VisibleNext DEF ProjectsAt
  <2>3. Todo(c) \in {Add2, Drop2}
    BY <1>0, <1>6, ByHead DEF Todo
  <2>4. Refused(o) => WorldKept
    BY <1>1, <1>2
  <2> QED  BY <1>0, <1>5, <1>6, <2>2, <2>3, <2>4
<1>7. CASE request \in {"logout", "create", "delete"}
  <2>1. /\ Todo(c) \in {Logout3, Create4, Delete4} /\ Todo(c) \notin {Add2, Drop2}
        /\ request # "logout" => Todo(c) # Logout3
        /\ request = "logout" => Todo(c) = Logout3
    BY <1>0, <1>7, ByHead, HeadTail DEF Todo, NextStep
  <2> QED  BY <1>0, <1>1, <1>2, <1>5, <1>7, <2>1
<1>8. Todo(c) \in {Add2, Drop2} => request \in {"addSource", "dropSource"}
  BY HeadTail DEF Todo, NextStep
<1>9. WorldKept => (Auth' <=> Auth) /\ Self' = Self /\ Visible' = Visible /\ Picked' = Picked
  BY DEF WorldKept
<1> QED  BY <1>0, <1>1, <1>2, <1>3, <1>4, <1>6, <1>7, <1>8, <1>9 DEF Requests

\* An answer is what the server would say, and suits what its chain does next.
LEMMA AnswerFresh ==
  ASSUME WorkspaceAssumption, Typed, Calm, NEW c \in Calls, Active(c), calls[c].at = "sent",
         NEW o \in Outcome(c), stored' = o.after, Settles(c, o.code, o.data), Others(c),
         UNCHANGED <<place, shown, tokens>>
  PROVE  Fresh1(c)' /\ Prepared(c)' /\ Unmoved /\ (GotOk(c)' <=> o.code = "ok")
<1> DEFINE r == calls[c].sent
           arg == calls[c].arg
<1>0. /\ StoredOK /\ TokensOK /\ Head(calls[c].todo) \in Requests /\ r \in Sent /\ Todo(c) \in Todos
      /\ r.to = currentServerUrl /\ r.token = tokens[currentServerUrl]
      /\ currentServerUrl' = currentServerUrl /\ currentServerUrl \in Backends
      /\ Settling /\ Prepared(c) /\ Out(c) /\ SameChain(c) /\ calls'[c].at = "answered"
  BY Waiting, SameUrl, CurrentTyped
     DEF Typed, Active, Calm, Settling, SentHere, Out, Chain, Todo, Accurate, ChainsTrue, Settles
<1>1. Unmoved /\ Active(c)' /\ Out(c)'
  <2>1. Unmoved
    BY <1>0, SameIsUnmoved
  <2>2. Active(c)' /\ Out(c)'
    BY <1>0, <2>1 DEF Unmoved, Out
  <2> QED  BY <2>1, <2>2
<1>2. /\ Todo(c)' = Todo(c) /\ Request(c)' = Request(c) /\ calls'[c].arg = arg /\ calls'[c].sent = r
      /\ calls'[c].answer.code = o.code /\ Data(c)' = o.data
  BY <1>0 DEF Settles, SameChain, Todo, Request, Data
<1>3. GotOk(c)' <=> o.code = "ok"
  BY <1>0, <1>1, <1>2 DEF GotOk, Ok, Active
<1>4. Authorised(r) <=> Auth
  BY <1>0, SentAuth
<1>5. /\ Todo(c) # Logout3 => (Auth' <=> Auth) /\ Self' = Self
      /\ Todo(c) \notin {Logout3, Create4, Delete4, Add2, Drop2} \/ Refused(o) => WorldKept
  BY <1>0, AnswerWorld
<1>6. /\ Request(c) \in {"info", "status", "syncStatus", "projects", "sources"} =>
           Todo(c) \notin {Logout3, Create4, Delete4, Add2, Drop2}
      /\ Todo(c) \in {Create3, Create2, Delete3, Rename2, Rename1} =>
           Todo(c) \notin {Logout3, Create4, Delete4, Add2, Drop2}
  BY HeadTail DEF Request, Todo
<1>7. ASSUME Request(c) = "info"  PROVE Fresh1(c)'
  <2>1. o.code = "ok" /\ o.data = currentServerUrl
    BY <1>0, <1>7, Reads DEF Outcome, Request, NextStep, Is
  <2> QED  BY <1>0, <1>2, <1>7, <2>1 DEF Fresh1
<1>8. ASSUME Request(c) \in {"status", "syncStatus"}  PROVE Fresh1(c)'
  <2>1. o.code = "ok" /\ o.data = StatusAt(r)
    BY <1>0, <1>8, Reads DEF Outcome, Request, NextStep, Is
  <2>2. StatusAt(r) = Self
    BY <1>0, <1>4, SelfIs DEF StatusAt
  <2>3. Self' = Self
    BY <1>5, <1>6, <1>8
  <2> QED  BY <1>2, <1>8, <2>1, <2>2, <2>3 DEF Fresh1
<1>9. ASSUME Request(c) = "projects"  PROVE Fresh1(c)'
  <2>1. IF Auth THEN o.code = "ok" /\ o.data = ProjectsAt(currentServerUrl) ELSE o.code = "denied"
    BY <1>0, <1>4, <1>9, Reads DEF Outcome, Request, NextStep, Is
  <2>2. (Auth' <=> Auth) /\ Visible' = Visible
    BY <1>5, <1>6, <1>9 DEF WorldKept
  <2> QED  BY <1>2, <1>9, <2>1, <2>2, VisibleIs DEF Fresh1
<1>10. ASSUME Request(c) = "sources"  PROVE Fresh1(c)'
  <2>1. Auth /\ r.project = Picked /\ Picked \in Visible
    BY <1>0, <1>10 DEF Prepared, Out
  <2>2. r.project \in ProjectsAt(r.to)
    BY <1>0, <2>1, VisibleIs
  <2>3. o.code = "ok" /\ o.data = SourcesIn(Picked)
    BY <1>4, <1>10, <2>1, <2>2, Reads DEF Outcome, Request, NextStep, Is
  <2>4. Held' = Held
    BY <1>5, <1>6, <1>10 DEF WorldKept
  <2> QED  BY <1>2, <1>10, <2>3, <2>4 DEF Fresh1, Held
<1>11. ASSUME Request(c) = "logout"  PROVE Fresh1(c)'
  <2>1. o.code = "ok"
    BY <1>0, <1>11, Sessions, AfterSessions DEF Outcome, Request, NextStep
  <2> QED  BY <1>2, <1>11, <2>1 DEF Fresh1
<1>12. ASSUME Request(c) = "create"  PROVE Fresh1(c)'
  <2> SUFFICES ASSUME o.code = "ok"  PROVE o.data \in Visible'
    BY <1>2, <1>12 DEF Fresh1
  <2>1. ~Refused(o)
    BY DEF Refused
  <2>2. Authorised(r) /\ CreateDone(r, o)
    BY <1>12, <2>1, Changes DEF Outcome, Request, NextStep
  <2>3. PICK p \in stored.unborn :
          /\ Home[p] = r.to /\ o.data = p
          /\ Holds(o.after, stored.projects \cup {p}, stored.unborn \ {p}, stored.sources,
                   stored.unbornSources, stored.issuer, stored.live)
    BY <1>0, <2>2, AfterChanges
  <2>4. o.data \in ProjectsAt(currentServerUrl)'
    BY <1>0, <2>3 DEF Holds, ProjectsAt
  <2>5. Auth'
    <3>1. Todo(c) # Logout3
      BY <1>12, HeadTail DEF Request, Todo
    <3> QED  BY <1>4, <1>5, <2>2, <3>1
  <2> QED  BY <2>4, <2>5, VisibleNext
<1>13. Fresh1(c)'
  <2>1. Request(c) \notin {"info", "status", "syncStatus", "projects", "sources", "logout", "create"} => Fresh1(c)'
    BY <1>2 DEF Fresh1
  <2>2. Request(c) \in {"info", "status", "syncStatus", "projects", "sources", "logout", "create"} => Fresh1(c)'
    BY <1>7, <1>8, <1>9, <1>10, <1>11, <1>12
  <2> QED  BY <2>1, <2>2
<1>14. Prepared(c)'
  <2>1. CASE WorldKept
    <3>1. Placed' <=> Placed
      BY <2>1 DEF WorldKept, Placed
    <3> QED  BY <1>0, <1>1, <1>2, <2>1, <3>1 DEF Prepared, WorldKept, Out
  <2>2. CASE ~WorldKept
    <3>1. /\ Request(c) # "sources" /\ Todo(c) \notin {Create3, Create2, Delete3, Rename2, Rename1}
      BY <1>5, <1>6, <2>2
    <3> QED  BY <1>2, <3>1 DEF Prepared
  <2> QED  BY <2>1, <2>2
<1> QED  BY <1>1, <1>3, <1>13, <1>14

\* A request that changes what the server holds is awaited as soon as it is done.
LEMMA AnswerAccurate ==
  ASSUME WorkspaceAssumption, Typed, Calm, NEW c \in Calls, Active(c), calls[c].at = "sent",
         NEW o \in Outcome(c), stored' = o.after, Settles(c, o.code, o.data), Others(c),
         UNCHANGED <<place, shown, tokens>>
  PROVE  Accurate'
<1>0. /\ Fresh1(c)' /\ Prepared(c)' /\ Unmoved /\ (GotOk(c)' <=> o.code = "ok")
  BY AnswerFresh
<1>1. /\ Todo(c) # Logout3 => (Auth' <=> Auth) /\ Self' = Self
      /\ Todo(c) \notin {Logout3, Create4, Delete4, Add2, Drop2} \/ Refused(o) => WorldKept
      /\ Todo(c) \in {Add2, Drop2} => Visible' = Visible /\ Picked' = Picked
  BY AnswerWorld DEF Calm
<1>2. currentServerUrl' = currentServerUrl /\ ChainsTrue /\ ScreenTrue /\ Settling
  BY SameUrl DEF Calm, Accurate
<1>3. CASE WorldKept
  <2>1. SameChain(c) /\ calls'[c].at # "orphan"
    BY DEF Settles
  <2>2. \A todos, done : Awaited(todos, done) => Awaited(todos, done)'
    BY <2>1, SameAwaited
  <2>3. ScreenTrue'
    BY <1>2, <1>3, <2>2, ReachableStays, ListedStays, SourcedStays
       DEF ScreenTrue, InfoTrue, ProjectsTrue, SourcesTrue
  <2> QED  BY <1>0, <1>2, <1>3, <2>3, OtherChains DEF Accurate, ChainsTrue
<1>4. CASE ~WorldKept
  <2>1. Todo(c) \in {Logout3, Create4, Delete4, Add2, Drop2} /\ ~Refused(o)
    BY <1>1, <1>4
  <2>2. o.code = "ok"
    <3>0. StoredOK /\ calls[c].sent \in Sent
      BY Waiting DEF Typed, Active
    <3>1. CASE Todo(c) = Logout3
      <4>1. Head(calls[c].todo) = "logout"
        BY <3>1, HeadTail DEF Todo, NextStep
      <4>2. LogoutDone(calls[c].sent, o)
        BY <4>1, Sessions DEF Outcome
      <4> QED  BY <3>0, <4>2, AfterSessions
    <3>2. CASE Todo(c) \in {Create4, Delete4, Add2, Drop2}
      <4>1. \/ CreateDone(calls[c].sent, o) \/ DeleteDone(calls[c].arg, o)
            \/ AddDone(calls[c].sent, o) \/ DropDone(calls[c].arg, o)
        BY <2>1, <3>2, HeadTail, Changes DEF Outcome, Todo, NextStep
      <4> QED  BY <3>0, <4>1, AfterChanges
    <3> QED  BY <2>1, <3>1, <3>2
  <2>3. Todo(c) \notin Loads /\ Todo(c) \notin InfoTodos /\ Todo(c) \notin SourceTodos /\ Todo(c) \notin ListTodos
    BY <2>1, HeadTail, AwaitedNowhere, TodoSets DEF Loads
  <2>4. \A todos, done : Awaits(c, todos, done) => Todo(c) \in todos
    BY DEF Awaits, GotOk, Ok
  <2>5. /\ \A d \in Calls : d # c => Fresh1(d)' /\ Prepared(d)'
        /\ ~Awaited(InfoTodos, {}) /\ ~Awaited(ListTodos, ListDone)
    BY <1>2, <2>3, <2>4, LoneChain
  <2>6. Reachable /\ Listed
    BY <1>2, <2>5, NotAwaited
  <2>7. Reachable'
    BY <1>2, <2>6, ReachableStays
  <2>8. Active(c)' /\ Todo(c)' = Todo(c) /\ GotOk(c)'
    BY <1>0, <2>2 DEF Unmoved
  <2>9. Awaited(SourceTodos, SourceDone)'
    BY <2>1, <2>8 DEF Awaited, Awaits, SourceDone, ListDone
  <2>10. Todo(c) \in {Logout3, Create4, Delete4} => Awaited(ListTodos, ListDone)'
    BY <2>8 DEF Awaited, Awaits, ListDone
  <2>11. Todo(c) \in {Add2, Drop2} => Listed'
    <3>1. Todo(c) \in {Add2, Drop2} => Todo(c) # Logout3
      BY HeadTail
    <3> QED  BY <1>1, <2>6, <3>1 DEF Listed, Placed
  <2> QED  BY <1>0, <2>1, <2>5, <2>7, <2>9, <2>10, <2>11
              DEF Accurate, ChainsTrue, ScreenTrue, InfoTrue, ProjectsTrue, SourcesTrue
<1> QED  BY <1>3, <1>4

\* So does an answer while nothing fails.
LEMMA ServeAccurate ==
  ASSUME WorkspaceAssumption, Typed, Calm, NEW c \in Calls, Serve(c), "other" \notin trouble'
  PROVE  Accurate'
<1>1. calls[c] # Over /\ Others(c) /\ UNCHANGED <<place, shown, saved, tokens, ops>>
  BY Serves DEF Typed
<1>2. PICK o \in Outcome(c) : stored' = o.after /\ calls[c].at = "sent" /\ Settles(c, o.code, o.data)
  BY Serves DEF Typed
<1> QED  BY <1>1, <1>2, AnswerAccurate DEF Active

\* An answer that its chain takes.
Arrived(c) ==
  /\ Active(c) /\ GotOk(c) /\ calls[c].at = "answered" /\ Todo(c) \in Todos
  /\ Head(Todo(c)) \in Requests /\ Others(c) /\ Leads(c, Rest(Todo(c))) /\ ArriveStep(c)
  /\ UNCHANGED <<place, stored, ops, trouble>>

\* An answer that its chain takes is as true as when it was given.
LEMMA ReceivedOk ==
  ASSUME WorkspaceAssumption, Typed, NEW c \in Calls, Receive(c), calls[c].answer.code = "ok"
  PROVE  Arrived(c)
<1>1. /\ Active(c) /\ GotOk(c) /\ calls[c].at = "answered" /\ Todo(c) \in Todos /\ ArriveStep(c)
      /\ Head(Todo(c)) \in Requests /\ UNCHANGED <<place, stored, ops, trouble>>
  BY Receives DEF Typed, Active, GotOk, Ok, Chain, Todo
<1> QED  BY <1>1, ReceiveMoves, ReceiveLeads DEF Arrived

\* A chain that goes on still brings what it was to bring later.
LEMMA RestAwaited ==
  ASSUME NEW t \in Todos, Head(t) \in Requests
  PROVE  /\ t \in InfoTodos => NextStep(t) = "info" \/ Rest(t) \in InfoTodos
         /\ t \in ListTodos \cup ListDone => NextStep(t) = "projects" \/ Rest(t) \in ListTodos
         /\ t \in SourceTodos \cup SourceDone => NextStep(t) = "sources" \/ Rest(t) \in SourceTodos
<1>1. t \notin {L1, L2, D1, D2, Create2}
  BY HeadTail DEF NextStep, Requests
<1>2. t \in InfoTodos => t \in {I1, I2, SL, P2, S2}
  BY <1>1 DEF InfoTodos
<1>3. {L1, SL, P2, S2, D2} \subseteq InfoTodos
  BY DEF InfoTodos
<1>4. t \in ListTodos \cup ListDone =>
        t \in {SL, I1, P1, I2, P2, S2, Status2, Create3, Delete3, Create4, Delete4, Logout3}
  BY <1>1 DEF ListTodos, ListDone, Reloads
<1>5. {L1, P1, P2, S2, D2, Status2, Create3, Delete3} \subseteq ListTodos
  BY DEF ListTodos, Reloads
<1>6. t \in SourceTodos \cup SourceDone =>
        t \in {SL, I1, P1, I2, P2, S2, Status2, Create3, Delete3, Create4, Delete4, Logout3,
               S1, Sources1, Delete2, Add2, Drop2}
  BY <1>1, <1>4 DEF SourceTodos, SourceDone
<1>7. {L1, P1, P2, S2, D2, Status2, Create3, Delete3, S1, Create2, Delete2, Sources1} \subseteq SourceTodos
  BY <1>5 DEF SourceTodos
<1> QED  BY <1>2, <1>3, <1>4, <1>5, <1>6, <1>7, HeadTail

\* So does a chain that has taken its answer.
LEMMA ArrivedAwaited ==
  ASSUME NEW c \in Calls, Arrived(c)
  PROVE  /\ Awaited(InfoTodos, {}) => Request(c) = "info" \/ Awaited(InfoTodos, {})'
         /\ Awaited(ListTodos, ListDone) => Request(c) = "projects" \/ Awaited(ListTodos, ListDone)'
         /\ Awaited(SourceTodos, SourceDone) => Request(c) = "sources" \/ Awaited(SourceTodos, SourceDone)'
         /\ Rest(Todo(c)) \in ListTodos => Awaited(ListTodos, ListDone)' /\ Awaited(SourceTodos, SourceDone)'
         /\ Rest(Todo(c)) \in SourceTodos => Awaited(SourceTodos, SourceDone)'
<1> DEFINE t == Todo(c)
<1>0. t \in Todos /\ Head(t) \in Requests /\ Leads(c, Rest(t)) /\ Others(c) /\ Request(c) = NextStep(t)
  BY DEF Arrived, Request, Todo
<1>1. \A todos, done : Awaits(c, todos, done) => t \in todos \cup done
  BY DEF Awaits
<1>2. ASSUME Request(c) # "info"
      PROVE  Awaited(InfoTodos, {}) => Awaited(InfoTodos, {})'
  BY <1>0, <1>1, <1>2, RestAwaited, LeadsAwaited, TodoSets
<1>3. ASSUME Request(c) # "projects" \/ Rest(t) \in ListTodos
      PROVE  /\ Awaited(ListTodos, ListDone) => Awaited(ListTodos, ListDone)'
             /\ Rest(t) \in ListTodos => Awaited(ListTodos, ListDone)'
  BY <1>0, <1>1, <1>3, RestAwaited, LeadsAwaited, TodoSets
<1>4. ASSUME Request(c) # "sources" \/ Rest(t) \in SourceTodos
      PROVE  /\ Awaited(SourceTodos, SourceDone) => Awaited(SourceTodos, SourceDone)'
             /\ Rest(t) \in SourceTodos => Awaited(SourceTodos, SourceDone)'
  BY <1>0, <1>1, <1>4, RestAwaited, LeadsAwaited, TodoSets
<1> QED  BY <1>2, <1>3, <1>4, TodoSets

\* What is known when an answer is taken.
LEMMA ArrivedFacts ==
  ASSUME WorkspaceAssumption, Typed, Calm, NEW c \in Calls, Arrived(c)
  PROVE  /\ ScreenOK /\ TokensOK /\ ChainsTrue /\ ScreenTrue /\ Settling /\ Fresh1(c) /\ Prepared(c)
         /\ currentServerUrl' = currentServerUrl
         /\ UNCHANGED tokens =>
              /\ (Auth' <=> Auth) /\ Visible' = Visible /\ Self' = Self
              /\ Picked' = Picked => WorldKept
         /\ Request(c) \in Guardeds => Auth
<1>1. currentServerUrl' = currentServerUrl
  BY SameUrl DEF Arrived
<1>2. UNCHANGED tokens =>
        /\ (Auth' <=> Auth) /\ Visible' = Visible /\ Self' = Self
        /\ Picked' = Picked => WorldKept
  BY <1>1, ServerKept DEF Arrived, WorldKept
<1>3. Request(c) \in Guardeds => Auth
  BY DEF Calm, GotAuth, Arrived
<1> QED  BY <1>1, <1>2, <1>3 DEF Typed, Calm, Accurate, ChainsTrue

\* An answer that leaves the selected workspace and the tokens.
LEMMA ArrivedQuietly ==
  ASSUME WorkspaceAssumption, Typed, Calm, NEW c \in Calls, Arrived(c), WorldKept,
         Request(c) # "info" => /\ shown'.serverInfo = shown.serverInfo
                                /\ shown'.serverError = shown.serverError,
         Request(c) = "info" => Reachable',
         Request(c) # "projects", shown'.projects = shown.projects,
         Request(c) # "sources" => shown'.dataSources = shown.dataSources,
         Request(c) = "sources" => Sourced',
         Rest(Todo(c)) \in {S1, S2, Sources1, Delete2} => Auth /\ Placed,
         Rest(Todo(c)) \in {Create3, Create2} => Auth /\ calls'[c].arg \in Visible,
         Rest(Todo(c)) \in {Delete3, Rename2, Rename1} => Auth
  PROVE  Accurate'
<1>1. ChainsTrue /\ ScreenTrue /\ currentServerUrl' = currentServerUrl
  BY ArrivedFacts
<1>2. ChainsTrue'
  BY <1>1, LedChains DEF Arrived
<1>3. InfoTrue'
  BY <1>1, ArrivedAwaited, ReachableStays DEF ScreenTrue, InfoTrue
<1>4. ProjectsTrue'
  BY <1>1, ArrivedAwaited, ListedStays DEF ScreenTrue, ProjectsTrue
<1>5. SourcesTrue'
  BY <1>1, ArrivedAwaited, SourcedStays DEF ScreenTrue, SourcesTrue
<1> QED  BY <1>2, <1>3, <1>4, <1>5 DEF Accurate, ScreenTrue

\* The server's information arrives.
LEMMA InfoArrives ==
  ASSUME WorkspaceAssumption, Typed, Calm, NEW c \in Calls, Arrived(c), Todo(c) \in {I1, I2},
         shown' = [shown EXCEPT !.serverInfo = Data(c), !.serverError = FALSE], UNCHANGED tokens
  PROVE  Accurate'
<1>1. Request(c) = "info" /\ Rest(Todo(c)) \in Unprepared
  BY HeadTail DEF Request, Todo, Unprepared
<1>2. Data(c) = currentServerUrl
  BY <1>1, ArrivedFacts DEF Arrived, Active, Fresh1
<1>3. /\ shown'.serverInfo = Data(c) /\ shown'.serverError = FALSE /\ Picked' = Picked
      /\ shown'.projects = shown.projects /\ shown'.dataSources = shown.dataSources
  BY ArrivedFacts, ScreenFields DEF Picked
<1>4. Reachable' /\ WorldKept
  BY <1>2, <1>3, ArrivedFacts DEF Reachable
<1> QED  BY <1>1, <1>3, <1>4, ArrivedQuietly, NothingToPrepare

\* The session's status arrives.
LEMMA StatusArrives ==
  ASSUME WorkspaceAssumption, Typed, Calm, NEW c \in Calls, Arrived(c), Todo(c) \in {SL, Status2},
         shown' = [shown EXCEPT !.status = Data(c)], UNCHANGED tokens
  PROVE  Accurate' /\ shown'.status = Self'
<1>1. Request(c) \in {"status", "syncStatus"} /\ Rest(Todo(c)) \in Unprepared
  BY HeadTail DEF Request, Todo, Unprepared
<1>2. Data(c) = Self
  BY <1>1, ArrivedFacts DEF Arrived, Active, Fresh1
<1>3. /\ shown'.serverInfo = shown.serverInfo /\ shown'.serverError = shown.serverError
      /\ Picked' = Picked /\ shown'.status = Data(c)
      /\ shown'.projects = shown.projects /\ shown'.dataSources = shown.dataSources
  BY ArrivedFacts, ScreenFields DEF Picked
<1>4. WorldKept /\ Self' = Self
  BY <1>3, ArrivedFacts
<1>5. Accurate'
  BY <1>1, <1>3, <1>4, ArrivedQuietly, NothingToPrepare
<1> QED  BY <1>2, <1>3, <1>4, <1>5

\* The data sources arrive.
LEMMA SourcesArrive ==
  ASSUME WorkspaceAssumption, Typed, Calm, NEW c \in Calls, Arrived(c), Todo(c) \in {S1, S2, Sources1, Delete2},
         shown' = [shown EXCEPT !.dataSources = Data(c)], UNCHANGED tokens
  PROVE  Accurate'
<1>1. Request(c) = "sources" /\ Rest(Todo(c)) \in Unprepared
  BY HeadTail DEF Request, Todo, Unprepared
<1>2. Data(c) = Held /\ Auth
  BY <1>1, ArrivedFacts DEF Arrived, Active, Fresh1, Guardeds
<1>3. /\ shown'.serverInfo = shown.serverInfo /\ shown'.serverError = shown.serverError
      /\ Picked' = Picked /\ shown'.projects = shown.projects /\ shown'.dataSources = Data(c)
  BY ArrivedFacts, ScreenFields DEF Picked
<1>4. WorldKept /\ Sourced'
  BY <1>2, <1>3, ArrivedFacts DEF Sourced, WorldKept
<1> QED  BY <1>1, <1>3, <1>4, ArrivedQuietly, NothingToPrepare

\* A workspace was created.
LEMMA CreatedArrives ==
  ASSUME WorkspaceAssumption, Typed, Calm, NEW c \in Calls, Arrived(c), Todo(c) = Create4,
         Moves(c, Going(Create3, Data(c))), UNCHANGED <<shown, tokens>>
  PROVE  Accurate'
<1>1. Request(c) = "create" /\ Rest(Todo(c)) = Create3 /\ Create3 \in Todos
  BY HeadTail DEF Request, Todo, Todos
<1>2. Data(c) \in Visible /\ Auth
  BY <1>1, ArrivedFacts DEF Arrived, Active, Fresh1, Guardeds, GotOk, Ok
<1>3. WorldKept
  BY ArrivedFacts DEF Picked
<1>4. calls'[c].arg = Data(c)
  <2>1. PICK data : data = Data(c)
    OBVIOUS
  <2>2. Others(c) /\ calls'[c] = Going(Create3, data)
    BY <2>1 DEF Moves, Typed, CallsOK, Arrived
  <2> QED  BY <1>1, <2>1, <2>2, GoneOn
<1>5. Create3 \notin {S1, S2, Sources1, Delete2, Delete3, Rename2, Rename1}
  BY HeadTail
<1> QED  BY <1>1, <1>2, <1>3, <1>4, <1>5, ArrivedQuietly

\* Something was renamed, deleted, added, changed or dropped.
LEMMA ChangeArrives ==
  ASSUME WorkspaceAssumption, Typed, Calm, NEW c \in Calls, Arrived(c),
         Todo(c) \in {Rename3, Add2, Change2, Drop2}, UNCHANGED <<shown, tokens>>
  PROVE  Accurate'
<1>1. /\ Request(c) \in {"rename", "addSource", "changeSource", "dropSource"}
      /\ Todo(c) = Rename3 => Rest(Todo(c)) = Rename2
      /\ Todo(c) # Rename3 => Rest(Todo(c)) = Sources1
  BY HeadTail DEF Request, Todo
<1>2. Auth
  BY <1>1, ArrivedFacts DEF Guardeds
<1>3. WorldKept
  BY ArrivedFacts DEF Picked
<1>4. Placed
  <2>1. Todo(c) \notin Loads /\ Todo(c) \notin ListTodos /\ Todo(c) \notin ListDone
    <3>1. Todo(c) \notin ListTodos
      BY AwaitedNowhere, TodoSets
    <3> QED  BY <3>1, HeadTail DEF Loads, ListDone
  <2>2. ~Awaited(ListTodos, ListDone)
    BY <2>1, ArrivedFacts, LoneChain DEF Arrived, Awaits
  <2> QED  BY <1>2, <2>2, ArrivedFacts, NotAwaited DEF Listed
<1>5. /\ Sources1 \notin {Create3, Create2, Delete3, Rename2, Rename1}
      /\ Rename2 \notin {S1, S2, Sources1, Delete2, Create3, Create2}
  BY HeadTail
<1> QED  BY <1>1, <1>2, <1>3, <1>4, <1>5, ArrivedQuietly

\* After a login, a logout and the deletion of a workspace all is loaded again.
LEMMA RestartArrives ==
  ASSUME WorkspaceAssumption, Typed, Calm, NEW c \in Calls, Arrived(c),
         Todo(c) \in {Login3, Logout3, Delete4}, UNCHANGED tokens \/ Todo(c) # Delete4,
         shown' = shown \/ \E p : shown' = [shown EXCEPT !.currentProjectId = p]
  PROVE  Accurate'
<1>1. /\ Todo(c) \notin Loads /\ Todo(c) \notin InfoTodos
      /\ Todo(c) # Delete4 => Rest(Todo(c)) = Status2
      /\ Todo(c) = Delete4 => Rest(Todo(c)) = Delete3 /\ Request(c) = "delete"
  BY HeadTail, AwaitedNowhere DEF Loads, Request, Todo
<1>2. Delete3 \in ListTodos /\ Status2 \in ListTodos
  BY DEF ListTodos
<1>3. Awaited(ListTodos, ListDone)' /\ Awaited(SourceTodos, SourceDone)'
  BY <1>1, <1>2, ArrivedAwaited
<1>4. \A d \in Calls : d # c => Fresh1(d)' /\ Prepared(d)'
  BY <1>1, ArrivedFacts, LoneChain DEF Arrived
<1>5. ~Awaited(InfoTodos, {})
  BY <1>1, ArrivedFacts, LoneChain DEF Arrived, Awaits
<1>6. shown'.serverInfo = shown.serverInfo /\ shown'.serverError = shown.serverError
  <2>1. ASSUME NEW p, shown' = [shown EXCEPT !.currentProjectId = p]
        PROVE  shown'.serverInfo = shown.serverInfo /\ shown'.serverError = shown.serverError
    BY <2>1, ArrivedFacts, ScreenFields
  <2> QED  BY <2>1
<1>7. Reachable'
  BY <1>5, <1>6, ArrivedFacts, NotAwaited, ReachableStays
<1>8. Todo(c) = Delete4 => Auth'
  BY <1>1, ArrivedFacts DEF Guardeds
<1>9. /\ Status2 \notin {S1, S2, Sources1, Delete2, Create3, Create2, Delete3, Rename2, Rename1}
      /\ Delete3 \notin {S1, S2, Sources1, Delete2, Create3, Create2}
  BY HeadTail, NothingToPrepare DEF Unprepared
<1>10. Fresh1(c)' /\ Prepared(c)'
  BY <1>1, <1>8, <1>9, LedChain DEF Arrived
<1> QED  BY <1>3, <1>4, <1>7, <1>10
            DEF Accurate, ChainsTrue, ScreenTrue, InfoTrue, ProjectsTrue, SourcesTrue

\* A list that arrives keeps the selected workspace, or takes its first.
LEMMA ListArrived ==
  ASSUME WorkspaceAssumption, ScreenOK, NEW ps \in SUBSET Projects, ProjectsArrive(ps)
  PROVE  /\ shown'.serverInfo = shown.serverInfo /\ shown'.serverError = shown.serverError
         /\ shown'.projects = ps /\ shown'.dataSources = shown.dataSources
         /\ shown'.status = shown.status
         /\ IF Picked \in ps THEN Picked' = Picked /\ saved' = saved
            ELSE Picked' = First(ps) /\ persistServers(servers, url, currentServerId, First(ps))
         /\ IF ps = {} THEN Picked' = None ELSE Picked' \in ps
         /\ (IF ps = {} THEN Picked = None ELSE Picked \in ps) => Picked' = Picked
<1>1. /\ shown'.serverInfo = shown.serverInfo /\ shown'.serverError = shown.serverError
      /\ shown'.projects = ps /\ shown'.dataSources = shown.dataSources
      /\ shown'.status = shown.status
      /\ Picked' = IF Picked \in ps THEN Picked ELSE First(ps)
  BY DEF ProjectsArrive, ScreenOK, ShownType, Picked
<1>2. IF Picked \in ps THEN saved' = saved
      ELSE persistServers(servers, url, currentServerId, First(ps))
  BY DEF ProjectsArrive, Picked
<1>3. ps = {} => First(ps) = None
  BY DEF First
<1>4. ps # {} => First(ps) \in ps
  BY FirstIn
<1> QED  BY <1>1, <1>2, <1>3, <1>4

\* The list of workspaces arrives.
LEMMA ProjectsArrived ==
  ASSUME WorkspaceAssumption, Typed, Calm, NEW c \in Calls, Arrived(c),
         Todo(c) \in {P1, P2, Create3, Rename2, Delete3}, ProjectsArrive(Data(c)), UNCHANGED tokens
  PROVE  Accurate'
<1> DEFINE t == Todo(c)
<1>0. /\ ScreenOK /\ ChainsTrue /\ ScreenTrue /\ Settling /\ Fresh1(c) /\ Prepared(c)
      /\ currentServerUrl' = currentServerUrl /\ (Auth' <=> Auth) /\ Visible' = Visible /\ Self' = Self
      /\ Picked' = Picked => WorldKept
  BY ArrivedFacts
<1>1. Request(c) = "projects"
  BY HeadTail DEF Request, Todo
<1>2. Auth /\ Data(c) = Visible
  BY <1>0, <1>1, ArrivedFacts DEF Arrived, Active, Fresh1, Guardeds
<1>3. Visible \in SUBSET Projects
  BY <1>2, VisibleIs DEF Typed, StoredOK, StoredType, ProjectsAt
<1>4. /\ shown'.serverInfo = shown.serverInfo /\ shown'.serverError = shown.serverError
      /\ shown'.projects = Visible /\ shown'.dataSources = shown.dataSources
      /\ Placed' /\ (Placed => WorldKept)
  BY <1>0, <1>2, <1>3, ListArrived DEF Placed
<1>5. Listed' /\ Auth'
  BY <1>0, <1>2, <1>4 DEF Listed
<1>6. InfoTrue'
  BY <1>0, <1>1, <1>4, ArrivedAwaited, ReachableStays DEF ScreenTrue, InfoTrue
<1>7. SourcesTrue'
  <2>1. CASE t # Rename2
    <3>1. Rest(t) \in {S1, S2, Create2, Delete2}
      BY <2>1, HeadTail
    <3>2. {S1, S2, Create2, Delete2} \subseteq SourceTodos
      BY DEF SourceTodos, ListTodos, Reloads
    <3>3. Awaited(SourceTodos, SourceDone)'
      BY <3>1, <3>2, ArrivedAwaited
    <3> QED  BY <3>3 DEF SourcesTrue
  <2>2. CASE t = Rename2
    <3>1. t \notin Loads /\ t \notin SourceTodos /\ t \notin SourceDone /\ t \notin ListTodos /\ t \notin ListDone
      BY <2>2, HeadTail, AwaitedNowhere DEF Loads, SourceDone, ListDone
    <3>2. ~Awaited(ListTodos, ListDone) /\ ~Awaited(SourceTodos, SourceDone)
      BY <1>0, <3>1, LoneChain DEF Arrived, Awaits
    <3>3. Listed /\ Sourced
      BY <1>0, <3>2, NotAwaited
    <3>4. WorldKept
      BY <1>2, <1>4, <3>3 DEF Listed
    <3> QED  BY <1>4, <3>3, <3>4, SourcedStays DEF SourcesTrue
  <2> QED  BY <2>1, <2>2
<1>8. Fresh1(c)' /\ Prepared(c)'
  <2>1. Rest(t) = Create2 => calls'[c].arg \in Visible'
    <3>1. t = Create3 => calls[c].arg \in Visible
      BY <1>0 DEF Prepared, Arrived
    <3>2. Rest(t) = Create2 => t = Create3
      BY HeadTail
    <3>3. t = Create3 => calls'[c].arg = calls[c].arg
      <4> SUFFICES ASSUME t = Create3  PROVE calls'[c].arg = calls[c].arg
        OBVIOUS
      <4>1. PICK arg : arg = calls[c].arg
        OBVIOUS
      <4>2. Create3 \notin {I1, I2, SL, Status2, S1, S2, Sources1, Delete2, Login3, Logout3, Delete4, Create4,
                            Rename3, Add2, Change2, Drop2}
        BY HeadTail
      <4>3. Moves(c, Going(Rest(Create3), calls[c].arg))
        BY <4>2 DEF Arrived, ArriveStep, Todo
      <4>4. Rest(Create3) = Create2 /\ Create2 \in Todos
        BY HeadTail DEF Todos
      <4>5. Others(c) /\ calls'[c] = Going(Create2, arg)
        BY <4>1, <4>3, <4>4 DEF Moves, Typed, CallsOK, Arrived
      <4> QED  BY <4>1, <4>4, <4>5, GoneOn
    <3> QED  BY <1>0, <3>1, <3>2, <3>3
  <2>2. Rest(t) # Create3
    <3>1. Rest(t) \in {S1, S2, Create2, Rename1, Delete2}
      BY HeadTail
    <3> QED  BY <3>1, HeadTail
  <2>3. Leads(c, Rest(t))
    BY DEF Arrived
  <2> QED  BY <1>4, <1>5, <2>1, <2>2, <2>3, LedChain
<1>9. ASSUME NEW d \in Calls, d # c  PROVE Fresh1(d)' /\ Prepared(d)'
  <2>1. CASE WorldKept
    BY <1>0, <1>9, <2>1, OtherChains DEF Arrived
  <2>2. CASE ~WorldKept /\ Active(d)
    <3>1. Fresh1(d) /\ Prepared(d) /\ calls'[d] = calls[d]
      BY <1>0, <1>9 DEF ChainsTrue, Others, Arrived
    <3>2. /\ Active(d)' = Active(d) /\ Request(d)' = Request(d) /\ Data(d)' = Data(d)
          /\ Todo(d)' = Todo(d) /\ Out(d)' = Out(d)
      BY <3>1 DEF Active, Request, Data, Todo, Out
    <3>3. Request(d) # "sources"
      BY <1>4, <2>2, <3>1 DEF Prepared
    <3>4. Fresh1(d)'
      BY <1>0, <3>1, <3>2, <3>3 DEF Fresh1
    <3>5. Prepared(d)'
      BY <1>0, <3>1, <3>2, <3>3 DEF Prepared
    <3> QED  BY <3>4, <3>5
  <2>3. CASE ~Active(d)
    <3>1. ~Active(d)'
      BY <1>9, <2>3 DEF Arrived, Others, Active
    <3> QED  BY <3>1, IdleChain
  <2> QED  BY <2>1, <2>2, <2>3
<1> QED  BY <1>5, <1>6, <1>7, <1>8, <1>9 DEF Accurate, ChainsTrue, ScreenTrue, ProjectsTrue

\* Whatever succeeds leaves the screen true, or awaited.
LEMMA ArrivedAccurate ==
  ASSUME WorkspaceAssumption, Typed, Calm, NEW c \in Calls, Arrived(c)
  PROVE  Accurate'
<1> DEFINE t == Todo(c)
           data == Data(c)
<1>1. CASE /\ t \in {I1, I2} /\ shown' = [shown EXCEPT !.serverInfo = data, !.serverError = FALSE]
           /\ UNCHANGED tokens
  BY <1>1, InfoArrives
<1>2. CASE t \in {SL, Status2} /\ shown' = [shown EXCEPT !.status = data] /\ UNCHANGED tokens
  BY <1>2, StatusArrives
<1>3. CASE t \in {P1, P2, Create3, Rename2, Delete3} /\ ProjectsArrive(data) /\ UNCHANGED tokens
  BY <1>3, ProjectsArrived
<1>4. CASE /\ t \in {S1, S2, Sources1, Delete2} /\ shown' = [shown EXCEPT !.dataSources = data]
           /\ UNCHANGED tokens
  BY <1>4, SourcesArrive
<1>5. CASE t \in {Login3, Logout3} /\ UNCHANGED shown
  BY <1>5, RestartArrives, HeadTail
<1>6. CASE t = Delete4 /\ UNCHANGED tokens /\ \E p : shown' = [shown EXCEPT !.currentProjectId = p]
  BY <1>6, RestartArrives
<1>7. CASE t = Create4 /\ Moves(c, Going(Create3, data)) /\ UNCHANGED <<shown, tokens>>
  BY <1>7, CreatedArrives
<1>8. CASE t \in {Rename3, Add2, Change2, Drop2} /\ UNCHANGED <<shown, tokens>>
  BY <1>8, ChangeArrives
<1>9. Rest(Create4) = Create3
  BY HeadTail
<1>10. t = Delete4 /\ shown' = [shown EXCEPT !.currentProjectId = IF @ = calls[c].arg THEN None ELSE @]
         => \E p : shown' = [shown EXCEPT !.currentProjectId = p]
  OBVIOUS
<1> QED  BY <1>1, <1>2, <1>3, <1>4, <1>5, <1>6, <1>7, <1>8, <1>9, <1>10
            DEF Arrived, ArriveStep, Todo, Data

\* The only answers that fail: a list nobody is signed in for, and refusals
\* of what was asked.
LEMMA FailedAccurate ==
  ASSUME WorkspaceAssumption, Typed, Calm, NEW c \in Calls, Receive(c), calls[c].answer.code # "ok"
  PROVE  Accurate' /\ (Todo(c) \in StatusTodos => Leads(c, SL)) /\ shown'.status = shown.status
         /\ UNCHANGED <<place, saved, tokens, stored>> /\ Picked' = Picked /\ ~GotOk(c)
         /\ Todo(c) # Delete3 /\ Others(c)
<1> DEFINE t == Todo(c)
           code == calls[c].answer.code
<1>0. /\ Active(c) /\ ~GotOk(c) /\ calls[c].at = "answered" /\ t \in Todos /\ FailStep(c)
      /\ Head(t) \in Requests /\ UNCHANGED <<place, saved, stored, ops, trouble>> /\ Others(c)
      /\ CallsOK
  BY Receives, ReceiveMoves DEF Typed, Active, GotOk, Ok, Chain, Todo
<1>1. ScreenOK /\ ChainsTrue /\ ScreenTrue /\ Settling /\ Fresh1(c) /\ Prepared(c)
  BY DEF Typed, Calm, Accurate, ChainsTrue
<1>2. /\ Request(c) \notin {"info", "status", "syncStatus", "logout", "sources"}
      /\ Request(c) = "projects" => ~Auth /\ code = "denied"
  BY <1>0, <1>1 DEF Fresh1, Active
<1>3. t \in {P1, P2, Login3, Create4, Rename3, Delete4, Add2, Change2, Drop2}
  <2>1. t \notin {Create3, Delete3, Rename2}
    <3>1. t \in {Create3, Delete3, Rename2} => Request(c) = "projects"
      BY HeadTail DEF Request, Todo
    <3> QED  BY <1>0, <1>1, <1>2, <3>1 DEF Prepared
  <2>2. Request(c) \in Requests
    BY <1>0 DEF Request, Todo, NextStep
  <2>3. t \notin {SL, I1, I2, S1, S2, Sources1, Delete2, Status2, Logout3}
    BY <1>2, HeadTail DEF Request, Todo
  <2>4. t \notin {L1, L2, D1, D2, Create2, Rename1, Delete1}
    BY <2>2, HeadTail DEF Request, Todo, Requests
  <2> QED  BY <1>0, <2>1, <2>3, <2>4 DEF Todos, Loads
<1>4. \A todos, done : Awaits(c, todos, done) => t \in todos
  BY <1>0 DEF Awaits
<1>5. currentServerUrl' = currentServerUrl
  BY <1>0, SameUrl
<1>6. CASE t \in {P1, P2}
  <2>1. ~Auth /\ code = "denied"
    BY <1>2, <1>6, HeadTail DEF Request, Todo
  <2>2. /\ Moves(c, Going(IF t = P1 THEN <<>> ELSE SL, calls[c].arg)) /\ shown' = Denied(shown)
        /\ UNCHANGED tokens
    <3>1. P1 \notin {Logout3, SL} /\ P2 \notin {Logout3, SL} /\ P2 \notin {I1, P1, S1}
      BY HeadTail, Distinct
    <3>2. t \notin {Logout3, SL}
      BY <1>6, <3>1
    <3>3. t \in {I1, P1, S1} <=> t = P1
      BY <1>6, <3>1
    <3> QED  BY <1>0, <1>6, <2>1, <3>2, <3>3 DEF FailStep, Todo
  <2>3. PICK todo : todo = IF t = P1 THEN Nil ELSE SL
    OBVIOUS
  <2>4. Leads(c, todo) /\ todo \in Unprepared
    <3>1. PICK arg : arg = calls[c].arg
      OBVIOUS
    <3>2. calls'[c] = Going(todo, arg)
      BY <1>0, <2>2, <2>3, <3>1 DEF Moves, CallsOK, Nil
    <3>3. SL \in Todos
      BY DEF Todos, Loads
    <3>4. todo = Nil \/ todo \in Todos
      BY <2>3, <3>3
    <3> QED  BY <1>0, <2>3, <3>2, <3>4, GoesTo DEF Unprepared
  <2>5. /\ shown'.serverInfo = shown.serverInfo /\ shown'.serverError = FALSE
        /\ shown'.projects = {} /\ shown'.dataSources = {} /\ Picked' = Picked
        /\ shown'.status = shown.status
    BY <1>1, <2>2 DEF Denied, ScreenOK, ShownType, Picked
  <2>6. WorldKept
    BY <1>0, <1>5, <2>2, <2>5, ServerKept DEF WorldKept
  <2>7. Visible' = {} /\ ~Auth'
    BY <2>1, <2>6, VisibleIs DEF WorldKept
  <2>8. Listed' /\ Sourced'
    BY <2>5, <2>7 DEF Listed, Sourced
  <2>9. InfoTrue'
    <3>1. t \in InfoTodos => todo \in InfoTodos
      BY <1>6, <2>3, AwaitedNowhere DEF InfoTodos
    <3>2. Awaited(InfoTodos, {}) => Awaited(InfoTodos, {})'
      BY <1>0, <1>4, <2>4, <3>1, LeadsAwaited, TodoSets
    <3> QED  BY <1>1, <1>5, <2>5, <3>2, ReachableStays DEF ScreenTrue, InfoTrue
  <2>10. ChainsTrue'
    BY <1>0, <1>1, <2>4, <2>6, LedChains, NothingToPrepare
  <2>11. t \in StatusTodos => Leads(c, SL)
    <3>1. P1 \notin StatusTodos
      BY AwaitedNowhere, HeadTail DEF StatusTodos, InfoTodos
    <3> QED  BY <2>3, <2>4, <3>1
  <2>12. t # Delete3
    BY <1>6, Distinct
  <2> QED  BY <1>0, <2>2, <2>5, <2>8, <2>9, <2>10, <2>11, <2>12
              DEF Accurate, ScreenTrue, ProjectsTrue, SourcesTrue
<1>7. CASE t \in {Login3, Create4, Rename3, Delete4, Add2, Change2, Drop2}
  <2>1. t \notin {I1, P1, S1, I2, P2, S2, Logout3, SL, Delete3} /\ t \notin Loads /\ t \notin StatusTodos
    BY <1>7, HeadTail DEF Loads, StatusTodos
  <2>2. calls'[c] = Over /\ UNCHANGED <<shown, tokens>>
    BY <1>0, <2>1 DEF FailStep, Todo, Moves, CallsOK
  <2>3. t \notin InfoTodos /\ t \notin ListTodos /\ t \notin SourceTodos
    BY <1>7, AwaitedNowhere, TodoSets
  <2>4. /\ \A d \in Calls : d # c => Fresh1(d)' /\ Prepared(d)'
        /\ ~Awaited(InfoTodos, {}) /\ ~Awaited(ListTodos, ListDone) /\ ~Awaited(SourceTodos, SourceDone)
    <3>1. \A d \in Calls : d # c => ~Active(d)
      BY <1>0, <1>1, <2>1, LoneChain
    <3>2. \A todos, done : Awaited(todos, done) => t \in todos
      BY <1>0, <1>4, <3>1 DEF Awaited, Awaits
    <3> QED  BY <1>0, <1>1, <2>1, <2>3, <3>2, LoneChain
  <2>5. WorldKept
    BY <1>0, <1>5, <2>2, ServerKept DEF WorldKept, Picked
  <2>6. Reachable' /\ Listed' /\ Sourced'
    BY <1>1, <1>5, <2>2, <2>4, <2>5, NotAwaited, ReachableStays, ListedStays, SourcedStays
  <2>7. Fresh1(c)' /\ Prepared(c)'
    <3>1. ~Active(c)'
      BY <2>2 DEF Active
    <3> QED  BY <3>1, IdleChain
  <2> QED  BY <1>0, <2>1, <2>2, <2>4, <2>6, <2>7
              DEF Accurate, ChainsTrue, ScreenTrue, InfoTrue, ProjectsTrue, SourcesTrue, Picked
<1> QED  BY <1>3, <1>6, <1>7

\* So does whatever answer is taken.
LEMMA ReceiveAccurate ==
  ASSUME WorkspaceAssumption, Typed, Calm, NEW c \in Calls, Receive(c)  PROVE Accurate'
BY ReceivedOk, ArrivedAccurate, FailedAccurate

\* A settled screen, and the acts on it.
LEMMA QuietScreen == ASSUME Quiet, ScreenTrue  PROVE Reachable /\ Listed /\ Sourced
BY NoneAwaited, NotAwaited

\* A chain just begun, alone or beside another.
LEMMA NewChain ==
  ASSUME NEW d \in Calls, Todo(d)' \in {L1, SL, L2} \cup Asking, ~Out(d)'
  PROVE  Fresh1(d)' /\ Prepared(d)'
<1>1. Todo(d)' \notin {S1, S2, Sources1, Delete2, Create3, Create2, Delete3, Rename2, Rename1}
  BY HeadTail DEF Asking
<1>2. Request(d)' # "sources"
  BY HeadTail DEF Asking, Request, Todo
<1> QED  BY <1>1, <1>2 DEF Fresh1, Prepared, Out, Active

StatusTrue == shown.status = Self \/ Awaited(StatusTodos, {Logout3})
SavedTrue == saved.project = Picked \/ (Picked = None /\ UnderWay({Delete3}))

\* Another server, or another address: a load is under way.
LEMMA SwitchAccurate ==
  ASSUME Quiet, Switch
  PROVE  /\ Accurate' /\ SavedTrue'
         /\ StatusTrue /\ "readdressed" \notin trouble' => StatusTrue'
<1>1. ASSUME NEW d \in Calls, Active(d)'  PROVE calls'[d] = Start(L1, None) \/ calls'[d] = Start(SL, None)
  <2>1. ~Active(d)
    BY DEF Quiet, Active
  <2>2. calls'[d] # calls[d]
    BY <1>1, <2>1 DEF Active
  <2> QED  BY <2>2 DEF Switch, LoadBegun, Begun, Sync
<1>2. {L1, SL} \subseteq Todos /\ {L1, SL} \subseteq InfoTodos
      /\ {L1, SL} \subseteq ListTodos /\ {L1, SL} \subseteq SourceTodos /\ SL \in StatusTodos
  BY DEF Todos, Loads, InfoTodos, ListTodos, SourceTodos, StatusTodos, Reloads
<1>3. ChainsTrue'
  <2> SUFFICES ASSUME NEW d \in Calls  PROVE Fresh1(d)' /\ Prepared(d)'
    BY DEF ChainsTrue
  <2>1. Active(d)' => Todo(d)' \in {L1, SL} /\ ~Out(d)'
    BY <1>1, <1>2, Fresh
  <2> QED  BY <2>1, NewChain, IdleChain
<1>4. PICK c \in Calls : calls'[c] = Start(L1, None)
  BY DEF Switch, LoadBegun, Begun
<1>5. Active(c)' /\ Todo(c)' = L1
  BY <1>2, <1>4, Fresh
<1>6. ScreenTrue'
  BY <1>2, <1>5 DEF ScreenTrue, InfoTrue, ProjectsTrue, SourcesTrue, Awaited, Awaits
<1>7. SavedTrue'
  BY DEF Switch, SavedTrue, Picked
<1>8. ASSUME StatusTrue, "readdressed" \notin trouble'  PROVE StatusTrue'
  <2>1. CASE currentServerUrl' = currentServerUrl
    <3>1. Self' = Self /\ shown'.status = shown.status
      BY <2>1, ServerKept DEF Switch
    <3> QED  BY <1>8, <3>1, NoneAwaited DEF StatusTrue
  <2>2. CASE Begun({Start(L1, None), Sync})
    <3>1. PICK d \in Calls : calls'[d] = Start(SL, None)
      BY <2>2 DEF Begun, Sync
    <3>2. Active(d)' /\ Todo(d)' = SL
      BY <1>2, <3>1, Fresh
    <3> QED  BY <1>2, <3>2 DEF StatusTrue, Awaited, Awaits
  <2> QED  BY <1>8, <2>1, <2>2 DEF Switch, LoadBegun
<1> QED  BY <1>3, <1>6, <1>7, <1>8 DEF Accurate

\* A server that is not selected is edited: nothing changes.
LEMMA EditAccurate ==
  ASSUME Accurate, Quiet, Edit  PROVE Accurate' /\ SavedTrue' /\ (StatusTrue => StatusTrue')
<1>1. /\ currentServerUrl' = currentServerUrl /\ UNCHANGED <<tokens, stored>> /\ Picked' = Picked
      /\ shown' = shown /\ calls' = calls /\ saved'.project = Picked
  BY DEF Edit, Picked
<1>2. WorldKept
  BY <1>1, ServerKept DEF WorldKept
<1>3. Reachable /\ Listed /\ Sourced
  BY QuietScreen DEF Accurate
<1>4. Reachable' /\ Listed' /\ Sourced'
  BY <1>1, <1>2, <1>3, ReachableStays, ListedStays, SourcedStays
<1>5. \A d \in Calls : ~Active(d)'
  BY <1>1 DEF Quiet, Active
<1>6. ChainsTrue'
  BY <1>5, IdleChain DEF ChainsTrue
<1>7. StatusTrue => StatusTrue'
  BY <1>1, <1>2, NoneAwaited DEF StatusTrue, WorldKept
<1> QED  BY <1>1, <1>4, <1>6, <1>7 DEF Accurate, ScreenTrue, InfoTrue, ProjectsTrue, SourcesTrue, SavedTrue

\* Another workspace: its data sources are under way.
LEMMA PickAccurate ==
  ASSUME ScreenOK, Accurate, Quiet, PickProject
  PROVE  Accurate' /\ SavedTrue' /\ (StatusTrue => StatusTrue')
<1>1. PICK p \in shown.projects : shown' = [shown EXCEPT !.currentProjectId = p] /\ saved'.project = p
  BY DEF PickProject
<1>2. PICK c \in Calls : calls'[c] = Start(Sources1, None) /\ Others(c)
  BY DEF PickProject, AskBegun
<1>3. Sources1 \in Todos /\ Sources1 \in SourceTodos
  BY DEF Todos, SourceTodos
<1>4. Active(c)' /\ Todo(c)' = Sources1 /\ ~Out(c)' /\ \A d \in Calls : d # c => ~Active(d)'
  BY <1>2, <1>3, QuietAsk
<1>5. Reachable /\ Listed /\ Sourced
  BY QuietScreen DEF Accurate
<1>6. /\ currentServerUrl' = currentServerUrl /\ (Auth' <=> Auth) /\ Visible' = Visible /\ Self' = Self
  BY SameUrl, ServerKept DEF PickProject
<1>7. /\ Picked' = p /\ shown'.projects = shown.projects /\ shown'.serverInfo = shown.serverInfo
      /\ shown'.serverError = shown.serverError /\ shown'.status = shown.status
  BY <1>1, ScreenFields DEF Picked
<1>8. p \in Visible /\ Auth
  BY <1>1, <1>5, VisibleIs DEF Listed
<1>9. Placed' /\ Auth'
  BY <1>6, <1>7, <1>8 DEF Placed
<1>10. Reachable' /\ Listed'
  BY <1>5, <1>6, <1>7, <1>9, ReachableStays DEF Listed
<1>11. Awaited(SourceTodos, SourceDone)'
  BY <1>3, <1>4 DEF Awaited, Awaits
<1>12. Fresh1(c)' /\ Prepared(c)'
  <2>1. Sources1 \notin {Create3, Create2, Delete3, Rename2, Rename1}
    BY HeadTail
  <2> QED  BY <1>4, <1>9, <2>1 DEF Fresh1, Prepared, Out, Active
<1>13. ChainsTrue'
  BY <1>4, <1>12, IdleChain DEF ChainsTrue
<1>14. SavedTrue' /\ (StatusTrue => StatusTrue')
  BY <1>1, <1>6, <1>7, NoneAwaited DEF SavedTrue, StatusTrue
<1> QED  BY <1>10, <1>11, <1>13, <1>14 DEF Accurate, ScreenTrue, InfoTrue, ProjectsTrue, SourcesTrue

\* A request is begun, and nothing has changed yet.
LEMMA AskAccurate ==
  ASSUME Accurate, SavedTrue, Quiet, Ask
  PROVE  Accurate' /\ SavedTrue' /\ (StatusTrue => StatusTrue')
<1>1. PICK t \in Asking : \E arg : AskBegun(t, arg)
  BY DEF Ask
<1>2. PICK arg : AskBegun(t, arg)
  BY <1>1
<1>3. PICK c \in Calls : calls'[c] = Start(t, arg) /\ Others(c)
  BY <1>2 DEF AskBegun
<1>4. t \in Todos
  BY AskingIsTodos
<1>5. Active(c)' /\ Todo(c)' = t /\ ~Out(c)' /\ \A d \in Calls : d # c => ~Active(d)'
  BY <1>3, <1>4, QuietAsk
<1>6. WorldKept /\ currentServerUrl' = currentServerUrl /\ shown' = shown /\ saved' = saved
  BY SameUrl, ServerKept DEF Ask, WorldKept, Picked
<1>7. Reachable /\ Listed /\ Sourced
  BY QuietScreen DEF Accurate
<1>8. Reachable' /\ Listed' /\ Sourced'
  BY <1>6, <1>7, ReachableStays, ListedStays, SourcedStays
<1>9. ChainsTrue'
  BY <1>5, NewChain, IdleChain DEF ChainsTrue
<1>10. SavedTrue' /\ (StatusTrue => StatusTrue')
  BY <1>6, NoneAwaited, NoneUnderWay DEF SavedTrue, StatusTrue, WorldKept
<1> QED  BY <1>8, <1>9, <1>10 DEF Accurate, ScreenTrue, InfoTrue, ProjectsTrue, SourcesTrue

\* The load a page starts with brings everything.
LEMMA OpenedAccurate ==
  ASSUME NEW c \in Calls, calls'[c] = Start(L2, None),
         \A d \in Calls \ {c} : calls'[d] = Over \/ calls'[d].at = "orphan"
  PROVE  Accurate' /\ StatusTrue'
<1>1. /\ L2 \in Todos /\ L2 \in InfoTodos /\ L2 \in ListTodos /\ L2 \in SourceTodos /\ L2 \in StatusTodos
  BY DEF Todos, Loads, InfoTodos, ListTodos, SourceTodos, StatusTodos, Reloads
<1>2. Active(c)' /\ Todo(c)' = L2 /\ ~Out(c)'
  BY <1>1, Fresh
<1>3. \A d \in Calls : d # c => ~Active(d)'
  BY DEF Active
<1>4. ChainsTrue'
  BY <1>2, <1>3, NewChain, IdleChain DEF ChainsTrue
<1> QED  BY <1>1, <1>2, <1>4
            DEF Accurate, ScreenTrue, InfoTrue, ProjectsTrue, SourcesTrue, StatusTrue, Awaited, Awaits

\* Who is signed in, and the saved workspace, step by step.
LEMMA StillStatus ==
  ASSUME NEW c \in Calls, NEW todo, Leads(c, todo), Others(c), StatusTrue, Self' = Self,
         shown'.status = shown.status, Awaits(c, StatusTodos, {Logout3}) => todo \in StatusTodos
  PROVE  StatusTrue'
BY LeadsAwaited, TodoSets DEF StatusTrue

\* So is the saved workspace.
LEMMA StillSaved ==
  ASSUME NEW c \in Calls, Others(c), SavedTrue, Picked' = Picked, saved' = saved, Todo(c) # Delete3
  PROVE  SavedTrue'
BY UnderWayStill DEF SavedTrue

\* Steps between two requests leave the status true, or awaited,
LEMMA ProceedStatus ==
  ASSUME WorkspaceAssumption, Typed, StatusTrue, NEW c \in Calls, Proceed(c)
  PROVE  StatusTrue'
<1> DEFINE t == Todo(c)
<1>0. /\ calls[c].at = "ready" /\ ~GotOk(c) /\ Others(c) /\ UNCHANGED <<place, tokens, stored, ops, trouble>>
  BY ProceedCases
<1>1. Self' = Self
  BY <1>0, SameUrl, ServerKept
<1>2. shown'.status = shown.status
  <2>1. ScreenOK
    BY DEF Typed
  <2>2. /\ [shown EXCEPT !.serverError = FALSE].status = shown.status
        /\ [shown EXCEPT !.currentProjectId = calls[c].arg].status = shown.status
        /\ [shown EXCEPT !.dataSources = {}].status = shown.status
    BY <2>1, ScreenFields
  <2> QED  BY <2>2, ProceedCases
<1>3. \E todo : Leads(c, todo) /\ (t \in StatusTodos => todo \in StatusTodos)
  <2>1. t \in StatusTodos => t \notin {L1, D1, S1, Sources1, Delete2, Create2, Rename1, Delete1}
    <3>1. StatusTodos \cap {L1, Create2, D1, S1, Sources1, Delete2, Rename1, Delete1} = {}
      <4>1. L1 \notin StatusTodos
        BY HeadTail, LoadOpens DEF StatusTodos
      <4>2. StatusTodos \subseteq InfoTodos \cup {Status2}
        BY DEF StatusTodos, InfoTodos
      <4>3. \A x \in {Create2, D1, S1, Sources1, Delete2, Rename1, Delete1} : x \notin InfoTodos /\ x # Status2
        BY AwaitedNowhere, HeadTail
      <4> QED  BY <4>1, <4>2, <4>3
    <3> QED  BY <3>1
  <2>2. I2 \in StatusTodos /\ SL \in StatusTodos /\ D2 \in StatusTodos /\ Rest(D2) = SL /\ Rest(S2) = D2
    BY HeadTail DEF StatusTodos
  <2>3. CASE t \in StatusTodos
    <3>1. \/ t = L2 /\ Leads(c, I2)
          \/ t \in {D2, S2} /\ Leads(c, Rest(t))
      BY <2>1, <2>3, LoadOpens, ProceedCases
    <3> QED  BY <2>2, <3>1
  <2>4. CASE t \notin StatusTodos
    BY <2>4, ProceedLeads
  <2> QED  BY <2>3, <2>4
<1>4. Awaits(c, StatusTodos, {Logout3}) => t \in StatusTodos
  BY <1>0 DEF Awaits
<1> QED  BY <1>0, <1>1, <1>2, <1>3, <1>4, StillStatus

\* and the saved workspace.
LEMMA ProceedSaved ==
  ASSUME WorkspaceAssumption, Typed, SavedTrue, NEW c \in Calls, Proceed(c)
  PROVE  SavedTrue'
<1>0. ScreenOK /\ Others(c)
  BY ProceedCases DEF Typed
<1>1. CASE \E p : shown' = [shown EXCEPT !.currentProjectId = p] /\ persistServers(servers, url, currentServerId, p)
  BY <1>0, <1>1, ScreenFields DEF persistServers, SavedTrue, Picked
<1>2. CASE shown' = shown /\ persistServers(servers, url, currentServerId, Picked)
  BY <1>2 DEF persistServers, SavedTrue, Picked
<1>3. CASE Todo(c) \in {L1, L2, D1, D2, Rename1, S1, S2, Sources1, Delete2} /\ saved' = saved /\ Picked' = Picked
  <2>1. Todo(c) # Delete3
    BY <1>3, HeadTail
  <2> QED  BY <1>0, <1>3, <2>1, StillSaved
<1>4. /\ [shown EXCEPT !.serverError = FALSE].currentProjectId = Picked
      /\ [shown EXCEPT !.dataSources = {}].currentProjectId = Picked
  BY <1>0, ScreenFields
<1>5. \/ \E p : shown' = [shown EXCEPT !.currentProjectId = p] /\ persistServers(servers, url, currentServerId, p)
      \/ shown' = shown /\ persistServers(servers, url, currentServerId, Picked)
      \/ Todo(c) \in {L1, L2, D1, D2, Rename1, S1, S2, Sources1, Delete2} /\ saved' = saved /\ Picked' = Picked
  BY <1>4, ProceedCases DEF Picked
<1> QED  BY <1>1, <1>2, <1>3, <1>5

\* So does sending a request.
LEMMA SendStatus ==
  ASSUME WorkspaceAssumption, Typed, NEW c \in Calls, Send(c)
  PROVE  (StatusTrue => StatusTrue') /\ (SavedTrue => SavedTrue')
<1>1. /\ Active(c) /\ calls[c].at = "ready" /\ Others(c) /\ SameChain(c) /\ calls'[c].at = "sent"
      /\ UNCHANGED <<place, shown, saved, tokens, stored, ops, trouble>>
  BY Sends DEF Typed, Active
<1>2. Awaited(StatusTodos, {Logout3}) => Awaited(StatusTodos, {Logout3})'
  BY <1>1, SameAwaited
<1>3. Self' = Self
  BY <1>1, SameUrl, ServerKept
<1>4. UnderWay({Delete3}) => UnderWay({Delete3})'
  BY <1>1, SameIsUnmoved DEF Unmoved, UnderWay
<1> QED  BY <1>1, <1>2, <1>3, <1>4 DEF StatusTrue, SavedTrue, Picked

\* An answer that signs in or out is followed by the question who is.
LEMMA ServeStatus ==
  ASSUME WorkspaceAssumption, Typed, Settling, NEW c \in Calls, Serve(c), "other" \notin trouble'
  PROVE  (StatusTrue => StatusTrue') /\ (SavedTrue => SavedTrue')
<1>1. calls[c] # Over /\ Others(c) /\ UNCHANGED <<place, shown, saved, tokens, ops>>
  BY Serves DEF Typed
<1>2. PICK o \in Outcome(c) : stored' = o.after /\ calls[c].at = "sent" /\ Settles(c, o.code, o.data)
  BY Serves DEF Typed
<1>3. SameChain(c) /\ calls'[c].at = "answered" /\ Active(c)
  BY <1>1, <1>2 DEF Settles, Active
<1>4. UnderWay({Delete3}) => UnderWay({Delete3})'
  BY <1>1, <1>3, SameIsUnmoved DEF Unmoved, UnderWay
<1>5. ASSUME Todo(c) # Logout3, StatusTrue  PROVE StatusTrue'
  <2>1. Self' = Self
    BY <1>1, <1>2, <1>3, <1>5, AnswerWorld
  <2>2. Awaited(StatusTodos, {Logout3}) => Awaited(StatusTodos, {Logout3})'
    BY <1>1, <1>2, <1>3, SameAwaited
  <2> QED  BY <1>1, <1>5, <2>1, <2>2 DEF StatusTrue
<1>6. ASSUME Todo(c) = Logout3  PROVE StatusTrue'
  <2>1. StoredOK /\ calls[c].sent \in Sent
    BY <1>1, <1>2, Waiting DEF Typed
  <2>2. Head(calls[c].todo) = "logout"
    BY <1>6, HeadTail DEF Todo, NextStep
  <2>3. LogoutDone(calls[c].sent, o)
    BY <2>2, Sessions DEF Outcome
  <2>4. o.code = "ok"
    BY <2>1, <2>3, AfterSessions
  <2>5. Active(c)' /\ Todo(c)' = Logout3
    BY <1>1, <1>3, <1>6, SameIsUnmoved DEF Unmoved
  <2>6. GotOk(c)'
    BY <1>2, <2>4, <2>5 DEF Settles, GotOk, Ok, Active
  <2> QED  BY <2>5, <2>6 DEF StatusTrue, Awaited, Awaits
<1> QED  BY <1>1, <1>4, <1>5, <1>6 DEF SavedTrue, Picked

\* The status that arrives is the one of the selected server.
LEMMA ReceiveStatus ==
  ASSUME WorkspaceAssumption, Typed, Calm, StatusTrue, NEW c \in Calls, Receive(c)
  PROVE  StatusTrue'
<1> DEFINE t == Todo(c)
           data == Data(c)
<1>1. CASE calls[c].answer.code # "ok"
  <2>1. /\ t \in StatusTodos => Leads(c, SL)
        /\ shown'.status = shown.status /\ UNCHANGED <<place, tokens, stored>> /\ ~GotOk(c) /\ Others(c)
    BY <1>1, FailedAccurate
  <2>2. Self' = Self
    BY <2>1, SameUrl, ServerKept
  <2>3. SL \in StatusTodos
    BY DEF StatusTodos
  <2>4. \E todo : Leads(c, todo) /\ (t \in StatusTodos => todo = SL)
    BY <2>1, ReceiveLeads
  <2>5. Awaits(c, StatusTodos, {Logout3}) => t \in StatusTodos
    BY <2>1 DEF Awaits
  <2> QED  BY <2>1, <2>2, <2>3, <2>4, <2>5, StillStatus
<1>2. CASE calls[c].answer.code = "ok"
  <2>0. Arrived(c) /\ ScreenOK
    BY <1>2, ReceivedOk DEF Typed
  <2>1. CASE t \in {SL, Status2} /\ shown' = [shown EXCEPT !.status = data] /\ UNCHANGED tokens
    BY <2>0, <2>1, StatusArrives DEF StatusTrue
  <2>2. CASE t \in {Login3, Logout3}
    <3>1. Rest(t) = Status2 /\ Status2 \in StatusTodos
      BY <2>2, HeadTail DEF StatusTodos
    <3>2. t \notin StatusTodos \/ Rest(t) \in StatusTodos
      BY <3>1
    <3> QED  BY <2>0, <3>1, LeadsAwaited, TodoSets DEF Arrived, StatusTrue, Awaits
  <2>3. CASE t \notin {SL, Status2, Login3, Logout3} /\ UNCHANGED tokens /\ shown'.status = shown.status
    <3>1. Self' = Self
      BY <2>0, <2>3, SameUrl, ServerKept DEF Arrived
    <3>2. t \in StatusTodos => Rest(t) \in StatusTodos
      <4>1. t \notin {L2, D2}
        BY <2>0, HeadTail DEF Arrived, NextStep, Requests
      <4>2. t \in StatusTodos => t \in {I2, P2, S2}
        BY <2>3, <4>1 DEF StatusTodos
      <4>3. {P2, S2, D2} \subseteq StatusTodos
        BY DEF StatusTodos
      <4> QED  BY <4>2, <4>3, HeadTail
    <3>3. Awaits(c, StatusTodos, {Logout3}) => t \in StatusTodos
      BY <2>3 DEF Awaits
    <3> QED  BY <2>0, <2>3, <3>1, <3>2, <3>3, StillStatus DEF Arrived
  <2>4. \/ t \in {SL, Status2} /\ shown' = [shown EXCEPT !.status = data] /\ UNCHANGED tokens
        \/ t \in {Login3, Logout3}
        \/ t \notin {SL, Status2, Login3, Logout3} /\ UNCHANGED tokens /\ shown'.status = shown.status
    <3>1. /\ ProjectsArrive(data) => shown'.status = shown.status
          /\ \A x : shown' = [shown EXCEPT !.dataSources = x] => shown'.status = shown.status
          /\ \A x : shown' = [shown EXCEPT !.currentProjectId = x] => shown'.status = shown.status
          /\ \A x : shown' = [shown EXCEPT !.serverInfo = x, !.serverError = FALSE] => shown'.status = shown.status
      BY <2>0 DEF ScreenOK, ShownType, ProjectsArrive
    <3>2. ASSUME NEW s \in {I1, I2, P1, P2, Create3, Rename2, Delete3, S1, S2, Sources1, Delete2, Delete4, Create4,
                            Rename3, Add2, Change2, Drop2}
          PROVE  s \notin {SL, Status2, Login3, Logout3}
      BY HeadTail
    <3>3. t = Delete4 /\ shown' = [shown EXCEPT !.currentProjectId = IF @ = calls[c].arg THEN None ELSE @]
            => \E x : shown' = [shown EXCEPT !.currentProjectId = x]
      OBVIOUS
    <3> QED  BY <2>0, <3>1, <3>2, <3>3 DEF Arrived, ArriveStep, Todo, Data
  <2> QED  BY <2>1, <2>2, <2>3, <2>4
<1> QED  BY <1>1, <1>2

\* The list's arrival saves the workspace it selects.
LEMMA ReceiveSaved ==
  ASSUME WorkspaceAssumption, Typed, Calm, SavedTrue, NEW c \in Calls, Receive(c)
  PROVE  SavedTrue'
<1> DEFINE t == Todo(c)
           data == Data(c)
<1>1. CASE calls[c].answer.code # "ok"
  BY <1>1, FailedAccurate, StillSaved
<1>2. CASE calls[c].answer.code = "ok"
  <2>0. Arrived(c) /\ ScreenOK /\ Others(c)
    BY <1>2, ReceivedOk DEF Typed, Arrived
  <2>1. CASE Request(c) = "projects" /\ ProjectsArrive(data)
    <3>1. data \in SUBSET Projects
      BY <2>1, <1>2, Receives DEF Typed, Fits, Request, NextStep, Data
    <3>2. IF Picked \in data THEN Picked' = Picked /\ saved' = saved ELSE saved'.project = Picked'
      BY <2>0, <2>1, <3>1, ListArrived DEF persistServers
    <3>3. Picked \in data => saved.project = Picked
      BY <3>1 DEF SavedTrue, WorkspaceAssumption
    <3> QED  BY <3>2, <3>3 DEF SavedTrue
  <2>2. CASE t = Delete4 /\ saved' = saved /\ Picked' \in {Picked, None}
    <3>1. Rest(t) = Delete3 /\ Delete3 \in Todos
      BY <2>2, HeadTail DEF Todos
    <3>2. Active(c)' /\ Todo(c)' = Delete3
      BY <2>0, <3>1, LeadsTo DEF Arrived
    <3>3. UnderWay({Delete3})'
      BY <3>2 DEF UnderWay
    <3> QED  BY <2>2, <3>3 DEF SavedTrue
  <2>3. CASE t # Delete3 /\ saved' = saved /\ Picked' = Picked
    BY <2>0, <2>3, StillSaved
  <2>4. \/ Request(c) = "projects" /\ ProjectsArrive(data)
        \/ t = Delete4 /\ saved' = saved /\ Picked' \in {Picked, None}
        \/ t # Delete3 /\ saved' = saved /\ Picked' = Picked
    <3>1. /\ \A x : shown' = [shown EXCEPT !.dataSources = x] => Picked' = Picked
          /\ \A x : shown' = [shown EXCEPT !.status = x] => Picked' = Picked
          /\ \A x : shown' = [shown EXCEPT !.currentProjectId = x] => Picked' = x
          /\ \A x : shown' = [shown EXCEPT !.serverInfo = x, !.serverError = FALSE] => Picked' = Picked
      BY <2>0 DEF ScreenOK, ShownType, Picked
    <3>2. \A s \in {I1, I2, SL, Status2, S1, S2, Sources1, Delete2, Login3, Logout3, Create4,
                    Rename3, Add2, Change2, Drop2} : s # Delete3
      BY HeadTail
    <3>3. t \in {P1, P2, Create3, Rename2, Delete3} => Request(c) = "projects"
      BY HeadTail DEF Request, Todo
    <3>4. shown' = [shown EXCEPT !.currentProjectId = IF @ = calls[c].arg THEN None ELSE @]
            => Picked' \in {Picked, None}
      BY <3>1 DEF Picked
    <3> QED  BY <2>0, <3>1, <3>2, <3>3, <3>4 DEF Arrived, ArriveStep, Todo, Data, Picked
  <2> QED  BY <2>1, <2>2, <2>3, <2>4
<1> QED  BY <1>1, <1>2

\* The invariant: as long as nothing failed and nobody interfered.
Clean ==
  /\ trouble \subseteq {"readdressed"} => Accurate /\ SavedTrue
  /\ trouble = {} => StatusTrue

\* Acts of the user keep all that,
LEMMA ActedIsClean ==
  ASSUME WorkspaceAssumption, Typed, Clean, Acted  PROVE Clean'
<1> SUFFICES ASSUME trouble' \subseteq {"readdressed"}  PROVE Clean'
  BY DEF Clean
<1>1. /\ Quiet /\ Accurate /\ SavedTrue /\ ScreenOK
      /\ trouble' = {} => StatusTrue
      /\ Switch \/ Edit \/ PickProject \/ Ask
  BY DEF Acted, Clean, Typed
<1>2. Accurate' /\ SavedTrue'
  BY <1>1, SwitchAccurate, EditAccurate, PickAccurate, AskAccurate
<1>3. trouble' = {} => StatusTrue'
  BY <1>1, SwitchAccurate, EditAccurate, PickAccurate, AskAccurate
<1> QED  BY <1>2, <1>3 DEF Clean

\* a page load keeps it,
LEMMA ReloadIsClean ==
  ASSUME WorkspaceAssumption, Typed, NEW kept \in SUBSET Backends, Reload(kept)
  PROVE  Clean'
<1>1. Accurate' /\ StatusTrue'
  BY ReloadedCalls, OpenedAccurate
<1>2. saved'.project = Picked'
  BY DEF Reload, Blank, Picked
<1> QED  BY <1>1, <1>2 DEF Clean, SavedTrue

\* and the first state has it.
LEMMA OpeningIsClean == ASSUME WorkspaceAssumption, Init  PROVE Clean
<1>1. PICK c \in Calls : calls[c] = Start(L2, None) /\ \A d \in Calls \ {c} : calls[d] = Over
  BY Opening
<1>2. /\ L2 \in InfoTodos /\ L2 \in ListTodos /\ L2 \in SourceTodos /\ L2 \in StatusTodos /\ L2 # Nil
  BY EveryTodo DEF InfoTodos, ListTodos, SourceTodos, StatusTodos, Reloads, Todos, Loads, Nil
<1>3. Active(c) /\ Todo(c) = L2 /\ calls[c].at = "ready" /\ \A d \in Calls : d # c => ~Active(d)
  BY <1>1, <1>2 DEF Active, Todo, Start, Over, Nil
<1>4. \A d \in Calls : Fresh1(d) /\ Prepared(d)
  <2>1. L2 \notin {Create3, Create2, Delete3, Rename2, Rename1} /\ Request(c) # "sources"
    BY <1>3, HeadTail DEF Request, Todo
  <2> QED  BY <1>3, <2>1 DEF Fresh1, Prepared, Active
<1>5. Accurate /\ StatusTrue
  BY <1>2, <1>3, <1>4
     DEF Accurate, ChainsTrue, ScreenTrue, InfoTrue, ProjectsTrue, SourcesTrue, StatusTrue, Awaited, Awaits
<1>6. saved.project = Picked
  BY DEF Init, Blank, Picked
<1> QED  BY <1>5, <1>6 DEF Clean, SavedTrue

\* So do the steps of the chains.
LEMMA ChainIsClean ==
  ASSUME WorkspaceAssumption, Typed, Undisturbed, Guarding, Clean, NEW c \in Calls,
         Proceed(c) \/ Send(c) \/ Serve(c) \/ Lose(c) \/ Receive(c)
  PROVE  Clean'
<1> SUFFICES ASSUME trouble' \subseteq {"readdressed"}  PROVE Clean'
  BY DEF Clean
<1>1. trouble \subseteq trouble'
  BY TroubleGrows
<1>2. /\ Calm /\ SavedTrue /\ Settling
      /\ trouble' = {} => StatusTrue
  BY <1>1 DEF Clean, Calm, Undisturbed, Guarding
<1>3. ~Lose(c) /\ "other" \notin trouble'
  BY DEF Lose
<1>4. Accurate'
  BY <1>2, <1>3, ProceedAccurate, SendAccurate, ServeAccurate, ReceiveAccurate
<1>5. SavedTrue'
  BY <1>2, <1>3, ProceedSaved, SendStatus, ServeStatus, ReceiveSaved
<1>6. trouble' = {} => StatusTrue'
  BY <1>2, <1>3, ProceedStatus, SendStatus, ServeStatus, ReceiveStatus
<1> QED  BY <1>4, <1>5, <1>6 DEF Clean

\* Every step does.
LEMMA NextIsClean ==
  ASSUME WorkspaceAssumption, Typed, Typed', Undisturbed, Guarding, Clean, [Next]_vars
  PROVE  Clean'
<1>1. CASE Act
  BY <1>1, ActComesTo, ActedIsClean, ReloadIsClean
<1>2. CASE \E c \in Calls : Proceed(c) \/ Send(c) \/ Serve(c) \/ Lose(c) \/ Receive(c)
  BY <1>2, ChainIsClean
<1>3. CASE OtherClient
  <2>1. trouble' = trouble \cup {"other"}
    BY <1>3 DEF OtherClient
  <2> QED  BY <2>1 DEF Clean
<1>4. CASE UNCHANGED vars
  <2>1. WorldKept
    BY <1>4, SameUrl, ServerKept DEF vars, place, WorldKept, Picked
  <2>2. calls' = calls /\ shown' = shown /\ saved' = saved /\ trouble' = trouble
        /\ currentServerUrl' = currentServerUrl
    BY <1>4, SameUrl DEF vars, place
  <2>3. Reachable' = Reachable /\ Listed' = Listed /\ Sourced' = Sourced
    BY <2>1, <2>2 DEF Reachable, Listed, Sourced, WorldKept, Placed
  <2>4. \A d \in Calls : Fresh1(d)' = Fresh1(d) /\ Prepared(d)' = Prepared(d)
    BY <2>1, <2>2 DEF Fresh1, Prepared, WorldKept, Placed, Request, Data, Todo, Active, Out
  <2>5. \A todos, done : Awaited(todos, done)' = Awaited(todos, done)
    BY <2>2 DEF Awaited, Awaits, Active, Todo, GotOk
  <2>6. UnderWay({Delete3})' = UnderWay({Delete3})
    BY <2>2 DEF UnderWay, Active, Todo
  <2>7. Accurate' = Accurate
    BY <2>3, <2>4, <2>5 DEF Accurate, ChainsTrue, ScreenTrue, InfoTrue, ProjectsTrue, SourcesTrue
  <2>8. SavedTrue' = SavedTrue /\ StatusTrue' = StatusTrue
    BY <2>1, <2>2, <2>5, <2>6 DEF SavedTrue, StatusTrue, WorldKept
  <2> QED  BY <2>2, <2>7, <2>8 DEF Clean
<1> QED  BY <1>1, <1>2, <1>3, <1>4 DEF Next

\* As long as, since the page was loaded, nothing failed, nobody else changed a
\* backend and the user waited for each chain, every part of the screen of
\* useWorkspace.ts is what the selected server holds for this user, or a chain
\* under way is about to bring it, and the saved workspace is the selected one.
\* The status is that of the session, or about to be asked for, unless the
\* server's address was edited.
THEOREM AlwaysClean == Spec => []Clean
<1>1. Init => Clean
  BY OpeningIsClean, WorkspaceAssumption
<1>2. Typed /\ Typed' /\ Undisturbed /\ Guarding /\ Clean /\ [Next]_vars => Clean'
  BY NextIsClean, WorkspaceAssumption
<1> QED  BY <1>1, <1>2, AlwaysTyped, AlwaysUndisturbed, AlwaysGuarding, PTL DEF Spec

\* So with these provisos a settled screen is true: server information,
\* workspaces, data sources and status are those of the selected server, and
\* the selected workspace is one of the listed, whatever was selected, created,
\* renamed, deleted, signed in or out before.
THEOREM SettledScreenIsTrue == Spec => []SettledIsTrue
<1>1. Clean => SettledIsTrue
  <2>1. ASSUME Clean, Quiet, trouble \subseteq {"readdressed"}
        PROVE  Reachable /\ Listed /\ Sourced
    BY <2>1, QuietScreen DEF Clean, Accurate
  <2>2. Clean => ScreenIsTrue
    BY <2>1 DEF ScreenIsTrue, Reachable, Listed, Sourced, Placed, Held, Picked, Auth
  <2>3. Clean => StatusIsTrue
    BY NoneAwaited DEF Clean, StatusIsTrue, StatusTrue, Self
  <2> QED  BY <2>2, <2>3 DEF SettledIsTrue
<1> QED  BY <1>1, AlwaysClean, PTL

\* Loading the page again finds the same server selected as useWorkspace.ts
\* had, whatever happened before, and, in a settled state without trouble, the
\* same workspace.
THEOREM ReloadsKeepPlace == Spec => ReloadKeepsPlace
<1> DEFINE Kept == \A kept \in SUBSET Backends : Reload(kept) =>
                     /\ currentServerId' = currentServerId
                     /\ Quiet /\ trouble = {} => shown'.currentProjectId = shown.currentProjectId
<1>1. Typed /\ Clean /\ [Next]_vars => [Kept]_vars
  <2> SUFFICES ASSUME Typed, Clean, NEW kept \in SUBSET Backends, Reload(kept)
               PROVE  /\ currentServerId' = currentServerId
                      /\ Quiet /\ trouble = {} => Picked' = Picked
    BY DEF Picked
  <2>1. currentServerId' = currentServerId /\ saved'.project = saved.project
    BY ReloadTyped, WorkspaceAssumption
  <2>2. Quiet /\ trouble = {} => saved.project = Picked
    BY NoneUnderWay DEF Clean, SavedTrue
  <2>3. Picked' = saved'.project
    BY DEF Reload, Blank, Picked
  <2> QED  BY <2>1, <2>2, <2>3
<1> QED  BY <1>1, AlwaysTyped, AlwaysClean, PTL DEF Spec, ReloadKeepsPlace
=============================================================================
