-------------------------- MODULE PositionsProofs --------------------------
(***************************************************************************)
(* What the operators of Positions return, for every set of numbers and    *)
(* every sequence, and induction up to a number.                           *)
(***************************************************************************)
EXTENDS Positions, FiniteSetTheorems, SequenceTheorems, WellFoundedInduction, TLAPS

-----------------------------------------------------------------------------
(* Numbers and positions: what Nth, InOrder and At return.                 *)
\* Every set of numbers that is not empty has a least one.
LEMMA LeastExists ==
  ASSUME NEW S \in SUBSET Nat, S # {}
  PROVE  \E c \in S : \A d \in S : c <= d
<1> DEFINE R == OpToRel(<, Nat)
<1>1. IsWellFoundedOn(R, Nat)
  BY NatLessThanWellFounded
<1>2. \A a, b \in Nat : <<a, b>> \in R <=> a < b
  BY DEF OpToRel
<1> HIDE DEF R
<1>3. PICK c \in S : \A d \in S : ~ (<<d, c>> \in R)
  BY <1>1, WFMin, Zenon
<1>4. \A d \in S : c <= d
  <2> TAKE d \in S
  <2>1. c \in Nat /\ d \in Nat /\ ~ (d < c)
    BY <1>2, <1>3
  <2> QED BY <2>1
<1> QED  BY <1>4

\* A set that holds 0 and each next number up to n is all of them.
LEMMA InductionTo ==
  ASSUME NEW n \in Nat, NEW S \in SUBSET (0..n), 0 \in S,
         \A k \in 1..n : k - 1 \in S => k \in S
  PROVE  S = 0..n
<1> SUFFICES ASSUME (0..n) \ S # {} PROVE FALSE
  OBVIOUS
<1>0. (0..n) \ S \in SUBSET Nat
  OBVIOUS
<1>1. PICK c \in (0..n) \ S : \A d \in (0..n) \ S : c <= d
  BY <1>0, LeastExists, Zenon
<1>2. c \in 1..n /\ c - 1 \in 0..n
  BY <1>1
<1>3. c - 1 \in S
  BY <1>1, <1>2
<1> QED BY <1>1, <1>2, <1>3

\* The same from m on.
LEMMA InductionFrom ==
  ASSUME NEW m \in Nat, NEW n \in Nat, NEW S \in SUBSET (m..n), m \in S,
         \A k \in m + 1..n : k - 1 \in S => k \in S
  PROVE  S = m..n
<1> SUFFICES ASSUME (m..n) \ S # {} PROVE FALSE
  OBVIOUS
<1>0. (m..n) \ S \in SUBSET Nat
  OBVIOUS
<1>1. PICK c \in (m..n) \ S : \A d \in (m..n) \ S : c <= d
  BY <1>0, LeastExists, Zenon
<1>2. c \in m + 1..n /\ c - 1 \in m..n
  BY <1>1
<1>3. c - 1 \in S
  BY <1>1, <1>2
<1> QED BY <1>1, <1>2, <1>3

\* There are n numbers from 1 to n.
LEMMA FirstNumbers == \A n \in Nat : IsFiniteSet(1..n) /\ Cardinality(1..n) = n
<1> TAKE n \in Nat
<1> QED BY FS_Interval

\* The members of S up to i.
UpTo(S, i) == {j \in S : j <= i}

\* The place of a member among those up to it is one of 1..Cardinality(S), and no two share it.
LEMMA Ranks ==
  ASSUME NEW S \in SUBSET Nat, IsFiniteSet(S)
  PROVE  /\ Cardinality(S) \in Nat
         /\ \A i \in S : IsFiniteSet(UpTo(S, i)) /\ Cardinality(UpTo(S, i)) \in 1..Cardinality(S)
         /\ \A i, j \in S : Cardinality(UpTo(S, i)) = Cardinality(UpTo(S, j)) => i = j
         /\ \A i, j \in S : i <= j => Cardinality(UpTo(S, i)) <= Cardinality(UpTo(S, j))
         /\ \A k \in 1..Cardinality(S) : \E i \in S : Cardinality(UpTo(S, i)) = k
<1>1. Cardinality(S) \in Nat
  BY FS_CardinalityType
<1>2. ASSUME NEW i \in S
      PROVE  IsFiniteSet(UpTo(S, i)) /\ Cardinality(UpTo(S, i)) \in 1..Cardinality(S)
  <2>1. UpTo(S, i) \in SUBSET S /\ i \in UpTo(S, i)
    BY DEF UpTo
  <2>2. IsFiniteSet(UpTo(S, i)) /\ Cardinality(UpTo(S, i)) <= Cardinality(S)
    BY <2>1, FS_Subset
  <2>3. Cardinality(UpTo(S, i)) \in Nat /\ Cardinality(UpTo(S, i)) # 0
    BY <2>1, <2>2, FS_CardinalityType, FS_EmptySet
  <2> QED BY <2>2, <2>3, <1>1
<1>3. ASSUME NEW i \in S, NEW j \in S, i <= j
      PROVE  /\ Cardinality(UpTo(S, i)) <= Cardinality(UpTo(S, j))
             /\ Cardinality(UpTo(S, i)) = Cardinality(UpTo(S, j)) => i = j
  <2>0. \A x \in S : x \in Nat
    OBVIOUS
  <2>1. UpTo(S, i) \in SUBSET UpTo(S, j)
    <3> SUFFICES ASSUME NEW x \in UpTo(S, i) PROVE x \in UpTo(S, j)
      OBVIOUS
    <3>1. x \in S /\ x <= i
      BY DEF UpTo
    <3>2. x \in Nat /\ i \in Nat /\ j \in Nat
      BY <2>0, <3>1
    <3> QED BY <3>1, <3>2, <1>3 DEF UpTo
  <2>2. IsFiniteSet(UpTo(S, j))
    BY <1>2
  <2>3. Cardinality(UpTo(S, i)) <= Cardinality(UpTo(S, j))
        /\ (Cardinality(UpTo(S, i)) = Cardinality(UpTo(S, j)) => UpTo(S, i) = UpTo(S, j))
    <3> DEFINE A == UpTo(S, i)
               B == UpTo(S, j)
    <3>1. A \in SUBSET B /\ IsFiniteSet(B)
      BY <2>1, <2>2
    <3> HIDE DEF A, B
    <3>2. Cardinality(A) <= Cardinality(B) /\ (Cardinality(B) = Cardinality(A) => B = A)
      BY <3>1, FS_Subset
    <3> QED BY <3>2 DEF A, B
  <2>4. UpTo(S, i) = UpTo(S, j) => i = j
    BY <1>3 DEF UpTo
  <2> QED BY <2>3, <2>4
<1>4. \A i, j \in S : Cardinality(UpTo(S, i)) = Cardinality(UpTo(S, j)) => i = j
  <2> TAKE i \in S, j \in S
  <2>1. i \in Nat /\ j \in Nat
    OBVIOUS
  <2>2. CASE i <= j
    BY <2>2, <1>3
  <2>3. CASE j <= i
    BY <2>3, <1>3
  <2> QED BY <2>1, <2>2, <2>3
<1>5. ASSUME NEW k \in 1..Cardinality(S)
      PROVE  \E i \in S : Cardinality(UpTo(S, i)) = k
  <2> DEFINE T == 1..Cardinality(S)
             f == [i \in S |-> Cardinality(UpTo(S, i))]
  <2>1. f \in [S -> T]
    BY <1>2
  <2>2. f \in Injection(S, T)
    BY <2>1, <1>4 DEF Injection, IsInjective
  <2>3. IsFiniteSet(T) /\ Cardinality(T) = Cardinality(S)
    BY <1>1, FS_Interval
  <2>4. f \in Surjection(S, T)
    <3> HIDE DEF f, T
    <3> QED BY <2>2, <2>3, FS_Injection, Zenon
  <2> QED BY <2>4 DEF Surjection
<1> QED BY <1>1, <1>2, <1>3, <1>4, <1>5

\* Nth enumerates a finite set of numbers in order, each member once.
LEMMA NthIs ==
  ASSUME NEW S \in SUBSET Nat, IsFiniteSet(S)
  PROVE  /\ Cardinality(S) \in Nat
         /\ \A k \in 1..Cardinality(S) : Nth(S, k) \in S
         /\ \A k, l \in 1..Cardinality(S) : k < l => Nth(S, k) < Nth(S, l)
         /\ \A k, l \in 1..Cardinality(S) : Nth(S, k) = Nth(S, l) => k = l
         /\ \A i \in S : \E k \in 1..Cardinality(S) : Nth(S, k) = i
<1>1. \A i, k : Nth(S, k) = CHOOSE j \in S : Cardinality(UpTo(S, j)) = k
  BY DEF Nth, UpTo
<1>2. ASSUME NEW k \in 1..Cardinality(S)
      PROVE  Nth(S, k) \in S /\ Cardinality(UpTo(S, Nth(S, k))) = k
  <2>1. \E i \in S : Cardinality(UpTo(S, i)) = k
    BY Ranks
  <2> QED BY <2>1, <1>1
<1>3. ASSUME NEW k \in 1..Cardinality(S), NEW l \in 1..Cardinality(S), k < l
      PROVE  Nth(S, k) < Nth(S, l)
  <2>1. Nth(S, k) \in S /\ Nth(S, l) \in S
    BY <1>2
  <2>2. Nth(S, k) \in Nat /\ Nth(S, l) \in Nat
    BY <2>1
  <2>3. Cardinality(UpTo(S, Nth(S, k))) = k /\ Cardinality(UpTo(S, Nth(S, l))) = l
    BY <1>2
  <2>4. Nth(S, l) <= Nth(S, k) => Cardinality(UpTo(S, Nth(S, l))) <= Cardinality(UpTo(S, Nth(S, k)))
    BY <2>1, Ranks, Zenon
  <2>5. k \in Nat /\ l \in Nat
    BY Ranks
  <2> QED BY <2>2, <2>3, <2>4, <2>5, <1>3
<1>4. ASSUME NEW i \in S
      PROVE  \E k \in 1..Cardinality(S) : Nth(S, k) = i
  <2> DEFINE k == Cardinality(UpTo(S, i))
  <2>1. k \in 1..Cardinality(S)
    BY Ranks
  <2>2. Nth(S, k) \in S /\ Cardinality(UpTo(S, Nth(S, k))) = k
    BY <2>1, <1>2
  <2>3. Nth(S, k) = i
    <3> HIDE DEF k
    <3>1. k = Cardinality(UpTo(S, i))
      BY DEF k
    <3> QED BY <2>2, <3>1, Ranks, Zenon
  <2> QED BY <2>1, <2>3
<1>5. \A k, l \in 1..Cardinality(S) : Nth(S, k) = Nth(S, l) => k = l
  BY <1>2
<1> QED BY <1>2, <1>3, <1>4, <1>5, Ranks

\* InOrder lists a finite set of numbers, each once.
LEMMA InOrderIs ==
  ASSUME NEW S \in SUBSET Nat, IsFiniteSet(S)
  PROVE  /\ Cardinality(S) \in Nat
         /\ InOrder(S) \in Seq(S) /\ Len(InOrder(S)) = Cardinality(S)
         /\ DOMAIN InOrder(S) = 1..Cardinality(S)
         /\ \A k, l \in DOMAIN InOrder(S) : InOrder(S)[k] = InOrder(S)[l] => k = l
<1>1. Cardinality(S) \in Nat
  BY NthIs
<1>2. \A k \in 1..Cardinality(S) : InOrder(S)[k] = Nth(S, k) /\ Nth(S, k) \in S
  BY NthIs DEF InOrder
<1>3. InOrder(S) \in [1..Cardinality(S) -> S]
  BY <1>2 DEF InOrder
<1>4. InOrder(S) \in Seq(S) /\ Len(InOrder(S)) = Cardinality(S) /\ DOMAIN InOrder(S) = 1..Cardinality(S)
  BY <1>1, <1>3
<1> QED BY <1>1, <1>2, <1>4, NthIs

\* At picks the elements at the positions in S, each position once.
LEMMA AtOf ==
  ASSUME NEW T, NEW n \in Nat, NEW seq, NEW S \in SUBSET (1..n), \A i \in S : seq[i] \in T
  PROVE  /\ Cardinality(S) \in Nat
         /\ Cardinality(S) <= n
         /\ At(seq, S) \in Seq(T) /\ Len(At(seq, S)) = Cardinality(S)
         /\ DOMAIN At(seq, S) = 1..Cardinality(S)
         /\ \A k \in 1..Cardinality(S) : Nth(S, k) \in S /\ At(seq, S)[k] = seq[Nth(S, k)]
         /\ \A k, l \in 1..Cardinality(S) : Nth(S, k) = Nth(S, l) => k = l
         /\ \A i \in S : \E k \in 1..Cardinality(S) : Nth(S, k) = i
<1>2. IsFiniteSet(1..n) /\ Cardinality(1..n) = n
  BY FirstNumbers
<1>3. S \in SUBSET Nat /\ IsFiniteSet(S) /\ Cardinality(S) <= n
  <2> DEFINE N == 1..n
  <2>1. S \in SUBSET N /\ IsFiniteSet(N) /\ Cardinality(N) = n
    BY <1>2
  <2>2. S \in SUBSET Nat
    OBVIOUS
  <2> HIDE DEF N
  <2>3. IsFiniteSet(S) /\ Cardinality(S) <= Cardinality(N)
    BY <2>1, FS_Subset
  <2> QED BY <2>1, <2>2, <2>3
<1>4. Cardinality(S) \in Nat
  BY <1>3, NthIs
<1>5. \A k \in 1..Cardinality(S) : Nth(S, k) \in S /\ At(seq, S)[k] = seq[Nth(S, k)]
  BY <1>3, NthIs DEF At
<1>6. At(seq, S) \in [1..Cardinality(S) -> T]
  BY <1>5 DEF At
<1>7. At(seq, S) \in Seq(T) /\ Len(At(seq, S)) = Cardinality(S)
      /\ DOMAIN At(seq, S) = 1..Cardinality(S)
  BY <1>4, <1>6
<1> QED BY <1>3, <1>4, <1>5, <1>7, NthIs

\* The same for a sequence of any type.
LEMMA AtIs ==
  ASSUME NEW T, NEW seq \in Seq(T), NEW S \in SUBSET DOMAIN seq
  PROVE  /\ Cardinality(S) \in Nat
         /\ Cardinality(S) <= Len(seq)
         /\ At(seq, S) \in Seq(T) /\ Len(At(seq, S)) = Cardinality(S)
         /\ DOMAIN At(seq, S) = 1..Cardinality(S)
         /\ \A k \in 1..Cardinality(S) : Nth(S, k) \in S /\ At(seq, S)[k] = seq[Nth(S, k)]
         /\ \A k, l \in 1..Cardinality(S) : Nth(S, k) = Nth(S, l) => k = l
         /\ \A i \in S : \E k \in 1..Cardinality(S) : Nth(S, k) = i
<1> DEFINE D == DOMAIN seq
<1>1. Len(seq) \in Nat /\ D = 1..Len(seq) /\ \A i \in D : seq[i] \in T
  OBVIOUS
<1>2. IsFiniteSet(D) /\ Cardinality(D) = Len(seq)
  <2> HIDE DEF D
  <2> QED BY <1>1, FirstNumbers
<1>3. S \in SUBSET Nat /\ IsFiniteSet(S) /\ Cardinality(S) <= Len(seq)
  <2>1. S \in SUBSET D /\ S \in SUBSET Nat
    BY <1>1
  <2> HIDE DEF D
  <2>2. IsFiniteSet(S) /\ Cardinality(S) <= Cardinality(D)
    BY <1>2, <2>1, FS_Subset
  <2> QED BY <1>2, <2>1, <2>2
<1>4. Cardinality(S) \in Nat
  BY <1>3, NthIs
<1>5. \A k \in 1..Cardinality(S) : Nth(S, k) \in S /\ At(seq, S)[k] = seq[Nth(S, k)]
  BY <1>3, NthIs DEF At
<1>6. At(seq, S) \in [1..Cardinality(S) -> T]
  BY <1>1, <1>5 DEF At
<1>7. At(seq, S) \in Seq(T) /\ Len(At(seq, S)) = Cardinality(S)
      /\ DOMAIN At(seq, S) = 1..Cardinality(S)
  BY <1>4, <1>6
<1> QED BY <1>3, <1>4, <1>5, <1>7, NthIs

-----------------------------------------------------------------------------
(* Three lists of positions, one after the other.                          *)
\* b lists the elements of seq at the positions in A, in B and in C, in this
\* order, each once: pos says where each element comes from.
Lists(b, seq, A, B, C, pos) ==
  /\ pos \in [1..Len(b) -> A \cup B \cup C]
  /\ \A k \in 1..Len(b) : /\ b[k] = seq[pos[k]]
                          /\ (pos[k] \in A) = (k <= Cardinality(A))
                          /\ (pos[k] \in C) = (k > Cardinality(A) + Cardinality(B))
  /\ \A k, l \in 1..Len(b) : pos[k] = pos[l] => k = l
  /\ \A i \in A \cup B \cup C : \E k \in 1..Len(b) : pos[k] = i

Parts(seq, A, B, C) == (At(seq, A) \o At(seq, B)) \o At(seq, C)

LEMMA ThreeParts ==
  ASSUME NEW T, NEW seq \in Seq(T), NEW A \in SUBSET DOMAIN seq, NEW B \in SUBSET DOMAIN seq,
         NEW C \in SUBSET DOMAIN seq, A \cap B = {}, A \cap C = {}, B \cap C = {}
  PROVE  /\ Cardinality(A) \in Nat /\ Cardinality(B) \in Nat /\ Cardinality(C) \in Nat
         /\ Len(At(seq, A)) = Cardinality(A)
         /\ Parts(seq, A, B, C) \in Seq(T)
         /\ Len(Parts(seq, A, B, C)) = Cardinality(A) + Cardinality(B) + Cardinality(C)
         /\ \E pos : Lists(Parts(seq, A, B, C), seq, A, B, C, pos)
<1> DEFINE x == Cardinality(A)  y == Cardinality(B)  z == Cardinality(C)
           b == Parts(seq, A, B, C)
           p == At(seq, A)  q == At(seq, B)  r == At(seq, C)
           pos == [k \in 1..x + y + z |->
                     IF k <= x THEN Nth(A, k)
                     ELSE IF k <= x + y THEN Nth(B, k - x) ELSE Nth(C, k - x - y)]
<1>5. b = (p \o q) \o r
  BY DEF Parts, b
<1>a. /\ x \in Nat /\ p \in Seq(T) /\ Len(p) = x
      /\ \A k \in 1..x : Nth(A, k) \in A /\ p[k] = seq[Nth(A, k)]
      /\ \A k, l \in 1..x : Nth(A, k) = Nth(A, l) => k = l
      /\ \A i \in A : \E k \in 1..x : Nth(A, k) = i
  BY AtIs
<1>b. /\ y \in Nat /\ q \in Seq(T) /\ Len(q) = y
      /\ \A k \in 1..y : Nth(B, k) \in B /\ q[k] = seq[Nth(B, k)]
      /\ \A k, l \in 1..y : Nth(B, k) = Nth(B, l) => k = l
      /\ \A i \in B : \E k \in 1..y : Nth(B, k) = i
  BY AtIs
<1>c. /\ z \in Nat /\ r \in Seq(T) /\ Len(r) = z
      /\ \A k \in 1..z : Nth(C, k) \in C /\ r[k] = seq[Nth(C, k)]
      /\ \A k, l \in 1..z : Nth(C, k) = Nth(C, l) => k = l
      /\ \A i \in C : \E k \in 1..z : Nth(C, k) = i
  BY AtIs
<1> HIDE DEF b, x, y, z, p, q, r
<1>6. /\ b \in Seq(T) /\ Len(b) = x + y + z
      /\ \A k \in 1..x + y + z :
           b[k] = IF k <= x THEN p[k] ELSE IF k <= x + y THEN q[k - x] ELSE r[k - x - y]
  <2>1. /\ p \o q \in Seq(T) /\ Len(p \o q) = x + y
        /\ \A k \in 1..x + y : (p \o q)[k] = IF k <= x THEN p[k] ELSE q[k - x]
    <3>1. /\ p \o q \in Seq(T) /\ Len(p \o q) = Len(p) + Len(q)
          /\ \A k \in 1..Len(p) + Len(q) : (p \o q)[k] = IF k <= Len(p) THEN p[k] ELSE q[k - Len(p)]
      <4>1. p \in Seq(T) /\ q \in Seq(T)
        BY <1>a, <1>b
      <4> QED BY <4>1, ConcatProperties
    <3> QED BY <3>1, <1>a, <1>b
  <2> DEFINE pq == p \o q
  <2>2. /\ pq \o r \in Seq(T) /\ Len(pq \o r) = x + y + z
        /\ \A k \in 1..x + y + z : (pq \o r)[k] = IF k <= x + y THEN pq[k] ELSE r[k - (x + y)]
    <3> HIDE DEF pq
    <3>1. pq \in Seq(T) /\ Len(pq) = x + y
      BY <2>1 DEF pq
    <3>2. /\ pq \o r \in Seq(T) /\ Len(pq \o r) = Len(pq) + Len(r)
          /\ \A k \in 1..Len(pq) + Len(r) :
               (pq \o r)[k] = IF k <= Len(pq) THEN pq[k] ELSE r[k - Len(pq)]
      <4>1. pq \in Seq(T) /\ r \in Seq(T)
        BY <3>1, <1>c
      <4> QED BY <4>1, ConcatProperties
    <3> QED BY SMTT(30), <3>1, <3>2, <1>a, <1>b, <1>c
  <2> HIDE DEF pq
  <2>3. \A k \in 1..x + y : pq[k] = IF k <= x THEN p[k] ELSE q[k - x]
    BY <2>1 DEF pq
  <2>4. b = pq \o r
    BY <1>5 DEF pq
  <2> QED BY SMTT(30), <2>2, <2>3, <2>4, <1>a, <1>b, <1>c
<1>7. ASSUME NEW k \in 1..x + y + z
      PROVE  /\ b[k] = seq[pos[k]] /\ pos[k] \in A \cup B \cup C
             /\ k <= x => pos[k] = Nth(A, k) /\ pos[k] \in A
             /\ x < k /\ k <= x + y => pos[k] = Nth(B, k - x) /\ pos[k] \in B
             /\ x + y < k => pos[k] = Nth(C, k - x - y) /\ pos[k] \in C
  <2>1. CASE k <= x
    <3>1. k \in 1..x /\ pos[k] = Nth(A, k)
      BY <2>1, <1>a
    <3> QED BY <3>1, <2>1, <1>a, <1>b, <1>6
  <2>2. CASE x < k /\ k <= x + y
    <3>1. k - x \in 1..y /\ pos[k] = Nth(B, k - x)
      BY <2>2, <1>a, <1>b, <1>c
    <3>2. b[k] = q[k - x] /\ q[k - x] = seq[Nth(B, k - x)] /\ Nth(B, k - x) \in B
      BY <3>1, <2>2, <1>a, <1>b, <1>6
    <3> QED BY <3>1, <3>2, <2>2, <1>a, <1>b
  <2>3. CASE x + y < k
    <3>1. k - x - y \in 1..z /\ pos[k] = Nth(C, k - x - y)
      BY <2>3, <1>a, <1>b, <1>c
    <3>2. b[k] = r[k - x - y] /\ r[k - x - y] = seq[Nth(C, k - x - y)] /\ Nth(C, k - x - y) \in C
      BY <3>1, <2>3, <1>a, <1>b, <1>c, <1>6
    <3> QED BY <3>1, <3>2, <2>3, <1>a, <1>b
  <2> QED BY <2>1, <2>2, <2>3, <1>a, <1>b
<1>8. ASSUME NEW k \in 1..x + y + z, NEW l \in 1..x + y + z, pos[k] = pos[l]
      PROVE  k = l
  <2> HIDE DEF pos
  <2>2. CASE k <= x
    <3>1. l <= x
      BY <2>2, <1>7, <1>8, <1>a, <1>b
    <3> QED BY <2>2, <3>1, <1>7, <1>8, <1>a
  <2>3. CASE x < k /\ k <= x + y
    <3>1. x < l /\ l <= x + y
      BY <2>3, <1>7, <1>8, <1>a, <1>b
    <3>2. k - x \in 1..y /\ l - x \in 1..y
      BY <3>1, <2>3, <1>a, <1>b
    <3>3. Nth(B, k - x) = Nth(B, l - x)
      BY <3>1, <2>3, <1>7, <1>8
    <3>4. k - x = l - x
      BY <3>2, <3>3, <1>b
    <3> QED BY <3>4, <1>a, <1>b, <1>c
  <2>4. CASE x + y < k
    <3>1. x + y < l
      BY <2>4, <1>7, <1>8, <1>a, <1>b, <1>c
    <3>2. k - x - y \in 1..z /\ l - x - y \in 1..z
      BY SMTT(30), <3>1, <2>4, <1>a, <1>b, <1>c
    <3>3. Nth(C, k - x - y) = Nth(C, l - x - y)
      BY <3>1, <2>4, <1>7, <1>8
    <3>4. k - x - y = l - x - y
      BY <3>2, <3>3, <1>c
    <3> QED BY <3>4, <1>a, <1>b, <1>c
  <2> QED BY <2>2, <2>3, <2>4, <1>a, <1>b
<1>9. ASSUME NEW i \in A \cup B \cup C
      PROVE  \E k \in 1..x + y + z : pos[k] = i
  <2>1. CASE i \in A
    <3>1. PICK k \in 1..x : Nth(A, k) = i
      BY <2>1, <1>a
    <3>2. k \in 1..x + y + z /\ pos[k] = i
      BY <3>1, <1>a, <1>b, <1>c
    <3> QED BY <3>2
  <2>2. CASE i \in B
    <3>1. PICK k \in 1..y : Nth(B, k) = i
      BY <2>2, <1>b
    <3> DEFINE l == k + x
    <3>2. l \in 1..x + y + z /\ ~(l <= x) /\ l <= x + y /\ l - x = k
      BY <3>1, <1>a, <1>b, <1>c
    <3>3. pos[l] = Nth(B, l - x)
      BY <3>2
    <3> QED BY <3>1, <3>2, <3>3
  <2>3. CASE i \in C
    <3>1. PICK k \in 1..z : Nth(C, k) = i
      BY <2>3, <1>c
    <3> DEFINE l == k + x + y
    <3>2. l \in 1..x + y + z /\ ~(l <= x) /\ ~(l <= x + y) /\ l - x - y = k
      BY <3>1, <1>a, <1>b, <1>c
    <3>3. pos[l] = Nth(C, l - x - y)
      BY <3>2
    <3> QED BY <3>1, <3>2, <3>3
  <2> QED BY <2>1, <2>2, <2>3
<1>10. pos \in [1..x + y + z -> A \cup B \cup C]
  BY <1>7
<1> HIDE DEF pos
<1>11. \A k \in 1..x + y + z : (pos[k] \in A) = (k <= x) /\ (pos[k] \in C) = (k > x + y)
  <2> TAKE k \in 1..x + y + z
  <2>1. CASE k <= x
    BY <2>1, <1>7, <1>a, <1>b, <1>c
  <2>2. CASE x < k /\ k <= x + y
    BY <2>2, <1>7, <1>a, <1>b, <1>c
  <2>3. CASE x + y < k
    BY <2>3, <1>7, <1>a, <1>b, <1>c
  <2> QED BY <2>1, <2>2, <2>3, <1>a, <1>b, <1>c
<1>12. Lists(b, seq, A, B, C, pos)
  <2> DEFINE n == x + y + z
  <2>1. Len(b) = n
    BY <1>6
  <2>2. /\ pos \in [1..n -> A \cup B \cup C]
        /\ \A k \in 1..n : /\ b[k] = seq[pos[k]]
                           /\ (pos[k] \in A) = (k <= x) /\ (pos[k] \in C) = (k > x + y)
        /\ \A k, l \in 1..n : pos[k] = pos[l] => k = l
        /\ \A i \in A \cup B \cup C : \E k \in 1..n : pos[k] = i
    BY <1>7, <1>8, <1>9, <1>10, <1>11
  <2> HIDE DEF n
  <2> QED BY <2>1, <2>2, Zenon DEF Lists, x, y
<1> QED BY <1>6, <1>12, <1>a, <1>b, <1>c DEF x, y, z, p, b

-----------------------------------------------------------------------------
(* Sequences put together.                                                 *)
\* Two sequences, one after the other.
LEMMA Joined ==
  ASSUME NEW T, NEW p \in Seq(T), NEW q \in Seq(T)
  PROVE  /\ p \o q \in Seq(T) /\ Len(p \o q) = Len(p) + Len(q)
         /\ \A j \in 1..Len(p) : (p \o q)[j] = p[j]
         /\ \A j \in Len(p) + 1..Len(p) + Len(q) : (p \o q)[j] = q[j - Len(p)]
<1>1. p \o q \in Seq(T) /\ Len(p \o q) = Len(p) + Len(q)
  OBVIOUS
<1>2. \A j \in 1..Len(p) : (p \o q)[j] = p[j]
  OBVIOUS
<1>3. \A j \in Len(p) + 1..Len(p) + Len(q) : (p \o q)[j] = q[j - Len(p)]
  OBVIOUS
<1> QED BY <1>1, <1>2, <1>3

\* A sequence with another put in.
Spliced(s, c, m) == SubSeq(s, 1, m) \o c \o SubSeq(s, m + 1, Len(s))

\* A sequence with another put in after m of its elements.
SplicedOK(T, s, c, m) ==
  /\ Spliced(s, c, m) \in Seq(T) /\ Len(Spliced(s, c, m)) = Len(s) + Len(c)
  /\ \A j \in 1..m : Spliced(s, c, m)[j] = s[j]
  /\ \A j \in m + 1..m + Len(c) : Spliced(s, c, m)[j] = c[j - m]
  /\ \A j \in m + Len(c) + 1..Len(s) + Len(c) : Spliced(s, c, m)[j] = s[j - Len(c)]

\* Where its elements are then.
LEMMA Between ==
  ASSUME NEW T, NEW s \in Seq(T), NEW c \in Seq(T), NEW m \in 0..Len(s)
  PROVE  SplicedOK(T, s, c, m)
<1> DEFINE a == SubSeq(s, 1, m)
           z == SubSeq(s, m + 1, Len(s))
<1>1. Len(s) \in Nat /\ Len(c) \in Nat /\ m \in Nat /\ m <= Len(s)
  OBVIOUS
<1>2. /\ a \in Seq(T) /\ Len(a) = m /\ \A j \in 1..m : a[j] = s[j]
  BY <1>1, SubSeqProperties
<1>3. /\ z \in Seq(T) /\ Len(z) = Len(s) - m /\ \A j \in 1..Len(s) - m : z[j] = s[m + j]
  <2>1. \A i \in m + 1..Len(s) : s[i] \in T
    BY <1>1
  <2>2. m + 1 \in 1..Len(s) + 1 /\ Len(s) \in m + 1 - 1..Len(s)
    BY <1>1
  <2>3. /\ z \in Seq(T) /\ Len(z) = (IF m + 1 <= Len(s) THEN Len(s) - (m + 1) + 1 ELSE 0)
        /\ \A j \in 1..Len(s) - (m + 1) + 1 : z[j] = s[m + 1 + j - 1]
    BY <1>1, <2>1, <2>2, SubSeqProperties
  <2> HIDE DEF z
  <2>4. Len(z) = Len(s) - m
    BY <2>3, <1>1
  <2>5. \A j \in 1..Len(s) - m : m + 1 + j - 1 = m + j /\ j \in 1..Len(s) - (m + 1) + 1
    BY <1>1
  <2> QED BY <2>3, <2>4, <2>5
<1> HIDE DEF a, z
<1> DEFINE b == a \o c
<1>4. /\ b \in Seq(T) /\ Len(b) = m + Len(c)
      /\ \A j \in 1..m : b[j] = a[j]
      /\ \A j \in m + 1..m + Len(c) : b[j] = c[j - m]
  BY <1>1, <1>2, SMTT(30)
<1> HIDE DEF b
<1> DEFINE t == b \o z
<1>5. /\ t \in Seq(T) /\ Len(t) = Len(s) + Len(c)
      /\ \A j \in 1..m + Len(c) : t[j] = b[j]
      /\ \A j \in m + Len(c) + 1..Len(s) + Len(c) : t[j] = z[j - (m + Len(c))]
  <2>1. b \in Seq(T) /\ z \in Seq(T)
    BY <1>3, <1>4
  <2>2. /\ t \in Seq(T) /\ Len(t) = Len(b) + Len(z)
        /\ \A j \in 1..Len(b) : t[j] = b[j]
        /\ \A j \in Len(b) + 1..Len(b) + Len(z) : t[j] = z[j - Len(b)]
    BY <2>1, Joined, Zenon
  <2> HIDE DEF t
  <2>3. Len(b) + Len(z) = Len(s) + Len(c) /\ Len(b) = m + Len(c)
    BY <1>1, <1>3, <1>4
  <2> QED BY <2>2, <2>3
<1> HIDE DEF t
<1>6. \A j \in 1..m : t[j] = s[j]
  BY <1>1, <1>2, <1>4, <1>5
<1>7. \A j \in m + 1..m + Len(c) : t[j] = c[j - m]
  BY <1>1, <1>4, <1>5
<1>8. ASSUME NEW j \in m + Len(c) + 1..Len(s) + Len(c) PROVE t[j] = s[j - Len(c)]
  <2>1. t[j] = z[j - (m + Len(c))] /\ j - (m + Len(c)) \in 1..Len(s) - m
    BY <1>1, <1>5
  <2>2. m + (j - (m + Len(c))) = j - Len(c)
    BY <1>1
  <2> QED BY <2>1, <2>2, <1>3
<1>9. Spliced(s, c, m) = t
  BY DEF Spliced, t, b, a, z
<1> QED BY <1>5, <1>6, <1>7, <1>8, <1>9 DEF SplicedOK

=============================================================================
