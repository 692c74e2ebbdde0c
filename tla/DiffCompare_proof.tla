------------------------- MODULE DiffCompare_proof -------------------------
(***************************************************************************)
(* The comparison of two files of any length, heuristics and all: the      *)
(* sweeps of diag stay in their box, compareseq and diag divide as         *)
(* Compareseq says, so that the lines that are not flagged are the same in *)
(* both files, and shift_boundaries keeps them the same.                   *)
(***************************************************************************)
EXTENDS DiffCompare, FiniteSetTheorems, SequenceTheorems, WellFoundedInduction, TLAPS

-----------------------------------------------------------------------------
(* Least and greatest numbers.                                             *)
LEMMA LeastNat ==
  ASSUME NEW S, S \subseteq Nat, S # {}
  PROVE  \E x \in S : \A y \in S : x <= y
<1>1. PICK x \in S : \A y \in S : ~(<<y, x>> \in OpToRel(<, Nat))
  BY NatLessThanWellFounded, WFMin
<1>2. \A y \in S : ~(y < x)
  BY <1>1 DEF OpToRel
<1> QED
  BY <1>2

LEMMA LeastIsLeast ==
  ASSUME NEW S, \A x \in S : x \in Int, S # {}, NEW m \in Int, \A x \in S : m <= x
  PROVE  /\ Least(S) \in S
         /\ \A y \in S : Least(S) <= y
<1> DEFINE T == {x - m : x \in S}
<1>1. (\A t \in T : t \in Nat) /\ T # {}
  OBVIOUS
<1>2. PICK t \in T : \A u \in T : t <= u
  BY <1>1, LeastNat
<1>3. PICK x \in S : t = x - m
  OBVIOUS
<1>4. \A y \in S : x <= y
  <2> TAKE y \in S
  <2>1. t <= y - m
    BY <1>2
  <2> QED
    BY <2>1, <1>3
<1>5. \E z \in S : \A y \in S : z <= y
  BY <1>4
<1> QED
  BY <1>5 DEF Least

LEMMA BiggestIsBiggest ==
  ASSUME NEW S, \A x \in S : x \in Int, S # {}, NEW n \in Int, \A x \in S : x <= n
  PROVE  /\ Biggest(S) \in S
         /\ \A y \in S : y <= Biggest(S)
<1> DEFINE T == {n - x : x \in S}
<1>1. (\A t \in T : t \in Nat) /\ T # {}
  OBVIOUS
<1>2. PICK t \in T : \A u \in T : t <= u
  BY <1>1, LeastNat
<1>3. PICK x \in S : t = n - x
  OBVIOUS
<1>4. \A y \in S : y <= x
  <2> TAKE y \in S
  <2>1. t <= n - y
    BY <1>2
  <2> QED
    BY <2>1, <1>3
<1>5. \E z \in S : \A y \in S : y <= z
  BY <1>4
<1> QED
  BY <1>5 DEF Biggest

-----------------------------------------------------------------------------
(* S is a set of offsets of n lines, and how many of them are before i.    *)
Within(S, n) == \A x \in S : x \in Int /\ 0 <= x /\ x < n
Rank(S, i) == Cardinality({y \in S : y < i})

LEMMA RankFinite ==
  ASSUME NEW n \in Nat, NEW S, Within(S, n), NEW i \in Int
  PROVE  /\ IsFiniteSet(S) /\ Cardinality(S) \in Nat
         /\ IsFiniteSet({y \in S : y < i}) /\ Rank(S, i) \in Nat
         /\ Rank(S, i) <= Cardinality(S)
<1>1. IsFiniteSet(0..(n - 1))
  BY FS_Interval
<1>2. IsFiniteSet(S)
  <2>1. S \in SUBSET (0..(n - 1))
    BY DEF Within
  <2> QED
    BY <1>1, <2>1, FS_Subset
<1>3. {y \in S : y < i} \in SUBSET S
  OBVIOUS
<1>4. IsFiniteSet({y \in S : y < i}) /\ Rank(S, i) <= Cardinality(S)
  BY <1>2, <1>3, FS_Subset DEF Rank
<1> QED
  BY <1>2, <1>4, FS_CardinalityType DEF Rank

LEMMA RankNext ==
  ASSUME NEW n \in Nat, NEW S, Within(S, n), NEW i \in Int
  PROVE  /\ i \in S => Rank(S, i + 1) = Rank(S, i) + 1
         /\ i \notin S => Rank(S, i + 1) = Rank(S, i)
<1>1. IsFiniteSet({y \in S : y < i})
  BY RankFinite
<1>2. CASE i \in S
  <2>1. {y \in S : y < i + 1} = {y \in S : y < i} \cup {i}
    <3>1. \A y \in S : y < i + 1 <=> y < i \/ y = i
      BY DEF Within
    <3> QED
      BY <1>2, <3>1
  <2>2. i \notin {y \in S : y < i}
    OBVIOUS
  <2> QED
    BY <1>1, <1>2, <2>1, <2>2, FS_AddElement DEF Rank
<1>3. CASE i \notin S
  <2>1. {y \in S : y < i + 1} = {y \in S : y < i}
    BY <1>3 DEF Within
  <2> QED
    BY <1>3, <2>1 DEF Rank
<1> QED
  BY <1>2, <1>3

LEMMA RankMonotone ==
  ASSUME NEW n \in Nat, NEW S, Within(S, n), NEW i \in Int, NEW j \in Int, i <= j
  PROVE  Rank(S, i) <= Rank(S, j)
<1>1. {y \in S : y < i} \in SUBSET {y \in S : y < j}
  BY DEF Within
<1> QED
  BY <1>1, RankFinite, FS_Subset DEF Rank

LEMMA RankStrict ==
  ASSUME NEW n \in Nat, NEW S, Within(S, n), NEW i \in S, NEW j \in Int, i < j
  PROVE  Rank(S, i) < Rank(S, j)
<1>0. i \in Int /\ i + 1 \in Int /\ i + 1 <= j
  BY DEF Within
<1>1. Rank(S, i + 1) = Rank(S, i) + 1 /\ Rank(S, i) \in Nat /\ Rank(S, j) \in Nat
  BY <1>0, RankNext, RankFinite
<1>2. Rank(S, i + 1) <= Rank(S, j)
  BY <1>0, RankMonotone
<1> QED
  BY <1>1, <1>2

(* No element lies between the two places.                                 *)
LEMMA RankSame ==
  ASSUME NEW n \in Nat, NEW S, Within(S, n), NEW i \in Int, NEW j \in Int, i <= j,
         \A k \in S : k < i \/ j <= k
  PROVE  Rank(S, i) = Rank(S, j)
<1>1. {y \in S : y < i} = {y \in S : y < j}
  BY DEF Within
<1> QED
  BY <1>1 DEF Rank

LEMMA RankEnds ==
  ASSUME NEW n \in Nat, NEW S, Within(S, n)
  PROVE  Rank(S, 0) = 0 /\ Rank(S, n) = Cardinality(S)
<1>1. {y \in S : y < 0} = {} /\ {y \in S : y < n} = S
  BY DEF Within
<1> QED
  BY <1>1, FS_EmptySet DEF Rank

(* Ranks tell elements apart.                                              *)
LEMMA RankInjective ==
  ASSUME NEW n \in Nat, NEW S, Within(S, n), NEW i \in S, NEW j \in S
  PROVE  /\ Rank(S, i) = Rank(S, j) => i = j
         /\ i < j <=> Rank(S, i) < Rank(S, j)
<1>1. i \in Int /\ j \in Int
  BY DEF Within
<1>2. Rank(S, i) \in Nat /\ Rank(S, j) \in Nat
  BY <1>1, RankFinite
<1>3. i < j => Rank(S, i) < Rank(S, j)
  BY <1>1, RankStrict
<1>4. j < i => Rank(S, j) < Rank(S, i)
  BY <1>1, RankStrict
<1> QED
  BY <1>1, <1>2, <1>3, <1>4

(* Every rank up to the size of the set is some element's.                 *)
LEMMA RankSurjective ==
  ASSUME NEW n \in Nat, NEW S, Within(S, n), NEW r \in Nat, r < Cardinality(S)
  PROVE  \E x \in S : Rank(S, x) = r
<1> DEFINE Beyond == {i \in Nat : r < Rank(S, i)}
<1>1. n \in Beyond
  BY RankEnds DEF Beyond
<1>2. Beyond \subseteq Nat /\ Beyond # {}
  BY <1>1
<1> HIDE DEF Beyond
<1>3. PICK i \in Beyond : \A k \in Beyond : i <= k
  BY <1>2, LeastNat
<1>4. i \in Nat /\ r < Rank(S, i)
  BY DEF Beyond
<1>5. i # 0
  BY <1>4, RankEnds
<1>6. i - 1 \in Nat /\ i - 1 \notin Beyond
  BY <1>3, <1>4, <1>5
<1>7. ~(r < Rank(S, i - 1))
  BY <1>6 DEF Beyond
<1>8. Rank(S, i - 1) \in Nat /\ Rank(S, i) \in Nat
  <2>1. i \in Int /\ i - 1 \in Int
    BY <1>4
  <2> QED
    BY <2>1, RankFinite
<1>9. /\ i - 1 \in S => Rank(S, i) = Rank(S, i - 1) + 1
      /\ i - 1 \notin S => Rank(S, i) = Rank(S, i - 1)
  <2>1. (i - 1) + 1 = i
    BY <1>4
  <2> QED
    BY <2>1, <1>6, RankNext
<1> QED
  BY <1>4, <1>7, <1>8, <1>9

(* InOrder lists every element, by its rank.                               *)
LEMMA InOrderListed ==
  ASSUME NEW n \in Nat, NEW S, Within(S, n)
  PROVE  /\ InOrder(S) \in Seq(S) /\ Len(InOrder(S)) = Cardinality(S)
         /\ \A k \in 1..Cardinality(S) :
              InOrder(S)[k] \in S /\ Rank(S, InOrder(S)[k]) = k - 1
         /\ \A x \in S : /\ Rank(S, x) + 1 \in 1..Cardinality(S)
                         /\ InOrder(S)[Rank(S, x) + 1] = x
<1> DEFINE c == Cardinality(S)
<1>1. c \in Nat
  <2>1. 0 \in Int
    OBVIOUS
  <2> QED
    BY <2>1, RankFinite
<1>2. ASSUME NEW x \in S
      PROVE  Cardinality({y \in S : y <= x}) = Rank(S, x) + 1
  <2>1. {y \in S : y <= x} = {y \in S : y < x + 1} /\ x \in Int
    BY DEF Within
  <2> QED
    BY <2>1, RankNext DEF Rank
<1>3. ASSUME NEW k \in 1..c
      PROVE  InOrder(S)[k] \in S /\ Rank(S, InOrder(S)[k]) = k - 1
  <2>1. PICK x \in S : Rank(S, x) = k - 1
    BY <1>1, RankSurjective
  <2>2. Cardinality({y \in S : y <= x}) = k
    BY <1>2, <2>1
  <2>3. InOrder(S)[k] = CHOOSE z \in S : Cardinality({y \in S : y <= z}) = k
    BY DEF InOrder
  <2>4. InOrder(S)[k] \in S /\ Cardinality({y \in S : y <= InOrder(S)[k]}) = k
    BY <2>2, <2>3
  <2>5. Rank(S, InOrder(S)[k]) + 1 = k /\ InOrder(S)[k] \in Int
    BY <2>4, <1>2 DEF Within
  <2>6. Rank(S, InOrder(S)[k]) \in Nat
    BY <2>5, RankFinite
  <2> QED
    BY <2>4, <2>5, <2>6
<1>4. DOMAIN InOrder(S) = 1..c
  BY DEF InOrder
<1>5. InOrder(S) \in Seq(S) /\ Len(InOrder(S)) = c
  <2>1. InOrder(S) = [k \in 1..c |-> InOrder(S)[k]]
    BY DEF InOrder
  <2>2. InOrder(S) \in [1..c -> S]
    BY <1>3, <2>1
  <2> QED
    BY <1>1, <2>2
<1>6. ASSUME NEW x \in S
      PROVE  Rank(S, x) + 1 \in 1..c /\ InOrder(S)[Rank(S, x) + 1] = x
  <2>0. x \in Int /\ n \in Int /\ x < n
    BY DEF Within
  <2>1. Rank(S, x) \in Nat
    BY <2>0, RankFinite
  <2>2. Rank(S, x) < c
    BY <2>0, <2>1, RankStrict, RankEnds
  <2>3. Rank(S, x) + 1 \in 1..c
    BY <2>1, <2>2, <1>1
  <2>4. InOrder(S)[Rank(S, x) + 1] \in S /\ Rank(S, InOrder(S)[Rank(S, x) + 1]) = Rank(S, x)
    BY <1>3, <2>3, <2>1
  <2> QED
    BY <2>3, <2>4, RankInjective
<1> QED
  BY <1>3, <1>5, <1>6

-----------------------------------------------------------------------------
(* The pairs m match the elements of S with those of T, in order.          *)
Matching(m, S, T) ==
    /\ \A p \in m : p[1] \in S /\ p[2] \in T
    /\ \A x \in S : \E y \in T : <<x, y>> \in m
    /\ \A y \in T : \E x \in S : <<x, y>> \in m
    /\ \A p, q \in m : p[1] < q[1] <=> p[2] < q[2]

(* Then parts that m matches are of one size.                              *)
LEMMA MatchingParts ==
  ASSUME NEW n \in Nat, NEW S, Within(S, n), NEW k \in Nat, NEW T, Within(T, k),
         NEW m, Matching(m, S, T), NEW A \in SUBSET S, NEW B \in SUBSET T,
         \A x \in S, y \in T : <<x, y>> \in m => (x \in A <=> y \in B)
  PROVE  Cardinality(A) = Cardinality(B)
<1> DEFINE f == [x \in A |-> CHOOSE y \in T : <<x, y>> \in m]
<1>1. ASSUME NEW x \in A PROVE f[x] \in T /\ <<x, f[x]>> \in m /\ f[x] \in B
  <2>1. \E y \in T : <<x, y>> \in m
    BY DEF Matching
  <2>2. f[x] = CHOOSE y \in T : <<x, y>> \in m
    OBVIOUS
  <2> QED
    BY <2>1, <2>2
<1>2. f \in [A -> B]
  BY <1>1
<1>3. ASSUME NEW p \in m, NEW q \in m
      PROVE  p[1] = q[1] <=> p[2] = q[2]
  <2>1. /\ p[1] \in Int /\ q[1] \in Int /\ p[2] \in Int /\ q[2] \in Int
    BY DEF Matching, Within
  <2>2. (p[1] < q[1] <=> p[2] < q[2]) /\ (q[1] < p[1] <=> q[2] < p[2])
    BY DEF Matching
  <2> QED
    BY <2>1, <2>2
<1>4. ASSUME NEW x \in A, NEW z \in A, f[x] = f[z]
      PROVE  x = z
  <2> HIDE DEF f
  <2>1. <<x, f[x]>> \in m /\ <<z, f[z]>> \in m
    BY <1>1
  <2>2. <<x, f[x]>>[1] = <<z, f[z]>>[1] <=> <<x, f[x]>>[2] = <<z, f[z]>>[2]
    BY <2>1, <1>3
  <2> QED
    BY <2>1, <2>2, <1>4
<1>5. ASSUME NEW y \in B
      PROVE  \E x \in A : f[x] = y
  <2>1. PICK x \in S : <<x, y>> \in m
    BY DEF Matching
  <2>2. x \in A
    BY <2>1
  <2>3. <<x, f[x]>> \in m
    BY <1>1, <2>2
  <2>4. f[x] = y
    BY <2>1, <2>3, <1>3
  <2> QED
    BY <2>2, <2>4
<1> HIDE DEF f
<1>6. ExistsBijection(A, B)
  BY <1>2, <1>4, <1>5 DEF ExistsBijection, Bijection, Injection, Surjection, IsInjective
<1>7. IsFiniteSet(A)
  <2>1. IsFiniteSet(S)
    <3>1. 0 \in Int
      OBVIOUS
    <3> QED
      BY <3>1, RankFinite
  <2> QED
    BY <2>1, FS_Subset
<1> QED
  BY <1>6, <1>7, FS_Bijection

(* So it is told by the ranks, and S and T are of one size.                *)
LEMMA MatchingByRank ==
  ASSUME NEW n \in Nat, NEW S, Within(S, n), NEW k \in Nat, NEW T, Within(T, k),
         NEW m, Matching(m, S, T)
  PROVE  /\ Cardinality(S) = Cardinality(T)
         /\ \A x \in S, y \in T : <<x, y>> \in m <=> Rank(S, x) = Rank(T, y)
<1>1. Cardinality(S) = Cardinality(T)
  <2>1. S \in SUBSET S /\ T \in SUBSET T
    OBVIOUS
  <2> QED
    BY <2>1, MatchingParts
<1>2. ASSUME NEW x \in S, NEW y \in T, <<x, y>> \in m
      PROVE  Rank(S, x) = Rank(T, y)
  <2> DEFINE A == {z \in S : z < x}
             B == {z \in T : z < y}
  <2>1. \A v \in S, w \in T : <<v, w>> \in m => (v \in A <=> w \in B)
    <3> TAKE v \in S, w \in T
    <3> HAVE <<v, w>> \in m
    <3>1. <<v, w>>[1] < <<x, y>>[1] <=> <<v, w>>[2] < <<x, y>>[2]
      BY <1>2 DEF Matching
    <3> QED
      BY <3>1
  <2>2. A \in SUBSET S /\ B \in SUBSET T
    OBVIOUS
  <2> HIDE DEF A, B
  <2>3. Cardinality(A) = Cardinality(B)
    BY <2>1, <2>2, MatchingParts
  <2> QED
    BY <2>3 DEF A, B, Rank
<1>3. ASSUME NEW x \in S, NEW y \in T, Rank(S, x) = Rank(T, y)
      PROVE  <<x, y>> \in m
  <2>1. PICK z \in T : <<x, z>> \in m
    BY DEF Matching
  <2>2. Rank(T, z) = Rank(T, y)
    BY <1>2, <1>3, <2>1
  <2>3. z = y
    BY <2>2, RankInjective
  <2> QED
    BY <2>1, <2>3
<1> QED
  BY <1>1, <1>2, <1>3

-----------------------------------------------------------------------------
(* diag.  u holds how far the diagonals E have been followed in the box b. *)
IsBox(b) ==
    /\ b.xoff \in Nat /\ b.xlim \in Nat /\ b.yoff \in Nat /\ b.ylim \in Nat
    /\ b.xoff < b.xlim /\ b.yoff < b.ylim /\ b.xlim < OFFSET_MAX

Ahead(b, E, u) == \A d \in E : /\ d \in Int /\ u[d] \in Int
                               /\ b.xoff <= u[d] /\ b.yoff <= u[d] - d

Frontier(b, E, u, lo, hi) ==
    \A d \in E : /\ u[d] >= b.xlim => hi <= d
                 /\ u[d] - d >= b.ylim => d <= lo
                 /\ u[d] < b.xlim \/ u[d] - d < b.ylim
                 /\ u[d] > b.xlim => d - 2 \in E /\ u[d - 2] >= u[d] - 1
                 /\ u[d] - d > b.ylim => d + 2 \in E /\ u[d + 2] >= u[d] + 1

Beside(E, S, u) ==
    \A d \in S : /\ d \in Int
                 /\ \/ d - 1 \in E /\ (d + 1 \in E \/ u[d + 1] = -1)
                    \/ u[d - 1] = -1 /\ d + 1 \in E

Edges(E, S, least, most) ==
    \A d \in S : /\ d - 1 \in E /\ d - 2 \notin S => d - 1 = least
                 /\ d + 1 \in E /\ d + 2 \notin S => d + 1 = most

Start(u, d) == IF u[d - 1] < u[d + 1] THEN u[d + 1] ELSE u[d - 1] + 1

Snaked(b, S, u, v) ==
    \A d \in S : /\ v[d] \in Int /\ Start(u, d) <= v[d]
                 /\ v[d] = Start(u, d) \/ (v[d] <= b.xlim /\ v[d] - d <= b.ylim)

LEMMA StartAhead ==
  ASSUME NEW b, IsBox(b), NEW E, NEW S, NEW u, Ahead(b, E, u), Beside(E, S, u), NEW d \in S
  PROVE  /\ Start(u, d) \in Int /\ b.xoff <= Start(u, d) /\ b.yoff <= Start(u, d) - d
         /\ d - 1 \in E => u[d - 1] + 1 <= Start(u, d)
         /\ d + 1 \in E => u[d + 1] <= Start(u, d)
         /\ \/ d + 1 \in E /\ Start(u, d) = u[d + 1]
            \/ d - 1 \in E /\ Start(u, d) = u[d - 1] + 1
<1>1. d \in Int /\ d - 1 \in Int /\ d + 1 \in Int
  BY DEF Beside
<1>2. d - 1 \in E => u[d - 1] \in Int /\ b.xoff <= u[d - 1] /\ b.yoff <= u[d - 1] - (d - 1)
  BY DEF Ahead
<1>3. d + 1 \in E => u[d + 1] \in Int /\ b.xoff <= u[d + 1] /\ b.yoff <= u[d + 1] - (d + 1)
  BY DEF Ahead
<1>4. b.xoff \in Nat /\ b.yoff \in Nat
  BY DEF IsBox
<1>5. CASE d - 1 \in E /\ d + 1 \in E
  BY <1>1, <1>2, <1>3, <1>4, <1>5 DEF Start
<1>6. CASE d - 1 \in E /\ d + 1 \notin E
  <2>1. u[d + 1] = -1
    BY <1>6 DEF Beside
  <2> QED
    BY <1>1, <1>2, <1>4, <1>6, <2>1 DEF Start
<1>7. CASE d - 1 \notin E
  <2>1. u[d - 1] = -1 /\ d + 1 \in E
    BY <1>7 DEF Beside
  <2> QED
    BY <1>1, <1>3, <1>4, <1>7, <2>1 DEF Start
<1> QED
  BY <1>5, <1>6, <1>7

LEMMA SweptAhead ==
  ASSUME NEW b, IsBox(b), NEW E, NEW S, NEW u, NEW v, Ahead(b, E, u), Beside(E, S, u),
         Snaked(b, S, u, v)
  PROVE  Ahead(b, S, v)
<1> SUFFICES ASSUME NEW d \in S
             PROVE  d \in Int /\ v[d] \in Int /\ b.xoff <= v[d] /\ b.yoff <= v[d] - d
  BY DEF Ahead
<1>1. Start(u, d) \in Int /\ b.xoff <= Start(u, d) /\ b.yoff <= Start(u, d) - d
  BY StartAhead
<1>2. d \in Int /\ v[d] \in Int /\ Start(u, d) <= v[d] /\ b.xoff \in Nat /\ b.yoff \in Nat
  BY DEF Beside, Snaked, IsBox
<1> QED
  BY <1>1, <1>2

LEMMA BeyondFront ==
  ASSUME NEW b, IsBox(b), NEW E, NEW S, NEW u, NEW v, Ahead(b, E, u), Beside(E, S, u),
         Snaked(b, S, u, v), NEW lo \in Int, NEW hi \in Int, Frontier(b, E, u, lo, hi), NEW d \in S
  PROVE  /\ v[d] > b.xlim => /\ v[d] = Start(u, d) /\ d - 1 \in E /\ u[d - 1] >= v[d] - 1
                             /\ hi <= d - 1
         /\ v[d] - d > b.ylim => /\ v[d] = u[d + 1] /\ d + 1 \in E
                                 /\ d + 1 <= lo
<1> DEFINE x == Start(u, d)
<1>1. /\ d \in Int /\ v[d] \in Int /\ x \in Int
      /\ v[d] = x \/ (v[d] <= b.xlim /\ v[d] - d <= b.ylim)
      /\ b.xlim \in Nat /\ b.ylim \in Nat
  BY StartAhead DEF Beside, Snaked, IsBox
<1>2. /\ d - 1 \in E => u[d - 1] + 1 <= x /\ u[d - 1] \in Int
      /\ d + 1 \in E => u[d + 1] <= x /\ u[d + 1] \in Int
      /\ \/ d + 1 \in E /\ x = u[d + 1]
         \/ d - 1 \in E /\ x = u[d - 1] + 1
  BY StartAhead DEF Ahead
<1> HIDE DEF x
<1>3. ASSUME v[d] > b.xlim
      PROVE  v[d] = x /\ d - 1 \in E /\ u[d - 1] >= v[d] - 1 /\ hi <= d - 1
  <2>1. v[d] = x
    BY <1>1, <1>3
  <2>2. d - 1 \in E /\ u[d - 1] >= x - 1
    <3>1. CASE d + 1 \in E /\ x = u[d + 1]
      <4>1. (d + 1) - 2 \in E /\ u[(d + 1) - 2] >= u[d + 1] - 1
        BY <1>1, <1>3, <2>1, <3>1 DEF Frontier
      <4>2. (d + 1) - 2 = d - 1
        BY <1>1
      <4> QED
        BY <3>1, <4>1, <4>2
    <3>2. CASE d - 1 \in E /\ x = u[d - 1] + 1
      BY <1>2, <3>2
    <3> QED
      BY <1>2, <3>1, <3>2
  <2>3. u[d - 1] >= b.xlim
    BY <1>1, <1>2, <1>3, <2>1, <2>2
  <2>4. hi <= d - 1
    BY <2>2, <2>3 DEF Frontier
  <2> QED
    BY <2>1, <2>2, <2>4
<1>4. ASSUME v[d] - d > b.ylim
      PROVE  v[d] = u[d + 1] /\ d + 1 \in E /\ d + 1 <= lo
  <2>1. v[d] = x
    BY <1>1, <1>4
  <2>2. d + 1 \in E /\ x = u[d + 1]
    <3>1. CASE d - 1 \in E /\ x = u[d - 1] + 1
      <4>1. u[d - 1] - (d - 1) > b.ylim
        BY <1>1, <1>2, <1>4, <2>1, <3>1
      <4>2. (d - 1) + 2 \in E /\ u[(d - 1) + 2] >= u[d - 1] + 1
        BY <3>1, <4>1 DEF Frontier
      <4>3. (d - 1) + 2 = d + 1
        BY <1>1
      <4>4. d + 1 \in E /\ u[d + 1] >= x
        BY <3>1, <4>2, <4>3
      <4> QED
        BY <1>1, <1>2, <4>4
    <3> QED
      BY <1>2, <3>1
  <2>3. u[d + 1] - (d + 1) >= b.ylim
    BY <1>1, <1>4, <2>1, <2>2
  <2>4. d + 1 <= lo
    BY <2>2, <2>3 DEF Frontier
  <2> QED
    BY <2>1, <2>2, <2>4
<1> QED
  BY <1>3, <1>4 DEF x

LEMMA MeetInside ==
  ASSUME NEW b, IsBox(b), NEW E, NEW S, NEW u, NEW v, Ahead(b, E, u), Beside(E, S, u),
         Snaked(b, S, u, v), NEW lo \in Int, NEW hi \in Int, Frontier(b, E, u, lo, hi),
         NEW d \in S, lo <= d, d <= hi
  PROVE  v[d] <= b.xlim /\ v[d] - d <= b.ylim
<1>1. d \in Int /\ v[d] \in Int /\ b.xlim \in Int /\ b.ylim \in Int
  BY DEF Beside, Snaked, IsBox
<1>2. ~(v[d] > b.xlim)
  <2> SUFFICES ASSUME v[d] > b.xlim PROVE FALSE
    OBVIOUS
  <2>1. hi <= d - 1
    BY BeyondFront
  <2> QED
    BY <1>1, <2>1
<1>3. ~(v[d] - d > b.ylim)
  <2> SUFFICES ASSUME v[d] - d > b.ylim PROVE FALSE
    OBVIOUS
  <2>1. d + 1 <= lo
    BY BeyondFront
  <2> QED
    BY <1>1, <2>1
<1> QED
  BY <1>1, <1>2, <1>3

LEMMA FrontKept ==
  ASSUME NEW b, IsBox(b), NEW E, NEW S, NEW u, NEW v, Ahead(b, E, u), Beside(E, S, u),
         Edges(E, S, b.xoff - b.ylim, b.xlim - b.yoff),
         Snaked(b, S, u, v), NEW lo \in Int, NEW hi \in Int, Frontier(b, E, u, lo, hi),
         lo <= b.xlim - b.ylim, b.xlim - b.ylim <= hi,
         \A d \in S : lo <= d /\ d <= hi => v[d] < b.xlim /\ v[d] - d < b.ylim
  PROVE  Frontier(b, S, v, lo - 1, hi + 1)
<1> SUFFICES ASSUME NEW d \in S
             PROVE  /\ v[d] >= b.xlim => hi + 1 <= d
                    /\ v[d] - d >= b.ylim => d <= lo - 1
                    /\ v[d] < b.xlim \/ v[d] - d < b.ylim
                    /\ v[d] > b.xlim => d - 2 \in S /\ v[d - 2] >= v[d] - 1
                    /\ v[d] - d > b.ylim => d + 2 \in S /\ v[d + 2] >= v[d] + 1
  BY DEF Frontier
<1>1. /\ d \in Int /\ v[d] \in Int /\ Start(u, d) \in Int
      /\ v[d] = Start(u, d) \/ (v[d] <= b.xlim /\ v[d] - d <= b.ylim)
      /\ b.xlim \in Nat /\ b.ylim \in Nat /\ b.xoff \in Nat /\ b.yoff \in Nat
      /\ b.xoff < b.xlim /\ b.yoff < b.ylim
  BY StartAhead DEF Beside, Snaked, IsBox
<1>2. /\ v[d] > b.xlim => /\ v[d] = Start(u, d) /\ d - 1 \in E /\ u[d - 1] >= v[d] - 1
                          /\ hi <= d - 1
      /\ v[d] - d > b.ylim => /\ v[d] = u[d + 1] /\ d + 1 \in E /\ d + 1 <= lo
  BY BeyondFront
<1>3. /\ d - 1 \in E => u[d - 1] \in Int /\ (u[d - 1] < b.xlim \/ u[d - 1] - (d - 1) < b.ylim)
      /\ d + 1 \in E => u[d + 1] \in Int /\ (u[d + 1] < b.xlim \/ u[d + 1] - (d + 1) < b.ylim)
  BY DEF Frontier, Ahead
<1>4. /\ \/ d + 1 \in E /\ Start(u, d) = u[d + 1]
         \/ d - 1 \in E /\ Start(u, d) = u[d - 1] + 1
  BY StartAhead
(* Where the search has left the box at the right, it has done so on the  *)
(* diagonals above, and below accordingly.                                *)
<1>5. lo <= d /\ d <= hi => v[d] < b.xlim /\ v[d] - d < b.ylim
  OBVIOUS
<1>6. ASSUME v[d] >= b.xlim
      PROVE  hi + 1 <= d
  <2> SUFFICES ASSUME d < lo PROVE FALSE
    BY <1>1, <1>5, <1>6
  <2>1. v[d] - d > b.ylim
    BY <1>1, <1>6
  <2>2. v[d] = u[d + 1] /\ d + 1 \in E
    BY <1>2, <2>1
  <2>3. u[d + 1] \in Int /\ (u[d + 1] < b.xlim \/ u[d + 1] - (d + 1) < b.ylim)
    BY <1>3, <2>2
  <2> QED
    BY <1>1, <1>6, <2>1, <2>2, <2>3
<1>7. ASSUME v[d] - d >= b.ylim
      PROVE  d <= lo - 1
  <2> SUFFICES ASSUME hi < d PROVE FALSE
    BY <1>1, <1>5, <1>7
  <2>1. v[d] > b.xlim
    BY <1>1, <1>7
  <2>2. v[d] = Start(u, d) /\ d - 1 \in E /\ u[d - 1] >= v[d] - 1
    BY <1>2, <2>1
  <2>3. u[d - 1] \in Int /\ (u[d - 1] < b.xlim \/ u[d - 1] - (d - 1) < b.ylim)
    BY <1>3, <2>2
  <2>4. u[d - 1] + 1 <= Start(u, d)
    BY <2>2, StartAhead
  <2> QED
    BY <1>1, <1>7, <2>1, <2>2, <2>3, <2>4
<1>8. v[d] < b.xlim \/ v[d] - d < b.ylim
  BY <1>1, <1>6, <1>7
<1>9. ASSUME v[d] > b.xlim
      PROVE  d - 2 \in S /\ v[d - 2] >= v[d] - 1
  <2>1. v[d] = Start(u, d) /\ d - 1 \in E /\ u[d - 1] >= v[d] - 1 /\ hi <= d - 1
    BY <1>2, <1>9
  <2>2. d - 2 \in S
    <3> SUFFICES ASSUME d - 2 \notin S PROVE FALSE
      OBVIOUS
    <3>1. d - 1 = b.xoff - b.ylim
      BY <2>1 DEF Edges
    <3> QED
      BY <1>1, <2>1, <3>1
  <2>3. (d - 2) + 1 \in E => u[(d - 2) + 1] <= Start(u, d - 2)
    BY <2>2, StartAhead
  <2>4. (d - 2) + 1 = d - 1
    BY <1>1
  <2>5. u[d - 1] <= Start(u, d - 2)
    BY <2>1, <2>3, <2>4
  <2>6. Start(u, d - 2) <= v[d - 2] /\ v[d - 2] \in Int
    BY <2>2 DEF Snaked
  <2>7. Start(u, d - 2) \in Int
    BY <2>2, StartAhead
  <2> QED
    BY <1>1, <1>3, <2>1, <2>2, <2>5, <2>6, <2>7
<1>10. ASSUME v[d] - d > b.ylim
       PROVE  d + 2 \in S /\ v[d + 2] >= v[d] + 1
  <2>1. v[d] = u[d + 1] /\ d + 1 \in E /\ d + 1 <= lo
    BY <1>2, <1>10
  <2>2. d + 2 \in S
    <3> SUFFICES ASSUME d + 2 \notin S PROVE FALSE
      OBVIOUS
    <3>1. d + 1 = b.xlim - b.yoff
      BY <2>1 DEF Edges
    <3> QED
      BY <1>1, <2>1, <3>1
  <2>3. (d + 2) - 1 \in E => u[(d + 2) - 1] + 1 <= Start(u, d + 2)
    BY <2>2, StartAhead
  <2>4. (d + 2) - 1 = d + 1
    BY <1>1
  <2>5. u[d + 1] + 1 <= Start(u, d + 2)
    BY <2>1, <2>3, <2>4
  <2>6. Start(u, d + 2) <= v[d + 2] /\ v[d + 2] \in Int
    BY <2>2 DEF Snaked
  <2>7. Start(u, d + 2) \in Int
    BY <2>2, StartAhead
  <2> QED
    BY <1>1, <1>3, <2>1, <2>2, <2>5, <2>6, <2>7
<1> QED
  BY <1>6, <1>7, <1>8, <1>9, <1>10

Behind(b, E, u) == \A d \in E : /\ d \in Int /\ u[d] \in Int
                                /\ u[d] <= b.xlim /\ u[d] - d <= b.ylim

Rear(b, E, u, lo, hi) ==
    \A d \in E : /\ u[d] <= b.xoff => d <= lo
                 /\ u[d] - d <= b.yoff => hi <= d
                 /\ u[d] > b.xoff \/ u[d] - d > b.yoff
                 /\ u[d] < b.xoff => d + 2 \in E /\ u[d + 2] <= u[d] + 1
                 /\ u[d] - d < b.yoff => d - 2 \in E /\ u[d - 2] <= u[d] - 1

RearBeside(E, S, u) ==
    \A d \in S : /\ d \in Int
                 /\ \/ d + 1 \in E /\ (d - 1 \in E \/ u[d - 1] = OFFSET_MAX)
                    \/ u[d + 1] = OFFSET_MAX /\ d - 1 \in E

RearStart(u, d) == IF u[d - 1] < u[d + 1] THEN u[d - 1] ELSE u[d + 1] - 1

RearSnaked(b, S, u, v) ==
    \A d \in S : /\ v[d] \in Int /\ v[d] <= RearStart(u, d)
                 /\ v[d] = RearStart(u, d) \/ (b.xoff <= v[d] /\ b.yoff <= v[d] - d)

LEMMA StartBehind ==
  ASSUME NEW b, IsBox(b), NEW E, NEW S, NEW u, Behind(b, E, u), RearBeside(E, S, u), NEW d \in S
  PROVE  /\ RearStart(u, d) \in Int
         /\ RearStart(u, d) <= b.xlim /\ RearStart(u, d) - d <= b.ylim
         /\ d + 1 \in E => RearStart(u, d) <= u[d + 1] - 1
         /\ d - 1 \in E => RearStart(u, d) <= u[d - 1]
         /\ \/ d - 1 \in E /\ RearStart(u, d) = u[d - 1]
            \/ d + 1 \in E /\ RearStart(u, d) = u[d + 1] - 1
<1>1. d \in Int /\ d - 1 \in Int /\ d + 1 \in Int
  BY DEF RearBeside
<1>2. d - 1 \in E => u[d - 1] \in Int /\ u[d - 1] <= b.xlim /\ u[d - 1] - (d - 1) <= b.ylim
  BY DEF Behind
<1>3. d + 1 \in E => u[d + 1] \in Int /\ u[d + 1] <= b.xlim /\ u[d + 1] - (d + 1) <= b.ylim
  BY DEF Behind
<1>4. b.xlim \in Nat /\ b.ylim \in Nat /\ OFFSET_MAX \in Nat /\ b.xlim < OFFSET_MAX
  BY LimitsAssumption DEF IsBox
<1>5. CASE d - 1 \in E /\ d + 1 \in E
  BY <1>1, <1>2, <1>3, <1>4, <1>5 DEF RearStart
<1>6. CASE d + 1 \in E /\ d - 1 \notin E
  <2>1. u[d - 1] = OFFSET_MAX
    BY <1>6 DEF RearBeside
  <2> QED
    BY <1>1, <1>3, <1>4, <1>6, <2>1 DEF RearStart
<1>7. CASE d + 1 \notin E
  <2>1. u[d + 1] = OFFSET_MAX /\ d - 1 \in E
    BY <1>7 DEF RearBeside
  <2> QED
    BY <1>1, <1>2, <1>4, <1>7, <2>1 DEF RearStart
<1> QED
  BY <1>5, <1>6, <1>7

LEMMA SweptBehind ==
  ASSUME NEW b, IsBox(b), NEW E, NEW S, NEW u, NEW v, Behind(b, E, u), RearBeside(E, S, u),
         RearSnaked(b, S, u, v)
  PROVE  Behind(b, S, v)
<1> SUFFICES ASSUME NEW d \in S
             PROVE  d \in Int /\ v[d] \in Int /\ v[d] <= b.xlim /\ v[d] - d <= b.ylim
  BY DEF Behind
<1>1. RearStart(u, d) \in Int /\ RearStart(u, d) <= b.xlim /\ RearStart(u, d) - d <= b.ylim
  BY StartBehind
<1>2. d \in Int /\ v[d] \in Int /\ v[d] <= RearStart(u, d) /\ b.xlim \in Nat /\ b.ylim \in Nat
  BY DEF RearBeside, RearSnaked, IsBox
<1> QED
  BY <1>1, <1>2

LEMMA BeyondRear ==
  ASSUME NEW b, IsBox(b), NEW E, NEW S, NEW u, NEW v, Behind(b, E, u), RearBeside(E, S, u),
         RearSnaked(b, S, u, v), NEW lo \in Int, NEW hi \in Int, Rear(b, E, u, lo, hi), NEW d \in S
  PROVE  /\ v[d] < b.xoff => /\ v[d] = RearStart(u, d) /\ d + 1 \in E /\ u[d + 1] <= v[d] + 1
                             /\ d + 1 <= lo
         /\ v[d] - d < b.yoff => /\ v[d] = u[d - 1] /\ d - 1 \in E
                                 /\ hi <= d - 1
<1> DEFINE x == RearStart(u, d)
<1>1. /\ d \in Int /\ v[d] \in Int /\ x \in Int
      /\ v[d] = x \/ (b.xoff <= v[d] /\ b.yoff <= v[d] - d)
      /\ b.xoff \in Nat /\ b.yoff \in Nat
  BY StartBehind DEF RearBeside, RearSnaked, IsBox
<1>2. /\ d + 1 \in E => x <= u[d + 1] - 1 /\ u[d + 1] \in Int
      /\ d - 1 \in E => x <= u[d - 1] /\ u[d - 1] \in Int
      /\ \/ d - 1 \in E /\ x = u[d - 1]
         \/ d + 1 \in E /\ x = u[d + 1] - 1
  BY StartBehind DEF Behind
<1> HIDE DEF x
<1>3. ASSUME v[d] < b.xoff
      PROVE  v[d] = x /\ d + 1 \in E /\ u[d + 1] <= v[d] + 1 /\ d + 1 <= lo
  <2>1. v[d] = x
    BY <1>1, <1>3
  <2>2. d + 1 \in E /\ u[d + 1] <= x + 1
    <3>1. CASE d - 1 \in E /\ x = u[d - 1]
      <4>1. (d - 1) + 2 \in E /\ u[(d - 1) + 2] <= u[d - 1] + 1
        BY <1>1, <1>3, <2>1, <3>1 DEF Rear
      <4>2. (d - 1) + 2 = d + 1
        BY <1>1
      <4> QED
        BY <3>1, <4>1, <4>2
    <3>2. CASE d + 1 \in E /\ x = u[d + 1] - 1
      BY <1>2, <3>2
    <3> QED
      BY <1>2, <3>1, <3>2
  <2>3. u[d + 1] <= b.xoff
    BY <1>1, <1>2, <1>3, <2>1, <2>2
  <2>4. d + 1 <= lo
    BY <2>2, <2>3 DEF Rear
  <2> QED
    BY <2>1, <2>2, <2>4
<1>4. ASSUME v[d] - d < b.yoff
      PROVE  v[d] = u[d - 1] /\ d - 1 \in E /\ hi <= d - 1
  <2>1. v[d] = x
    BY <1>1, <1>4
  <2>2. d - 1 \in E /\ x = u[d - 1]
    <3>1. CASE d + 1 \in E /\ x = u[d + 1] - 1
      <4>1. u[d + 1] - (d + 1) < b.yoff
        BY <1>1, <1>2, <1>4, <2>1, <3>1
      <4>2. (d + 1) - 2 \in E /\ u[(d + 1) - 2] <= u[d + 1] - 1
        BY <3>1, <4>1 DEF Rear
      <4>3. (d + 1) - 2 = d - 1
        BY <1>1
      <4>4. d - 1 \in E /\ u[d - 1] <= x
        BY <3>1, <4>2, <4>3
      <4> QED
        BY <1>1, <1>2, <4>4
    <3> QED
      BY <1>2, <3>1
  <2>3. u[d - 1] - (d - 1) <= b.yoff
    BY <1>1, <1>4, <2>1, <2>2
  <2>4. hi <= d - 1
    BY <2>2, <2>3 DEF Rear
  <2> QED
    BY <2>1, <2>2, <2>4
<1> QED
  BY <1>3, <1>4 DEF x

LEMMA MeetInsideRear ==
  ASSUME NEW b, IsBox(b), NEW E, NEW S, NEW u, NEW v, Behind(b, E, u), RearBeside(E, S, u),
         RearSnaked(b, S, u, v), NEW lo \in Int, NEW hi \in Int, Rear(b, E, u, lo, hi),
         NEW d \in S, lo <= d, d <= hi
  PROVE  b.xoff <= v[d] /\ b.yoff <= v[d] - d
<1>1. d \in Int /\ v[d] \in Int /\ b.xoff \in Int /\ b.yoff \in Int
  BY DEF RearBeside, RearSnaked, IsBox
<1>2. ~(v[d] < b.xoff)
  <2> SUFFICES ASSUME v[d] < b.xoff PROVE FALSE
    OBVIOUS
  <2>1. d + 1 <= lo
    BY BeyondRear
  <2> QED
    BY <1>1, <2>1
<1>3. ~(v[d] - d < b.yoff)
  <2> SUFFICES ASSUME v[d] - d < b.yoff PROVE FALSE
    OBVIOUS
  <2>1. hi <= d - 1
    BY BeyondRear
  <2> QED
    BY <1>1, <2>1
<1> QED
  BY <1>1, <1>2, <1>3

LEMMA RearKept ==
  ASSUME NEW b, IsBox(b), NEW E, NEW S, NEW u, NEW v, Behind(b, E, u), RearBeside(E, S, u),
         Edges(E, S, b.xoff - b.ylim, b.xlim - b.yoff),
         RearSnaked(b, S, u, v), NEW lo \in Int, NEW hi \in Int, Rear(b, E, u, lo, hi),
         lo <= b.xoff - b.yoff, b.xoff - b.yoff <= hi,
         \A d \in S : lo <= d /\ d <= hi => b.xoff < v[d] /\ b.yoff < v[d] - d
  PROVE  Rear(b, S, v, lo - 1, hi + 1)
<1> SUFFICES ASSUME NEW d \in S
             PROVE  /\ v[d] <= b.xoff => d <= lo - 1
                    /\ v[d] - d <= b.yoff => hi + 1 <= d
                    /\ v[d] > b.xoff \/ v[d] - d > b.yoff
                    /\ v[d] < b.xoff => d + 2 \in S /\ v[d + 2] <= v[d] + 1
                    /\ v[d] - d < b.yoff => d - 2 \in S /\ v[d - 2] <= v[d] - 1
  BY DEF Rear
<1>1. /\ d \in Int /\ v[d] \in Int /\ RearStart(u, d) \in Int
      /\ v[d] = RearStart(u, d) \/ (b.xoff <= v[d] /\ b.yoff <= v[d] - d)
      /\ b.xlim \in Nat /\ b.ylim \in Nat /\ b.xoff \in Nat /\ b.yoff \in Nat
      /\ b.xoff < b.xlim /\ b.yoff < b.ylim
  BY StartBehind DEF RearBeside, RearSnaked, IsBox
<1>2. /\ v[d] < b.xoff => /\ v[d] = RearStart(u, d) /\ d + 1 \in E /\ u[d + 1] <= v[d] + 1
                          /\ d + 1 <= lo
      /\ v[d] - d < b.yoff => /\ v[d] = u[d - 1] /\ d - 1 \in E /\ hi <= d - 1
  BY BeyondRear
<1>3. /\ d - 1 \in E => u[d - 1] \in Int /\ (u[d - 1] > b.xoff \/ u[d - 1] - (d - 1) > b.yoff)
      /\ d + 1 \in E => u[d + 1] \in Int /\ (u[d + 1] > b.xoff \/ u[d + 1] - (d + 1) > b.yoff)
  BY DEF Rear, Behind
<1>4. lo <= d /\ d <= hi => b.xoff < v[d] /\ b.yoff < v[d] - d
  OBVIOUS
<1>5. ASSUME v[d] <= b.xoff
      PROVE  d <= lo - 1
  <2> SUFFICES ASSUME hi < d PROVE FALSE
    BY <1>1, <1>4, <1>5
  <2>1. v[d] - d < b.yoff
    BY <1>1, <1>5
  <2>2. v[d] = u[d - 1] /\ d - 1 \in E
    BY <1>2, <2>1
  <2>3. u[d - 1] \in Int /\ (u[d - 1] > b.xoff \/ u[d - 1] - (d - 1) > b.yoff)
    BY <1>3, <2>2
  <2> QED
    BY <1>1, <1>5, <2>1, <2>2, <2>3
<1>6. ASSUME v[d] - d <= b.yoff
      PROVE  hi + 1 <= d
  <2> SUFFICES ASSUME d < lo PROVE FALSE
    BY <1>1, <1>4, <1>6
  <2>1. v[d] < b.xoff
    BY <1>1, <1>6
  <2>2. v[d] = RearStart(u, d) /\ d + 1 \in E /\ u[d + 1] <= v[d] + 1
    BY <1>2, <2>1
  <2>3. u[d + 1] \in Int /\ (u[d + 1] > b.xoff \/ u[d + 1] - (d + 1) > b.yoff)
    BY <1>3, <2>2
  <2>4. RearStart(u, d) <= u[d + 1] - 1
    BY <2>2, StartBehind
  <2> QED
    BY <1>1, <1>6, <2>1, <2>2, <2>3, <2>4
<1>7. v[d] > b.xoff \/ v[d] - d > b.yoff
  BY <1>1, <1>5, <1>6
<1>8. ASSUME v[d] < b.xoff
      PROVE  d + 2 \in S /\ v[d + 2] <= v[d] + 1
  <2>1. v[d] = RearStart(u, d) /\ d + 1 \in E /\ u[d + 1] <= v[d] + 1 /\ d + 1 <= lo
    BY <1>2, <1>8
  <2>2. d + 2 \in S
    <3> SUFFICES ASSUME d + 2 \notin S PROVE FALSE
      OBVIOUS
    <3>1. d + 1 = b.xlim - b.yoff
      BY <2>1 DEF Edges
    <3> QED
      BY <1>1, <2>1, <3>1
  <2>3. (d + 2) - 1 \in E => RearStart(u, d + 2) <= u[(d + 2) - 1]
    BY <2>2, StartBehind
  <2>4. (d + 2) - 1 = d + 1
    BY <1>1
  <2>5. RearStart(u, d + 2) <= u[d + 1]
    BY <2>1, <2>3, <2>4
  <2>6. v[d + 2] <= RearStart(u, d + 2) /\ v[d + 2] \in Int
    BY <2>2 DEF RearSnaked
  <2>7. RearStart(u, d + 2) \in Int
    BY <2>2, StartBehind
  <2> QED
    BY <1>1, <1>3, <2>1, <2>2, <2>5, <2>6, <2>7
<1>9. ASSUME v[d] - d < b.yoff
      PROVE  d - 2 \in S /\ v[d - 2] <= v[d] - 1
  <2>1. v[d] = u[d - 1] /\ d - 1 \in E /\ hi <= d - 1
    BY <1>2, <1>9
  <2>2. d - 2 \in S
    <3> SUFFICES ASSUME d - 2 \notin S PROVE FALSE
      OBVIOUS
    <3>1. d - 1 = b.xoff - b.ylim
      BY <2>1 DEF Edges
    <3> QED
      BY <1>1, <2>1, <3>1
  <2>3. (d - 2) + 1 \in E => RearStart(u, d - 2) <= u[(d - 2) + 1] - 1
    BY <2>2, StartBehind
  <2>4. (d - 2) + 1 = d - 1
    BY <1>1
  <2>5. RearStart(u, d - 2) <= u[d - 1] - 1
    BY <2>1, <2>3, <2>4
  <2>6. v[d - 2] <= RearStart(u, d - 2) /\ v[d - 2] \in Int
    BY <2>2 DEF RearSnaked
  <2>7. RearStart(u, d - 2) \in Int
    BY <2>2, StartBehind
  <2> QED
    BY <1>1, <1>3, <2>1, <2>2, <2>5, <2>6, <2>7
<1> QED
  BY <1>5, <1>6, <1>7, <1>8, <1>9

-----------------------------------------------------------------------------
(* The steps of reading, of compareseq and of shift_boundaries.            *)
ReadStep == FindIdenticalPrefix \/ FindIdenticalSuffix \/ MarkDiscardable
SearchStep == \/ SlideEnds \/ StartDiag
              \/ ExtendForward \/ Forward \/ ExtendBackward \/ Backward \/ Consider
ShiftStep == Scan \/ ShiftBack \/ ShiftForth \/ ReturnToCorresponding \/ BuildScript

LEMMA Steps ==
  [Next]_vars => \/ ReadStep \/ Discard \/ SearchStep \/ SimpleCase \/ ShiftStep
                 \/ UNCHANGED vars
  BY DEF Next, ReadStep, SearchStep, ShiftStep, Done

LEMMA ReadSteps ==
  ReadStep => /\ stage \in {"read", "suffix", "discard"} /\ stage' \in Reading
              /\ UNCHANGED <<realindexes, changed, todo, search, shift, script>>
<1>1. CASE FindIdenticalPrefix
  BY <1>1 DEF FindIdenticalPrefix, Reading
<1>2. CASE FindIdenticalSuffix
  BY <1>2 DEF FindIdenticalSuffix, Reading
<1>3. CASE MarkDiscardable
  BY <1>3 DEF MarkDiscardable, Reading
<1> QED
  BY <1>1, <1>2, <1>3 DEF ReadStep

LEMMA SearchSteps ==
  SearchStep => /\ stage \in Comparing /\ stage' \in Comparing
                /\ UNCHANGED <<input, prefix_lines, equivs, discarded, realindexes, changed,
                               shift, script>>
<1>1. CASE SlideEnds
  BY <1>1 DEF SlideEnds, Comparing, compared, reading
<1>2. CASE StartDiag \/ ExtendForward \/ ExtendBackward
  BY <1>2 DEF StartDiag, ExtendForward, ExtendBackward, Comparing, compared, reading
<1>3. CASE Forward
  <2>1. stage = "forward" /\ stage' \in {"slide", "extend back"}
    BY <1>3 DEF Forward, Divide
  <2> QED
    BY <1>3, <2>1 DEF Forward, Comparing, compared, reading
<1>4. CASE Backward
  <2>1. stage = "backward" /\ stage' \in {"slide", "consider"}
    BY <1>4 DEF Backward, Divide
  <2> QED
    BY <1>4, <2>1 DEF Backward, Comparing, compared, reading
<1>5. CASE Consider
  <2>1. DivideRemarkably \/ GiveUp => stage' = "slide"
    BY DEF DivideRemarkably, GiveUp, Divide
  <2>2. stage = "consider" /\ stage' \in {"slide", "extend"}
    BY <1>5, <2>1 DEF Consider
  <2> QED
    BY <1>5, <2>2 DEF Consider, Comparing, compared, reading
<1> QED
  BY <1>1, <1>2, <1>3, <1>4, <1>5 DEF SearchStep

LEMMA SimpleSteps ==
  SimpleCase => /\ stage \in Comparing /\ stage' = IF todo' = <<>> THEN "scan" ELSE "slide"
                /\ todo' = Tail(todo)
                /\ UNCHANGED <<input, prefix_lines, equivs, discarded, realindexes, search,
                               shift, script>>
  BY DEF SimpleCase, Comparing, compared, reading

LEMMA ShiftSteps ==
  ShiftStep => /\ stage \in Shifting \cup {"build"} /\ stage' \in Shifting \cup {"build", "done"}
               /\ UNCHANGED <<input, prefix_lines, equivs, discarded, realindexes, todo, search>>
<1>1. CASE Scan
  BY <1>1 DEF Scan, Shifting, compared, reading
<1>2. CASE ShiftBack
  BY <1>2 DEF ShiftBack, Shifting, compared, reading
<1>3. CASE ShiftForth
  BY <1>3 DEF ShiftForth, Shifting, compared, reading
<1>4. CASE ReturnToCorresponding
  BY <1>4 DEF ReturnToCorresponding, Shifting, compared, reading
<1>5. CASE BuildScript
  BY <1>5 DEF BuildScript, Shifting, compared, reading
<1> QED
  BY <1>1, <1>2, <1>3, <1>4, <1>5 DEF ShiftStep

-----------------------------------------------------------------------------
(* What is read of the files.                                              *)
ReadInv ==
    /\ input \in Cases
    /\ prefix_lines \in 0..Len(input.old)
    /\ DOMAIN equivs = Files
    /\ \A f \in Files :
         /\ equivs[f] \in Seq(Lines) /\ Len(equivs[f]) <= Len(File(f))
         /\ \A k \in DOMAIN equivs[f] : \E l \in DOMAIN File(f) :
              equivs[f][k] = (IF stage = "suffix" THEN File(f)[l] ELSE Class(File(f)[l]))

LEMMA FileTypes ==
  ASSUME input \in Cases
  PROVE  /\ \A f \in Files : File(f) \in Seq(Lines) /\ Len(File(f)) \in Nat
                /\ Len(File(f)) < OFFSET_MAX
         /\ File(0) = input.old /\ File(1) = input.new
         /\ input.horizon_lines \in Nat /\ input.minimal \in BOOLEAN
         /\ OFFSET_MAX \in Nat
  BY CasesAssumption, LimitsAssumption DEF Files, File

LEMMA CommonPrefixBounds ==
  ASSUME input \in Cases, NEW s, NEW t, Len(s) \in Nat, Len(t) \in Nat
  PROVE  /\ Trimmed(CommonPrefix(s, t)) \in Nat
         /\ Trimmed(CommonPrefix(s, t)) <= Len(s) /\ Trimmed(CommonPrefix(s, t)) <= Len(t)
<1> DEFINE m == Smaller(Len(s), Len(t))
           P == {n \in 0..m : \A k \in 1..n : s[k] = t[k]}
<1>1. m \in Nat /\ m <= Len(s) /\ m <= Len(t)
  BY DEF Smaller
<1> HIDE DEF m
<1>2. 0 \in P /\ (\A n \in P : n \in Int /\ n <= m)
  BY <1>1
<1>3. CommonPrefix(s, t) = Biggest(P)
  BY DEF CommonPrefix, m
<1>4. Biggest(P) \in P
  <2> HIDE DEF P
  <2>1. P # {} /\ m \in Int
    BY <1>1, <1>2
  <2> QED
    BY <1>2, <2>1, BiggestIsBiggest
<1>5. CommonPrefix(s, t) \in Nat /\ CommonPrefix(s, t) <= m
  BY <1>1, <1>3, <1>4
<1>6. input.horizon_lines \in Nat
  BY FileTypes
<1> QED
  BY <1>1, <1>5, <1>6 DEF Trimmed, Bigger

LEMMA ReadInvInit == Init => ReadInv
  BY FileTypes DEF Init, ReadInv, Files

LEMMA ReadInvPrefix ==
  ASSUME ReadInv, FindIdenticalPrefix
  PROVE  ReadInv'
<1> DEFINE prefix == Trimmed(CommonPrefix(input.old, input.new))
<1>1. /\ \A f \in Files : File(f) \in Seq(Lines) /\ Len(File(f)) \in Nat
      /\ File(0) = input.old /\ File(1) = input.new
  BY FileTypes DEF ReadInv
<1>2. prefix \in Nat /\ prefix <= Len(input.old) /\ prefix <= Len(input.new)
  <2>1. Len(input.old) \in Nat /\ Len(input.new) \in Nat
    BY <1>1 DEF Files
  <2> QED
    BY <2>1, CommonPrefixBounds DEF ReadInv
<1>3. /\ prefix_lines' = prefix /\ input' = input /\ stage' = "suffix"
      /\ equivs' = [f \in Files |-> SubSeq(File(f), prefix + 1, Len(File(f)))]
  BY DEF FindIdenticalPrefix
<1> HIDE DEF prefix
<1>4. ASSUME NEW f \in Files
      PROVE  /\ equivs'[f] \in Seq(Lines) /\ Len(equivs'[f]) <= Len(File(f))
             /\ \A k \in DOMAIN equivs'[f] : \E l \in DOMAIN File(f) : equivs'[f][k] = File(f)[l]
  <2>1. equivs'[f] = SubSeq(File(f), prefix + 1, Len(File(f)))
    BY <1>3
  <2>2. prefix <= Len(File(f))
    BY <1>1, <1>2 DEF Files
  <2>3. /\ File(f) \in Seq(Lines) /\ Len(File(f)) \in Nat /\ prefix + 1 \in 1..(Len(File(f)) + 1)
        /\ Len(File(f)) \in (prefix + 1 - 1)..Len(File(f))
    BY <1>1, <1>2, <2>2
  <2>4. /\ equivs'[f] \in Seq(Lines) /\ Len(equivs'[f]) = Len(File(f)) - prefix
        /\ \A k \in 1..(Len(File(f)) - prefix) : equivs'[f][k] = File(f)[prefix + k]
    BY <1>2, <2>1, <2>3, SubSeqProperties, Z3
  <2>5. ASSUME NEW k \in DOMAIN equivs'[f]
        PROVE  \E l \in DOMAIN File(f) : equivs'[f][k] = File(f)[l]
    <3>1. k \in 1..(Len(File(f)) - prefix) /\ prefix + k \in 1..Len(File(f))
      BY <1>2, <2>3, <2>4
    <3>2. prefix + k \in DOMAIN File(f) /\ equivs'[f][k] = File(f)[prefix + k]
      BY <2>3, <2>4, <3>1
    <3> QED
      BY <3>2
  <2>6. Len(equivs'[f]) <= Len(File(f))
    BY <1>2, <2>3, <2>4
  <2> QED
    BY <2>4, <2>5, <2>6
<1>5. \A f \in Files : File(f)' = File(f)
  BY <1>3 DEF File
<1>6. ASSUME NEW f \in Files
      PROVE  /\ equivs'[f] \in Seq(Lines) /\ Len(equivs'[f]) <= Len(File(f)')
             /\ \A k \in DOMAIN equivs'[f] : \E l \in DOMAIN File(f)' :
                  equivs'[f][k] = (IF stage' = "suffix" THEN (File(f)')[l] ELSE Class((File(f)')[l]))
  BY <1>3, <1>4, <1>5
<1>7. input' \in Cases /\ prefix_lines' \in 0..Len(input'.old) /\ DOMAIN equivs' = Files
  BY <1>1, <1>2, <1>3 DEF ReadInv, Files
<1> QED
  BY <1>6, <1>7 DEF ReadInv

LEMMA ReadInvSuffix ==
  ASSUME ReadInv, stage = "suffix", FindIdenticalSuffix
  PROVE  ReadInv'
<1> DEFINE suffix == Trimmed(CommonPrefix(Reverse(equivs[0]), Reverse(equivs[1])))
           n(f) == Len(equivs[f]) - suffix
<1>1. /\ \A f \in Files : /\ equivs[f] \in Seq(Lines) /\ Len(equivs[f]) \in Nat
                          /\ Len(equivs[f]) <= Len(File(f)) /\ Len(File(f)) \in Nat
      /\ input \in Cases
  BY FileTypes DEF ReadInv
<1>2. suffix \in Nat /\ \A f \in Files : suffix <= Len(equivs[f])
  <2>1. Len(equivs[0]) \in Nat /\ Len(equivs[1]) \in Nat
    BY <1>1 DEF Files
  <2>2. /\ Len(Reverse(equivs[0])) = Len(equivs[0])
        /\ Len(Reverse(equivs[1])) = Len(equivs[1])
    BY <2>1 DEF Reverse
  <2>3. suffix \in Nat /\ suffix <= Len(equivs[0]) /\ suffix <= Len(equivs[1])
    BY <1>1, <2>1, <2>2, CommonPrefixBounds
  <2> QED
    BY <2>3 DEF Files
<1>3. /\ equivs' = [f \in Files |-> [k \in 1..n(f) |-> Class(equivs[f][k])]]
      /\ input' = input /\ prefix_lines' = prefix_lines /\ stage' = "discard"
  BY DEF FindIdenticalSuffix, buffered_lines
<1> HIDE DEF suffix
<1>4. ASSUME NEW f \in Files
      PROVE  /\ equivs'[f] \in Seq(Lines) /\ Len(equivs'[f]) <= Len(File(f))
             /\ \A k \in DOMAIN equivs'[f] :
                  \E l \in DOMAIN File(f) : equivs'[f][k] = Class(File(f)[l])
  <2>1. n(f) \in Nat /\ n(f) <= Len(equivs[f])
    BY <1>1, <1>2
  <2>2. equivs'[f] = [k \in 1..n(f) |-> Class(equivs[f][k])]
    BY <1>3
  <2>3. \A k \in 1..n(f) : k \in DOMAIN equivs[f] /\ equivs[f][k] \in Lines
    BY <1>1, <2>1
  <2> HIDE DEF n
  <2>4. \A k \in 1..n(f) : Class(equivs[f][k]) \in Lines
    BY <2>3, LinesHaveClasses
  <2>5. equivs'[f] \in Seq(Lines) /\ Len(equivs'[f]) = n(f)
    BY <2>1, <2>2, <2>4
  <2>6. ASSUME NEW k \in 1..n(f)
        PROVE  \E l \in DOMAIN File(f) : equivs'[f][k] = Class(File(f)[l])
    <3>1. PICK l \in DOMAIN File(f) : equivs[f][k] = File(f)[l]
      BY <2>3 DEF ReadInv
    <3> QED
      BY <2>2, <3>1
  <2> QED
    BY <1>1, <2>1, <2>2, <2>5, <2>6
<1>5. \A f \in Files : File(f)' = File(f)
  BY <1>3 DEF File
<1>6. /\ input' \in Cases /\ prefix_lines' \in 0..Len(input'.old)
      /\ DOMAIN equivs' = Files /\ stage' # "suffix"
  BY <1>3 DEF ReadInv
<1> HIDE DEF n
<1> QED
  BY <1>4, <1>5, <1>6 DEF ReadInv

(* No other step looks at the files again.                                 *)
LEMMA ReadInvNext == ReadInv /\ [Next]_vars => ReadInv'
<1> SUFFICES ASSUME ReadInv, [Next]_vars PROVE ReadInv'
  OBVIOUS
<1>1. CASE FindIdenticalPrefix
  BY <1>1, ReadInvPrefix
<1>2. CASE FindIdenticalSuffix
  BY <1>2, ReadInvSuffix DEF FindIdenticalSuffix
<1>3. CASE UNCHANGED <<input, prefix_lines, equivs>> /\ (stage = "suffix" <=> stage' = "suffix")
  <2>1. \A f \in Files : File(f)' = File(f)
    BY <1>3 DEF File
  <2> QED
    BY <1>3, <2>1 DEF ReadInv
<1>4. ASSUME ~FindIdenticalPrefix, ~FindIdenticalSuffix
      PROVE  UNCHANGED <<input, prefix_lines, equivs>> /\ (stage = "suffix" <=> stage' = "suffix")
  <2>1. CASE MarkDiscardable
    BY <2>1 DEF MarkDiscardable, reading
  <2>2. CASE Discard
    BY <2>2 DEF Discard, reading
  <2>3. CASE SearchStep
    BY <2>3, SearchSteps DEF Comparing
  <2>4. CASE SimpleCase
    BY <2>4, SimpleSteps DEF Comparing
  <2>5. CASE ShiftStep
    BY <2>5, ShiftSteps DEF Shifting
  <2>6. CASE UNCHANGED vars
    BY <2>6 DEF vars
  <2> QED
    BY <1>4, <2>1, <2>2, <2>3, <2>4, <2>5, <2>6, Steps DEF ReadStep
<1> QED
  BY <1>1, <1>2, <1>3, <1>4

-----------------------------------------------------------------------------
(* The lines that are not discarded, in the order of the file; the others  *)
(* are flagged, and so the sentinels are not.                              *)
Kept(f) == {realindexes[f][k] : k \in DOMAIN realindexes[f]}

Listed(f) == Within(Kept(f), Len(equivs[f])) /\ realindexes[f] = InOrder(Kept(f))

Flags(f) ==
    /\ changed[f] \in [-1..Len(equivs[f]) -> BOOLEAN]
    /\ ~changed[f][-1] /\ ~changed[f][Len(equivs[f])]

DiscardedFlagged(f) ==
    \A i \in 0..(Len(equivs[f]) - 1) : i \in Kept(f) \/ changed[f][i]

VecInv ==
    /\ stage \in Reading => realindexes = [f \in Files |-> <<>>]
    /\ stage \notin Reading => \A f \in Files : Listed(f)
    /\ stage \in Comparing => /\ DOMAIN changed = Files
                              /\ \A f \in Files : Flags(f) /\ DiscardedFlagged(f)

LEMMA InOrderIncreasing ==
  ASSUME NEW n \in Nat, NEW S, Within(S, n)
  PROVE  /\ \A j, k \in DOMAIN InOrder(S) : j < k <=> InOrder(S)[j] < InOrder(S)[k]
         /\ S = {InOrder(S)[k] : k \in DOMAIN InOrder(S)}
         /\ Len(InOrder(S)) \in Nat /\ DOMAIN InOrder(S) = 1..Len(InOrder(S))
         /\ Len(InOrder(S)) <= n
<1>1. 0 \in Int
  OBVIOUS
<1>2. Cardinality(S) \in Nat /\ Cardinality(S) <= n
  <2>1. S \in SUBSET (0..(n - 1))
    BY DEF Within
  <2>2. IsFiniteSet(0..(n - 1)) /\ Cardinality(0..(n - 1)) = n
    BY FS_Interval
  <2>3. Cardinality(S) <= Cardinality(0..(n - 1))
    BY <2>1, <2>2, FS_Subset
  <2>4. Cardinality(S) \in Nat
    BY <1>1, RankFinite
  <2> QED
    BY <2>2, <2>3, <2>4
<1>3. DOMAIN InOrder(S) = 1..Cardinality(S) /\ Len(InOrder(S)) = Cardinality(S)
  BY InOrderListed DEF InOrder
<1>4. ASSUME NEW j \in 1..Cardinality(S), NEW k \in 1..Cardinality(S)
      PROVE  j < k <=> InOrder(S)[j] < InOrder(S)[k]
  <2>1. /\ InOrder(S)[j] \in S /\ Rank(S, InOrder(S)[j]) = j - 1
        /\ InOrder(S)[k] \in S /\ Rank(S, InOrder(S)[k]) = k - 1
    BY InOrderListed
  <2>2. InOrder(S)[j] < InOrder(S)[k] <=> j - 1 < k - 1
    BY <2>1, RankInjective
  <2> QED
    BY <2>2, <1>2
<1>5. S = {InOrder(S)[k] : k \in 1..Cardinality(S)}
  <2>1. \A k \in 1..Cardinality(S) : InOrder(S)[k] \in S
    BY InOrderListed
  <2>2. \A x \in S : \E k \in 1..Cardinality(S) : x = InOrder(S)[k]
    BY InOrderListed
  <2> QED
    BY <2>1, <2>2
<1> QED
  BY <1>2, <1>3, <1>4, <1>5

LEMMA ListedLines ==
  ASSUME ReadInv, NEW f \in Files, Listed(f)
  PROVE  /\ Len(equivs[f]) \in Nat /\ Len(realindexes[f]) \in Nat
         /\ Len(realindexes[f]) <= Len(equivs[f]) /\ Len(equivs[f]) < OFFSET_MAX
         /\ DOMAIN realindexes[f] = 1..Len(realindexes[f])
         /\ \A k \in 1..Len(realindexes[f]) :
              /\ realindexes[f][k] \in Kept(f)
              /\ realindexes[f][k] \in 0..(Len(equivs[f]) - 1)
              /\ equivs[f][realindexes[f][k] + 1] \in Lines
         /\ \A j, k \in 1..Len(realindexes[f]) : j < k <=> realindexes[f][j] < realindexes[f][k]
<1>1. /\ equivs[f] \in Seq(Lines) /\ Len(equivs[f]) \in Nat /\ Len(equivs[f]) < OFFSET_MAX
  <2>1. /\ equivs[f] \in Seq(Lines) /\ Len(equivs[f]) <= Len(File(f))
        /\ Len(File(f)) \in Nat /\ Len(File(f)) < OFFSET_MAX /\ OFFSET_MAX \in Nat
    BY FileTypes DEF ReadInv
  <2>2. Len(equivs[f]) \in Nat
    BY <2>1
  <2> QED
    BY <2>1, <2>2
<1>2. /\ \A j, k \in DOMAIN realindexes[f] : j < k <=> realindexes[f][j] < realindexes[f][k]
      /\ Len(realindexes[f]) \in Nat /\ DOMAIN realindexes[f] = 1..Len(realindexes[f])
      /\ Len(realindexes[f]) <= Len(equivs[f])
  BY <1>1, InOrderIncreasing DEF Listed
<1>3. ASSUME NEW k \in 1..Len(realindexes[f])
      PROVE  /\ realindexes[f][k] \in Kept(f)
             /\ realindexes[f][k] \in 0..(Len(equivs[f]) - 1)
             /\ equivs[f][realindexes[f][k] + 1] \in Lines
  <2>1. realindexes[f][k] \in Kept(f)
    BY <1>2 DEF Kept
  <2>2. realindexes[f][k] \in 0..(Len(equivs[f]) - 1)
    BY <1>1, <2>1 DEF Listed, Within
  <2>3. realindexes[f][k] + 1 \in 1..Len(equivs[f])
    BY <1>1, <2>2
  <2> QED
    BY <1>1, <2>1, <2>2, <2>3
<1> QED
  BY <1>1, <1>2, <1>3

-----------------------------------------------------------------------------
(* The calls of compareseq lie in the vectors, and apart from each other.  *)
Calls == [xoff : Nat, xlim : Nat, yoff : Nat, ylim : Nat, find_minimal : BOOLEAN]

InVectors(c) ==
    /\ c.xoff <= c.xlim /\ c.xlim <= Len(realindexes[0])
    /\ c.yoff <= c.ylim /\ c.ylim <= Len(realindexes[1])

Apart(c, e) == \/ c.xlim <= e.xoff /\ c.ylim <= e.yoff
               \/ e.xlim <= c.xoff /\ e.ylim <= c.yoff

CallsInv ==
    /\ todo \in Seq(Calls)
    /\ stage \in Comparing <=> todo # <<>>
    /\ \A k \in DOMAIN todo : InVectors(todo[k])
    /\ \A j, k \in DOMAIN todo : j # k => Apart(todo[j], todo[k])

LEMMA VecInvDiscard ==
  ASSUME ReadInv, Discard
  PROVE  VecInv'
<1> DEFINE kept == [f \in Files |-> {i \in 0..(buffered_lines(f) - 1) :
                                       input.minimal \/ ~Discarded(f, i + 1)}]
<1>1. /\ realindexes' = [f \in Files |-> InOrder(kept[f])]
      /\ changed' = [f \in Files |->
                       [i \in -1..buffered_lines(f) |->
                          i \in (0..(buffered_lines(f) - 1)) \ kept[f]]]
      /\ stage' = "slide" /\ equivs' = equivs
  BY DEF Discard, reading
<1>2. ASSUME NEW f \in Files
      PROVE  Listed(f)' /\ Flags(f)' /\ DiscardedFlagged(f)'
  <2>1. Len(equivs[f]) \in Nat
    BY DEF ReadInv
  <2>2. Within(kept[f], Len(equivs[f]))
    BY DEF Within, buffered_lines
  <2> HIDE DEF kept
  <2>3. realindexes'[f] = InOrder(kept[f])
    BY <1>1
  <2>4. Kept(f)' = kept[f]
    BY <2>1, <2>2, <2>3, InOrderIncreasing DEF Kept
  <2>5. Listed(f)'
    BY <1>1, <2>2, <2>3, <2>4 DEF Listed
  <2>6. changed'[f] = [i \in -1..Len(equivs[f]) |-> i \in (0..(Len(equivs[f]) - 1)) \ kept[f]]
    BY <1>1 DEF buffered_lines
  <2> DEFINE n == Len(equivs[f])
  <2>7. \A i \in -1..n : changed'[f][i] = (i \in (0..(n - 1)) \ kept[f])
    BY <2>6
  <2>8. /\ -1 \in -1..n /\ n \in -1..n /\ n \notin 0..(n - 1)
        /\ \A i \in 0..(n - 1) : i \in -1..n
    BY <2>1
  <2>9. changed'[f] \in [-1..n -> BOOLEAN]
    BY <2>6
  <2>10. Flags(f)'
    <3>1. ~(-1 \in (0..(n - 1)) \ kept[f]) /\ ~(n \in (0..(n - 1)) \ kept[f])
      BY <2>1
    <3>2. ~changed'[f][-1] /\ ~changed'[f][n]
      BY <2>7, <2>8, <3>1
    <3> HIDE DEF n
    <3> QED
      BY <1>1, <2>9, <3>2 DEF Flags, n
  <2>11. DiscardedFlagged(f)'
    <3>1. \A i \in 0..(n - 1) : i \in kept[f] \/ changed'[f][i]
      BY <2>7, <2>8
    <3> HIDE DEF n
    <3> QED
      BY <1>1, <2>4, <3>1 DEF DiscardedFlagged, n
  <2> QED
    BY <2>5, <2>10, <2>11
<1>3. stage' \notin Reading /\ DOMAIN changed' = Files
  BY <1>1 DEF Reading
<1> QED
  BY <1>2, <1>3 DEF VecInv

(* What SimpleCase flags, element by element.                              *)
LEMMA FlaggedElements ==
  ASSUME ReadInv, VecInv, CallsInv, SimpleCase, NEW f \in Files
  PROVE  LET from == IF f = 0 THEN call.xoff ELSE call.yoff
             lim == IF f = 0 THEN call.xlim ELSE call.ylim
             s == realindexes[f]
         IN  /\ DOMAIN changed'[f] = DOMAIN changed[f]
             /\ Flags(f)'
             /\ \A i \in 0..(Len(equivs[f]) - 1) : changed[f][i] => changed'[f][i]
             /\ \A k \in 1..Len(s) :
                  changed'[f][s[k]] = (changed[f][s[k]] \/ k - 1 \in from..(lim - 1))
<1> DEFINE from == IF f = 0 THEN call.xoff ELSE call.yoff
           lim == IF f = 0 THEN call.xlim ELSE call.ylim
           s == realindexes[f]
<1>1. /\ stage \in Comparing /\ Listed(f) /\ Flags(f) /\ DOMAIN changed = Files
  BY SimpleSteps DEF VecInv, Comparing, Reading
<1>2. /\ from \in Nat /\ lim \in Nat /\ lim <= Len(s)
  <2>1. 1 \in DOMAIN todo /\ todo[1] \in Calls
    BY <1>1 DEF CallsInv
  <2>2. InVectors(call)
    BY <2>1 DEF CallsInv, call
  <2> QED
    BY <2>1, <2>2 DEF Calls, call, InVectors, Files
<1>3. /\ Len(equivs[f]) \in Nat /\ Len(s) \in Nat
      /\ \A k \in 1..Len(s) : s[k] \in 0..(Len(equivs[f]) - 1)
      /\ \A j, k \in 1..Len(s) : j < k <=> s[j] < s[k]
  BY <1>1, ListedLines
<1> DEFINE flagged == {s[k + 1] : k \in from..(lim - 1)}
<1>4. changed'[f] = [i \in DOMAIN changed[f] |-> changed[f][i] \/ i \in flagged]
  <2>1. flagged = IF f = 0 THEN Flagged(0, call.xoff, call.xlim)
                           ELSE Flagged(1, call.yoff, call.ylim)
    BY DEF Files, Flagged
  <2> QED
    BY <2>1 DEF SimpleCase
<1>5. DOMAIN changed[f] = -1..Len(equivs[f]) /\ changed[f] \in [-1..Len(equivs[f]) -> BOOLEAN]
  BY <1>1 DEF Flags
<1> HIDE DEF from, lim, s
<1>6. \A i \in flagged : i \in 0..(Len(equivs[f]) - 1)
  <2> SUFFICES ASSUME NEW k \in from..(lim - 1) PROVE s[k + 1] \in 0..(Len(equivs[f]) - 1)
    OBVIOUS
  <2>1. k + 1 \in 1..Len(s)
    BY <1>2, <1>3
  <2> QED
    BY <1>3, <2>1
<1>7. ASSUME NEW k \in 1..Len(s)
      PROVE  s[k] \in flagged <=> k - 1 \in from..(lim - 1)
  <2>1. ASSUME NEW j \in from..(lim - 1), s[j + 1] = s[k] PROVE j = k - 1
    <3>1. j + 1 \in 1..Len(s)
      BY <1>2, <1>3
    <3>2. ~(j + 1 < k) /\ ~(k < j + 1)
      BY <1>3, <2>1, <3>1
    <3> QED
      BY <1>2, <3>1, <3>2
  <2>2. (k - 1) + 1 = k
    BY <1>3
  <2> QED
    BY <2>1, <2>2
<1> HIDE DEF flagged
<1>8. equivs' = equivs
  BY SimpleSteps
<1>9. Flags(f)'
  <2>1. -1 \notin flagged /\ Len(equivs[f]) \notin flagged
    BY <1>3, <1>6
  <2>2. -1 \in -1..Len(equivs[f]) /\ Len(equivs[f]) \in -1..Len(equivs[f])
    BY <1>3
  <2>3. ~changed[f][-1] /\ ~changed[f][Len(equivs[f])]
    BY <1>1 DEF Flags
  <2> QED
    BY <1>4, <1>5, <1>8, <2>1, <2>2, <2>3 DEF Flags
<1>10. ASSUME NEW i \in 0..(Len(equivs[f]) - 1)
       PROVE  changed'[f][i] = (changed[f][i] \/ i \in flagged)
  <2>1. i \in DOMAIN changed[f]
    BY <1>3, <1>5
  <2> QED
    BY <1>4, <2>1
<1>11. DOMAIN changed'[f] = DOMAIN changed[f]
  BY <1>4
<1>12. \A k \in 1..Len(s) :
         changed'[f][s[k]] = (changed[f][s[k]] \/ k - 1 \in from..(lim - 1))
  BY <1>3, <1>7, <1>10
<1>13. \A i \in 0..(Len(equivs[f]) - 1) : changed[f][i] => changed'[f][i]
  BY <1>10
<1> QED
  BY <1>9, <1>11, <1>12, <1>13 DEF from, lim, s

LEMMA VecInvInit == Init => VecInv
  BY DEF Init, VecInv, Reading, Comparing

LEMMA VecInvNext == ReadInv /\ VecInv /\ CallsInv /\ [Next]_vars => VecInv'
<1> SUFFICES ASSUME ReadInv, VecInv, CallsInv, [Next]_vars PROVE VecInv'
  OBVIOUS
<1>1. CASE ReadStep
  <2>1. stage \in Reading /\ stage' \in Reading /\ stage' \notin Comparing
    BY <1>1, ReadSteps DEF Reading, Comparing
  <2> QED
    BY <1>1, <2>1, ReadSteps DEF VecInv
<1>2. CASE Discard
  BY <1>2, VecInvDiscard
<1>3. ASSUME stage \notin Reading, stage' \notin Reading, UNCHANGED <<equivs, realindexes>>
      PROVE  \A f \in Files : Listed(f)'
  BY <1>3 DEF VecInv, Listed, Kept
<1>4. CASE SearchStep
  <2>1. /\ stage \in Comparing /\ stage' \in Comparing /\ stage \notin Reading
        /\ stage' \notin Reading /\ UNCHANGED <<equivs, realindexes, changed>>
    BY <1>4, SearchSteps DEF Reading, Comparing
  <2>2. \A f \in Files : Flags(f)' /\ DiscardedFlagged(f)'
    BY <2>1 DEF VecInv, Flags, DiscardedFlagged, Kept
  <2> QED
    BY <1>3, <2>1, <2>2 DEF VecInv
<1>5. CASE SimpleCase
  <2>1. /\ stage \in Comparing /\ stage \notin Reading /\ stage' \notin Reading
        /\ UNCHANGED <<equivs, realindexes>>
    BY <1>5, SimpleSteps DEF Reading, Comparing
  <2>2. DOMAIN changed' = Files
    BY <1>5 DEF SimpleCase
  <2>3. ASSUME NEW f \in Files PROVE Flags(f)' /\ DiscardedFlagged(f)'
    BY <1>5, <2>1, FlaggedElements DEF VecInv, DiscardedFlagged, Kept
  <2> QED
    BY <1>3, <2>1, <2>2, <2>3 DEF VecInv
<1>6. CASE ShiftStep
  <2>1. /\ stage \notin Reading /\ stage' \notin Reading /\ stage' \notin Comparing
        /\ UNCHANGED <<equivs, realindexes>>
    BY <1>6, ShiftSteps DEF Reading, Comparing, Shifting
  <2> QED
    BY <1>3, <2>1 DEF VecInv
<1>7. CASE UNCHANGED vars
  BY <1>7 DEF vars, VecInv, Listed, Kept, Flags, DiscardedFlagged
<1> QED
  BY <1>1, <1>2, <1>4, <1>5, <1>6, <1>7, Steps

-----------------------------------------------------------------------------
(* The searches of diag: the limits of both, and how far each has come.    *)
Searching == {"extend", "forward", "extend back", "backward", "consider"}

LimitsInv ==
    stage \in Searching =>
        /\ IsBox(call)
        /\ DOMAIN search = {"c", "big_snake", "fmin", "fmax", "fd", "bmin", "bmax", "bd"}
        /\ search.fmin \in Int /\ search.fmax \in Int /\ (search.fmax - search.fmin) % 2 = 0
        /\ dmin <= search.fmin /\ search.fmin <= fmid
        /\ fmid <= search.fmax /\ search.fmax <= dmax
        /\ search.bmin \in Int /\ search.bmax \in Int /\ (search.bmax - search.bmin) % 2 = 0
        /\ dmin <= search.bmin /\ search.bmin <= bmid
        /\ bmid <= search.bmax /\ search.bmax <= dmax
        /\ ((search.fmax - search.bmax) - (fmid - bmid)) % 2
             = IF stage \in {"forward", "extend back"} THEN 1 ELSE 0

TopInv ==
    LET S == Sweep(search.fmin, search.fmax)
        u == search.fd
    IN  /\ stage = "forward" =>
             /\ \A d \in S : d - 1 \in DOMAIN u /\ d + 1 \in DOMAIN u
             /\ \E W : /\ Ahead(call, W, u) /\ Beside(W, S, u) /\ Edges(W, S, dmin, dmax)
                       /\ odd => Frontier(call, W, u, search.bmin, search.bmax)
        /\ stage \in Searching \ {"forward"} =>
             /\ \A d \in S : d \in DOMAIN u
             /\ Ahead(call, S, u)
             /\ odd => Frontier(call, S, u, search.bmin, search.bmax)
             /\ odd /\ stage = "extend back" =>
                  Frontier(call, S, u, search.bmin - 1, search.bmax + 1)

BottomInv ==
    LET S == Sweep(search.bmin, search.bmax)
        u == search.bd
    IN  /\ stage = "backward" =>
             /\ \A d \in S : d - 1 \in DOMAIN u /\ d + 1 \in DOMAIN u
             /\ \E W : /\ Behind(call, W, u) /\ RearBeside(W, S, u) /\ Edges(W, S, dmin, dmax)
                       /\ ~odd => Rear(call, W, u, search.fmin, search.fmax)
        /\ stage \in Searching \ {"backward"} =>
             /\ \A d \in S : d \in DOMAIN u
             /\ Behind(call, S, u)
             /\ ~odd => Rear(call, S, u, search.fmin, search.fmax)
             /\ ~odd /\ stage \in {"consider", "extend"} =>
                  Rear(call, S, u, search.fmin - 1, search.fmax + 1)

SearchInv == LimitsInv /\ TopInv /\ BottomInv

(* A sweep S from lo1 to hi1 after one from lo to hi.                      *)
SweepAfter(lo, hi, lo1, hi1, least, most) ==
    /\ (hi1 - lo1) % 2 = 0
    /\ \A d \in Sweep(lo1, hi1) :
         /\ d \in Int
         /\ d - 1 \in Sweep(lo, hi) \/ (d - 1 = lo - 2 /\ lo > least /\ d + 1 \in Sweep(lo, hi))
         /\ d + 1 \in Sweep(lo, hi) \/ (d + 1 = hi + 2 /\ hi < most)
    /\ Edges(Sweep(lo, hi), Sweep(lo1, hi1), least, most)

LEMMA SweepMoved ==
  ASSUME NEW least \in Int, NEW most \in Int, NEW lo \in Int, NEW hi \in Int,
         least <= lo, lo <= hi, hi <= most, (hi - lo) % 2 = 0,
         NEW lo1, lo1 = IF lo > least THEN lo - 1 ELSE lo + 1,
         NEW hi1, hi1 = IF hi < most THEN hi + 1 ELSE hi - 1
  PROVE  SweepAfter(lo, hi, lo1, hi1, least, most)
<1>1. lo1 \in Int /\ hi1 \in Int /\ (hi1 - lo1) % 2 = 0
  OBVIOUS
<1>2. ASSUME NEW d \in Sweep(lo1, hi1)
      PROVE  /\ d \in Int
             /\ d - 1 \in Sweep(lo, hi) \/
                    (d - 1 = lo - 2 /\ lo > least /\ d + 1 \in Sweep(lo, hi))
             /\ d + 1 \in Sweep(lo, hi) \/ (d + 1 = hi + 2 /\ hi < most)
  <2>1. d \in Int /\ lo1 <= d /\ d <= hi1 /\ (hi1 - d) % 2 = 0
    BY <1>1 DEF Sweep
  <2>2. (hi - (d - 1)) % 2 = 0 /\ (hi - (d + 1)) % 2 = 0
    BY <1>1, <2>1
  <2>3. lo <= d - 1 /\ d - 1 <= hi => d - 1 \in Sweep(lo, hi)
    BY <2>1, <2>2 DEF Sweep
  <2>4. lo <= d + 1 /\ d + 1 <= hi => d + 1 \in Sweep(lo, hi)
    BY <2>1, <2>2 DEF Sweep
  <2>5. d # lo /\ d # hi
    BY <2>1, <2>2
  <2> QED
    BY <1>1, <2>1, <2>3, <2>4, <2>5
<1>3. ASSUME NEW d \in Sweep(lo1, hi1)
      PROVE  /\ d - 1 \in Sweep(lo, hi) /\ d - 2 \notin Sweep(lo1, hi1) => d - 1 = least
             /\ d + 1 \in Sweep(lo, hi) /\ d + 2 \notin Sweep(lo1, hi1) => d + 1 = most
  <2>1. d \in Int /\ lo1 <= d /\ d <= hi1 /\ (hi1 - d) % 2 = 0
    BY <1>1 DEF Sweep
  <2>2. (hi1 - (d - 2)) % 2 = 0 /\ (hi1 - (d + 2)) % 2 = 0
    BY <1>1, <2>1
  <2>3. ASSUME d - 1 \in Sweep(lo, hi), d - 2 \notin Sweep(lo1, hi1) PROVE d - 1 = least
    <3>1. d - 1 >= lo
      BY <2>3 DEF Sweep
    <3>2. d - 2 < lo1
      BY <1>1, <2>1, <2>2, <2>3 DEF Sweep
    <3> QED
      BY <1>1, <2>1, <3>1, <3>2
  <2>4. ASSUME d + 1 \in Sweep(lo, hi), d + 2 \notin Sweep(lo1, hi1) PROVE d + 1 = most
    <3>1. d + 1 <= hi
      BY <2>4 DEF Sweep
    <3>2. d + 2 > hi1
      BY <1>1, <2>1, <2>2, <2>4 DEF Sweep
    <3> QED
      BY <1>1, <2>1, <3>1, <3>2
  <2> QED
    BY <2>3, <2>4
<1> QED
  BY <1>1, <1>2, <1>3 DEF Edges, SweepAfter

LEMMA SweepInts ==
  ASSUME NEW lo \in Int, NEW hi \in Int
  PROVE  /\ \A d \in Sweep(lo, hi) : d \in Int /\ lo <= d /\ d <= hi /\ (hi - d) % 2 = 0
         /\ \A d \in Int : lo <= d /\ d <= hi /\ (hi - d) % 2 = 0 => d \in Sweep(lo, hi)
  BY DEF Sweep

(* What is marked is not in the sweep before.                              *)
LEMMA MarkedKeeps ==
  ASSUME NEW u, NEW lo \in Int, NEW hi \in Int, NEW mark,
         \A d \in Sweep(lo, hi) : d \in DOMAIN u
  PROVE  LET v == Marked(u, lo, hi, mark)
         IN  /\ \A d \in Sweep(lo, hi) : d \in DOMAIN v /\ v[d] = u[d]
             /\ lo > dmin => lo - 2 \in DOMAIN v /\ v[lo - 2] = mark
             /\ hi < dmax => hi + 2 \in DOMAIN v /\ v[hi + 2] = mark
<1> DEFINE marks == {d \in {lo - 2} : lo > dmin} \cup {d \in {hi + 2} : hi < dmax}
           v == Marked(u, lo, hi, mark)
<1>1. v = [d \in DOMAIN u \cup marks |-> IF d \in marks THEN mark ELSE u[d]]
  BY DEF Marked
<1>2. \A d \in Sweep(lo, hi) : d \notin marks
  <2>1. \A d \in Sweep(lo, hi) : d \in Int /\ lo <= d /\ d <= hi
    BY SweepInts
  <2>2. lo - 2 \notin Sweep(lo, hi) /\ hi + 2 \notin Sweep(lo, hi)
    BY <2>1
  <2> QED
    BY <2>2
<1>3. (lo > dmin => lo - 2 \in marks) /\ (hi < dmax => hi + 2 \in marks)
  OBVIOUS
<1> HIDE DEF marks, v
<1> QED
  BY <1>1, <1>2, <1>3 DEF v

LEMMA AheadAlike ==
  ASSUME NEW b, NEW W, NEW u, NEW v, \A d \in W : v[d] = u[d], NEW lo, NEW hi
  PROVE  /\ Ahead(b, W, u) => Ahead(b, W, v)
         /\ Frontier(b, W, u, lo, hi) => Frontier(b, W, v, lo, hi)
<1>1. Ahead(b, W, u) => Ahead(b, W, v)
  BY DEF Ahead
<1>2. ASSUME Frontier(b, W, u, lo, hi), NEW d \in W
      PROVE  /\ v[d] >= b.xlim => hi <= d
             /\ v[d] - d >= b.ylim => d <= lo
             /\ v[d] < b.xlim \/ v[d] - d < b.ylim
             /\ v[d] > b.xlim => d - 2 \in W /\ v[d - 2] >= v[d] - 1
             /\ v[d] - d > b.ylim => d + 2 \in W /\ v[d + 2] >= v[d] + 1
  <2>1. /\ u[d] >= b.xlim => hi <= d
        /\ u[d] - d >= b.ylim => d <= lo
        /\ u[d] < b.xlim \/ u[d] - d < b.ylim
        /\ u[d] > b.xlim => d - 2 \in W /\ u[d - 2] >= u[d] - 1
        /\ u[d] - d > b.ylim => d + 2 \in W /\ u[d + 2] >= u[d] + 1
    BY <1>2 DEF Frontier
  <2> QED
    BY <2>1
<1> QED
  BY <1>1, <1>2 DEF Frontier

LEMMA BehindAlike ==
  ASSUME NEW b, NEW W, NEW u, NEW v, \A d \in W : v[d] = u[d], NEW lo, NEW hi
  PROVE  /\ Behind(b, W, u) => Behind(b, W, v)
         /\ Rear(b, W, u, lo, hi) => Rear(b, W, v, lo, hi)
<1>1. Behind(b, W, u) => Behind(b, W, v)
  BY DEF Behind
<1>2. ASSUME Rear(b, W, u, lo, hi), NEW d \in W
      PROVE  /\ v[d] <= b.xoff => d <= lo
             /\ v[d] - d <= b.yoff => hi <= d
             /\ v[d] > b.xoff \/ v[d] - d > b.yoff
             /\ v[d] < b.xoff => d + 2 \in W /\ v[d + 2] <= v[d] + 1
             /\ v[d] - d < b.yoff => d - 2 \in W /\ v[d - 2] <= v[d] - 1
  <2>1. /\ u[d] <= b.xoff => d <= lo
        /\ u[d] - d <= b.yoff => hi <= d
        /\ u[d] > b.xoff \/ u[d] - d > b.yoff
        /\ u[d] < b.xoff => d + 2 \in W /\ u[d + 2] <= u[d] + 1
        /\ u[d] - d < b.yoff => d - 2 \in W /\ u[d - 2] <= u[d] - 1
    BY <1>2 DEF Rear
  <2> QED
    BY <2>1
<1> QED
  BY <1>1, <1>2 DEF Rear

(* The more diagonals the other search has reached, the less is known.     *)
LEMMA FrontWeaker ==
  ASSUME NEW b, NEW lo \in Int, NEW hi \in Int, NEW lo1 \in Int, NEW hi1 \in Int,
         lo <= lo1, hi1 <= hi, NEW W, \A d \in W : d \in Int, NEW u
  PROVE  /\ Frontier(b, W, u, lo, hi) => Frontier(b, W, u, lo1, hi1)
         /\ Rear(b, W, u, lo, hi) => Rear(b, W, u, lo1, hi1)
<1>1. \A d \in W : (d <= lo => d <= lo1) /\ (hi <= d => hi1 <= d)
  OBVIOUS
<1>2. Frontier(b, W, u, lo, hi) => Frontier(b, W, u, lo1, hi1)
  BY <1>1 DEF Frontier
<1>3. Rear(b, W, u, lo, hi) => Rear(b, W, u, lo1, hi1)
  BY <1>1 DEF Rear
<1> QED
  BY <1>2, <1>3

LEMMA SameCall ==
  ASSUME todo' = todo
  PROVE  /\ call' = call /\ dmin' = dmin /\ dmax' = dmax /\ fmid' = fmid /\ bmid' = bmid
         /\ odd' <=> odd
  BY DEF call, dmin, dmax, fmid, bmid, odd

LEMMA BoxInts ==
  ASSUME IsBox(call)
  PROVE  /\ dmin \in Int /\ dmax \in Int /\ fmid \in Int /\ bmid \in Int
         /\ dmin < fmid /\ fmid < dmax /\ dmin < bmid /\ bmid < dmax
         /\ dmin = call.xoff - call.ylim /\ dmax = call.xlim - call.yoff
         /\ fmid = call.xoff - call.yoff /\ bmid = call.xlim - call.ylim
  BY DEF IsBox, dmin, dmax, fmid, bmid

LEMMA ExtendForwardInv ==
  ASSUME SearchInv, ExtendForward
  PROVE  SearchInv'
<1> DEFINE lo == search.fmin
           hi == search.fmax
           u == search.fd
           lo1 == IF lo > dmin THEN lo - 1 ELSE lo + 1
           hi1 == IF hi < dmax THEN hi + 1 ELSE hi - 1
           v == Marked(u, lo, hi, -1)
           W == Sweep(lo, hi)
           S == Sweep(lo1, hi1)
<1>1. /\ stage = "extend" /\ stage' = "forward" /\ todo' = todo
      /\ search' = [search EXCEPT !.fmin = Lower(@), !.fmax = Upper(@), !.fd = v]
  BY DEF ExtendForward
<1>2. LimitsInv /\ TopInv /\ BottomInv /\ stage \in Searching
  BY <1>1 DEF SearchInv, Searching
<1>3. /\ search'.fmin = lo1 /\ search'.fmax = hi1 /\ search'.fd = v
      /\ search'.bmin = search.bmin /\ search'.bmax = search.bmax /\ search'.bd = search.bd
      /\ DOMAIN search' = DOMAIN search
  BY <1>1, <1>2 DEF LimitsInv, Lower, Upper
<1>4. /\ IsBox(call) /\ lo \in Int /\ hi \in Int /\ (hi - lo) % 2 = 0
      /\ dmin <= lo /\ lo <= fmid /\ fmid <= hi /\ hi <= dmax
      /\ search.bmin \in Int /\ search.bmax \in Int
      /\ ((hi - search.bmax) - (fmid - bmid)) % 2 = 0
  BY <1>1, <1>2 DEF LimitsInv
<1>5. /\ dmin \in Int /\ dmax \in Int /\ fmid \in Int /\ bmid \in Int
      /\ dmin < fmid /\ fmid < dmax
  BY <1>4, BoxInts
<1>6. /\ call' = call /\ dmin' = dmin /\ dmax' = dmax /\ fmid' = fmid /\ bmid' = bmid
      /\ odd' <=> odd
  BY <1>1, SameCall
<1>7. /\ (hi1 - lo1) % 2 = 0
      /\ \A d \in S :
           /\ d \in Int
           /\ d - 1 \in W \/ (d - 1 = lo - 2 /\ lo > dmin /\ d + 1 \in W)
           /\ d + 1 \in W \/ (d + 1 = hi + 2 /\ hi < dmax)
      /\ Edges(W, S, dmin, dmax)
  <2>1. lo <= hi
    BY <1>4, <1>5
  <2>2. /\ lo1 = IF lo > dmin THEN lo - 1 ELSE lo + 1
        /\ hi1 = IF hi < dmax THEN hi + 1 ELSE hi - 1
    OBVIOUS
  <2> HIDE DEF lo, hi, lo1, hi1
  <2>3. SweepAfter(lo, hi, lo1, hi1, dmin, dmax)
    BY <1>4, <1>5, <2>1, <2>2, SweepMoved
  <2> QED
    BY <2>3 DEF SweepAfter
<1>8. /\ \A d \in W : d \in DOMAIN v /\ v[d] = u[d]
      /\ lo > dmin => lo - 2 \in DOMAIN v /\ v[lo - 2] = -1
      /\ hi < dmax => hi + 2 \in DOMAIN v /\ v[hi + 2] = -1
  <2>1. \A d \in W : d \in DOMAIN u
    BY <1>1, <1>2 DEF TopInv, Searching
  <2> HIDE DEF lo, hi, u
  <2> QED
    BY <1>4, <2>1, MarkedKeeps
<1>9. LimitsInv'
  <2>1. lo1 \in Int /\ hi1 \in Int /\ dmin <= lo1 /\ lo1 <= fmid /\ fmid <= hi1 /\ hi1 <= dmax
    BY <1>4, <1>5
  <2>2. ((hi1 - search.bmax) - (fmid - bmid)) % 2 = 1
    BY <1>4, <1>5
  <2> HIDE DEF lo, hi, lo1, hi1
  <2> QED
    BY <1>1, <1>2, <1>3, <1>6, <1>7, <2>1, <2>2 DEF LimitsInv
<1> HIDE DEF lo, hi, u, lo1, hi1, v
<1>10. /\ \A d \in S : d - 1 \in DOMAIN v /\ d + 1 \in DOMAIN v
       /\ Beside(W, S, v)
  BY <1>7, <1>8 DEF Beside
<1>11. Ahead(call, W, v) /\ (odd => Frontier(call, W, v, search.bmin, search.bmax))
  <2>1. Ahead(call, W, u) /\ (odd => Frontier(call, W, u, search.bmin, search.bmax))
    BY <1>1, <1>2 DEF TopInv, Searching, lo, hi, u
  <2> HIDE DEF W
  <2> QED
    BY <1>8, <2>1, AheadAlike
<1>12. TopInv'
  BY <1>1, <1>3, <1>6, <1>7, <1>10, <1>11 DEF TopInv
<1>13. BottomInv'
  <2> DEFINE T == Sweep(search.bmin, search.bmax)
  <2>1. /\ \A d \in T : d \in DOMAIN search.bd
        /\ Behind(call, T, search.bd)
        /\ ~odd => Rear(call, T, search.bd, lo - 1, hi + 1)
    BY <1>1, <1>2 DEF BottomInv, Searching, lo, hi
  <2>2. ~odd => Rear(call, T, search.bd, lo1, hi1)
    <3>1. /\ lo - 1 \in Int /\ hi + 1 \in Int /\ lo1 \in Int /\ hi1 \in Int
          /\ lo - 1 <= lo1 /\ hi1 <= hi + 1
      BY <1>4 DEF lo1, hi1
    <3>2. \A d \in T : d \in Int
      BY <1>4, SweepInts
    <3> HIDE DEF T
    <3> QED
      BY <2>1, <3>1, <3>2, FrontWeaker
  <2> QED
    BY <1>1, <1>3, <1>6, <2>1, <2>2 DEF BottomInv, Searching
<1> QED
  BY <1>9, <1>12, <1>13 DEF SearchInv

LEMMA ExtendBackwardInv ==
  ASSUME SearchInv, ExtendBackward
  PROVE  SearchInv'
<1> DEFINE lo == search.bmin
           hi == search.bmax
           u == search.bd
           lo1 == IF lo > dmin THEN lo - 1 ELSE lo + 1
           hi1 == IF hi < dmax THEN hi + 1 ELSE hi - 1
           v == Marked(u, lo, hi, OFFSET_MAX)
           W == Sweep(lo, hi)
           S == Sweep(lo1, hi1)
<1>1. /\ stage = "extend back" /\ stage' = "backward" /\ todo' = todo
      /\ search' = [search EXCEPT !.bmin = Lower(@), !.bmax = Upper(@), !.bd = v]
  BY DEF ExtendBackward
<1>2. LimitsInv /\ BottomInv /\ TopInv /\ stage \in Searching
  BY <1>1 DEF SearchInv, Searching
<1>3. /\ search'.bmin = lo1 /\ search'.bmax = hi1 /\ search'.bd = v
      /\ search'.fmin = search.fmin /\ search'.fmax = search.fmax /\ search'.fd = search.fd
      /\ DOMAIN search' = DOMAIN search
  BY <1>1, <1>2 DEF LimitsInv, Lower, Upper
<1>4. /\ IsBox(call) /\ lo \in Int /\ hi \in Int /\ (hi - lo) % 2 = 0
      /\ dmin <= lo /\ lo <= bmid /\ bmid <= hi /\ hi <= dmax
      /\ search.fmin \in Int /\ search.fmax \in Int
      /\ ((search.fmax - hi) - (fmid - bmid)) % 2 = 1
  BY <1>1, <1>2 DEF LimitsInv
<1>5. /\ dmin \in Int /\ dmax \in Int /\ bmid \in Int /\ fmid \in Int
      /\ dmin < bmid /\ bmid < dmax
  BY <1>4, BoxInts
<1>6. /\ call' = call /\ dmin' = dmin /\ dmax' = dmax /\ bmid' = bmid /\ fmid' = fmid
      /\ odd' <=> odd
  BY <1>1, SameCall
<1>7. /\ (hi1 - lo1) % 2 = 0
      /\ \A d \in S :
           /\ d \in Int
           /\ d - 1 \in W \/ (d - 1 = lo - 2 /\ lo > dmin /\ d + 1 \in W)
           /\ d + 1 \in W \/ (d + 1 = hi + 2 /\ hi < dmax)
      /\ Edges(W, S, dmin, dmax)
  <2>1. lo <= hi
    BY <1>4, <1>5
  <2>2. /\ lo1 = IF lo > dmin THEN lo - 1 ELSE lo + 1
        /\ hi1 = IF hi < dmax THEN hi + 1 ELSE hi - 1
    OBVIOUS
  <2> HIDE DEF lo, hi, lo1, hi1
  <2>3. SweepAfter(lo, hi, lo1, hi1, dmin, dmax)
    BY <1>4, <1>5, <2>1, <2>2, SweepMoved
  <2> QED
    BY <2>3 DEF SweepAfter
<1>8. /\ \A d \in W : d \in DOMAIN v /\ v[d] = u[d]
      /\ lo > dmin => lo - 2 \in DOMAIN v /\ v[lo - 2] = OFFSET_MAX
      /\ hi < dmax => hi + 2 \in DOMAIN v /\ v[hi + 2] = OFFSET_MAX
  <2>1. \A d \in W : d \in DOMAIN u
    BY <1>1, <1>2 DEF BottomInv, Searching
  <2> HIDE DEF lo, hi, u
  <2> QED
    BY <1>4, <2>1, MarkedKeeps
<1>9. LimitsInv'
  <2>1. lo1 \in Int /\ hi1 \in Int /\ dmin <= lo1 /\ lo1 <= bmid /\ bmid <= hi1 /\ hi1 <= dmax
    BY <1>4, <1>5
  <2>2. ((search.fmax - hi1) - (fmid - bmid)) % 2 = 0
    BY <1>4, <1>5
  <2> HIDE DEF lo, hi, lo1, hi1
  <2> QED
    BY <1>1, <1>2, <1>3, <1>6, <1>7, <2>1, <2>2 DEF LimitsInv
<1> HIDE DEF lo, hi, u, lo1, hi1, v
<1>10. /\ \A d \in S : d - 1 \in DOMAIN v /\ d + 1 \in DOMAIN v
       /\ RearBeside(W, S, v)
  BY <1>7, <1>8 DEF RearBeside
<1>11. Behind(call, W, v) /\ (~odd => Rear(call, W, v, search.fmin, search.fmax))
  <2>1. Behind(call, W, u) /\ (~odd => Rear(call, W, u, search.fmin, search.fmax))
    BY <1>1, <1>2 DEF BottomInv, Searching, lo, hi, u
  <2> HIDE DEF W
  <2> QED
    BY <1>8, <2>1, BehindAlike
<1>12. BottomInv'
  BY <1>1, <1>3, <1>6, <1>7, <1>10, <1>11 DEF BottomInv
<1>13. TopInv'
  <2> DEFINE T == Sweep(search.fmin, search.fmax)
  <2>1. /\ \A d \in T : d \in DOMAIN search.fd
        /\ Ahead(call, T, search.fd)
        /\ odd => Frontier(call, T, search.fd, lo - 1, hi + 1)
    BY <1>1, <1>2 DEF TopInv, Searching, lo, hi
  <2>2. odd => Frontier(call, T, search.fd, lo1, hi1)
    <3>1. /\ lo - 1 \in Int /\ hi + 1 \in Int /\ lo1 \in Int /\ hi1 \in Int
          /\ lo - 1 <= lo1 /\ hi1 <= hi + 1
      BY <1>4 DEF lo1, hi1
    <3>2. \A d \in T : d \in Int
      BY <1>4, SweepInts
    <3> HIDE DEF T
    <3> QED
      BY <2>1, <3>1, <3>2, FrontWeaker
  <2> QED
    BY <1>1, <1>3, <1>6, <2>1, <2>2 DEF TopInv, Searching
<1> QED
  BY <1>9, <1>12, <1>13 DEF SearchInv

-----------------------------------------------------------------------------
(* A snake stays in the call, and its elements are equal.                  *)
LEMMA SnakeEqual ==
  ASSUME NEW x \in Int, NEW y \in Int, call.xlim \in Int, call.ylim \in Int
  PROVE  /\ Snake(x, y) \in Nat
         /\ Snake(x, y) = 0 \/ (x + Snake(x, y) <= call.xlim /\ y + Snake(x, y) <= call.ylim)
         /\ \A k \in 0..(Snake(x, y) - 1) : XVec(x + k) = YVec(y + k)
<1> DEFINE longest == Bigger(0, Smaller(call.xlim - x, call.ylim - y))
           P == {n \in 0..longest : \A k \in 0..(n - 1) : XVec(x + k) = YVec(y + k)}
<1>1. longest \in Nat /\ (longest = 0 \/ (x + longest <= call.xlim /\ y + longest <= call.ylim))
  BY DEF Bigger, Smaller
<1>2. Snake(x, y) = Biggest(P)
  BY DEF Snake
<1> HIDE DEF longest
<1>3. 0 \in P /\ \A n \in P : n \in Int /\ n <= longest
  BY <1>1
<1>4. Biggest(P) \in P
  <2> HIDE DEF P
  <2>1. P # {} /\ longest \in Int
    BY <1>1, <1>3
  <2> QED
    BY <1>3, <2>1, BiggestIsBiggest
<1>5. /\ Snake(x, y) \in 0..longest
      /\ \A k \in 0..(Snake(x, y) - 1) : XVec(x + k) = YVec(y + k)
  BY <1>2, <1>4
<1> QED
  BY <1>1, <1>5

LEMMA SnakeBackEqual ==
  ASSUME NEW x \in Int, NEW y \in Int, call.xoff \in Int, call.yoff \in Int
  PROVE  /\ SnakeBack(x, y) \in Nat
         /\ \/ SnakeBack(x, y) = 0
            \/ call.xoff <= x - SnakeBack(x, y) /\ call.yoff <= y - SnakeBack(x, y)
         /\ \A k \in 1..SnakeBack(x, y) : XVec(x - k) = YVec(y - k)
<1> DEFINE longest == Bigger(0, Smaller(x - call.xoff, y - call.yoff))
           P == {n \in 0..longest : \A k \in 1..n : XVec(x - k) = YVec(y - k)}
<1>1. longest \in Nat /\ (longest = 0 \/ (call.xoff <= x - longest /\ call.yoff <= y - longest))
  BY DEF Bigger, Smaller
<1>2. SnakeBack(x, y) = Biggest(P)
  BY DEF SnakeBack
<1> HIDE DEF longest
<1>3. 0 \in P /\ \A n \in P : n \in Int /\ n <= longest
  BY <1>1
<1>4. Biggest(P) \in P
  <2> HIDE DEF P
  <2>1. P # {} /\ longest \in Int
    BY <1>1, <1>3
  <2> QED
    BY <1>3, <2>1, BiggestIsBiggest
<1>5. /\ SnakeBack(x, y) \in 0..longest
      /\ \A k \in 1..SnakeBack(x, y) : XVec(x - k) = YVec(y - k)
  BY <1>2, <1>4
<1> QED
  BY <1>1, <1>5

(* The call is divided at a point in it.                                   *)
DividesInside ==
    \E xmid \in call.xoff..call.xlim, ymid \in call.yoff..call.ylim,
       lo_minimal \in BOOLEAN, hi_minimal \in BOOLEAN :
        Divide(xmid, ymid, lo_minimal, hi_minimal)

LEMMA DividedInv ==
  ASSUME DividesInside
  PROVE  stage' = "slide" /\ SearchInv'
<1>1. stage' = "slide"
  BY DEF DividesInside, Divide
<1>2. stage' \notin Searching
  BY <1>1 DEF Searching
<1>3. LimitsInv' /\ TopInv' /\ BottomInv'
  BY <1>1, <1>2 DEF LimitsInv, TopInv, BottomInv
<1> QED
  BY <1>1, <1>3 DEF SearchInv

LEMMA ForwardInv ==
  ASSUME SearchInv, Forward
  PROVE  /\ SearchInv'
         /\ stage' # "slide" => stage' = "extend back" /\ todo' = todo
         /\ stage' = "slide" => DividesInside
<1> DEFINE u == search.fd
           S == Sweep(search.fmin, search.fmax)
           T == Sweep(search.bmin, search.bmax)
           x(d) == ForwardStart(d) + Snake(ForwardStart(d), ForwardStart(d) - d)
           v == [d \in S |-> x(d)]
           met == {d \in S : /\ odd /\ d \in search.bmin..search.bmax
                             /\ search.bd[d] <= x(d)}
<1>1. stage = "forward" /\ LimitsInv /\ TopInv /\ BottomInv
  BY DEF Forward, SearchInv
<1>2. /\ IsBox(call) /\ search.fmin \in Int /\ search.fmax \in Int
      /\ search.bmin \in Int /\ search.bmax \in Int
      /\ dmin <= search.bmin /\ search.bmin <= bmid /\ bmid <= search.bmax
      /\ ((search.fmax - search.bmax) - (fmid - bmid)) % 2 = 1
  BY <1>1 DEF LimitsInv, Searching
<1>3. PICK W : /\ Ahead(call, W, u) /\ Beside(W, S, u) /\ Edges(W, S, dmin, dmax)
               /\ odd => Frontier(call, W, u, search.bmin, search.bmax)
  BY <1>1 DEF TopInv
<1>4. /\ \A d \in T : d \in DOMAIN search.bd
      /\ Behind(call, T, search.bd)
      /\ ~odd => Rear(call, T, search.bd, search.fmin, search.fmax)
  BY <1>1 DEF BottomInv, Searching
<1>5. \A d \in S : d \in Int /\ v[d] = x(d) /\ Start(u, d) = ForwardStart(d)
  BY <1>2, SweepInts DEF Start, ForwardStart
<1>6. Snaked(call, S, u, v)
  <2> SUFFICES ASSUME NEW d \in S
               PROVE  /\ v[d] \in Int /\ Start(u, d) <= v[d]
                      /\ v[d] = Start(u, d) \/ (v[d] <= call.xlim /\ v[d] - d <= call.ylim)
    BY DEF Snaked
  <2>1. Start(u, d) \in Int /\ d \in Int /\ call.xlim \in Int /\ call.ylim \in Int
    BY <1>2, <1>3, <1>5, StartAhead DEF IsBox
  <2> DEFINE s == Start(u, d)
             n == Snake(s, s - d)
  <2>2. n \in Nat /\ (n = 0 \/ (s + n <= call.xlim /\ (s - d) + n <= call.ylim))
    <3>1. s - d \in Int
      BY <2>1
    <3> HIDE DEF s
    <3> QED
      BY <2>1, <3>1, SnakeEqual DEF s
  <2>3. v[d] = s + n
    BY <1>5
  <2> HIDE DEF s, n, v
  <2> QED
    BY <2>1, <2>2, <2>3 DEF s
<1> HIDE DEF v
<1>7. Ahead(call, S, v)
  BY <1>2, <1>3, <1>6, SweptAhead
<1>8. CASE met # {}
  <2>1. PICK d \in met : Divide(x(d), x(d) - d, TRUE, TRUE)
    BY <1>8 DEF Forward
  <2>2. d \in S /\ odd /\ search.bmin <= d /\ d <= search.bmax /\ x(d) = v[d]
    BY <1>2, <1>5, <2>1
  <2>3. v[d] <= call.xlim /\ v[d] - d <= call.ylim
    BY <1>2, <1>3, <1>6, <2>2, MeetInside
  <2>4. v[d] \in Int /\ d \in Int /\ call.xoff <= v[d] /\ call.yoff <= v[d] - d
    BY <1>7, <2>2 DEF Ahead
  <2>5. x(d) \in call.xoff..call.xlim /\ x(d) - d \in call.yoff..call.ylim
    BY <1>2, <2>2, <2>3, <2>4 DEF IsBox
  <2>6. DividesInside
    BY <2>1, <2>5 DEF DividesInside
  <2> QED
    BY <2>6, DividedInv
<1>9. CASE met = {}
  <2>1. /\ todo' = todo /\ stage' = "extend back"
        /\ search' = [search EXCEPT
             !.fd = [d \in DOMAIN @ \cup S |-> IF d \in S THEN x(d) ELSE @[d]],
             !.big_snake = \E d \in S : x(d) - ForwardStart(d) > SnakeLimit]
    BY <1>9 DEF Forward
  <2>2. /\ search'.fmin = search.fmin /\ search'.fmax = search.fmax
        /\ search'.bmin = search.bmin /\ search'.bmax = search.bmax /\ search'.bd = search.bd
        /\ DOMAIN search' = DOMAIN search
        /\ search'.fd = [d \in DOMAIN u \cup S |-> IF d \in S THEN x(d) ELSE u[d]]
    BY <1>1, <2>1 DEF LimitsInv, Searching
  <2>3. \A d \in S : d \in DOMAIN search'.fd /\ search'.fd[d] = v[d]
    BY <1>5, <2>2
  <2>4. /\ call' = call /\ dmin' = dmin /\ dmax' = dmax /\ bmid' = bmid /\ fmid' = fmid
        /\ odd' <=> odd
    BY <2>1, SameCall
  <2>5. LimitsInv'
    <3>1. stage \in Searching /\ stage' \in {"forward", "extend back"}
      BY <1>1, <2>1 DEF Searching
    <3> QED
      BY <1>1, <2>2, <2>4, <3>1 DEF LimitsInv
  <2>6. ASSUME odd
        PROVE  Frontier(call, S, v, search.bmin - 1, search.bmax + 1)
    <3>1. ASSUME NEW d \in S, search.bmin <= d, d <= search.bmax
          PROVE  v[d] < call.xlim /\ v[d] - d < call.ylim
      <4>1. d \in Int /\ (search.fmax - d) % 2 = 0
        BY <1>2, SweepInts
      <4>2. fmid \in Int /\ bmid \in Int /\ (fmid - bmid) % 2 = 1
        BY <1>2, <2>6, BoxInts DEF odd
      <4>3. (search.bmax - d) % 2 = 0
        BY <1>2, <4>1, <4>2
      <4>4. d \in T
        BY <1>2, <3>1, <4>1, <4>3, SweepInts
      <4>5. /\ search.bd[d] \in Int /\ search.bd[d] <= call.xlim
            /\ search.bd[d] - d <= call.ylim
        BY <1>4, <4>4 DEF Behind
      <4>6. ~(search.bd[d] <= x(d)) /\ x(d) = v[d]
        BY <1>2, <1>5, <1>9, <2>6, <3>1, <4>1
      <4>7. v[d] \in Int
        BY <1>6 DEF Snaked
      <4> HIDE DEF x
      <4> QED
        BY <1>2, <4>1, <4>5, <4>6, <4>7 DEF IsBox
    <3>2. /\ Frontier(call, W, u, search.bmin, search.bmax)
          /\ Edges(W, S, call.xoff - call.ylim, call.xlim - call.yoff)
          /\ search.bmin <= call.xlim - call.ylim /\ call.xlim - call.ylim <= search.bmax
      BY <1>2, <1>3, <2>6, BoxInts
    <3> HIDE DEF S, u
    <3> QED
      BY <1>2, <1>3, <1>6, <3>1, <3>2, FrontKept
  <2>7. TopInv'
    <3>1. /\ Ahead(call, S, search'.fd)
          /\ odd => Frontier(call, S, search'.fd, search.bmin - 1, search.bmax + 1)
      <4> HIDE DEF S
      <4> QED
        BY <1>7, <2>3, <2>6, AheadAlike
    <3>2. odd => Frontier(call, S, search'.fd, search.bmin, search.bmax)
      <4> DEFINE lo == search.bmin - 1
                 hi == search.bmax + 1
      <4>1. lo \in Int /\ hi \in Int /\ lo <= search.bmin /\ search.bmax <= hi
        BY <1>2
      <4>2. \A d \in S : d \in Int
        BY <1>5
      <4>3. odd => Frontier(call, S, search'.fd, lo, hi)
        BY <3>1
      <4> HIDE DEF S, lo, hi
      <4> QED
        BY <1>2, <4>1, <4>2, <4>3, FrontWeaker
    <3>3. S' = S
      BY <2>2
    <3> QED
      BY <2>1, <2>2, <2>3, <2>4, <3>1, <3>2, <3>3 DEF TopInv
  <2>8. BottomInv'
    BY <1>4, <2>1, <2>2, <2>4 DEF BottomInv, Searching
  <2> QED
    BY <2>1, <2>5, <2>7, <2>8 DEF SearchInv
<1> QED
  BY <1>8, <1>9

LEMMA BackwardInv ==
  ASSUME SearchInv, Backward
  PROVE  /\ SearchInv'
         /\ stage' # "slide" => stage' = "consider" /\ todo' = todo
         /\ stage' = "slide" => DividesInside
<1> DEFINE u == search.bd
           S == Sweep(search.bmin, search.bmax)
           T == Sweep(search.fmin, search.fmax)
           x(d) == BackwardStart(d) - SnakeBack(BackwardStart(d), BackwardStart(d) - d)
           v == [d \in S |-> x(d)]
           met == {d \in S : /\ ~odd /\ d \in search.fmin..search.fmax
                             /\ x(d) <= search.fd[d]}
<1>1. stage = "backward" /\ LimitsInv /\ BottomInv /\ TopInv
  BY DEF Backward, SearchInv
<1>2. /\ IsBox(call) /\ search.bmin \in Int /\ search.bmax \in Int
      /\ search.fmin \in Int /\ search.fmax \in Int
      /\ dmin <= search.fmin /\ search.fmin <= fmid /\ fmid <= search.fmax
      /\ ((search.fmax - search.bmax) - (fmid - bmid)) % 2 = 0
  BY <1>1 DEF LimitsInv, Searching
<1>3. PICK W : /\ Behind(call, W, u) /\ RearBeside(W, S, u) /\ Edges(W, S, dmin, dmax)
               /\ ~odd => Rear(call, W, u, search.fmin, search.fmax)
  BY <1>1 DEF BottomInv
<1>4. /\ \A d \in T : d \in DOMAIN search.fd
      /\ Ahead(call, T, search.fd)
      /\ odd => Frontier(call, T, search.fd, search.bmin, search.bmax)
  BY <1>1 DEF TopInv, Searching
<1>5. \A d \in S : d \in Int /\ v[d] = x(d) /\ RearStart(u, d) = BackwardStart(d)
  BY <1>2, SweepInts DEF RearStart, BackwardStart
<1>6. RearSnaked(call, S, u, v)
  <2> SUFFICES ASSUME NEW d \in S
               PROVE  /\ v[d] \in Int /\ v[d] <= RearStart(u, d)
                      /\ \/ v[d] = RearStart(u, d)
                         \/ call.xoff <= v[d] /\ call.yoff <= v[d] - d
    BY DEF RearSnaked
  <2>1. RearStart(u, d) \in Int /\ d \in Int /\ call.xoff \in Int /\ call.yoff \in Int
    BY <1>2, <1>3, <1>5, StartBehind DEF IsBox
  <2> DEFINE s == RearStart(u, d)
             n == SnakeBack(s, s - d)
  <2>2. n \in Nat /\ (n = 0 \/ (call.xoff <= s - n /\ call.yoff <= (s - d) - n))
    <3>1. s - d \in Int
      BY <2>1
    <3> HIDE DEF s
    <3> QED
      BY <2>1, <3>1, SnakeBackEqual DEF s
  <2>3. v[d] = s - n
    BY <1>5
  <2> HIDE DEF s, n, v
  <2> QED
    BY <2>1, <2>2, <2>3 DEF s
<1> HIDE DEF v
<1>7. Behind(call, S, v)
  BY <1>2, <1>3, <1>6, SweptBehind
<1>8. CASE met # {}
  <2>1. PICK d \in met : Divide(x(d), x(d) - d, TRUE, TRUE)
    BY <1>8 DEF Backward
  <2>2. d \in S /\ ~odd /\ search.fmin <= d /\ d <= search.fmax /\ x(d) = v[d]
    BY <1>2, <1>5, <2>1
  <2>3. call.xoff <= v[d] /\ call.yoff <= v[d] - d
    BY <1>2, <1>3, <1>6, <2>2, MeetInsideRear
  <2>4. v[d] \in Int /\ d \in Int /\ v[d] <= call.xlim /\ v[d] - d <= call.ylim
    BY <1>7, <2>2 DEF Behind
  <2>5. x(d) \in call.xoff..call.xlim /\ x(d) - d \in call.yoff..call.ylim
    BY <1>2, <2>2, <2>3, <2>4 DEF IsBox
  <2>6. DividesInside
    BY <2>1, <2>5 DEF DividesInside
  <2> QED
    BY <2>6, DividedInv
<1>9. CASE met = {}
  <2>1. /\ todo' = todo /\ stage' = "consider"
        /\ search' = [search EXCEPT
             !.bd = [d \in DOMAIN @ \cup S |-> IF d \in S THEN x(d) ELSE @[d]],
             !.big_snake = @ \/ \E d \in S : BackwardStart(d) - x(d) > SnakeLimit]
    BY <1>9 DEF Backward
  <2>2. /\ search'.bmin = search.bmin /\ search'.bmax = search.bmax
        /\ search'.fmin = search.fmin /\ search'.fmax = search.fmax /\ search'.fd = search.fd
        /\ DOMAIN search' = DOMAIN search
        /\ search'.bd = [d \in DOMAIN u \cup S |-> IF d \in S THEN x(d) ELSE u[d]]
    BY <1>1, <2>1 DEF LimitsInv, Searching
  <2>3. \A d \in S : d \in DOMAIN search'.bd /\ search'.bd[d] = v[d]
    BY <1>5, <2>2
  <2>4. /\ call' = call /\ dmin' = dmin /\ dmax' = dmax /\ fmid' = fmid /\ bmid' = bmid
        /\ odd' <=> odd
    BY <2>1, SameCall
  <2>5. LimitsInv'
    <3>1. /\ stage \in Searching /\ stage \notin {"forward", "extend back"}
          /\ stage' \notin {"forward", "extend back"}
      BY <1>1, <2>1 DEF Searching
    <3> QED
      BY <1>1, <2>2, <2>4, <3>1 DEF LimitsInv
  <2>6. ASSUME ~odd
        PROVE  Rear(call, S, v, search.fmin - 1, search.fmax + 1)
    <3>1. ASSUME NEW d \in S, search.fmin <= d, d <= search.fmax
          PROVE  call.xoff < v[d] /\ call.yoff < v[d] - d
      <4>1. d \in Int /\ (search.bmax - d) % 2 = 0
        BY <1>2, SweepInts
      <4>2. bmid \in Int /\ fmid \in Int /\ (fmid - bmid) % 2 = 0
        BY <1>2, <2>6, BoxInts DEF odd
      <4>3. (search.fmax - d) % 2 = 0
        BY <1>2, <4>1, <4>2
      <4>4. d \in T
        BY <1>2, <3>1, <4>1, <4>3, SweepInts
      <4>5. /\ search.fd[d] \in Int /\ call.xoff <= search.fd[d]
            /\ call.yoff <= search.fd[d] - d
        BY <1>4, <4>4 DEF Ahead
      <4>6. ~(x(d) <= search.fd[d]) /\ x(d) = v[d]
        BY <1>2, <1>5, <1>9, <2>6, <3>1, <4>1
      <4>7. v[d] \in Int
        BY <1>6 DEF RearSnaked
      <4> HIDE DEF x
      <4> QED
        BY <1>2, <4>1, <4>5, <4>6, <4>7 DEF IsBox
    <3>2. /\ Rear(call, W, u, search.fmin, search.fmax)
          /\ Edges(W, S, call.xoff - call.ylim, call.xlim - call.yoff)
          /\ search.fmin <= call.xoff - call.yoff /\ call.xoff - call.yoff <= search.fmax
      BY <1>2, <1>3, <2>6, BoxInts
    <3> HIDE DEF S, u
    <3> QED
      BY <1>2, <1>3, <1>6, <3>1, <3>2, RearKept
  <2>7. BottomInv'
    <3>1. /\ Behind(call, S, search'.bd)
          /\ ~odd => Rear(call, S, search'.bd, search.fmin - 1, search.fmax + 1)
      <4> HIDE DEF S
      <4> QED
        BY <1>7, <2>3, <2>6, BehindAlike
    <3>2. ~odd => Rear(call, S, search'.bd, search.fmin, search.fmax)
      <4> DEFINE lo == search.fmin - 1
                 hi == search.fmax + 1
      <4>1. lo \in Int /\ hi \in Int /\ lo <= search.fmin /\ search.fmax <= hi
        BY <1>2
      <4>2. \A d \in S : d \in Int
        BY <1>5
      <4>3. ~odd => Rear(call, S, search'.bd, lo, hi)
        BY <3>1
      <4> HIDE DEF S, lo, hi
      <4> QED
        BY <1>2, <4>1, <4>2, <4>3, FrontWeaker
    <3>3. S' = S
      BY <2>2
    <3> QED
      BY <2>1, <2>2, <2>3, <2>4, <3>1, <3>2, <3>3 DEF BottomInv
  <2>8. TopInv'
    BY <1>4, <2>1, <2>2, <2>4 DEF TopInv, Searching
  <2> QED
    BY <2>1, <2>5, <2>7, <2>8 DEF SearchInv
<1> QED
  BY <1>8, <1>9

LEMMA CallBox ==
  ASSUME ReadInv, VecInv, CallsInv, stage \in Comparing
  PROVE  /\ call \in Calls /\ InVectors(call) /\ call = todo[1] /\ todo # <<>>
         /\ Len(todo) \in Nat /\ Len(todo) > 0 /\ DOMAIN todo = 1..Len(todo)
         /\ ~Simple => IsBox(call)
<1>1. todo \in Seq(Calls) /\ todo # <<>> /\ 1 \in DOMAIN todo
  BY DEF CallsInv
<1>2. call \in Calls /\ InVectors(call) /\ call = todo[1]
  BY <1>1 DEF CallsInv, call
<1>3. 0 \in Files /\ stage \notin Reading
  <2>1. 0 \in Files
    BY DEF Files
  <2>2. stage \notin Reading
    BY DEF Comparing, Reading
  <2> QED
    BY <2>1, <2>2
<1>4. /\ Len(realindexes[0]) <= Len(equivs[0]) /\ Len(equivs[0]) < OFFSET_MAX
      /\ Len(equivs[0]) \in Nat /\ Len(realindexes[0]) \in Nat
  BY <1>3, ListedLines DEF VecInv
<1>5. OFFSET_MAX \in Nat
  BY LimitsAssumption
<1>6. ~Simple => IsBox(call)
  <2>1. /\ call.xoff \in Nat /\ call.xlim \in Nat /\ call.yoff \in Nat /\ call.ylim \in Nat
    BY <1>2 DEF Calls
  <2>2. call.xoff <= call.xlim /\ call.xlim <= Len(realindexes[0]) /\ call.yoff <= call.ylim
    BY <1>2 DEF InVectors
  <2> QED
    BY <2>1, <2>2, <1>4, <1>5 DEF IsBox, Simple
<1> QED
  BY <1>1, <1>2, <1>6

LEMMA StartDiagInv ==
  ASSUME ReadInv, VecInv, CallsInv, StartDiag
  PROVE  SearchInv' /\ todo' = todo /\ stage' = "extend"
<1>1. /\ stage = "simple" /\ ~Simple /\ stage' = "extend" /\ todo' = todo
      /\ search' = [c |-> 1, big_snake |-> FALSE,
                    fmin |-> fmid, fmax |-> fmid, fd |-> [d \in {fmid} |-> call.xoff],
                    bmin |-> bmid, bmax |-> bmid, bd |-> [d \in {bmid} |-> call.xlim]]
  BY DEF StartDiag
<1>2. IsBox(call)
  BY <1>1, CallBox DEF Comparing
<1>3. /\ dmin \in Int /\ dmax \in Int /\ fmid \in Int /\ bmid \in Int
      /\ dmin < fmid /\ fmid < dmax /\ dmin < bmid /\ bmid < dmax
      /\ fmid = call.xoff - call.yoff /\ bmid = call.xlim - call.ylim
  BY <1>2, BoxInts
<1>4. /\ call' = call /\ dmin' = dmin /\ dmax' = dmax /\ fmid' = fmid /\ bmid' = bmid
      /\ odd' <=> odd
  BY <1>1, SameCall
<1>5. stage' \in Searching
  BY <1>1 DEF Searching
<1>6. /\ search'.fmin = fmid /\ search'.fmax = fmid /\ search'.fd = [d \in {fmid} |-> call.xoff]
      /\ search'.bmin = bmid /\ search'.bmax = bmid /\ search'.bd = [d \in {bmid} |-> call.xlim]
      /\ DOMAIN search' = {"c", "big_snake", "fmin", "fmax", "fd", "bmin", "bmax", "bd"}
  BY <1>1
<1>7. LimitsInv'
  <2>1. ((fmid - bmid) - (fmid - bmid)) % 2 = 0 /\ (fmid - fmid) % 2 = 0 /\ (bmid - bmid) % 2 = 0
    BY <1>3
  <2> QED
    BY <1>1, <1>2, <1>3, <1>4, <1>6, <2>1 DEF LimitsInv
<1>8. TopInv'
  <2> DEFINE S == Sweep(search.fmin, search.fmax)'
             v == search'.fd
  <2>1. S = {fmid}
    BY <1>3, <1>6 DEF Sweep
  <2>2. v[fmid] = call.xoff /\ DOMAIN v = {fmid}
    BY <1>6
  <2> HIDE DEF v
  <2>3. Ahead(call, {fmid}, v) /\ Frontier(call, {fmid}, v, bmid, bmid)
    BY <1>2, <1>3, <2>2 DEF Ahead, Frontier, IsBox
  <2> QED
    BY <1>1, <1>4, <1>6, <2>1, <2>2, <2>3 DEF TopInv, v
<1>9. BottomInv'
  <2> DEFINE S == Sweep(search.bmin, search.bmax)'
             v == search'.bd
  <2>1. S = {bmid}
    BY <1>3, <1>6 DEF Sweep
  <2>2. v[bmid] = call.xlim /\ DOMAIN v = {bmid}
    BY <1>6
  <2> HIDE DEF v
  <2>3. /\ Behind(call, {bmid}, v) /\ Rear(call, {bmid}, v, fmid, fmid)
        /\ Rear(call, {bmid}, v, fmid - 1, fmid + 1)
    BY <1>2, <1>3, <2>2 DEF Behind, Rear, IsBox
  <2> QED
    BY <1>1, <1>4, <1>6, <2>1, <2>2, <2>3 DEF BottomInv, v
<1> QED
  BY <1>1, <1>7, <1>8, <1>9 DEF SearchInv

(* The points at which the heuristics divide a call lie in it, too.        *)
LEMMA ConsiderInv ==
  ASSUME SearchInv, Consider
  PROVE  /\ SearchInv'
         /\ stage' # "slide" => stage' = "extend" /\ todo' = todo
         /\ stage' = "slide" => DividesInside
<1>1. stage = "consider" /\ LimitsInv /\ TopInv /\ BottomInv
  BY DEF Consider, SearchInv
<1>2. /\ IsBox(call) /\ search.fmin \in Int /\ search.fmax \in Int
      /\ search.bmin \in Int /\ search.bmax \in Int
      /\ dmin <= search.fmin /\ search.fmax <= dmax /\ dmin <= search.bmin /\ search.bmax <= dmax
  BY <1>1 DEF LimitsInv, Searching
<1>3. /\ dmin \in Int /\ dmax \in Int
      /\ dmin = call.xoff - call.ylim /\ dmax = call.xlim - call.yoff
      /\ call.xoff \in Nat /\ call.xlim \in Nat /\ call.yoff \in Nat /\ call.ylim \in Nat
      /\ call.xoff < call.xlim /\ call.yoff < call.ylim
  BY <1>2, BoxInts DEF IsBox
<1>4. ASSUME NEW d \in Sweep(search.fmin, search.fmax)
      PROVE  /\ d \in Int /\ dmin <= d /\ d <= dmax
             /\ search.fd[d] \in Int /\ call.xoff <= search.fd[d]
             /\ call.yoff <= search.fd[d] - d
  <2>1. Ahead(call, Sweep(search.fmin, search.fmax), search.fd)
    BY <1>1 DEF TopInv, Searching
  <2>2. d \in Int /\ search.fmin <= d /\ d <= search.fmax
    BY <1>2, SweepInts
  <2> QED
    BY <1>2, <1>3, <2>1, <2>2 DEF Ahead
<1>5. ASSUME NEW d \in Sweep(search.bmin, search.bmax)
      PROVE  /\ d \in Int /\ dmin <= d /\ d <= dmax
             /\ search.bd[d] \in Int /\ search.bd[d] <= call.xlim
             /\ search.bd[d] - d <= call.ylim
  <2>1. Behind(call, Sweep(search.bmin, search.bmax), search.bd)
    BY <1>1 DEF BottomInv, Searching
  <2>2. d \in Int /\ search.bmin <= d /\ d <= search.bmax
    BY <1>2, SweepInts
  <2> QED
    BY <1>2, <1>3, <2>1, <2>2 DEF Behind
<1>6. ASSUME NEW x \in Int, NEW y \in Int, NEW lo_minimal \in BOOLEAN, NEW hi_minimal \in BOOLEAN,
             call.xoff <= x, x <= call.xlim, call.yoff <= y, y <= call.ylim,
             Divide(x, y, lo_minimal, hi_minimal)
      PROVE  DividesInside
  <2>1. x \in call.xoff..call.xlim /\ y \in call.yoff..call.ylim
    BY <1>3, <1>6
  <2> QED
    BY <1>6, <2>1 DEF DividesInside
<1>7. ASSUME DivideRemarkably PROVE DividesInside
  <2>1. ASSUME NEW d \in GoodForward, Divide(search.fd[d], search.fd[d] - d, TRUE, FALSE)
        PROVE  DividesInside
    <3> DEFINE x == search.fd[d]
    <3>1. d \in Sweep(search.fmin, search.fmax) /\ x < call.xlim /\ x - d < call.ylim
      BY DEF GoodForward
    <3>2. x \in Int /\ d \in Int /\ call.xoff <= x /\ call.yoff <= x - d
      BY <1>4, <3>1
    <3> HIDE DEF x
    <3>3. x - d \in Int /\ x <= call.xlim /\ x - d <= call.ylim
      BY <1>3, <3>1, <3>2
    <3>4. Divide(x, x - d, TRUE, FALSE)
      BY <2>1 DEF x
    <3> QED
      BY <1>6, <3>2, <3>3, <3>4
  <2>2. ASSUME NEW d \in GoodBackward, Divide(search.bd[d], search.bd[d] - d, FALSE, TRUE)
        PROVE  DividesInside
    <3> DEFINE x == search.bd[d]
    <3>1. d \in Sweep(search.bmin, search.bmax) /\ call.xoff < x /\ call.yoff < x - d
      BY DEF GoodBackward
    <3>2. x \in Int /\ d \in Int /\ x <= call.xlim /\ x - d <= call.ylim
      BY <1>5, <3>1
    <3> HIDE DEF x
    <3>3. x - d \in Int /\ call.xoff <= x /\ call.yoff <= x - d
      BY <1>3, <3>1, <3>2
    <3>4. Divide(x, x - d, FALSE, TRUE)
      BY <2>2 DEF x
    <3> QED
      BY <1>6, <3>2, <3>3, <3>4
  <2> QED
    BY <1>7, <2>1, <2>2 DEF DivideRemarkably
<1>8. ASSUME GiveUp PROVE DividesInside
  <2>1. PICK f \in Sweep(search.fmin, search.fmax), b \in Sweep(search.bmin, search.bmax) :
          \/ Divide(ForwardX(f), ForwardX(f) - f, TRUE, FALSE)
          \/ Divide(BackwardX(b), BackwardX(b) - b, FALSE, TRUE)
    BY <1>8 DEF GiveUp
  <2>2. /\ ForwardX(f) \in Int /\ f \in Int /\ call.xoff <= ForwardX(f) /\ ForwardX(f) <= call.xlim
        /\ call.yoff <= ForwardX(f) - f /\ ForwardX(f) - f <= call.ylim
    BY <1>3, <1>4 DEF ForwardX, Smaller
  <2>3. /\ BackwardX(b) \in Int /\ b \in Int
        /\ call.xoff <= BackwardX(b) /\ BackwardX(b) <= call.xlim
        /\ call.yoff <= BackwardX(b) - b /\ BackwardX(b) - b <= call.ylim
    BY <1>3, <1>5 DEF BackwardX, Bigger
  <2>4. CASE Divide(ForwardX(f), ForwardX(f) - f, TRUE, FALSE)
    <3>1. ForwardX(f) - f \in Int
      BY <2>2
    <3> QED
      BY <1>6, <2>2, <2>4, <3>1
  <2>5. CASE Divide(BackwardX(b), BackwardX(b) - b, FALSE, TRUE)
    <3>1. BackwardX(b) - b \in Int
      BY <2>3
    <3> QED
      BY <1>6, <2>3, <2>5, <3>1
  <2> QED
    BY <2>1, <2>4, <2>5
<1>9. CASE DivideRemarkably \/ GiveUp
  BY <1>7, <1>8, <1>9, DividedInv
<1>10. CASE ~DivideRemarkably /\ ~GiveUp
  <2>1. stage' = "extend" /\ todo' = todo /\ search' = [search EXCEPT !.c = @ + 1]
    BY <1>10 DEF Consider
  <2>2. /\ search'.fmin = search.fmin /\ search'.fmax = search.fmax /\ search'.fd = search.fd
        /\ search'.bmin = search.bmin /\ search'.bmax = search.bmax /\ search'.bd = search.bd
        /\ DOMAIN search' = DOMAIN search
    BY <1>1, <2>1 DEF LimitsInv, Searching
  <2>3. /\ call' = call /\ dmin' = dmin /\ dmax' = dmax /\ fmid' = fmid /\ bmid' = bmid
        /\ odd' <=> odd
    BY <2>1, SameCall
  <2>4. stage \in Searching
    BY <1>1 DEF Searching
  <2>5. LimitsInv'
    BY <1>1, <2>1, <2>2, <2>3, <2>4 DEF LimitsInv
  <2>6. TopInv'
    BY <1>1, <2>1, <2>2, <2>3, <2>4 DEF TopInv
  <2>7. BottomInv'
    BY <1>1, <2>1, <2>2, <2>3, <2>4 DEF BottomInv
  <2> QED
    BY <2>1, <2>5, <2>6, <2>7 DEF SearchInv
<1> QED
  BY <1>9, <1>10

-----------------------------------------------------------------------------
(* The stack.                                                              *)
LEMMA StackPopped ==
  ASSUME NEW C, NEW s \in Seq(C), s # <<>>
  PROVE  /\ Tail(s) \in Seq(C) /\ Len(Tail(s)) = Len(s) - 1 /\ Len(s) \in Nat /\ Len(s) > 0
         /\ \A k \in 1..(Len(s) - 1) : Tail(s)[k] = s[k + 1]
  OBVIOUS

LEMMA StackPushed ==
  ASSUME NEW C, NEW s \in Seq(C), s # <<>>, NEW a \in C, NEW b \in C
  PROVE  LET t == <<a, b>> \o Tail(s)
         IN  /\ t \in Seq(C) /\ Len(t) = Len(s) + 1 /\ t[1] = a /\ t[2] = b
             /\ \A k \in 3..Len(t) : t[k] = s[k - 1] /\ k - 1 \in 2..Len(s)
<1> DEFINE t == <<a, b>> \o Tail(s)
<1>1. /\ Tail(s) \in Seq(C) /\ Len(Tail(s)) = Len(s) - 1 /\ Len(s) \in Nat /\ Len(s) > 0
      /\ \A k \in 1..(Len(s) - 1) : Tail(s)[k] = s[k + 1]
  BY StackPopped
<1>2. <<a, b>> \in Seq(C) /\ Len(<<a, b>>) = 2
  OBVIOUS
<1>3. t \in Seq(C) /\ Len(t) = Len(s) + 1
  BY <1>1, <1>2
<1>4. t[1] = a /\ t[2] = b
  BY <1>1, <1>2
<1>5. ASSUME NEW k \in 3..Len(t)
      PROVE  t[k] = s[k - 1] /\ k - 1 \in 2..Len(s)
  <2>1. k - 2 \in 1..(Len(s) - 1) /\ k - 1 \in 2..Len(s)
    BY <1>1, <1>3
  <2>2. t[k] = Tail(s)[k - 2]
    BY <1>1, <1>2, <1>3, <2>1
  <2>3. Tail(s)[k - 2] = s[(k - 2) + 1] /\ (k - 2) + 1 = k - 1
    BY <1>1, <2>1
  <2> QED
    BY <2>1, <2>2, <2>3
<1> QED
  BY <1>3, <1>4, <1>5

(* What SlideEnds leaves of the call, and what it has found equal.         *)
Slid(lo, hi) ==
    /\ lo \in Nat /\ hi \in Nat
    /\ lo + hi <= call.xlim - call.xoff /\ lo + hi <= call.ylim - call.yoff
    /\ \A k \in 0..(lo - 1) : XVec(call.xoff + k) = YVec(call.yoff + k)
    /\ \A k \in 1..hi : XVec(call.xlim - k) = YVec(call.ylim - k)
    /\ todo' = [todo EXCEPT ![1].xoff = @ + lo, ![1].yoff = @ + lo,
                            ![1].xlim = @ - hi, ![1].ylim = @ - hi]

LEMMA SlideEndsSlid ==
  ASSUME ReadInv, VecInv, CallsInv, SlideEnds
  PROVE  /\ \E lo, hi : Slid(lo, hi)
         /\ stage' = "simple"
<1> DEFINE lo == Snake(call.xoff, call.yoff)
           back == SnakeBack(call.xlim, call.ylim)
           left == Smaller(call.xlim - call.xoff, call.ylim - call.yoff) - lo
           hi == Smaller(back, left)
<1>1. call \in Calls /\ InVectors(call)
  BY CallBox DEF SlideEnds, Comparing
<1>2. /\ call.xoff \in Nat /\ call.xlim \in Nat /\ call.yoff \in Nat /\ call.ylim \in Nat
      /\ call.xoff <= call.xlim /\ call.yoff <= call.ylim
  BY <1>1 DEF Calls, InVectors
<1>2a. call.xoff \in Int /\ call.xlim \in Int /\ call.yoff \in Int /\ call.ylim \in Int
  BY <1>2
<1>3. /\ lo \in Nat
      /\ lo = 0 \/ (call.xoff + lo <= call.xlim /\ call.yoff + lo <= call.ylim)
      /\ \A k \in 0..(lo - 1) : XVec(call.xoff + k) = YVec(call.yoff + k)
  BY <1>2a, SnakeEqual
<1>4. back \in Nat /\ \A k \in 1..back : XVec(call.xlim - k) = YVec(call.ylim - k)
  BY <1>2a, SnakeBackEqual
<1>5. /\ todo' = [todo EXCEPT ![1].xoff = @ + lo, ![1].yoff = @ + lo,
                              ![1].xlim = @ - hi, ![1].ylim = @ - hi]
      /\ stage' = "simple"
  BY DEF SlideEnds
<1> HIDE DEF lo, back
<1>6. hi \in Nat /\ hi <= back /\ lo + hi <= call.xlim - call.xoff
          /\ lo + hi <= call.ylim - call.yoff
  BY <1>2, <1>3, <1>4 DEF Smaller
<1>7. \A k \in 1..hi : XVec(call.xlim - k) = YVec(call.ylim - k)
  BY <1>4, <1>6
<1> HIDE DEF hi
<1> QED
  BY <1>3, <1>5, <1>6, <1>7 DEF Slid

LEMMA SlidTodo ==
  ASSUME CallsInv, todo # <<>>, call \in Calls, InVectors(call), NEW lo, NEW hi, Slid(lo, hi)
  PROVE  /\ todo' \in Seq(Calls) /\ Len(todo') = Len(todo) /\ todo' # <<>>
         /\ call'.xoff = call.xoff + lo /\ call'.xlim = call.xlim - hi
         /\ call'.yoff = call.yoff + lo /\ call'.ylim = call.ylim - hi
         /\ \A k \in 2..Len(todo) : todo'[k] = todo[k]
<1>1. /\ call.xoff \in Nat /\ call.xlim \in Nat /\ call.yoff \in Nat /\ call.ylim \in Nat
      /\ call.xoff <= call.xlim /\ call.yoff <= call.ylim
      /\ lo \in Nat /\ hi \in Nat
      /\ lo + hi <= call.xlim - call.xoff /\ lo + hi <= call.ylim - call.yoff
  BY DEF Calls, InVectors, Slid
<1>2. ASSUME NEW r \in Calls, NEW n \in Nat
      PROVE  /\ [r EXCEPT !.xoff = n] \in Calls /\ [r EXCEPT !.yoff = n] \in Calls
             /\ [r EXCEPT !.xlim = n] \in Calls /\ [r EXCEPT !.ylim = n] \in Calls
  BY DEF Calls
<1>2a. /\ call.xoff + lo \in Nat /\ call.xlim - hi \in Nat
       /\ call.yoff + lo \in Nat /\ call.ylim - hi \in Nat
  <2>1. ASSUME NEW off \in Nat, NEW lim \in Nat, NEW l \in Nat, NEW h \in Nat, l + h <= lim - off
        PROVE  off + l \in Nat /\ lim - h \in Nat
    BY <2>1
  <2> QED
    BY <1>1, <2>1
<1> DEFINE c1 == [call EXCEPT !.xoff = call.xoff + lo]
           c2 == [c1 EXCEPT !.yoff = call.yoff + lo]
           c3 == [c2 EXCEPT !.xlim = call.xlim - hi]
           c == [c3 EXCEPT !.ylim = call.ylim - hi]
<1>2b. c1 \in Calls /\ c2 \in Calls /\ c3 \in Calls /\ c \in Calls
  <2>1. c1 \in Calls
    BY <1>2, <1>2a
  <2> HIDE DEF c1
  <2>2. c2 \in Calls
    BY <1>2, <1>2a, <2>1
  <2> HIDE DEF c2
  <2>3. c3 \in Calls
    BY <1>2, <1>2a, <2>2
  <2> HIDE DEF c3
  <2>4. c \in Calls
    BY <1>2, <1>2a, <2>3
  <2> QED
    BY <2>1, <2>2, <2>3, <2>4
<1>2c. /\ c.xoff = call.xoff + lo /\ c.xlim = call.xlim - hi
       /\ c.yoff = call.yoff + lo /\ c.ylim = call.ylim - hi
  BY DEF Calls
<1>3. todo \in Seq(Calls) /\ 1 \in DOMAIN todo /\ todo # <<>>
  BY DEF CallsInv
<1>4. todo' = [todo EXCEPT ![1] = c]
  BY <1>3 DEF Slid, call
<1> HIDE DEF c, c1, c2, c3
<1>5. /\ todo' \in Seq(Calls) /\ Len(todo') = Len(todo) /\ todo'[1] = c
      /\ \A k \in 2..Len(todo) : todo'[k] = todo[k]
  BY <1>2b, <1>3, <1>4
<1>6. todo' # <<>>
  BY <1>3, <1>5
<1> QED
  BY <1>2c, <1>5, <1>6 DEF call

LEMMA SearchStepKinds ==
  ASSUME ReadInv, VecInv, CallsInv, SearchInv, SearchStep
  PROVE  /\ SearchInv'
         /\ \/ SlideEnds
            \/ todo' = todo
            \/ DividesInside
<1>1. CASE SlideEnds
  <2>1. stage' = "simple"
    BY <1>1, SlideEndsSlid
  <2>2. LimitsInv' /\ TopInv' /\ BottomInv'
    BY <2>1 DEF LimitsInv, TopInv, BottomInv, Searching
  <2> QED
    BY <1>1, <2>2 DEF SearchInv
<1>2. CASE StartDiag
  BY <1>2, StartDiagInv
<1>3. CASE ExtendForward
  BY <1>3, ExtendForwardInv DEF ExtendForward
<1>4. CASE ExtendBackward
  BY <1>4, ExtendBackwardInv DEF ExtendBackward
<1>5. CASE Forward
  BY <1>5, ForwardInv
<1>6. CASE Backward
  BY <1>6, BackwardInv
<1>7. CASE Consider
  BY <1>7, ConsiderInv
<1> QED
  BY <1>1, <1>2, <1>3, <1>4, <1>5, <1>6, <1>7 DEF SearchStep

LEMMA SearchInvInit == Init => SearchInv
  BY DEF Init, SearchInv, LimitsInv, TopInv, BottomInv, Searching

LEMMA SearchInvNext ==
  ReadInv /\ VecInv /\ CallsInv /\ SearchInv /\ [Next]_vars => SearchInv'
<1> SUFFICES ASSUME ReadInv, VecInv, CallsInv, SearchInv, [Next]_vars PROVE SearchInv'
  OBVIOUS
<1>1. CASE SearchStep
  BY <1>1, SearchStepKinds
<1>2. ASSUME stage' \notin Searching PROVE SearchInv'
  <2>1. stage' # "forward" /\ stage' # "backward"
    BY <1>2 DEF Searching
  <2> QED
    BY <1>2, <2>1 DEF SearchInv, LimitsInv, TopInv, BottomInv
<1>3. CASE ReadStep
  BY <1>2, <1>3, ReadSteps DEF Reading, Searching
<1>4. CASE Discard
  BY <1>2, <1>4 DEF Discard, Searching
<1>5. CASE SimpleCase
  BY <1>2, <1>5, SimpleSteps DEF Searching
<1>6. CASE ShiftStep
  BY <1>2, <1>6, ShiftSteps DEF Shifting, Searching
<1>7. CASE UNCHANGED vars
  BY <1>7 DEF vars, SearchInv, LimitsInv, TopInv, BottomInv, call, dmin, dmax, fmid, bmid, odd
<1> QED
  BY <1>1, <1>3, <1>4, <1>5, <1>6, <1>7, Steps

-----------------------------------------------------------------------------
(* A call gives way to its two parts.                                      *)
Part(c, xoff, xlim, yoff, ylim) ==
    c \in Calls /\ c.xoff = xoff /\ c.xlim = xlim /\ c.yoff = yoff /\ c.ylim = ylim

LEMMA DividedTodo ==
  ASSUME call \in Calls, InVectors(call), DividesInside
  PROVE  \E xmid, ymid, a, b :
             /\ xmid \in call.xoff..call.xlim /\ ymid \in call.yoff..call.ylim
             /\ todo' = <<a, b>> \o Tail(todo)
             /\ \/ /\ Part(a, call.xoff, xmid, call.yoff, ymid)
                   /\ Part(b, xmid, call.xlim, ymid, call.ylim)
                \/ /\ Part(b, call.xoff, xmid, call.yoff, ymid)
                   /\ Part(a, xmid, call.xlim, ymid, call.ylim)
<1>1. PICK xmid \in call.xoff..call.xlim, ymid \in call.yoff..call.ylim,
           lo_minimal \in BOOLEAN, hi_minimal \in BOOLEAN :
             Divide(xmid, ymid, lo_minimal, hi_minimal)
  BY DEF DividesInside
<1> DEFINE lo == Call(call.xoff, xmid, call.yoff, ymid, lo_minimal)
           hi == Call(xmid, call.xlim, ymid, call.ylim, hi_minimal)
<1>2. \/ todo' = <<hi, lo>> \o Tail(todo)
      \/ todo' = <<lo, hi>> \o Tail(todo)
  BY <1>1 DEF Divide
<1>3. /\ call.xoff \in Nat /\ call.xlim \in Nat /\ call.yoff \in Nat /\ call.ylim \in Nat
      /\ xmid \in Nat /\ ymid \in Nat
  BY DEF Calls
<1>4. /\ Part(lo, call.xoff, xmid, call.yoff, ymid)
      /\ Part(hi, xmid, call.xlim, ymid, call.ylim)
  BY <1>3 DEF Part, Call, Calls
<1> HIDE DEF lo, hi
<1> QED
  BY <1>2, <1>4

LEMMA ApartWithin ==
  ASSUME NEW c \in Calls, NEW e \in Calls, Apart(c, e), NEW a \in Calls,
         c.xoff <= a.xoff, a.xlim <= c.xlim, c.yoff <= a.yoff, a.ylim <= c.ylim
  PROVE  Apart(a, e) /\ Apart(e, a)
  BY DEF Apart, Calls

LEMMA CallsInvDivided ==
  ASSUME ReadInv, VecInv, CallsInv, stage \in Comparing, DividesInside, realindexes' = realindexes
  PROVE  CallsInv'
<1>1. /\ call \in Calls /\ InVectors(call) /\ call = todo[1] /\ todo # <<>> /\ todo \in Seq(Calls)
      /\ Len(todo) \in Nat /\ Len(todo) > 0 /\ DOMAIN todo = 1..Len(todo)
  BY CallBox DEF CallsInv
<1>2. PICK xmid, ymid, a, b :
             /\ xmid \in call.xoff..call.xlim /\ ymid \in call.yoff..call.ylim
             /\ todo' = <<a, b>> \o Tail(todo)
             /\ \/ /\ Part(a, call.xoff, xmid, call.yoff, ymid)
                   /\ Part(b, xmid, call.xlim, ymid, call.ylim)
                \/ /\ Part(b, call.xoff, xmid, call.yoff, ymid)
                   /\ Part(a, xmid, call.xlim, ymid, call.ylim)
  BY <1>1, DividedTodo
<1>3. /\ call.xoff \in Nat /\ call.xlim \in Nat /\ call.yoff \in Nat /\ call.ylim \in Nat
      /\ call.xlim <= Len(realindexes[0]) /\ call.ylim <= Len(realindexes[1])
      /\ xmid \in Nat /\ call.xoff <= xmid /\ xmid <= call.xlim
      /\ ymid \in Nat /\ call.yoff <= ymid /\ ymid <= call.ylim
  BY <1>1, <1>2 DEF Calls, InVectors
<1>4. ASSUME NEW c \in {a, b}
      PROVE  /\ c \in Calls /\ InVectors(c)
             /\ call.xoff <= c.xoff /\ c.xlim <= call.xlim
             /\ call.yoff <= c.yoff /\ c.ylim <= call.ylim
  <2>1. /\ Len(realindexes[0]) \in Nat /\ Len(realindexes[1]) \in Nat
    <3>1. 0 \in Files /\ 1 \in Files
      BY DEF Files
    <3>2. stage \notin Reading
      BY DEF Comparing, Reading
    <3> QED
      BY <3>1, <3>2, ListedLines DEF VecInv
  <2>2. CASE Part(c, call.xoff, xmid, call.yoff, ymid)
    BY <1>3, <2>1, <2>2 DEF Part, InVectors
  <2>3. CASE Part(c, xmid, call.xlim, ymid, call.ylim)
    BY <1>3, <2>1, <2>3 DEF Part, InVectors
  <2> QED
    BY <1>2, <2>2, <2>3
<1>5. Apart(a, b) /\ Apart(b, a)
  BY <1>2, <1>3 DEF Part, Apart
<1>6. /\ todo' \in Seq(Calls) /\ Len(todo') = Len(todo) + 1 /\ todo'[1] = a /\ todo'[2] = b
      /\ \A k \in 3..Len(todo') : todo'[k] = todo[k - 1] /\ k - 1 \in 2..Len(todo)
  <2>1. a \in Calls /\ b \in Calls
    BY <1>4
  <2> QED
    BY <1>1, <1>2, <2>1, StackPushed
<1>7. ASSUME NEW c \in {a, b}, NEW k \in 2..Len(todo)
      PROVE  Apart(c, todo[k]) /\ Apart(todo[k], c)
  <2>1. k \in DOMAIN todo /\ 1 \in DOMAIN todo /\ k # 1 /\ todo[k] \in Calls
    BY <1>1
  <2>2. Apart(call, todo[k])
    BY <1>1, <2>1 DEF CallsInv
  <2> QED
    BY <1>1, <1>4, <2>1, <2>2, ApartWithin
<1>8. ASSUME NEW k \in DOMAIN todo'
      PROVE  /\ k = 1 \/ k = 2 \/ k \in 3..Len(todo')
             /\ InVectors(todo'[k])
  <2>1. k \in Nat /\ (k = 1 \/ k = 2 \/ k \in 3..Len(todo'))
    BY <1>1, <1>6
  <2>2. CASE k = 1 \/ k = 2
    BY <1>4, <1>6, <2>2
  <2>3. CASE k \in 3..Len(todo')
    <3>1. todo'[k] = todo[k - 1] /\ k - 1 \in DOMAIN todo
      BY <1>1, <1>6, <2>3
    <3> QED
      BY <3>1 DEF CallsInv
  <2> QED
    BY <2>1, <2>2, <2>3
<1>9. ASSUME NEW j \in DOMAIN todo', NEW k \in DOMAIN todo', j # k
      PROVE  Apart(todo'[j], todo'[k])
  <2>1. CASE j \in {1, 2} /\ k \in {1, 2}
    BY <1>5, <1>6, <1>9, <2>1
  <2>2. CASE j \in {1, 2} /\ k \in 3..Len(todo')
    BY <1>6, <1>7, <2>2
  <2>3. CASE k \in {1, 2} /\ j \in 3..Len(todo')
    BY <1>6, <1>7, <2>3
  <2>4. CASE j \in 3..Len(todo') /\ k \in 3..Len(todo')
    <3>1. /\ todo'[j] = todo[j - 1] /\ todo'[k] = todo[k - 1]
          /\ j - 1 \in DOMAIN todo /\ k - 1 \in DOMAIN todo /\ j - 1 # k - 1
      BY <1>1, <1>6, <1>9, <2>4
    <3> QED
      BY <3>1 DEF CallsInv
  <2> QED
    BY <1>8, <2>1, <2>2, <2>3, <2>4
<1>10. \A k \in DOMAIN todo' : InVectors(todo[k])'
  BY <1>8 DEF InVectors
<1>11. stage' = "slide" /\ todo' # <<>>
  BY <1>1, <1>6, DividedInv
<1> QED
  BY <1>6, <1>9, <1>10, <1>11 DEF CallsInv, Apart, Comparing

LEMMA CallsInvDiscard ==
  ASSUME ReadInv, Discard
  PROVE  CallsInv'
<1> DEFINE kept == [f \in Files |-> {i \in 0..(buffered_lines(f) - 1) :
                                       input.minimal \/ ~Discarded(f, i + 1)}]
           c == Call(0, Cardinality(kept[0]), 0, Cardinality(kept[1]), input.minimal)
<1>1. realindexes' = [f \in Files |-> InOrder(kept[f])] /\ todo' = <<c>> /\ stage' = "slide"
  BY DEF Discard
<1>2. input.minimal \in BOOLEAN
  BY FileTypes DEF ReadInv
<1>3. ASSUME NEW f \in Files
      PROVE  Cardinality(kept[f]) \in Nat /\ Len(realindexes'[f]) = Cardinality(kept[f])
  <2>1. Len(equivs[f]) \in Nat
    BY DEF ReadInv
  <2>2. Within(kept[f], Len(equivs[f]))
    BY DEF Within, buffered_lines
  <2> HIDE DEF kept
  <2>3. Len(InOrder(kept[f])) = Cardinality(kept[f]) /\ Cardinality(kept[f]) \in Nat
    <3>1. 0 \in Int
      OBVIOUS
    <3> QED
      BY <2>1, <2>2, <3>1, InOrderListed, RankFinite
  <2> QED
    BY <1>1, <2>3
<1>4. 0 \in Files /\ 1 \in Files
  BY DEF Files
<1> HIDE DEF kept
<1>5. /\ c \in Calls /\ c.xoff = 0 /\ c.xlim = Cardinality(kept[0])
      /\ c.yoff = 0 /\ c.ylim = Cardinality(kept[1])
  BY <1>2, <1>3, <1>4 DEF Call, Calls
<1> HIDE DEF c
<1>6. todo' \in Seq(Calls) /\ DOMAIN todo' = {1} /\ todo'[1] = c /\ todo' # <<>>
  BY <1>1, <1>5
<1>7. \A k \in DOMAIN todo' : InVectors(todo[k])'
  BY <1>3, <1>4, <1>5, <1>6 DEF InVectors
<1> QED
  BY <1>1, <1>6, <1>7 DEF CallsInv, Comparing

LEMMA CallsInvSlid ==
  ASSUME ReadInv, VecInv, CallsInv, SlideEnds
  PROVE  CallsInv'
<1>1. /\ call \in Calls /\ InVectors(call) /\ call = todo[1] /\ todo # <<>> /\ todo \in Seq(Calls)
      /\ Len(todo) \in Nat /\ Len(todo) > 0 /\ DOMAIN todo = 1..Len(todo)
      /\ stage' = "simple" /\ realindexes' = realindexes
  BY CallBox, SlideEndsSlid DEF CallsInv, SlideEnds, Comparing, compared
<1>2. PICK lo, hi : Slid(lo, hi)
  BY SlideEndsSlid
<1>3. /\ todo' \in Seq(Calls) /\ Len(todo') = Len(todo) /\ todo' # <<>>
      /\ call'.xoff = call.xoff + lo /\ call'.xlim = call.xlim - hi
      /\ call'.yoff = call.yoff + lo /\ call'.ylim = call.ylim - hi
      /\ \A k \in 2..Len(todo) : todo'[k] = todo[k]
  BY <1>1, <1>2, SlidTodo
<1> DEFINE c == todo'[1]
<1>4. /\ c \in Calls /\ c.xoff = call.xoff + lo /\ c.xlim = call.xlim - hi
      /\ c.yoff = call.yoff + lo /\ c.ylim = call.ylim - hi
  BY <1>1, <1>3 DEF call
<1> HIDE DEF c
<1>5. /\ call.xoff \in Nat /\ call.xlim \in Nat /\ call.yoff \in Nat /\ call.ylim \in Nat
      /\ call.xlim <= Len(realindexes[0]) /\ call.ylim <= Len(realindexes[1])
      /\ lo \in Nat /\ hi \in Nat
      /\ lo + hi <= call.xlim - call.xoff /\ lo + hi <= call.ylim - call.yoff
  BY <1>1, <1>2 DEF Calls, InVectors, Slid
<1>6. /\ call.xoff <= c.xoff /\ c.xlim <= call.xlim
      /\ call.yoff <= c.yoff /\ c.ylim <= call.ylim
      /\ c.xoff <= c.xlim /\ c.yoff <= c.ylim
  <2>1. ASSUME NEW off \in Nat, NEW lim \in Nat, NEW l \in Nat, NEW h \in Nat, l + h <= lim - off
        PROVE  off <= off + l /\ lim - h <= lim /\ off + l <= lim - h
    BY <2>1
  <2>2. /\ call.xoff <= call.xoff + lo /\ call.xlim - hi <= call.xlim
        /\ call.xoff + lo <= call.xlim - hi
    BY <1>5, <2>1
  <2>3. /\ call.yoff <= call.yoff + lo /\ call.ylim - hi <= call.ylim
        /\ call.yoff + lo <= call.ylim - hi
    BY <1>5, <2>1
  <2> QED
    BY <1>4, <2>2, <2>3
<1>7. InVectors(c)
  <2>1. Len(realindexes[0]) \in Nat /\ Len(realindexes[1]) \in Nat
    <3>1. 0 \in Files /\ 1 \in Files
      BY DEF Files
    <3>2. stage \notin Reading
      BY DEF Reading, SlideEnds
    <3> QED
      BY <3>1, <3>2, ListedLines DEF VecInv
  <2>2. c.xlim \in Nat /\ c.ylim \in Nat
    BY <1>4 DEF Calls
  <2> QED
    BY <1>5, <1>6, <2>1, <2>2 DEF InVectors
<1>8. ASSUME NEW k \in 2..Len(todo)
      PROVE  /\ todo[k] \in Calls /\ InVectors(todo[k])
             /\ Apart(c, todo[k]) /\ Apart(todo[k], c)
  <2>1. k \in DOMAIN todo /\ 1 \in DOMAIN todo /\ k # 1 /\ todo[k] \in Calls
    BY <1>1
  <2>2. Apart(call, todo[k]) /\ InVectors(todo[k])
    BY <1>1, <2>1 DEF CallsInv
  <2> QED
    BY <1>1, <1>4, <1>6, <2>1, <2>2, ApartWithin
<1>9. \A k \in DOMAIN todo' : k = 1 \/ k \in 2..Len(todo)
  BY <1>1, <1>3
<1>10. \A k \in DOMAIN todo' : InVectors(todo'[k])
  BY <1>3, <1>7, <1>8, <1>9 DEF c
<1>11. ASSUME NEW j \in DOMAIN todo', NEW k \in DOMAIN todo', j # k
       PROVE  Apart(todo'[j], todo'[k])
  <2>1. CASE j = 1
    BY <1>3, <1>8, <1>9, <1>11, <2>1 DEF c
  <2>2. CASE k = 1
    BY <1>3, <1>8, <1>9, <1>11, <2>2 DEF c
  <2>3. CASE j \in 2..Len(todo) /\ k \in 2..Len(todo)
    <3>1. /\ todo'[j] = todo[j] /\ todo'[k] = todo[k] /\ j \in DOMAIN todo /\ k \in DOMAIN todo
      BY <1>1, <1>3, <2>3
    <3> QED
      BY <1>11, <3>1 DEF CallsInv
  <2> QED
    BY <1>9, <2>1, <2>2, <2>3
<1>12. \A k \in DOMAIN todo' : InVectors(todo[k])'
  BY <1>1, <1>10 DEF InVectors
<1> QED
  BY <1>1, <1>3, <1>11, <1>12 DEF CallsInv, Apart, Comparing

LEMMA CallsInvPopped ==
  ASSUME CallsInv, SimpleCase
  PROVE  CallsInv'
<1>1. /\ stage \in Comparing /\ todo \in Seq(Calls) /\ todo # <<>> /\ todo' = Tail(todo)
      /\ stage' = IF todo' = <<>> THEN "scan" ELSE "slide"
      /\ realindexes' = realindexes
  BY SimpleSteps DEF CallsInv
<1>2. /\ todo' \in Seq(Calls) /\ Len(todo') = Len(todo) - 1 /\ Len(todo) \in Nat /\ Len(todo) > 0
      /\ \A k \in 1..(Len(todo) - 1) : todo'[k] = todo[k + 1]
  BY <1>1, StackPopped
<1>3. \A k \in DOMAIN todo' : k \in Nat /\ k + 1 \in DOMAIN todo /\ todo'[k] = todo[k + 1]
  BY <1>1, <1>2
<1>4. \A k \in DOMAIN todo' : InVectors(todo[k])'
  BY <1>1, <1>3 DEF InVectors, CallsInv
<1>5. ASSUME NEW j \in DOMAIN todo', NEW k \in DOMAIN todo', j # k
      PROVE  Apart(todo'[j], todo'[k])
  <2>1. j + 1 # k + 1
    BY <1>3, <1>5
  <2> QED
    BY <1>3, <2>1 DEF CallsInv
<1> QED
  BY <1>1, <1>2, <1>4, <1>5 DEF CallsInv, Apart, Comparing

LEMMA CallsInvInit == Init => CallsInv
  BY DEF Init, CallsInv, Comparing

LEMMA CallsInvNext ==
  ReadInv /\ VecInv /\ CallsInv /\ SearchInv /\ [Next]_vars => CallsInv'
<1> SUFFICES ASSUME ReadInv, VecInv, CallsInv, SearchInv, [Next]_vars PROVE CallsInv'
  OBVIOUS
<1>1. ASSUME UNCHANGED <<realindexes, todo>>, stage \in Comparing <=> stage' \in Comparing
      PROVE  CallsInv'
  BY <1>1 DEF CallsInv, InVectors, Apart
<1>2. CASE ReadStep
  <2>1. stage \in Reading /\ stage' \in Reading
    BY <1>2, ReadSteps DEF Reading
  <2>2. /\ realindexes = [f \in Files |-> <<>>] /\ UNCHANGED <<realindexes, todo>>
        /\ stage \notin Comparing /\ stage' \notin Comparing
    BY <1>2, <2>1, ReadSteps DEF VecInv, Reading, Comparing
  <2> QED
    BY <1>1, <2>2
<1>3. CASE Discard
  BY <1>3, CallsInvDiscard
<1>4. CASE SearchStep
  <2>1. stage \in Comparing /\ stage' \in Comparing /\ realindexes' = realindexes
    BY <1>4, SearchSteps
  <2>2. SlideEnds \/ todo' = todo \/ DividesInside
    BY <1>4, SearchStepKinds
  <2> QED
    BY <1>1, <2>1, <2>2, CallsInvSlid, CallsInvDivided
<1>5. CASE SimpleCase
  BY <1>5, CallsInvPopped
<1>6. CASE ShiftStep
  BY <1>1, <1>6, ShiftSteps DEF Shifting, Comparing
<1>7. CASE UNCHANGED vars
  BY <1>1, <1>7 DEF vars
<1> QED
  BY <1>2, <1>3, <1>4, <1>5, <1>6, <1>7, Steps

-----------------------------------------------------------------------------
ComparingInv == ReadInv /\ VecInv /\ CallsInv /\ SearchInv

LEMMA ComparingInvariant == Spec => []ComparingInv
<1>1. Init => ComparingInv
  BY ReadInvInit, VecInvInit, CallsInvInit, SearchInvInit DEF ComparingInv
<1>2. ComparingInv /\ [Next]_vars => ComparingInv'
  BY ReadInvNext, VecInvNext, CallsInvNext, SearchInvNext DEF ComparingInv
<1> QED
  BY <1>1, <1>2, PTL DEF Spec

(* Every sweep of diag starts where this call has written, inside the box  *)
(* of the call: of files of any length, whatever the heuristics stop.      *)
THEOREM InsideTheBox == Spec => []SweepsInBox
<1>1. ComparingInv => SweepsInBox
  <2> SUFFICES ASSUME ComparingInv PROVE SweepsInBox
    OBVIOUS
  <2>1. ASSUME stage = "forward", NEW d \in Sweep(search.fmin, search.fmax)
        PROVE  /\ {d - 1, d + 1} \subseteq DOMAIN search.fd
               /\ ForwardStart(d) >= call.xoff /\ ForwardStart(d) - d >= call.yoff
    <3> DEFINE S == Sweep(search.fmin, search.fmax)
               u == search.fd
    <3>1. IsBox(call) /\ call.xoff \in Nat /\ call.yoff \in Nat
      BY <2>1 DEF ComparingInv, SearchInv, LimitsInv, Searching, IsBox
    <3>2. PICK W : Ahead(call, W, u) /\ Beside(W, S, u)
      BY <2>1 DEF ComparingInv, SearchInv, TopInv
    <3>3. d - 1 \in DOMAIN u /\ d + 1 \in DOMAIN u
      BY <2>1 DEF ComparingInv, SearchInv, TopInv
    <3>4. ForwardStart(d) = Start(u, d) /\ d \in S /\ d \in Int
      BY <3>2 DEF ForwardStart, Start, Beside
    <3> HIDE DEF S
    <3>5. /\ Start(u, d) \in Int /\ call.xoff <= Start(u, d) /\ call.yoff <= Start(u, d) - d
      BY <3>1, <3>2, <3>4, StartAhead
    <3> QED
      BY <3>1, <3>3, <3>4, <3>5
  <2>2. ASSUME stage = "backward", NEW d \in Sweep(search.bmin, search.bmax)
        PROVE  /\ {d - 1, d + 1} \subseteq DOMAIN search.bd
               /\ BackwardStart(d) <= call.xlim /\ BackwardStart(d) - d <= call.ylim
    <3> DEFINE S == Sweep(search.bmin, search.bmax)
               u == search.bd
    <3>1. IsBox(call)
      BY <2>2 DEF ComparingInv, SearchInv, LimitsInv, Searching
    <3>2. PICK W : Behind(call, W, u) /\ RearBeside(W, S, u)
      BY <2>2 DEF ComparingInv, SearchInv, BottomInv
    <3>3. d - 1 \in DOMAIN u /\ d + 1 \in DOMAIN u
      BY <2>2 DEF ComparingInv, SearchInv, BottomInv
    <3>4. BackwardStart(d) = RearStart(u, d) /\ d \in S
      BY DEF BackwardStart, RearStart
    <3> HIDE DEF S
    <3>5. RearStart(u, d) <= call.xlim /\ RearStart(u, d) - d <= call.ylim
      BY <3>1, <3>2, <3>4, StartBehind
    <3> QED
      BY <3>3, <3>4, <3>5
  <2> QED
    BY <2>1, <2>2 DEF SweepsInBox
<1> QED
  BY <1>1, ComparingInvariant, PTL

-----------------------------------------------------------------------------
(* Every step of compareseq is one of the abstract division.               *)
Division == INSTANCE Compareseq_proof WITH
    Element <- Lines, xvec <- Vector(0), yvec <- Vector(1), boxes <- Boxes,
    deleted <- Elements(0, TRUE), inserted <- Elements(1, TRUE), matched <- Matched

Count(f) == Len(realindexes[f])
BoxOf(c) == [xoff |-> c.xoff, xlim |-> c.xlim, yoff |-> c.yoff, ylim |-> c.ylim]

AllListed == \A f \in Files : Listed(f) /\ Flags(f)

VectorsKnown ==
    \A f \in Files :
      /\ Vector(f) \in Seq(Lines) /\ Len(Vector(f)) = Count(f) /\ Count(f) \in Nat
      /\ \A k \in 1..Count(f) : Vector(f)[k] = equivs[f][realindexes[f][k] + 1]

(* The elements are flagged or not, and those of no box were compared.     *)
ElementsKnown ==
    \A f \in Files :
      /\ Count(f) \in Nat
      /\ (\A k \in Elements(f, TRUE) \cup Elements(f, FALSE) : k \in Nat /\ k < Count(f))
      /\ \A k \in 0..(Count(f) - 1) : k \in Elements(f, TRUE) <=> k \notin Elements(f, FALSE)
      /\ Within(Compared(f), Count(f))

ComparedKnown ==
    /\ \A k \in 0..(Count(0) - 1) :
         k \in Compared(0) <=> k \notin Elements(0, TRUE) /\ \A b \in Boxes : ~Division!XIn(k, b)
    /\ \A k \in 0..(Count(1) - 1) :
         k \in Compared(1) <=> k \notin Elements(1, TRUE) /\ \A b \in Boxes : ~Division!YIn(k, b)

LEMMA VectorFacts == ReadInv /\ VecInv /\ stage \notin Reading => VectorsKnown
<1> SUFFICES ASSUME ReadInv, VecInv, stage \notin Reading, NEW f \in Files
             PROVE  /\ Vector(f) \in Seq(Lines) /\ Len(Vector(f)) = Count(f) /\ Count(f) \in Nat
                    /\ \A k \in 1..Count(f) : Vector(f)[k] = equivs[f][realindexes[f][k] + 1]
  BY DEF VectorsKnown
<1>1. /\ Count(f) \in Nat /\ DOMAIN realindexes[f] = 1..Count(f)
      /\ \A k \in 1..Count(f) : equivs[f][realindexes[f][k] + 1] \in Lines
  BY ListedLines DEF VecInv, Count
<1>2. Vector(f) = [k \in 1..Count(f) |-> equivs[f][realindexes[f][k] + 1]]
  BY <1>1 DEF Vector
<1> QED
  BY <1>1, <1>2

LEMMA ElementFacts == ReadInv /\ AllListed => ElementsKnown
<1> SUFFICES ASSUME ReadInv, AllListed, NEW f \in Files
             PROVE  /\ Count(f) \in Nat
                    /\ \A k \in Elements(f, TRUE) \cup Elements(f, FALSE)
                           : k \in Nat /\ k < Count(f)
                    /\ \A k \in 0..(Count(f) - 1) :
                         k \in Elements(f, TRUE) <=> k \notin Elements(f, FALSE)
                    /\ Within(Compared(f), Count(f))
  BY DEF ElementsKnown
<1>0. Listed(f) /\ Flags(f)
  BY DEF AllListed
<1>1. /\ Count(f) \in Nat /\ Len(equivs[f]) \in Nat
      /\ \A k \in 1..Count(f) : realindexes[f][k] \in 0..(Len(equivs[f]) - 1)
  BY <1>0, ListedLines DEF Count
<1>2. ASSUME NEW k \in Elements(f, TRUE) \cup Elements(f, FALSE)
      PROVE  k \in Nat /\ k < Count(f)
  BY <1>1 DEF Elements, Count
<1>3. ASSUME NEW k \in 0..(Count(f) - 1)
      PROVE  k \in Elements(f, TRUE) <=> k \notin Elements(f, FALSE)
  <2>1. k + 1 \in 1..Count(f)
    BY <1>1
  <2>2. realindexes[f][k + 1] \in -1..Len(equivs[f])
    BY <1>1, <2>1
  <2>3. changed[f][realindexes[f][k + 1]] \in BOOLEAN
    BY <1>0, <2>2 DEF Flags
  <2> QED
    BY <2>3 DEF Elements, Count
<1>4. Within(Compared(f), Count(f))
  <2>1. \A k \in Compared(f) : k \in Nat /\ k < Count(f)
    BY <1>2 DEF Compared
  <2> HIDE DEF Compared
  <2>2. \A k \in Compared(f) : k \in Int /\ 0 <= k
    BY <2>1
  <2> QED
    BY <2>1, <2>2 DEF Within
<1> QED
  BY <1>1, <1>2, <1>3, <1>4

LEMMA BoxesOfCalls ==
  CallsInv => /\ Boxes = {BoxOf(todo[k]) : k \in DOMAIN todo}
              /\ \A b \in Boxes :
                   /\ b.xoff \in Nat /\ b.xlim \in Nat /\ b.yoff \in Nat /\ b.ylim \in Nat
                   /\ b.xoff <= b.xlim /\ b.yoff <= b.ylim
              /\ \A k \in DOMAIN todo :
                   /\ BoxOf(todo[k]) \in Boxes
                   /\ BoxOf(todo[k]).xoff = todo[k].xoff /\ BoxOf(todo[k]).xlim = todo[k].xlim
                   /\ BoxOf(todo[k]).yoff = todo[k].yoff /\ BoxOf(todo[k]).ylim = todo[k].ylim
<1> SUFFICES ASSUME CallsInv
             PROVE  /\ Boxes = {BoxOf(todo[k]) : k \in DOMAIN todo}
                    /\ \A b \in Boxes :
                         /\ b.xoff \in Nat /\ b.xlim \in Nat /\ b.yoff \in Nat /\ b.ylim \in Nat
                         /\ b.xoff <= b.xlim /\ b.yoff <= b.ylim
                    /\ \A k \in DOMAIN todo :
                         /\ BoxOf(todo[k]) \in Boxes
                         /\ BoxOf(todo[k]).xoff = todo[k].xoff
                                /\ BoxOf(todo[k]).xlim = todo[k].xlim
                         /\ BoxOf(todo[k]).yoff = todo[k].yoff
                                /\ BoxOf(todo[k]).ylim = todo[k].ylim
  OBVIOUS
<1>1. Boxes = {BoxOf(todo[k]) : k \in DOMAIN todo}
  BY DEF Boxes, BoxOf
<1>2. ASSUME NEW k \in DOMAIN todo
      PROVE  /\ BoxOf(todo[k]) \in Boxes
             /\ BoxOf(todo[k]).xoff = todo[k].xoff /\ BoxOf(todo[k]).xlim = todo[k].xlim
             /\ BoxOf(todo[k]).yoff = todo[k].yoff /\ BoxOf(todo[k]).ylim = todo[k].ylim
             /\ todo[k].xoff \in Nat /\ todo[k].xlim \in Nat
             /\ todo[k].yoff \in Nat /\ todo[k].ylim \in Nat
             /\ todo[k].xoff <= todo[k].xlim /\ todo[k].yoff <= todo[k].ylim
  <2>1. todo[k] \in Calls /\ InVectors(todo[k])
    BY DEF CallsInv
  <2> QED
    BY <1>1, <2>1 DEF BoxOf, Calls, InVectors
<1>3. ASSUME NEW b \in Boxes
      PROVE  /\ b.xoff \in Nat /\ b.xlim \in Nat /\ b.yoff \in Nat /\ b.ylim \in Nat
             /\ b.xoff <= b.xlim /\ b.yoff <= b.ylim
  <2>1. PICK k \in DOMAIN todo : b = BoxOf(todo[k])
    BY <1>1
  <2> QED
    BY <1>2, <2>1
<1> QED
  BY <1>1, <1>2, <1>3

LEMMA DivisionInit ==
  ASSUME ReadInv, Discard
  PROVE  Division!Init'
<1>1. ReadInv' /\ VecInv' /\ CallsInv' /\ stage' = "slide"
  BY VecInvDiscard, CallsInvDiscard, ReadInvNext DEF Discard, Next
<1>2. stage' \notin Reading /\ stage' \in Comparing
  BY <1>1 DEF Reading, Comparing
<1>3. (ReadInv /\ VecInv /\ stage \notin Reading => VectorsKnown)'
  BY VectorFacts, PTL
<1>4. \A f \in Files : Vector(f)' \in Seq(Lines) /\ Len(Vector(f)') = Count(f)'
  BY <1>1, <1>2, <1>3 DEF VectorsKnown
<1>5. 0 \in Files /\ 1 \in Files
  BY DEF Files
<1> DEFINE kept == [f \in Files |-> {i \in 0..(buffered_lines(f) - 1) :
                                       input.minimal \/ ~Discarded(f, i + 1)}]
<1>6. /\ realindexes' = [f \in Files |-> InOrder(kept[f])]
      /\ changed' = [f \in Files |->
                       [i \in -1..buffered_lines(f) |->
                          i \in (0..(buffered_lines(f) - 1)) \ kept[f]]]
      /\ todo' = <<Call(0, Cardinality(kept[0]), 0, Cardinality(kept[1]), input.minimal)>>
  BY DEF Discard
<1>7. ASSUME NEW f \in Files
      PROVE  /\ Count(f)' = Cardinality(kept[f])
             /\ Count(f)' \in Nat
             /\ Elements(f, TRUE)' = {}
  <2>1. Len(equivs[f]) \in Nat
    BY DEF ReadInv
  <2>2. Within(kept[f], Len(equivs[f])) /\ kept[f] \subseteq 0..(buffered_lines(f) - 1)
    BY DEF Within, buffered_lines
  <2> HIDE DEF kept
  <2>3. /\ Len(InOrder(kept[f])) = Cardinality(kept[f])
        /\ \A k \in 1..Cardinality(kept[f]) : InOrder(kept[f])[k] \in kept[f]
    BY <2>1, <2>2, InOrderListed
  <2>4. Cardinality(kept[f]) \in Nat
    <3>1. 0 \in Int
      OBVIOUS
    <3> QED
      BY <2>1, <2>2, <3>1, RankFinite
  <2>5. realindexes'[f] = InOrder(kept[f]) /\ Count(f)' = Cardinality(kept[f])
    BY <1>6, <2>3 DEF Count
  <2>6. ASSUME NEW k \in 0..(Cardinality(kept[f]) - 1)
        PROVE  ~(changed'[f][realindexes'[f][k + 1]] = TRUE)
    <3>1. k + 1 \in 1..Cardinality(kept[f])
      BY <2>4
    <3>2. realindexes'[f][k + 1] \in kept[f]
      BY <2>3, <2>5, <3>1
    <3>3. \A i \in kept[f] : i \in -1..buffered_lines(f)
              /\ i \notin (0..(buffered_lines(f) - 1)) \ kept[f]
      BY <2>1, <2>2 DEF buffered_lines
    <3>4. \A i \in kept[f] : changed'[f][i] = (i \in (0..(buffered_lines(f) - 1)) \ kept[f])
      BY <1>6, <3>3
    <3> QED
      BY <3>2, <3>3, <3>4
  <2>7. Elements(f, TRUE)' = {}
    BY <2>5, <2>6 DEF Elements, Count
  <2> QED
    BY <2>4, <2>5, <2>7
<1> HIDE DEF kept
<1> DEFINE b == [xoff |-> 0, xlim |-> Len(Vector(0)'), yoff |-> 0, ylim |-> Len(Vector(1)')]
<1>8. Boxes' = {b}
  <2>1. DOMAIN todo' = {1}
    BY <1>6
  <2>2. /\ todo'[1].xoff = 0 /\ todo'[1].xlim = Len(Vector(0)')
        /\ todo'[1].yoff = 0 /\ todo'[1].ylim = Len(Vector(1)')
    BY <1>4, <1>5, <1>6, <1>7 DEF Call
  <2> QED
    BY <2>1, <2>2 DEF Boxes
<1>9. Compared(0)' = {}
  <2>1. \A k \in Elements(0, FALSE)' : k \in b.xoff..(b.xlim - 1)
    BY <1>4, <1>5, <1>7 DEF Elements, Count
  <2> HIDE DEF b
  <2> QED
    BY <1>8, <2>1 DEF Compared
<1>10. Matched' = {}
  BY <1>9 DEF Matched
<1>11. Boxes' = {Division!Box(0, Len(Vector(0)'), 0, Len(Vector(1)'))}
  BY <1>8 DEF Division!Box
<1> HIDE DEF b
<1> QED
  BY <1>4, <1>5, <1>7, <1>10, <1>11 DEF Division!Init, Division!Box

LEMMA ComparedFacts == ReadInv /\ CallsInv /\ AllListed => ComparedKnown
<1> SUFFICES ASSUME ReadInv, CallsInv, AllListed PROVE ComparedKnown
  OBVIOUS
<1>1. 0 \in Files /\ 1 \in Files
  BY DEF Files
<1>2. ASSUME NEW k \in Int, NEW b \in Boxes
      PROVE  /\ k \in b.xoff..(b.xlim - 1) <=> Division!XIn(k, b)
             /\ k \in b.yoff..(b.ylim - 1) <=> Division!YIn(k, b)
  <2>1. b.xoff \in Nat /\ b.xlim \in Nat /\ b.yoff \in Nat /\ b.ylim \in Nat
    BY BoxesOfCalls
  <2> QED
    BY <2>1 DEF Division!XIn, Division!YIn
<1>3. \A f \in Files : \A k \in 0..(Count(f) - 1) : k \in Elements(f, TRUE)
          <=> k \notin Elements(f, FALSE)
  BY ElementFacts DEF ElementsKnown
<1>4. \A f \in Files : \A k \in 0..(Count(f) - 1) : k \in Int
  OBVIOUS
<1>5. ASSUME NEW k \in 0..(Count(0) - 1)
      PROVE  k \in Compared(0)
                 <=> k \notin Elements(0, TRUE) /\ \A b \in Boxes : ~Division!XIn(k, b)
  <2>1. k \in Compared(0)
            <=> k \in Elements(0, FALSE) /\ \A b \in Boxes : k \notin b.xoff..(b.xlim - 1)
    BY DEF Compared
  <2>2. \A b \in Boxes : k \in b.xoff..(b.xlim - 1) <=> Division!XIn(k, b)
    BY <1>2, <1>4
  <2> QED
    BY <1>1, <1>3, <2>1, <2>2
<1>6. ASSUME NEW k \in 0..(Count(1) - 1)
      PROVE  k \in Compared(1)
                 <=> k \notin Elements(1, TRUE) /\ \A b \in Boxes : ~Division!YIn(k, b)
  <2>1. k \in Compared(1)
            <=> k \in Elements(1, FALSE) /\ \A b \in Boxes : k \notin b.yoff..(b.ylim - 1)
    BY DEF Compared
  <2>2. \A b \in Boxes : k \in b.yoff..(b.ylim - 1) <=> Division!YIn(k, b)
    BY <1>2, <1>4
  <2> QED
    BY <1>1, <1>3, <2>1, <2>2
<1> QED
  BY <1>5, <1>6 DEF ComparedKnown

(* The elements that were compared match, in order.                        *)
LEMMA MatchingNow ==
  ReadInv /\ VecInv /\ CallsInv /\ AllListed /\ stage \notin Reading /\ Division!IInv =>
    Matching(Matched, Compared(0), Compared(1))
<1> SUFFICES ASSUME ReadInv, VecInv, CallsInv, AllListed, stage \notin Reading, Division!IInv
             PROVE  Matching(Matched, Compared(0), Compared(1))
  OBVIOUS
<1>1. 0 \in Files /\ 1 \in Files
  BY DEF Files
<1>2. /\ Division!XOffsets = 0..(Count(0) - 1) /\ Division!YOffsets = 0..(Count(1) - 1)
  BY <1>1, VectorFacts DEF VectorsKnown, Division!XOffsets, Division!YOffsets
<1>3. /\ \A k \in Compared(0) : k \in 0..(Count(0) - 1)
      /\ \A k \in Compared(1) : k \in 0..(Count(1) - 1)
  <2>1. \A f \in Files : Count(f) \in Nat /\ Within(Compared(f), Count(f))
    BY ElementFacts DEF ElementsKnown
  <2> QED
    BY <1>1, <2>1 DEF Within
<1>4. \A p \in Matched : p[1] \in Compared(0) /\ p[2] \in Compared(1)
  BY DEF Matched
<1>5. ASSUME NEW x \in Compared(0) PROVE \E y \in Compared(1) : <<x, y>> \in Matched
  <2>1. x \in Division!XOffsets /\ x \notin Elements(0, TRUE) /\ \A b \in Boxes : ~Division!XIn(x, b)
    BY <1>2, <1>3, ComparedFacts DEF ComparedKnown
  <2>2. PICK y : <<x, y>> \in Matched
    BY <2>1 DEF Division!IInv, Division!XCovered
  <2>3. <<x, y>>[2] \in Compared(1)
    BY <1>4, <2>2
  <2> QED
    BY <2>2, <2>3
<1>6. ASSUME NEW y \in Compared(1) PROVE \E x \in Compared(0) : <<x, y>> \in Matched
  <2>1. y \in Division!YOffsets /\ y \notin Elements(1, TRUE) /\ \A b \in Boxes : ~Division!YIn(y, b)
    BY <1>2, <1>3, ComparedFacts DEF ComparedKnown
  <2>2. PICK x : <<x, y>> \in Matched
    BY <2>1 DEF Division!IInv, Division!YCovered
  <2>3. <<x, y>>[1] \in Compared(0)
    BY <1>4, <2>2
  <2> QED
    BY <2>2, <2>3
<1>7. \A p, q \in Matched : p[1] < q[1] <=> p[2] < q[2]
  BY DEF Division!IInv, Division!PairsOrdered
<1> QED
  BY <1>4, <1>5, <1>6, <1>7 DEF Matching

(* There is one way to match two sets in order.                            *)
LEMMA MatchingUnique ==
  ASSUME NEW n \in Nat, NEW S, Within(S, n), NEW k \in Nat, NEW T, Within(T, k),
         NEW m, Matching(m, S, T), m \subseteq S \X T
  PROVE  m = {p \in S \X T : Cardinality({y \in S : y < p[1]}) = Cardinality({y \in T : y < p[2]})}
<1> DEFINE byrank == {p \in S \X T :
                        Cardinality({y \in S : y < p[1]}) = Cardinality({y \in T : y < p[2]})}
<1> HIDE DEF byrank
<1>1. /\ Cardinality(S) = Cardinality(T)
      /\ \A x \in S, y \in T : <<x, y>> \in m <=> Rank(S, x) = Rank(T, y)
  BY ONLY MatchingByRank, n \in Nat, k \in Nat, Within(S, n), Within(T, k), Matching(m, S, T)
<1> USE DEF byrank
<1>2. ASSUME NEW p \in m PROVE p \in byrank
  <2>1. p = <<p[1], p[2]>> /\ p[1] \in S /\ p[2] \in T
    OBVIOUS
  <2>2. Rank(S, p[1]) = Rank(T, p[2])
    BY <1>1, <2>1
  <2> QED
    BY <2>1, <2>2 DEF Rank
<1>3. ASSUME NEW p \in byrank PROVE p \in m
  <2>1. p = <<p[1], p[2]>> /\ p[1] \in S /\ p[2] \in T
    OBVIOUS
  <2>2. Rank(S, p[1]) = Rank(T, p[2])
    BY DEF Rank
  <2> QED
    BY <1>1, <2>1, <2>2
<1> QED
  BY <1>2, <1>3

(* The box of the call occurs once among the calls, unless it is empty.    *)
LEMMA Duplicate ==
  ASSUME CallsInv, NEW k \in 2..Len(todo), BoxOf(todo[k]) = BoxOf(todo[1])
  PROVE  todo[1].xoff = todo[1].xlim /\ todo[1].yoff = todo[1].ylim
<1>1. todo \in Seq(Calls) /\ k \in DOMAIN todo /\ 1 \in DOMAIN todo /\ k # 1
  BY DEF CallsInv
<1>2. Apart(todo[1], todo[k])
  BY <1>1 DEF CallsInv
<1>3. /\ todo[k].xoff = todo[1].xoff /\ todo[k].xlim = todo[1].xlim
      /\ todo[k].yoff = todo[1].yoff /\ todo[k].ylim = todo[1].ylim
  BY <1>1, BoxesOfCalls
<1>4. /\ todo[1].xoff \in Nat /\ todo[1].xlim \in Nat
             /\ todo[1].yoff \in Nat /\ todo[1].ylim \in Nat
      /\ todo[1].xoff <= todo[1].xlim /\ todo[1].yoff <= todo[1].ylim
  <2>1. todo[1] \in Calls /\ InVectors(todo[1])
    BY <1>1 DEF CallsInv
  <2> QED
    BY <2>1 DEF Calls, InVectors
<1> QED
  BY <1>2, <1>3, <1>4 DEF Apart

LEMMA SlidBoxes ==
  ASSUME ReadInv, VecInv, CallsInv, stage \in Comparing, NEW lo, NEW hi, Slid(lo, hi)
  PROVE  LET b == BoxOf(call)
         IN  Boxes' = (Boxes \ {b}) \cup
                      {Division!Box(b.xoff + lo, b.xlim - hi, b.yoff + lo, b.ylim - hi)}
<1> DEFINE b == BoxOf(call)
           rest == Division!Box(b.xoff + lo, b.xlim - hi, b.yoff + lo, b.ylim - hi)
<1>1. /\ call \in Calls /\ InVectors(call) /\ call = todo[1] /\ todo # <<>>
      /\ Len(todo) \in Nat /\ Len(todo) > 0 /\ DOMAIN todo = 1..Len(todo) /\ todo \in Seq(Calls)
  BY CallBox DEF CallsInv
<1>2. /\ todo' \in Seq(Calls) /\ Len(todo') = Len(todo) /\ todo' # <<>>
      /\ todo'[1].xoff = call.xoff + lo /\ todo'[1].xlim = call.xlim - hi
      /\ todo'[1].yoff = call.yoff + lo /\ todo'[1].ylim = call.ylim - hi
      /\ \A k \in 2..Len(todo) : todo'[k] = todo[k]
  BY <1>1, SlidTodo DEF call
<1>3. /\ b.xoff = call.xoff /\ b.xlim = call.xlim /\ b.yoff = call.yoff /\ b.ylim = call.ylim
  BY DEF BoxOf
<1>4. BoxOf(todo'[1]) = rest
  BY <1>2 DEF BoxOf, Division!Box
<1>5. DOMAIN todo' = 1..Len(todo)
  BY <1>1, <1>2
<1>6. /\ Boxes = {BoxOf(todo[k]) : k \in 1..Len(todo)}
      /\ Boxes' = {BoxOf(todo'[k]) : k \in 1..Len(todo)}
  BY <1>1, <1>5 DEF Boxes, BoxOf
<1>7. ASSUME NEW k \in 2..Len(todo), BoxOf(todo[k]) = b
      PROVE  rest = b
  <2>1. call.xoff = call.xlim /\ call.yoff = call.ylim
    BY <1>1, <1>7, Duplicate
  <2>2. lo \in Nat /\ hi \in Nat /\ lo + hi <= call.xlim - call.xoff
    BY DEF Slid
  <2>3. /\ call.xoff \in Nat /\ call.xlim \in Nat /\ call.yoff \in Nat /\ call.ylim \in Nat
    BY <1>1 DEF Calls
  <2>4. lo = 0 /\ hi = 0
    BY <2>1, <2>2, <2>3
  <2>5. /\ call.xoff + lo = call.xoff /\ call.xlim - hi = call.xlim
        /\ call.yoff + lo = call.yoff /\ call.ylim - hi = call.ylim
    BY <2>3, <2>4
  <2> QED
    BY <1>3, <2>5 DEF BoxOf, Division!Box
<1> HIDE DEF b, rest
<1>8. \A k \in 1..Len(todo) : k = 1 \/ k \in 2..Len(todo)
  BY <1>1
<1>9. BoxOf(todo[1]) = b
  BY <1>1 DEF b
<1>10. ASSUME NEW c \in Boxes' PROVE c \in (Boxes \ {b}) \cup {rest}
  <2>1. PICK k \in 1..Len(todo) : c = BoxOf(todo'[k])
    BY <1>6
  <2>2. CASE k = 1
    BY <1>4, <2>1, <2>2
  <2>3. CASE k \in 2..Len(todo)
    <3>1. c = BoxOf(todo[k]) /\ c \in Boxes
      BY <1>2, <1>6, <2>1, <2>3
    <3> QED
      BY <1>7, <2>3, <3>1
  <2> QED
    BY <1>8, <2>2, <2>3
<1>11. ASSUME NEW c \in Boxes, c # b PROVE c \in Boxes'
  <2>1. PICK k \in 1..Len(todo) : c = BoxOf(todo[k])
    BY <1>6
  <2>2. k \in 2..Len(todo)
    BY <1>8, <1>9, <1>11, <2>1
  <2> QED
    BY <1>2, <1>6, <2>1, <2>2
<1>12. rest \in Boxes'
  <2>1. 1 \in 1..Len(todo)
    BY <1>1
  <2> QED
    BY <1>4, <1>6, <2>1
<1> QED
  BY <1>10, <1>11, <1>12 DEF b, rest

LEMMA SlidEqual ==
  ASSUME ReadInv, VecInv, CallsInv, stage \in Comparing, NEW lo, NEW hi, Slid(lo, hi)
  PROVE  LET b == BoxOf(call)
         IN  \A p \in Division!Initial(b, lo) \cup Division!Final(b, hi)
                 : Division!Equal(p[1], p[2])
<1> DEFINE b == BoxOf(call)
<1>1. /\ call \in Calls /\ InVectors(call)
  BY CallBox
<1>2. /\ b.xoff = call.xoff /\ b.xlim = call.xlim /\ b.yoff = call.yoff /\ b.ylim = call.ylim
  BY DEF BoxOf
<1>3. /\ call.xoff \in Nat /\ call.xlim \in Nat /\ call.yoff \in Nat /\ call.ylim \in Nat
      /\ call.xlim <= Count(0) /\ call.ylim <= Count(1)
  BY <1>1 DEF Calls, InVectors, Count
<1>4. /\ lo \in Nat /\ hi \in Nat
      /\ lo + hi <= call.xlim - call.xoff /\ lo + hi <= call.ylim - call.yoff
      /\ \A k \in 0..(lo - 1) : XVec(call.xoff + k) = YVec(call.yoff + k)
      /\ \A k \in 1..hi : XVec(call.xlim - k) = YVec(call.ylim - k)
  BY DEF Slid
<1>5. /\ \A f \in Files : /\ Count(f) \in Nat
                          /\ \A k \in 1..Count(f) : Vector(f)[k] = equivs[f][realindexes[f][k] + 1]
      /\ 0 \in Files /\ 1 \in Files
  <2>1. stage \notin Reading
    BY DEF Comparing, Reading
  <2> QED
    BY <2>1, VectorFacts DEF VectorsKnown, Files
<1>6. ASSUME NEW x \in 0..(Count(0) - 1), NEW y \in 0..(Count(1) - 1), XVec(x) = YVec(y)
      PROVE  Division!Equal(x, y)
  <2>1. x + 1 \in 1..Count(0) /\ y + 1 \in 1..Count(1)
    BY <1>5
  <2> QED
    BY <1>5, <1>6, <2>1 DEF Division!Equal, XVec, YVec
<1> HIDE DEF b
<1>7. ASSUME NEW k \in 0..(lo - 1)
      PROVE  Division!Equal(b.xoff + k, b.yoff + k)
  <2>1. call.xoff + k \in 0..(Count(0) - 1) /\ call.yoff + k \in 0..(Count(1) - 1)
    BY <1>3, <1>4, <1>5
  <2> QED
    BY <1>2, <1>4, <1>6, <2>1
<1>8. ASSUME NEW k \in 1..hi
      PROVE  Division!Equal(b.xlim - k, b.ylim - k)
  <2>1. call.xlim - k \in 0..(Count(0) - 1) /\ call.ylim - k \in 0..(Count(1) - 1)
    BY <1>3, <1>4, <1>5
  <2> QED
    BY <1>2, <1>4, <1>6, <2>1
<1> QED
  BY <1>7, <1>8 DEF Division!Initial, Division!Final, b

(* What SlideEnds finds equal are the new pairs.                           *)
LEMMA SlidMatched ==
  ASSUME ReadInv, VecInv, CallsInv, Division!IInv, SlideEnds, NEW lo, NEW hi, Slid(lo, hi)
  PROVE  LET b == BoxOf(call)
         IN  Matched' = Matched \cup Division!Initial(b, lo) \cup Division!Final(b, hi)
<1> DEFINE b == BoxOf(call)
           rest == Division!Box(b.xoff + lo, b.xlim - hi, b.yoff + lo, b.ylim - hi)
           slid == Division!Initial(b, lo) \cup Division!Final(b, hi)
<1>1. /\ stage \in Comparing /\ stage \notin Reading
      /\ UNCHANGED <<equivs, realindexes, changed>>
  BY DEF SlideEnds, Comparing, Reading, compared, reading
<1>2. call \in Calls /\ InVectors(call) /\ call = todo[1] /\ 1 \in DOMAIN todo
  BY <1>1, CallBox
<1>3. /\ b \in Boxes /\ b.xoff = call.xoff /\ b.xlim = call.xlim
      /\ b.yoff = call.yoff /\ b.ylim = call.ylim
  BY <1>2, BoxesOfCalls
<1>4. Boxes' = (Boxes \ {b}) \cup {rest}
  BY <1>1, SlidBoxes
<1>5. /\ lo \in Nat /\ hi \in Nat
      /\ lo + hi <= b.xlim - b.xoff /\ lo + hi <= b.ylim - b.yoff
  BY <1>3 DEF Slid
<1>6. /\ \A p \in slid :
           /\ p[1] \in Division!XOffsets /\ p[2] \in Division!YOffsets
           /\ Division!XIn(p[1], b) /\ Division!YIn(p[2], b)
           /\ \/ p[1] < rest.xoff /\ p[2] < rest.yoff
              \/ rest.xlim <= p[1] /\ rest.ylim <= p[2]
      /\ \A x \in Division!XOffsets :
           Division!XIn(x, b)
               => Division!XIn(x, rest) \/ \E y \in Division!YOffsets : <<x, y>> \in slid
      /\ \A y \in Division!YOffsets :
           Division!YIn(y, b)
               => Division!YIn(y, rest) \/ \E x \in Division!XOffsets : <<x, y>> \in slid
      /\ \A p, q \in Matched \cup slid : p[1] < q[1] <=> p[2] < q[2]
  BY <1>3, <1>5, Division!SlidPairs
<1>7. /\ rest.xoff = b.xoff + lo /\ rest.xlim = b.xlim - hi
      /\ rest.yoff = b.yoff + lo /\ rest.ylim = b.ylim - hi
  BY DEF Division!Box
<1>8. \A p \in slid : p = <<p[1], p[2]>>
  BY DEF Division!Initial, Division!Final
<1> HIDE DEF b, rest, slid
<1>9. AllListed /\ 0 \in Files /\ 1 \in Files
  BY <1>1 DEF VecInv, AllListed, Files
<1>10. ReadInv' /\ VecInv' /\ CallsInv' /\ AllListed'
  <2>1. ReadInv' /\ VecInv' /\ CallsInv'
    BY ReadInvNext, VecInvNext, CallsInvSlid DEF Next
  <2>2. AllListed'
    BY <1>1, <1>9 DEF AllListed, Listed, Flags, Kept
  <2> QED
    BY <2>1, <2>2
<1>11. /\ \A f \in Files : Count(f)' = Count(f) /\ Count(f) \in Nat
                           /\ Within(Compared(f), Count(f)) /\ Within(Compared(f)', Count(f))
  <2>1. (ReadInv /\ AllListed => ElementsKnown)'
    BY ElementFacts, PTL
  <2>2. \A f \in Files : Count(f)' = Count(f)
    BY <1>1 DEF Count
  <2>3. \A f \in Files : Within(Compared(f)', Count(f)')
    BY <1>10, <2>1 DEF ElementsKnown, Within
  <2>4. \A f \in Files : Count(f) \in Nat /\ Within(Compared(f), Count(f))
    BY <1>9, ElementFacts DEF ElementsKnown
  <2> QED
    BY <2>2, <2>3, <2>4
<1>12. /\ Division!XOffsets = 0..(Count(0) - 1) /\ Division!YOffsets = 0..(Count(1) - 1)
  BY <1>1, <1>9, VectorFacts DEF VectorsKnown, Division!XOffsets, Division!YOffsets
<1>13. /\ Elements(0, TRUE)' = Elements(0, TRUE) /\ Elements(1, TRUE)' = Elements(1, TRUE)
  BY <1>1 DEF Elements
<1>14. ComparedKnown
  BY <1>9, ComparedFacts
<1>15. /\ \A k \in 0..(Count(0) - 1) :
            k \in Compared(0)'
                <=> k \notin Elements(0, TRUE) /\ \A c \in Boxes' : ~Division!XIn(k, c)
       /\ \A k \in 0..(Count(1) - 1) :
            k \in Compared(1)'
                <=> k \notin Elements(1, TRUE) /\ \A c \in Boxes' : ~Division!YIn(k, c)
  <2>1. (ReadInv /\ CallsInv /\ AllListed => ComparedKnown)'
    BY ComparedFacts, PTL
  <2>2. ComparedKnown'
    BY <1>10, <2>1
  <2> QED
    BY <1>9, <1>11, <1>13, <2>2 DEF ComparedKnown, Division!XIn, Division!YIn
<1>16. /\ Division!BoxesOrdered /\ Division!FlaggedApart
       /\ \A c \in Boxes : /\ c.xoff \in Nat /\ c.xlim \in Nat /\ c.yoff \in Nat /\ c.ylim \in Nat
  BY BoxesOfCalls DEF Division!IInv
<1>17. /\ \A k \in Compared(0) \cup Compared(0)' : k \in 0..(Count(0) - 1)
       /\ \A k \in Compared(1) \cup Compared(1)' : k \in 0..(Count(1) - 1)
       /\ \A k \in 0..(Count(0) - 1) : k \in Int
       /\ \A k \in 0..(Count(1) - 1) : k \in Int
  BY <1>9, <1>11 DEF Within
<1>18. ASSUME NEW x \in 0..(Count(0) - 1)
       PROVE  x \in Compared(0)'
                  <=> x \in Compared(0) \/ \E y \in Division!YOffsets : <<x, y>> \in slid
  <2>1. Division!XIn(x, rest) => Division!XIn(x, b)
    BY <1>3, <1>5, <1>7, <1>16, <1>17 DEF Division!XIn
  <2>2. ASSUME NEW c \in Boxes, c # b, Division!XIn(x, b) PROVE ~Division!XIn(x, c)
    <3>1. Division!BoxPrecedes(b, c) \/ Division!BoxPrecedes(c, b)
      BY <1>3, <1>16, <2>2 DEF Division!BoxesOrdered
    <3> QED
      BY <1>3, <1>16, <1>17, <2>2, <3>1 DEF Division!BoxPrecedes, Division!XIn
  <2>3. ASSUME NEW y, <<x, y>> \in slid
        PROVE  /\ Division!XIn(x, b) /\ ~Division!XIn(x, rest) /\ x \notin Elements(0, TRUE)
    <3>1. <<x, y>>[1] = x
      OBVIOUS
    <3>2. Division!XIn(x, b) /\ (x < rest.xoff \/ rest.xlim <= x)
      BY <1>6, <2>3, <3>1
    <3>3. x \notin Elements(0, TRUE)
      BY <1>3, <1>16, <3>2 DEF Division!FlaggedApart
    <3>4. ~Division!XIn(x, rest)
      BY <1>3, <1>5, <1>7, <1>16, <1>17, <3>2 DEF Division!XIn
    <3> QED
      BY <3>2, <3>3, <3>4
  <2>4. ASSUME x \in Compared(0)', x \notin Compared(0)
        PROVE  \E y \in Division!YOffsets : <<x, y>> \in slid
    <3>1. x \notin Elements(0, TRUE) /\ \A c \in Boxes' : ~Division!XIn(x, c)
      BY <1>15, <2>4
    <3>2. Division!XIn(x, b)
      BY <1>4, <1>14, <2>4, <3>1 DEF ComparedKnown
    <3> QED
      BY <1>4, <1>6, <1>12, <3>1, <3>2
  <2>5. ASSUME x \in Compared(0) PROVE x \in Compared(0)'
    BY <1>3, <1>4, <1>14, <1>15, <2>1, <2>5 DEF ComparedKnown
  <2>6. ASSUME NEW y, <<x, y>> \in slid PROVE x \in Compared(0)'
    BY <1>4, <1>15, <2>2, <2>3, <2>6
  <2> QED
    BY <2>4, <2>5, <2>6
<1>19. ASSUME NEW y \in 0..(Count(1) - 1)
       PROVE  y \in Compared(1)'
                  <=> y \in Compared(1) \/ \E x \in Division!XOffsets : <<x, y>> \in slid
  <2>1. Division!YIn(y, rest) => Division!YIn(y, b)
    BY <1>3, <1>5, <1>7, <1>16, <1>17 DEF Division!YIn
  <2>2. ASSUME NEW c \in Boxes, c # b, Division!YIn(y, b) PROVE ~Division!YIn(y, c)
    <3>1. Division!BoxPrecedes(b, c) \/ Division!BoxPrecedes(c, b)
      BY <1>3, <1>16, <2>2 DEF Division!BoxesOrdered
    <3> QED
      BY <1>3, <1>16, <1>17, <2>2, <3>1 DEF Division!BoxPrecedes, Division!YIn
  <2>3. ASSUME NEW x, <<x, y>> \in slid
        PROVE  /\ Division!YIn(y, b) /\ ~Division!YIn(y, rest) /\ y \notin Elements(1, TRUE)
    <3>1. <<x, y>>[2] = y
      OBVIOUS
    <3>2. Division!YIn(y, b) /\ (y < rest.yoff \/ rest.ylim <= y)
      BY <1>6, <2>3, <3>1
    <3>3. y \notin Elements(1, TRUE)
      BY <1>3, <1>16, <3>2 DEF Division!FlaggedApart
    <3>4. ~Division!YIn(y, rest)
      BY <1>3, <1>5, <1>7, <1>16, <1>17, <3>2 DEF Division!YIn
    <3> QED
      BY <3>2, <3>3, <3>4
  <2>4. ASSUME y \in Compared(1)', y \notin Compared(1)
        PROVE  \E x \in Division!XOffsets : <<x, y>> \in slid
    <3>1. y \notin Elements(1, TRUE) /\ \A c \in Boxes' : ~Division!YIn(y, c)
      BY <1>15, <2>4
    <3>2. Division!YIn(y, b)
      BY <1>4, <1>14, <2>4, <3>1 DEF ComparedKnown
    <3> QED
      BY <1>4, <1>6, <1>12, <3>1, <3>2
  <2>5. ASSUME y \in Compared(1) PROVE y \in Compared(1)'
    BY <1>3, <1>4, <1>14, <1>15, <2>1, <2>5 DEF ComparedKnown
  <2>6. ASSUME NEW x, <<x, y>> \in slid PROVE y \in Compared(1)'
    BY <1>4, <1>15, <2>2, <2>3, <2>6
  <2> QED
    BY <2>4, <2>5, <2>6
<1>20. ASSUME NEW p \in Matched \cup slid
       PROVE  p \in Compared(0)' \X Compared(1)'
  <2>1. CASE p \in slid
    <3>1. /\ p = <<p[1], p[2]>> /\ p[1] \in 0..(Count(0) - 1) /\ p[2] \in 0..(Count(1) - 1)
      BY <1>6, <1>8, <1>12, <2>1
    <3>2. p[1] \in Compared(0)' /\ p[2] \in Compared(1)'
      BY <1>12, <1>18, <1>19, <2>1, <3>1
    <3> QED
      BY <3>1, <3>2
  <2>2. CASE p \in Matched
    <3>1. p \in Compared(0) \X Compared(1)
      BY <2>2 DEF Matched
    <3>2. p = <<p[1], p[2]>> /\ p[1] \in Compared(0) /\ p[2] \in Compared(1)
      BY <3>1
    <3>3. p[1] \in Compared(0)' /\ p[2] \in Compared(1)'
      BY <1>17, <1>18, <1>19, <3>2
    <3> QED
      BY <3>2, <3>3
  <2> QED
    BY <2>1, <2>2
<1>21. Matching(Matched, Compared(0), Compared(1))
  BY <1>1, <1>9, MatchingNow
<1>22. Matching(Matched \cup slid, Compared(0)', Compared(1)')
  <2>1. ASSUME NEW x \in Compared(0)' PROVE \E y \in Compared(1)' : <<x, y>> \in Matched \cup slid
    <3>1. \E y : <<x, y>> \in Matched \cup slid
      BY <1>17, <1>18, <1>21 DEF Matching
    <3> QED
      BY <1>20, <3>1
  <2>2. ASSUME NEW y \in Compared(1)' PROVE \E x \in Compared(0)' : <<x, y>> \in Matched \cup slid
    <3>1. \E x : <<x, y>> \in Matched \cup slid
      BY <1>17, <1>19, <1>21 DEF Matching
    <3> QED
      BY <1>20, <3>1
  <2>3. \A p \in Matched \cup slid : p[1] \in Compared(0)' /\ p[2] \in Compared(1)'
    BY <1>20
  <2> QED
    BY <1>6, <2>1, <2>2, <2>3 DEF Matching
<1>23. Matched' = Matched \cup slid
  <2> DEFINE S == Compared(0)'
             T == Compared(1)'
             m == Matched \cup slid
  <2>1. /\ Count(0) \in Nat /\ Within(S, Count(0)) /\ Count(1) \in Nat /\ Within(T, Count(1))
        /\ Matching(m, S, T) /\ m \subseteq S \X T
    BY <1>9, <1>11, <1>20, <1>22
  <2>2. Matched' = {p \in S \X T
            : Cardinality({y \in S : y < p[1]}) = Cardinality({y \in T : y < p[2]})}
    BY DEF Matched
  <2> HIDE DEF S, T, m
  <2>3. m = {p \in S \X T : Cardinality({y \in S : y < p[1]}) = Cardinality({y \in T : y < p[2]})}
    BY <2>1, MatchingUnique
  <2> QED
    BY <2>2, <2>3 DEF m
<1> QED
  BY <1>23 DEF slid, b

LEMMA DivisionSlide ==
  ASSUME ReadInv, VecInv, CallsInv, Division!IInv, SlideEnds
  PROVE  \E b \in Boxes : Division!Slide(b)
<1>1. PICK lo, hi : Slid(lo, hi)
  BY SlideEndsSlid
<1> DEFINE b == BoxOf(call)
<1>2. stage \in Comparing /\ UNCHANGED <<equivs, realindexes, changed>>
  BY DEF SlideEnds, Comparing, compared, reading
<1>3. call = todo[1] /\ 1 \in DOMAIN todo
  BY <1>2, CallBox
<1>4. /\ b \in Boxes /\ b.xoff = call.xoff /\ b.xlim = call.xlim
      /\ b.yoff = call.yoff /\ b.ylim = call.ylim
      /\ b.xoff \in Nat /\ b.xlim \in Nat
  BY <1>3, BoxesOfCalls
<1>5. /\ lo \in Nat /\ hi \in Nat
      /\ lo + hi <= b.xlim - b.xoff /\ lo + hi <= b.ylim - b.yoff
  BY <1>1, <1>4 DEF Slid
<1>6. /\ \A p \in Division!Initial(b, lo) \cup Division!Final(b, hi) : Division!Equal(p[1], p[2])
      /\ Boxes' = (Boxes \ {b}) \cup
                  {Division!Box(b.xoff + lo, b.xlim - hi, b.yoff + lo, b.ylim - hi)}
  BY <1>1, <1>2, SlidEqual, SlidBoxes
<1>7. Matched' = Matched \cup Division!Initial(b, lo) \cup Division!Final(b, hi)
  BY <1>1, SlidMatched
<1>8. UNCHANGED <<Vector(0), Vector(1), Elements(0, TRUE), Elements(1, TRUE)>>
  BY <1>2 DEF Vector, Elements
<1> HIDE DEF b
<1>9. lo \in 0..(b.xlim - b.xoff) /\ hi \in 0..(b.xlim - b.xoff)
  BY <1>4, <1>5
<1> QED
  BY <1>4, <1>5, <1>6, <1>7, <1>8, <1>9 DEF Division!Slide

LEMMA PoppedBoxes ==
  ASSUME CallsInv, todo # <<>>, todo' = Tail(todo), NEW b, b = BoxOf(todo[1])
  PROVE  /\ Boxes = Boxes' \cup {b}
         /\ b \in Boxes' => b.xoff = b.xlim /\ b.yoff = b.ylim
<1>1. /\ todo \in Seq(Calls) /\ Len(todo) \in Nat /\ Len(todo) > 0 /\ DOMAIN todo = 1..Len(todo)
      /\ todo' \in Seq(Calls) /\ DOMAIN todo' = 1..(Len(todo) - 1)
      /\ \A k \in 1..(Len(todo) - 1) : todo'[k] = todo[k + 1]
  BY StackPopped DEF CallsInv
<1>2. /\ Boxes = {BoxOf(todo[k]) : k \in 1..Len(todo)}
      /\ Boxes' = {BoxOf(todo'[k]) : k \in 1..(Len(todo) - 1)}
  BY <1>1 DEF Boxes, BoxOf
<1>3. \A k \in 1..Len(todo) : k = 1 \/ (k - 1 \in 1..(Len(todo) - 1) /\ (k - 1) + 1 = k)
  BY <1>1
<1>4. \A k \in 1..(Len(todo) - 1) : k + 1 \in 2..Len(todo) /\ k + 1 \in 1..Len(todo)
  BY <1>1
<1>5. 1 \in 1..Len(todo)
  BY <1>1
<1>6. ASSUME NEW c \in Boxes PROVE c \in Boxes' \cup {b}
  <2>1. PICK k \in 1..Len(todo) : c = BoxOf(todo[k])
    BY <1>2
  <2>2. CASE k = 1
    BY <2>1, <2>2
  <2>3. CASE k - 1 \in 1..(Len(todo) - 1) /\ (k - 1) + 1 = k
    <3>1. todo'[k - 1] = todo[(k - 1) + 1]
      BY <1>1, <2>3
    <3>2. c = BoxOf(todo'[k - 1])
      BY <2>1, <2>3, <3>1
    <3> QED
      BY <1>2, <2>3, <3>2
  <2> QED
    BY <1>3, <2>2, <2>3
<1>7. ASSUME NEW c \in Boxes' \cup {b} PROVE c \in Boxes
  BY <1>1, <1>2, <1>4, <1>5
<1>8. ASSUME b \in Boxes' PROVE b.xoff = b.xlim /\ b.yoff = b.ylim
  <2>1. PICK k \in 1..(Len(todo) - 1) : b = BoxOf(todo'[k])
    BY <1>2, <1>8
  <2>2. BoxOf(todo[k + 1]) = BoxOf(todo[1]) /\ k + 1 \in 2..Len(todo)
    BY <1>1, <1>4, <2>1
  <2>3. todo[1].xoff = todo[1].xlim /\ todo[1].yoff = todo[1].ylim
    BY <2>2, Duplicate
  <2> QED
    BY <2>3 DEF BoxOf
<1> QED
  BY <1>6, <1>7, <1>8

(* Nothing new is matched where the boxes lose what is flagged, or nothing. *)
LEMMA SameMatched ==
  ASSUME ReadInv, CallsInv, AllListed, ReadInv', CallsInv', AllListed',
         equivs' = equivs, realindexes' = realindexes,
         \A k \in 0..(Count(0) - 1) :
            (k \in Elements(0, TRUE) \/ \E b \in Boxes : Division!XIn(k, b)) <=>
            (k \in Elements(0, TRUE)' \/ \E b \in Boxes' : Division!XIn(k, b)),
         \A k \in 0..(Count(1) - 1) :
            (k \in Elements(1, TRUE) \/ \E b \in Boxes : Division!YIn(k, b)) <=>
            (k \in Elements(1, TRUE)' \/ \E b \in Boxes' : Division!YIn(k, b))
  PROVE  Matched' = Matched
<1>1. (ReadInv /\ CallsInv /\ AllListed => ComparedKnown)'
  BY ComparedFacts, PTL
<1>2. (ReadInv /\ AllListed => ElementsKnown)'
  BY ElementFacts, PTL
<1>3. ComparedKnown' /\ ElementsKnown' /\ ComparedKnown /\ ElementsKnown
  BY <1>1, <1>2, ComparedFacts, ElementFacts
<1>4. Count(0)' = Count(0) /\ Count(1)' = Count(1) /\ 0 \in Files /\ 1 \in Files
  BY DEF Count, Files
<1>5. /\ \A k \in Compared(0) \cup Compared(0)' : k \in 0..(Count(0) - 1)
      /\ \A k \in Compared(1) \cup Compared(1)' : k \in 0..(Count(1) - 1)
  <2>1. /\ Count(0) \in Nat /\ Count(1) \in Nat
        /\ Within(Compared(0), Count(0)) /\ Within(Compared(1), Count(1))
    BY <1>3, <1>4 DEF ElementsKnown
  <2>2. Within(Compared(0)', Count(0)) /\ Within(Compared(1)', Count(1))
    BY <1>3, <1>4 DEF ElementsKnown, Within
  <2> QED
    BY <2>1, <2>2 DEF Within
<1>6. \A k \in 0..(Count(0) - 1) : k \in Compared(0)' <=> k \in Compared(0)
  BY <1>3, <1>4 DEF ComparedKnown, Division!XIn
<1>7. \A k \in 0..(Count(1) - 1) : k \in Compared(1)' <=> k \in Compared(1)
  BY <1>3, <1>4 DEF ComparedKnown, Division!YIn
<1>8. Compared(0)' = Compared(0) /\ Compared(1)' = Compared(1)
  BY <1>5, <1>6, <1>7
<1> QED
  BY <1>8 DEF Matched

LEMMA DivisionFlag ==
  ASSUME ReadInv, VecInv, CallsInv, Division!IInv, SimpleCase
  PROVE  (\E b \in Boxes : Division!Flag(b)) \/ UNCHANGED Division!vars
<1> DEFINE b == BoxOf(call)
<1>1. /\ stage \in Comparing /\ stage \notin Reading
      /\ UNCHANGED <<equivs, realindexes>> /\ todo' = Tail(todo)
  BY SimpleSteps DEF Comparing, Reading
<1>2. /\ call \in Calls /\ InVectors(call) /\ call = todo[1] /\ 1 \in DOMAIN todo /\ todo # <<>>
  BY <1>1, CallBox
<1>3. /\ b \in Boxes /\ b.xoff = call.xoff /\ b.xlim = call.xlim
      /\ b.yoff = call.yoff /\ b.ylim = call.ylim
      /\ b.xoff \in Nat /\ b.xlim \in Nat /\ b.yoff \in Nat /\ b.ylim \in Nat
      /\ b.xlim <= Count(0) /\ b.ylim <= Count(1)
  BY <1>2, BoxesOfCalls DEF InVectors, Count
<1>4. Boxes = Boxes' \cup {b} /\ (b \in Boxes' => b.xoff = b.xlim /\ b.yoff = b.ylim)
  BY <1>1, <1>2, PoppedBoxes
<1>5. b.xoff = b.xlim \/ b.yoff = b.ylim
  BY <1>3 DEF SimpleCase, Simple
<1> HIDE DEF b
<1>6. AllListed /\ 0 \in Files /\ 1 \in Files
  BY <1>1 DEF VecInv, AllListed, Files
<1>7. ReadInv' /\ CallsInv' /\ AllListed'
  <2>1. ReadInv' /\ CallsInv'
    BY ReadInvNext, CallsInvPopped DEF Next
  <2>2. ASSUME NEW f \in Files PROVE Listed(f)' /\ Flags(f)'
    <3>1. Flags(f)'
      BY FlaggedElements
    <3>2. Listed(f)
      BY <1>6 DEF AllListed
    <3>3. Kept(f)' = Kept(f) /\ equivs'[f] = equivs[f] /\ realindexes'[f] = realindexes[f]
      BY <1>1 DEF Kept
    <3>4. Listed(f)'
      BY <3>2, <3>3 DEF Listed
    <3> QED
      BY <3>1, <3>4
  <2> QED
    BY <2>1, <2>2 DEF AllListed
<1>8. ElementsKnown
  BY <1>6, ElementFacts
<1>9. ASSUME NEW f \in Files, NEW from \in Nat, NEW lim \in Nat, lim <= Count(f),
             from = IF f = 0 THEN call.xoff ELSE call.yoff,
             lim = IF f = 0 THEN call.xlim ELSE call.ylim
      PROVE  Elements(f, TRUE)' = Elements(f, TRUE) \cup from..(lim - 1)
  <2>1. Count(f) \in Nat /\ Len(realindexes[f]) = Count(f)
    BY <1>8 DEF ElementsKnown, Count
  <2>2. ASSUME NEW k \in 0..(Count(f) - 1)
        PROVE  changed'[f][realindexes[f][k + 1]]
                 = (changed[f][realindexes[f][k + 1]] \/ k \in from..(lim - 1))
    <3>1. k + 1 \in 1..Len(realindexes[f]) /\ (k + 1) - 1 = k
      BY <2>1
    <3> QED
      BY <1>9, <3>1, FlaggedElements
  <2>3. /\ \A k \in Elements(f, TRUE) : k \in 0..(Count(f) - 1)
        /\ \A k \in from..(lim - 1) : k \in 0..(Count(f) - 1)
    <3>1. \A k \in Elements(f, TRUE) : k \in 0..(Count(f) - 1)
      BY DEF Elements, Count
    <3>2. \A k \in from..(lim - 1) : k \in 0..(Count(f) - 1)
      <4>1. lim <= Count(f)
        BY <1>9
      <4> QED
        BY <2>1, <4>1
    <3> QED
      BY <3>1, <3>2
  <2>4. ASSUME NEW k \in 0..(Count(f) - 1)
        PROVE  changed[f][realindexes[f][k + 1]] \in BOOLEAN
    <3>1. k + 1 \in 1..Len(realindexes[f])
      BY <2>1
    <3>2. Listed(f) /\ Flags(f)
      BY <1>6 DEF AllListed
    <3>3. /\ realindexes[f][k + 1] \in 0..(Len(equivs[f]) - 1) /\ Len(equivs[f]) \in Nat
      BY <3>1, <3>2, ListedLines
    <3>4. realindexes[f][k + 1] \in -1..Len(equivs[f])
      BY <3>3
    <3> QED
      BY <3>2, <3>4 DEF Flags
  <2>5. ASSUME NEW k \in 0..(Count(f) - 1)
        PROVE  k \in Elements(f, TRUE)' <=> k \in Elements(f, TRUE) \/ k \in from..(lim - 1)
    <3>1. k \in Elements(f, TRUE) <=> changed[f][realindexes[f][k + 1]] = TRUE
      BY DEF Elements, Count
    <3>2. k \in Elements(f, TRUE)' <=> changed'[f][realindexes[f][k + 1]] = TRUE
      BY <1>1 DEF Elements, Count
    <3> QED
      BY <2>2, <2>4, <3>1, <3>2
  <2>6. \A k \in Elements(f, TRUE)' : k \in 0..(Count(f) - 1)
    BY <1>1 DEF Elements, Count
  <2>7. \A k \in Elements(f, TRUE)' : k \in Elements(f, TRUE) \cup from..(lim - 1)
    BY <2>5, <2>6
  <2>8. \A k \in Elements(f, TRUE) \cup from..(lim - 1) : k \in Elements(f, TRUE)'
    BY <2>3, <2>5
  <2> QED
    BY <2>7, <2>8
<1>10. /\ Elements(0, TRUE)' = Elements(0, TRUE) \cup b.xoff..(b.xlim - 1)
       /\ Elements(1, TRUE)' = Elements(1, TRUE) \cup b.yoff..(b.ylim - 1)
  <2>1. Elements(0, TRUE)' = Elements(0, TRUE) \cup b.xoff..(b.xlim - 1)
    <3>1. /\ b.xoff = IF 0 = 0 THEN call.xoff ELSE call.yoff
          /\ b.xlim = IF 0 = 0 THEN call.xlim ELSE call.ylim
      BY <1>3
    <3>2. b.xoff \in Nat /\ b.xlim \in Nat /\ b.xlim <= Count(0) /\ 0 \in Files
      BY <1>3, <1>6
    <3> QED
      BY ONLY <1>9, <3>1, <3>2
  <2>2. Elements(1, TRUE)' = Elements(1, TRUE) \cup b.yoff..(b.ylim - 1)
    <3>1. /\ b.yoff = IF 1 = 0 THEN call.xoff ELSE call.yoff
          /\ b.ylim = IF 1 = 0 THEN call.xlim ELSE call.ylim
      BY <1>3
    <3>2. b.yoff \in Nat /\ b.ylim \in Nat /\ b.ylim <= Count(1) /\ 1 \in Files
      BY <1>3, <1>6
    <3> QED
      BY ONLY <1>9, <3>1, <3>2
  <2> QED
    BY <2>1, <2>2
<1>11. /\ \A k \in 0..(Count(0) - 1) : k \in b.xoff..(b.xlim - 1) <=> Division!XIn(k, b)
       /\ \A k \in 0..(Count(1) - 1) : k \in b.yoff..(b.ylim - 1) <=> Division!YIn(k, b)
  BY <1>3 DEF Division!XIn, Division!YIn
<1>12. Matched' = Matched
  <2>1. \A k \in 0..(Count(0) - 1) :
            (k \in Elements(0, TRUE) \/ \E c \in Boxes : Division!XIn(k, c)) <=>
            (k \in Elements(0, TRUE)' \/ \E c \in Boxes' : Division!XIn(k, c))
    BY <1>4, <1>10, <1>11
  <2>2. \A k \in 0..(Count(1) - 1) :
            (k \in Elements(1, TRUE) \/ \E c \in Boxes : Division!YIn(k, c)) <=>
            (k \in Elements(1, TRUE)' \/ \E c \in Boxes' : Division!YIn(k, c))
    BY <1>4, <1>10, <1>11
  <2> QED
    BY <1>1, <1>6, <1>7, <2>1, <2>2, SameMatched
<1>13. UNCHANGED <<Vector(0), Vector(1)>>
  BY <1>1 DEF Vector
<1>14. CASE b \in Boxes'
  <2>1. b.xoff..(b.xlim - 1) = {} /\ b.yoff..(b.ylim - 1) = {}
    BY <1>3, <1>4, <1>14
  <2>2. Boxes' = Boxes
    BY <1>4, <1>14
  <2> QED
    BY <1>10, <1>12, <1>13, <2>1, <2>2 DEF Division!vars
<1>15. CASE b \notin Boxes'
  <2>1. Boxes' = Boxes \ {b}
    BY <1>4, <1>15
  <2> QED
    BY <1>3, <1>5, <1>10, <1>12, <1>13, <2>1 DEF Division!Flag
<1> QED
  BY <1>14, <1>15

(* The call gives way to its two parts.                                    *)
LEMMA DividedBoxes ==
  ASSUME ReadInv, VecInv, CallsInv, stage \in Comparing, IsBox(call), DividesInside
  PROVE  LET b == BoxOf(call)
         IN  \E xmid \in call.xoff..call.xlim, ymid \in call.yoff..call.ylim :
               Boxes' = (Boxes \ {b}) \cup {Division!Box(b.xoff, xmid, b.yoff, ymid),
                                            Division!Box(xmid, b.xlim, ymid, b.ylim)}
<1> DEFINE b == BoxOf(call)
<1>1. /\ call \in Calls /\ InVectors(call) /\ call = todo[1] /\ todo # <<>> /\ todo \in Seq(Calls)
      /\ Len(todo) \in Nat /\ Len(todo) > 0 /\ DOMAIN todo = 1..Len(todo)
  BY CallBox DEF CallsInv
<1>2. PICK xmid, ymid, c, e :
             /\ xmid \in call.xoff..call.xlim /\ ymid \in call.yoff..call.ylim
             /\ todo' = <<c, e>> \o Tail(todo)
             /\ \/ /\ Part(c, call.xoff, xmid, call.yoff, ymid)
                   /\ Part(e, xmid, call.xlim, ymid, call.ylim)
                \/ /\ Part(e, call.xoff, xmid, call.yoff, ymid)
                   /\ Part(c, xmid, call.xlim, ymid, call.ylim)
  BY <1>1, DividedTodo
<1>3. c \in Calls /\ e \in Calls
  BY <1>2 DEF Part
<1>4. /\ todo' \in Seq(Calls) /\ Len(todo') = Len(todo) + 1 /\ todo'[1] = c /\ todo'[2] = e
      /\ \A k \in 3..Len(todo') : todo'[k] = todo[k - 1] /\ k - 1 \in 2..Len(todo)
  BY <1>1, <1>2, <1>3, StackPushed
<1>5. /\ b.xoff = call.xoff /\ b.xlim = call.xlim /\ b.yoff = call.yoff /\ b.ylim = call.ylim
  BY DEF BoxOf
<1> DEFINE lo == Division!Box(b.xoff, xmid, b.yoff, ymid)
           hi == Division!Box(xmid, b.xlim, ymid, b.ylim)
<1>6. {BoxOf(c), BoxOf(e)} = {lo, hi}
  <2>1. \/ BoxOf(c) = lo /\ BoxOf(e) = hi
        \/ BoxOf(c) = hi /\ BoxOf(e) = lo
    BY <1>2, <1>5 DEF Part, BoxOf, Division!Box
  <2> QED
    BY <2>1
<1>7. /\ Boxes = {BoxOf(todo[k]) : k \in 1..Len(todo)}
      /\ Boxes' = {BoxOf(todo'[k]) : k \in 1..(Len(todo) + 1)}
  <2>1. DOMAIN todo' = 1..(Len(todo) + 1)
    BY <1>1, <1>4
  <2> QED
    BY <1>1, <2>1 DEF Boxes, BoxOf
<1>8. BoxOf(todo[1]) = b
  BY <1>1
<1>9. ~(call.xoff = call.xlim)
  BY DEF IsBox
<1>10. \A k \in 2..Len(todo) : BoxOf(todo[k]) # b
  BY <1>1, <1>8, <1>9, Duplicate
<1> HIDE DEF b, lo, hi
<1>11. ASSUME NEW d \in Boxes' PROVE d \in (Boxes \ {b}) \cup {lo, hi}
  <2>1. PICK k \in 1..(Len(todo) + 1) : d = BoxOf(todo'[k])
    BY <1>7
  <2>2. k = 1 \/ k = 2 \/ k \in 3..Len(todo')
    BY <1>1, <1>4
  <2>3. CASE k = 1 \/ k = 2
    <3>1. d = BoxOf(c) \/ d = BoxOf(e)
      BY <1>4, <2>1, <2>3
    <3> QED
      BY <1>6, <3>1
  <2>4. CASE k \in 3..Len(todo')
    <3>1. d = BoxOf(todo[k - 1]) /\ k - 1 \in 2..Len(todo) /\ k - 1 \in 1..Len(todo)
      BY <1>1, <1>4, <2>1, <2>4
    <3> QED
      BY <1>7, <1>10, <3>1
  <2> QED
    BY <2>2, <2>3, <2>4
<1>12. ASSUME NEW d \in Boxes, d # b PROVE d \in Boxes'
  <2>1. PICK k \in 1..Len(todo) : d = BoxOf(todo[k])
    BY <1>7
  <2>2. k # 1
    BY <1>8, <1>12, <2>1
  <2>3. k + 1 \in 3..Len(todo') /\ (k + 1) - 1 = k /\ k + 1 \in 1..(Len(todo) + 1)
    BY <1>1, <1>4, <2>2
  <2>4. todo'[k + 1] = todo[(k + 1) - 1]
    BY <1>4, <2>3
  <2> QED
    BY <1>7, <2>1, <2>3, <2>4
<1>13. lo \in Boxes' /\ hi \in Boxes'
  <2>1. 1 \in 1..(Len(todo) + 1) /\ 2 \in 1..(Len(todo) + 1)
    BY <1>1
  <2>2. BoxOf(c) \in Boxes' /\ BoxOf(e) \in Boxes'
    BY <1>4, <1>7, <2>1
  <2> QED
    BY <1>6, <2>2
<1>14. Boxes' = (Boxes \ {b}) \cup {lo, hi}
  BY <1>11, <1>12, <1>13
<1> QED
  BY <1>2, <1>14 DEF b, lo, hi

LEMMA DivisionDivide ==
  ASSUME ReadInv, VecInv, CallsInv, CallsInv', Division!IInv, stage \in Comparing, IsBox(call),
         DividesInside, UNCHANGED <<input, prefix_lines, equivs, realindexes, changed>>,
         ReadInv'
  PROVE  \E b \in Boxes : Division!Divide(b)
<1> DEFINE b == BoxOf(call)
<1>1. PICK xmid \in call.xoff..call.xlim, ymid \in call.yoff..call.ylim :
        Boxes' = (Boxes \ {b}) \cup {Division!Box(b.xoff, xmid, b.yoff, ymid),
                                     Division!Box(xmid, b.xlim, ymid, b.ylim)}
  BY DividedBoxes
<1>2. /\ call \in Calls /\ InVectors(call) /\ call = todo[1] /\ 1 \in DOMAIN todo
  BY CallBox
<1>3. /\ b \in Boxes /\ b.xoff = call.xoff /\ b.xlim = call.xlim
      /\ b.yoff = call.yoff /\ b.ylim = call.ylim
      /\ b.xoff \in Nat /\ b.xlim \in Nat /\ b.yoff \in Nat /\ b.ylim \in Nat
  BY <1>2, BoxesOfCalls
<1> DEFINE lo == Division!Box(b.xoff, xmid, b.yoff, ymid)
           hi == Division!Box(xmid, b.xlim, ymid, b.ylim)
<1>4. /\ lo.xoff = b.xoff /\ lo.xlim = xmid /\ lo.yoff = b.yoff /\ lo.ylim = ymid
      /\ hi.xoff = xmid /\ hi.xlim = b.xlim /\ hi.yoff = ymid /\ hi.ylim = b.ylim
  BY DEF Division!Box
<1>5. Boxes' = (Boxes \ {b}) \cup {lo, hi}
  BY <1>1
<1> HIDE DEF b, lo, hi
<1>6. /\ xmid \in b.xoff..b.xlim /\ ymid \in b.yoff..b.ylim
      /\ xmid \in Int /\ b.xoff <= xmid /\ xmid <= b.xlim
      /\ ymid \in Int /\ b.yoff <= ymid /\ ymid <= b.ylim
  BY <1>3
<1>7. AllListed /\ AllListed'
  <2>1. stage \notin Reading
    BY DEF Comparing, Reading
  <2>2. AllListed
    BY <2>1 DEF VecInv, AllListed
  <2> QED
    BY <2>2 DEF AllListed, Listed, Flags, Kept
<1>8. /\ Elements(0, TRUE)' = Elements(0, TRUE) /\ Elements(1, TRUE)' = Elements(1, TRUE)
      /\ Vector(0)' = Vector(0) /\ Vector(1)' = Vector(1)
  BY DEF Elements, Vector
<1>9. ASSUME NEW k \in Int
      PROVE  /\ Division!XIn(k, b) <=> Division!XIn(k, lo) \/ Division!XIn(k, hi)
             /\ Division!YIn(k, b) <=> Division!YIn(k, lo) \/ Division!YIn(k, hi)
  BY <1>3, <1>4, <1>6 DEF Division!XIn, Division!YIn
<1>10. Matched' = Matched
  <2>1. ASSUME NEW k \in Int
        PROVE  /\ (\E c \in Boxes : Division!XIn(k, c)) <=> (\E c \in Boxes' : Division!XIn(k, c))
               /\ (\E c \in Boxes : Division!YIn(k, c)) <=> (\E c \in Boxes' : Division!YIn(k, c))
    BY <1>3, <1>5, <1>9
  <2>2. ASSUME NEW k \in 0..(Count(0) - 1)
        PROVE  (k \in Elements(0, TRUE) \/ \E c \in Boxes : Division!XIn(k, c)) <=>
               (k \in Elements(0, TRUE)' \/ \E c \in Boxes' : Division!XIn(k, c))
    <3>1. k \in Int
      OBVIOUS
    <3> QED
      BY <1>8, <2>1, <3>1
  <2>3. ASSUME NEW k \in 0..(Count(1) - 1)
        PROVE  (k \in Elements(1, TRUE) \/ \E c \in Boxes : Division!YIn(k, c)) <=>
               (k \in Elements(1, TRUE)' \/ \E c \in Boxes' : Division!YIn(k, c))
    <3>1. k \in Int
      OBVIOUS
    <3> QED
      BY <1>8, <2>1, <3>1
  <2> QED
    BY <1>7, <2>2, <2>3, SameMatched
<1> QED
  BY <1>1, <1>3, <1>6, <1>8, <1>10 DEF Division!Divide

(* A step of compareseq divides, slides, flags or leaves the boxes alone.  *)
LEMMA DivisionStep ==
  ASSUME ComparingInv, ComparingInv', stage \in Comparing, Division!IInv, [Next]_vars
  PROVE  \/ \E b \in Boxes : Division!Slide(b)
         \/ \E b \in Boxes : Division!Flag(b)
         \/ \E b \in Boxes : Division!Divide(b)
         \/ UNCHANGED Division!vars
<1> USE DEF ComparingInv
<1>1. ASSUME UNCHANGED <<equivs, realindexes, changed, todo>>
      PROVE  UNCHANGED Division!vars
  <2>1. /\ UNCHANGED <<Vector(0), Vector(1), Boxes, Elements(0, TRUE), Elements(1, TRUE)>>
        /\ Elements(0, FALSE)' = Elements(0, FALSE) /\ Elements(1, FALSE)' = Elements(1, FALSE)
    BY <1>1 DEF Vector, Boxes, Elements
  <2>2. Compared(0)' = Compared(0) /\ Compared(1)' = Compared(1)
    BY <2>1 DEF Compared
  <2>3. Matched' = Matched
    BY <2>2 DEF Matched
  <2> QED
    BY <2>1, <2>3 DEF Division!vars
<1>2. CASE SearchStep
  <2>1. UNCHANGED <<input, prefix_lines, equivs, realindexes, changed>>
    BY <1>2, SearchSteps
  <2>2. CASE SlideEnds
    BY <2>2, DivisionSlide
  <2>3. CASE todo' = todo
    BY <1>1, <2>1, <2>3
  <2>4. CASE DividesInside /\ ~SlideEnds
    <3>1. IsBox(call)
      <4>1. CASE stage = "simple"
        <5>1. ~Simple
          BY <1>2, <2>4, <4>1
          DEF SearchStep, StartDiag, ExtendForward, ExtendBackward, Forward, Backward, Consider
        <5> QED
          BY <5>1, CallBox
      <4>2. CASE stage = "slide"
        BY <1>2, <2>4, <4>2
        DEF SearchStep, StartDiag, ExtendForward, ExtendBackward, Forward, Backward, Consider
      <4>3. CASE stage \in Searching
        BY <4>3 DEF SearchInv, LimitsInv
      <4> QED
        BY <4>1, <4>2, <4>3 DEF Comparing, Searching
    <3> QED
      BY <2>1, <2>4, <3>1, DivisionDivide
  <2> QED
    BY <1>2, <2>2, <2>3, <2>4, SearchStepKinds
<1>3. CASE SimpleCase
  BY <1>3, DivisionFlag
<1>4. CASE UNCHANGED vars
  BY <1>1, <1>4 DEF vars
<1>5. CASE ReadStep
  BY <1>5, ReadSteps DEF Comparing
<1>6. CASE Discard
  BY <1>6 DEF Discard, Comparing
<1>7. CASE ShiftStep
  BY <1>7, ShiftSteps DEF Shifting, Comparing
<1> QED
  BY <1>2, <1>3, <1>4, <1>5, <1>6, <1>7, Steps

LEMMA DivisionKept ==
  ASSUME ComparingInv, ComparingInv', stage \in Comparing, Division!IInv, [Next]_vars
  PROVE  Division!IInv'
<1>1. CASE \E b \in Boxes : Division!Slide(b)
  BY <1>1, Division!SlideIInv
<1>2. CASE \E b \in Boxes : Division!Flag(b)
  BY <1>2, Division!FlagIInv
<1>3. CASE \E b \in Boxes : Division!Divide(b)
  BY <1>3, Division!DivideIInv
<1>4. CASE UNCHANGED Division!vars
  BY <1>4
  DEF Division!vars, Division!IInv, Division!TypeInv, Division!XCovered, Division!YCovered,
      Division!FlaggedApart, Division!MatchedEqual, Division!PairsOrdered,
      Division!PairsOutside, Division!BoxesOrdered, Division!XOffsets, Division!YOffsets,
      Division!XIn, Division!YIn, Division!Precedes, Division!Follows, Division!BoxPrecedes,
      Division!Equal, Division!Boxed
<1> QED
  BY <1>1, <1>2, <1>3, <1>4, DivisionStep

DivisionInv == stage \in Comparing => Division!IInv

LEMMA DivisionInvNext ==
  ComparingInv /\ ComparingInv' /\ DivisionInv /\ [Next]_vars => DivisionInv'
<1> SUFFICES ASSUME ComparingInv, ComparingInv', DivisionInv, [Next]_vars, stage' \in Comparing
             PROVE  Division!IInv'
  BY DEF DivisionInv
<1>1. CASE stage \in Comparing
  BY <1>1, DivisionKept DEF DivisionInv
<1>2. CASE Discard
  BY <1>2, DivisionInit, Division!InitIInv, PTL DEF ComparingInv
<1>3. CASE stage \notin Comparing /\ ~Discard
  BY <1>3, Steps, ReadSteps, SearchSteps, SimpleSteps, ShiftSteps
  DEF vars, Comparing, Reading, Shifting
<1> QED
  BY <1>1, <1>2, <1>3

(* compareseq and diag of diffseq.h implement Compareseq: the stack of     *)
(* calls is a set of boxes that lose equal ends, are flagged or divided.   *)
THEOREM DiagDivides == Spec => Compares
<1>1. Init => DivisionInv
  BY DEF Init, DivisionInv, Comparing
<1>2. ComparingInv /\ ComparingInv' /\ DivisionInv /\ [Next]_vars =>
        [/\ stage = "thin" => Abstract!Init'
         /\ stage \in Comparing => [Abstract!Next]_(Abstract!vars)]_vars
  <2> SUFFICES ASSUME ComparingInv, ComparingInv', DivisionInv, [Next]_vars, ~UNCHANGED vars
               PROVE  /\ stage = "thin" => Abstract!Init'
                      /\ stage \in Comparing => [Abstract!Next]_(Abstract!vars)
    OBVIOUS
  <2>1. CASE stage \in Comparing
    <3>1. (\E b \in Boxes : Division!Slide(b)) => \E b \in Boxes : Abstract!Slide(b)
      BY DEF Division!Slide, Abstract!Slide, Division!Initial, Abstract!Initial,
             Division!Final, Abstract!Final, Division!Equal, Abstract!Equal,
             Division!Box, Abstract!Box
    <3>2. (\E b \in Boxes : Division!Flag(b)) => \E b \in Boxes : Abstract!Flag(b)
      BY DEF Division!Flag, Abstract!Flag
    <3>3. (\E b \in Boxes : Division!Divide(b)) => \E b \in Boxes : Abstract!Divide(b)
      BY DEF Division!Divide, Abstract!Divide, Division!Box, Abstract!Box
    <3>4. UNCHANGED Division!vars => UNCHANGED Abstract!vars
      BY DEF Division!vars, Abstract!vars
    <3>5. [Abstract!Next]_(Abstract!vars)
      BY <2>1, <3>1, <3>2, <3>3, <3>4, DivisionStep DEF DivisionInv, Abstract!Next
    <3> QED
      BY <2>1, <3>5 DEF Comparing
  <2>2. CASE Discard
    BY <2>2, DivisionInit
    DEF ComparingInv, Discard, Comparing, Division!Init, Abstract!Init, Division!Box, Abstract!Box
  <2>3. CASE stage \notin Comparing /\ ~Discard
    <3>1. stage # "thin"
      BY <2>3, Steps, ReadSteps, SearchSteps, SimpleSteps, ShiftSteps DEF Shifting
    <3> QED
      BY <2>3, <3>1
  <2> QED
    BY <2>1, <2>2, <2>3
<1>3. ComparingInv /\ ComparingInv' /\ DivisionInv /\ [Next]_vars => DivisionInv'
  BY DivisionInvNext
<1>4. Spec => []ComparingInv /\ []DivisionInv
  BY <1>1, <1>3, ComparingInvariant, PTL DEF Spec
<1> QED
  BY <1>2, <1>4, PTL DEF Spec, Compares

-----------------------------------------------------------------------------
(* shift_boundaries: an element gives its place to another one, and there  *)
(* is none between them.                                                   *)
LEMMA RankSwapped ==
  ASSUME NEW n \in Nat, NEW S, Within(S, n), NEW s \in S, NEW t \in 0..(n - 1), t \notin S,
         \A k \in S : ~(s < k /\ k < t) /\ ~(t < k /\ k < s),
         NEW R, R = (S \ {s}) \cup {t}
  PROVE  /\ Within(R, n) /\ Cardinality(R) = Cardinality(S)
         /\ Rank(R, t) = Rank(S, s)
         /\ \A x \in S \ {s} : Rank(R, x) = Rank(S, x)
         /\ \A x \in Int : x <= s /\ x <= t => Rank(R, x) = Rank(S, x)
         /\ \A x \in Int : s < x /\ t < x => Rank(R, x) = Rank(S, x)
<1>1. s \in Int /\ t \in Int /\ (\A x \in S : x \in Int) /\ s # t
  BY DEF Within
<1>2. Within(R, n)
  BY DEF Within
<1>3. ASSUME NEW x \in Int, x <= s, x <= t PROVE Rank(R, x) = Rank(S, x)
  <2>1. {y \in R : y < x} = {y \in S : y < x}
    BY <1>1, <1>3
  <2> QED
    BY <2>1 DEF Rank
<1>4. ASSUME NEW x \in Int, s < x, t < x PROVE Rank(R, x) = Rank(S, x)
  <2> DEFINE A == {y \in S : y < x}
  <2>1. {y \in R : y < x} = (A \ {s}) \cup {t} /\ s \in A /\ t \notin A
    BY <1>1, <1>4
  <2>2. IsFiniteSet(A) /\ Cardinality(A) \in Nat
    BY RankFinite DEF Rank
  <2> HIDE DEF A
  <2>3. IsFiniteSet(A \ {s}) /\ Cardinality(A \ {s}) = Cardinality(A) - 1
    BY <2>1, <2>2, FS_RemoveElement
  <2>4. Cardinality((A \ {s}) \cup {t}) = Cardinality(A \ {s}) + 1
    BY <2>1, <2>3, FS_AddElement
  <2>5. Cardinality((A \ {s}) \cup {t}) = Cardinality(A)
    BY <2>2, <2>3, <2>4
  <2> QED
    BY <2>1, <2>5 DEF Rank, A
<1>5. Rank(R, t) = Rank(S, s)
  <2>1. ASSUME NEW y \in S, y # s PROVE y < t <=> y < s
    <3>1. y # t /\ y \in Int
      BY <1>1
    <3>2. y < s \/ s < y
      BY <1>1, <2>1, <3>1
    <3> QED
      BY <1>1, <3>1, <3>2
  <2>2. \A y \in R : y < t => y \in S /\ y # s
    BY <1>1
  <2>3. \A y \in S : y < s => y \in R /\ y # s
    BY <1>1
  <2>4. {y \in R : y < t} = {y \in S : y < s}
    BY <2>1, <2>2, <2>3
  <2> QED
    BY <2>4 DEF Rank
<1>6. ASSUME NEW x \in S, x # s PROVE Rank(R, x) = Rank(S, x)
  <2>1. \/ x <= s /\ x <= t
        \/ s < x /\ t < x
    BY <1>1, <1>6
  <2> QED
    BY <1>1, <1>3, <1>4, <2>1
<1>7. Cardinality(R) = Cardinality(S)
  <2>1. Rank(R, n) = Rank(S, n)
    <3>1. n \in Int /\ s < n /\ t < n
      BY DEF Within
    <3> QED
      BY <1>4, <3>1
  <2> QED
    BY <1>2, <2>1, RankEnds
<1> QED
  BY <1>2, <1>3, <1>4, <1>5, <1>6, <1>7

(* Where the loops that look for a line that is not flagged end.           *)
LEMMA AfterStops ==
  ASSUME NEW f \in Files, Len(equivs[f]) \in Nat, Flags(f), NEW k \in 0..Len(equivs[f])
  PROVE  /\ After(f, k) \in k..Len(equivs[f]) /\ ~changed[f][After(f, k)]
         /\ \A m \in k..(After(f, k) - 1) : changed[f][m]
<1> DEFINE n == Len(equivs[f])
           S == {m \in k..n : ~changed[f][m]}
<1>1. After(f, k) = Least(S)
  BY DEF After, buffered_lines
<1>2. /\ (\A m \in S : m \in Int /\ k <= m) /\ k \in Int
      /\ S # {}
  BY DEF Flags
<1> HIDE DEF S
<1>3. Least(S) \in S /\ \A m \in S : Least(S) <= m
  BY <1>2, LeastIsLeast
<1> USE DEF S
<1>4. After(f, k) \in k..n /\ ~changed[f][After(f, k)]
  BY <1>1, <1>3
<1>5. ASSUME NEW m \in k..(After(f, k) - 1), ~changed[f][m] PROVE FALSE
  <2>1. m \in k..n /\ m < After(f, k)
    BY <1>4
  <2>2. m \in S
    BY <1>5, <2>1
  <2>3. After(f, k) <= m
    BY <1>1, <1>3, <2>2
  <2> QED
    BY <1>4, <2>1, <2>3
<1> QED
  BY <1>4, <1>5

LEMMA BeforeStops ==
  ASSUME NEW f \in Files, Len(equivs[f]) \in Nat, Flags(f), NEW k \in 0..(Len(equivs[f]) + 1)
  PROVE  /\ Before(f, k) \in -1..(k - 1) /\ ~changed[f][Before(f, k)]
         /\ \A m \in (Before(f, k) + 1)..(k - 1) : changed[f][m]
<1> DEFINE S == {m \in -1..(k - 1) : ~changed[f][m]}
<1>1. Before(f, k) = Biggest(S)
  BY DEF Before
<1>2. /\ (\A m \in S : m \in Int /\ m <= k - 1) /\ k - 1 \in Int
      /\ S # {}
  BY DEF Flags
<1> HIDE DEF S
<1>3. Biggest(S) \in S /\ \A m \in S : m <= Biggest(S)
  BY <1>2, BiggestIsBiggest
<1> USE DEF S
<1>4. Before(f, k) \in -1..(k - 1) /\ ~changed[f][Before(f, k)]
  BY <1>1, <1>3
<1>5. ASSUME NEW m \in (Before(f, k) + 1)..(k - 1), ~changed[f][m] PROVE FALSE
  <2>1. m \in -1..(k - 1) /\ Before(f, k) < m
    BY <1>4
  <2>2. m \in S
    BY <1>5, <2>1
  <2>3. m <= Before(f, k)
    BY <1>1, <1>3, <2>2
  <2> QED
    BY <1>4, <2>1, <2>3
<1> QED
  BY <1>4, <1>5

-----------------------------------------------------------------------------
(* The lines that are not flagged are the same in both files.              *)
Unflagged(f) == {i \in 0..(buffered_lines(f) - 1) : ~changed[f][i]}

Alike(g, h) ==
    /\ Cardinality(Unflagged(g)) = Cardinality(Unflagged(h))
    /\ \A x \in Unflagged(g), y \in Unflagged(h) :
         Rank(Unflagged(g), x) = Rank(Unflagged(h), y) => equivs[g][x + 1] = equivs[h][y + 1]

FlagsSame ==
    /\ DOMAIN changed = Files /\ \A f \in Files : Flags(f)
    /\ \A f \in Files : Alike(f, 1 - f)

LEMMA UnflaggedWithin ==
  ASSUME ReadInv, NEW f \in Files
  PROVE  /\ Within(Unflagged(f), Len(equivs[f])) /\ Len(equivs[f]) \in Nat
         /\ 1 - f \in Files /\ f # 1 - f /\ 1 - (1 - f) = f
         /\ \A g \in Files : g = f \/ g = 1 - f
<1>1. Len(equivs[f]) \in Nat
  BY DEF ReadInv
<1>2. Within(Unflagged(f), Len(equivs[f]))
  BY DEF Within, Unflagged, buffered_lines
<1>3. f = 0 \/ f = 1
  BY DEF Files
<1> QED
  BY <1>1, <1>2, <1>3 DEF Files

(* A run that is moved by a line: the flags of two equal lines change.     *)
LEMMA Swapped ==
  ASSUME ReadInv, FlagsSame, NEW g \in Files,
         NEW s \in Unflagged(g), NEW t \in 0..(Len(equivs[g]) - 1), changed[g][t],
         \A k \in Unflagged(g) : ~(s < k /\ k < t) /\ ~(t < k /\ k < s),
         equivs[g][s + 1] = equivs[g][t + 1], equivs' = equivs,
         \/ changed' = [changed EXCEPT ![g][s] = TRUE, ![g][t] = FALSE]
         \/ changed' = [changed EXCEPT ![g][t] = FALSE, ![g][s] = TRUE]
  PROVE  /\ FlagsSame'
         /\ Unflagged(g)' = (Unflagged(g) \ {s}) \cup {t}
         /\ Unflagged(1 - g)' = Unflagged(1 - g) /\ changed'[1 - g] = changed[1 - g]
         /\ changed'[g][s] /\ ~changed'[g][t]
         /\ \A k \in -1..Len(equivs[g]) : k # s /\ k # t => changed'[g][k] = changed[g][k]
<1> DEFINE n == Len(equivs[g])
           h == 1 - g
<1>1. /\ n \in Nat /\ h \in Files /\ g # h /\ 1 - h = g
      /\ (\A f \in Files : f = g \/ f = h)
      /\ Within(Unflagged(g), n) /\ Within(Unflagged(h), Len(equivs[h]))
      /\ Len(equivs[h]) \in Nat
  <2>1. h \in Files
    BY UnflaggedWithin
  <2> QED
    BY <2>1, UnflaggedWithin
<1>2. s \in 0..(n - 1) /\ ~changed[g][s] /\ s # t
  BY DEF Unflagged, buffered_lines
<1>3. /\ DOMAIN changed = Files /\ changed[g] \in [-1..n -> BOOLEAN]
      /\ ~changed[g][-1] /\ ~changed[g][n]
  BY DEF FlagsSame, Flags
<1>4. s \in -1..n /\ t \in -1..n
  BY <1>1, <1>2
<1> HIDE DEF n, h
<1>5. /\ DOMAIN changed' = Files /\ changed'[h] = changed[h]
      /\ changed'[g] = [k \in -1..n |-> IF k = s THEN TRUE ELSE IF k = t THEN FALSE
                                          ELSE changed[g][k]]
  <2>1. CASE changed' = [changed EXCEPT ![g][s] = TRUE, ![g][t] = FALSE]
    BY <1>1, <1>2, <1>3, <1>4, <2>1
  <2>2. CASE changed' = [changed EXCEPT ![g][t] = FALSE, ![g][s] = TRUE]
    BY <1>1, <1>2, <1>3, <1>4, <2>2
  <2> QED
    BY <2>1, <2>2
<1>6. /\ \A k \in -1..n : k # s /\ k # t => changed'[g][k] = changed[g][k]
      /\ changed'[g][s] = TRUE /\ changed'[g][t] = FALSE
  BY <1>2, <1>4, <1>5
<1>7. changed'[g][s] /\ ~changed'[g][t]
  BY <1>6
<1>8. changed'[g] \in [-1..n -> BOOLEAN]
  <2>1. \A k \in -1..n : changed[g][k] \in BOOLEAN
    BY <1>3
  <2> QED
    BY <1>5, <2>1
<1>9. Flags(g)'
  <2>1. -1 \in -1..n /\ n \in -1..n /\ -1 # s /\ -1 # t /\ n # s /\ n # t
    BY <1>1, <1>2 DEF n
  <2>2. changed'[g][-1] = changed[g][-1] /\ changed'[g][n] = changed[g][n]
    BY <1>6, <2>1
  <2>3. ~changed'[g][-1] /\ ~changed'[g][n]
    BY <1>3, <2>2
  <2> QED
    BY <1>8, <2>3 DEF Flags, n
<1>10. Flags(h)'
  BY <1>1, <1>5 DEF FlagsSame, Flags
<1>11. Unflagged(g)' = (Unflagged(g) \ {s}) \cup {t}
  <2>1. Unflagged(g)' = {i \in 0..(n - 1) : ~changed'[g][i]}
    BY DEF Unflagged, buffered_lines, n
  <2>2. Unflagged(g) = {i \in 0..(n - 1) : ~changed[g][i]}
    BY DEF Unflagged, buffered_lines, n
  <2>3. ASSUME NEW k \in 0..(n - 1), k # s, k # t
        PROVE  changed'[g][k] = changed[g][k]
    BY <1>1, <1>6, <2>3
  <2>4. t \in 0..(n - 1)
    BY DEF n
  <2> QED
    BY <1>2, <1>7, <2>1, <2>2, <2>3, <2>4
<1>12. Unflagged(h)' = Unflagged(h)
  BY <1>5 DEF Unflagged, buffered_lines
<1>13. Alike(g, h)'
  <2> DEFINE S == Unflagged(g)
             R == (S \ {s}) \cup {t}
  <2>0. Alike(g, h)
    BY DEF FlagsSame, h
  <2>1. /\ Cardinality(R) = Cardinality(S) /\ Rank(R, t) = Rank(S, s)
        /\ \A x \in S \ {s} : Rank(R, x) = Rank(S, x)
    <3>1. t \notin S
      BY DEF Unflagged
    <3>2. t \in 0..(n - 1)
      BY DEF n
    <3>3. /\ n \in Nat /\ Within(S, n) /\ s \in S
          /\ \A k \in S : ~(s < k /\ k < t) /\ ~(t < k /\ k < s)
      BY <1>1
    <3>4. R = (S \ {s}) \cup {t}
      OBVIOUS
    <3> HIDE DEF S, R
    <3> QED
      BY ONLY <3>1, <3>2, <3>3, <3>4, RankSwapped
  <2> HIDE DEF S
  <2>2. ASSUME NEW x \in R, NEW y \in Unflagged(h), Rank(R, x) = Rank(Unflagged(h), y)
        PROVE  equivs[g][x + 1] = equivs[h][y + 1]
    <3>1. CASE x = t
      BY <2>0, <2>1, <2>2, <3>1 DEF Alike, S
    <3>2. CASE x \in S \ {s}
      BY <2>0, <2>1, <2>2, <3>2 DEF Alike, S
    <3> QED
      BY <3>1, <3>2
  <2>3. Cardinality(R) = Cardinality(Unflagged(h))
    BY <2>0, <2>1 DEF Alike, S
  <2>4. R = Unflagged(g)'
    BY <1>11 DEF S
  <2> HIDE DEF R
  <2> QED
    BY <1>12, <2>2, <2>3, <2>4 DEF Alike
<1>14. Alike(h, g)'
  BY <1>13 DEF Alike
<1>15. FlagsSame'
  <2>1. \A f \in Files : Flags(f)'
    BY <1>1, <1>9, <1>10
  <2>2. \A f \in Files : Alike(f, 1 - f)'
    <3>1. Alike(g, 1 - g)' /\ Alike(h, 1 - h)'
      BY <1>1, <1>13, <1>14 DEF h
    <3> QED
      BY <1>1, <3>1
  <2> QED
    BY <1>5, <2>1, <2>2 DEF FlagsSame
<1> QED
  BY <1>5, <1>6, <1>7, <1>11, <1>12, <1>15 DEF n, h

(* The run start..i-1 of g, and the place j of the other file that matches *)
(* its end.                                                                *)
AtRun(g, start, i, j) ==
    /\ start \in Nat /\ i \in Nat /\ j \in Nat
    /\ start < i /\ i <= Len(equivs[g]) /\ j <= Len(equivs[1 - g])
    /\ \A k \in start..(i - 1) : changed[g][k]
    /\ ~changed[g][i] /\ ~changed[1 - g][j]
    /\ Rank(Unflagged(g), i) = Rank(Unflagged(1 - g), j)

LEMMA RunUp ==
  ASSUME ReadInv, FlagsSame, NEW g \in Files, NEW start, NEW i, NEW j, AtRun(g, start, i, j),
         start > 0, ~changed[g][start - 1], equivs[g][start] = equivs[g][i], equivs' = equivs,
         changed' = [changed EXCEPT ![g][start - 1] = TRUE, ![g][i - 1] = FALSE],
         NEW from \in Nat, from < start, \A k \in from..(start - 2) : changed[g][k],
         NEW b, b = Before(1 - g, j)
  PROVE  /\ FlagsSame' /\ AtRun(g, from, i - 1, b)'
         /\ \A k \in -1..(start - 2) : changed'[g][k] = changed[g][k]
<1> DEFINE n == Len(equivs[g])
           h == 1 - g
           S == Unflagged(g)
           T == Unflagged(h)
           s == start - 1
           t == i - 1
<1>1. /\ n \in Nat /\ h \in Files /\ 1 - h = g /\ Len(equivs[h]) \in Nat
      /\ Within(S, n) /\ Within(T, Len(equivs[h]))
  <2>1. h \in Files
    BY UnflaggedWithin
  <2> QED
    BY <2>1, UnflaggedWithin
<1>2. /\ start \in Nat /\ i \in Nat /\ j \in Nat /\ start > 0
      /\ start < i /\ i <= n /\ j <= Len(equivs[h])
      /\ (\A k \in start..t : changed[g][k]) /\ Rank(S, i) = Rank(T, j)
  <2>1. \A k \in start..t : changed[g][k]
    BY DEF AtRun
  <2>2. Rank(S, i) = Rank(T, j)
    BY DEF AtRun
  <2> QED
    BY <2>1, <2>2 DEF AtRun
<1>3. /\ s \in 0..(n - 1) /\ t \in 0..(n - 1) /\ s < t /\ t < i
      /\ s \in Int /\ t \in Int /\ s + 1 = start /\ t + 1 = i
  <2>1. /\ n \in Nat /\ start \in Nat /\ i \in Nat /\ start > 0 /\ start < i /\ i <= n
        /\ s = start - 1 /\ t = i - 1
    BY <1>1, <1>2
  <2> HIDE DEF n, s, t
  <2>2. s \in Int /\ t \in Int /\ s + 1 = start /\ t + 1 = i
    BY <2>1
  <2>3. s \in 0..(n - 1) /\ t \in 0..(n - 1) /\ s < t /\ t < i
    BY <2>1
  <2> QED
    BY <2>2, <2>3
<1>4. s \in S /\ changed[g][t] /\ \A k \in S : k < start \/ i <= k
  <2>1. s \in S
    BY <1>3 DEF Unflagged, buffered_lines
  <2>2. changed[g][t]
    <3>1. t \in start..t
      <4> HIDE DEF n, s, t
      <4> QED
        BY <1>3
    <3> HIDE DEF t
    <3> QED
      BY <1>2, <3>1
  <2>3. ASSUME NEW k \in S PROVE k < start \/ i <= k
    <3>1. k \in 0..(n - 1) /\ ~changed[g][k]
      BY DEF Unflagged, buffered_lines
    <3> QED
      BY <1>2, <3>1
  <2> QED
    BY <2>1, <2>2, <2>3
<1>5. ASSUME NEW k \in S PROVE ~(s < k /\ k < t) /\ ~(t < k /\ k < s)
  <2>1. k \in Int /\ (k < start \/ i <= k)
    BY <1>1, <1>4 DEF Within
  <2> HIDE DEF S
  <2> QED
    BY <1>2, <2>1
<1>6. /\ FlagsSame' /\ Unflagged(g)' = (S \ {s}) \cup {t} /\ Unflagged(h)' = T
      /\ changed'[h] = changed[h] /\ changed'[g][s] /\ ~changed'[g][t]
      /\ \A k \in -1..n : k # s /\ k # t => changed'[g][k] = changed[g][k]
  <2>1. /\ equivs[g][s + 1] = equivs[g][t + 1]
        /\ changed' = [changed EXCEPT ![g][s] = TRUE, ![g][t] = FALSE]
    BY <1>3
  <2>2. ReadInv /\ FlagsSame /\ g \in Files /\ equivs' = equivs
    OBVIOUS
  <2> HIDE DEF s, t
  <2> QED
    BY ONLY <1>3, <1>4, <1>5, <2>1, <2>2, Swapped DEF S, T, n, h
<1> HIDE DEF n, h, S, T, s, t
<1>7. /\ b \in -1..(j - 1) /\ ~changed[h][b] /\ \A m \in (b + 1)..(j - 1) : changed[h][m]
  <2>1. Flags(h) /\ j \in 0..(Len(equivs[h]) + 1)
    BY <1>1, <1>2 DEF FlagsSame
  <2>2. b = Before(h, j)
    BY DEF h
  <2> QED
    BY <1>1, <2>1, <2>2, BeforeStops
<1>8. /\ Rank(S, i) = Rank(S, s) + 1 /\ Rank(S, s) \in Nat /\ s \in Int
  <2>1. Rank(S, s + 1) = Rank(S, s) + 1 /\ Rank(S, s) \in Nat
    BY <1>1, <1>3, <1>4, RankNext, RankFinite
  <2>2. \A k \in S : k < s + 1 \/ i <= k
    BY <1>3, <1>4
  <2>3. Rank(S, s + 1) = Rank(S, i)
    BY <1>1, <1>2, <1>3, <2>2, RankSame
  <2> QED
    BY <1>3, <2>1, <2>3
<1>9. b >= 0 /\ b \in T /\ Rank(T, j) = Rank(T, b) + 1
  <2>1. ASSUME NEW m \in T, m < j, b < m PROVE FALSE
    <3>1. m \in Int /\ m \in (b + 1)..(j - 1) /\ ~changed[h][m]
      BY <1>1, <1>2, <1>7, <2>1 DEF T, Unflagged, Within
    <3> QED
      BY <1>7, <3>1
  <2>2. ASSUME b < 0 PROVE FALSE
    <3>1. \A m \in T : m < 0 \/ j <= m
      BY <1>1, <1>2, <1>7, <2>1, <2>2 DEF Within
    <3>2. Rank(T, 0) = Rank(T, j)
      BY <1>1, <1>2, <3>1, RankSame
    <3>3. Rank(T, 0) = 0
      BY <1>1, RankEnds
    <3>4. Rank(S, s) + 1 = 0
      BY <1>2, <1>8, <3>2, <3>3
    <3> QED
      BY <1>8, <3>4
  <2>3. b \in Nat /\ b < j
    BY <1>2, <1>7, <2>2
  <2>4. b \in T
    <3>1. b \in 0..(Len(equivs[h]) - 1)
      BY <1>1, <1>2, <2>3
    <3>2. ~changed[h][b]
      BY <1>7
    <3> QED
      BY <3>1, <3>2 DEF T, Unflagged, buffered_lines
  <2>5. Rank(T, b + 1) = Rank(T, b) + 1
    BY <1>1, <2>3, <2>4, RankNext
  <2>6. Rank(T, b + 1) = Rank(T, j)
    <3>1. \A m \in T : m < b + 1 \/ j <= m
      BY <1>1, <1>2, <2>1, <2>3 DEF Within
    <3>2. b + 1 \in Nat /\ j \in Nat /\ b + 1 <= j
      BY ONLY <1>2, <2>3
    <3> QED
      BY <1>1, <3>1, <3>2, RankSame
  <2> QED
    BY <2>3, <2>4, <2>5, <2>6
<1>10. Rank(Unflagged(g)', t) = Rank(T, b)
  <2> DEFINE R == (S \ {s}) \cup {t}
  <2>1. t \notin S
    BY <1>3, <1>4
  <2>2. R = (S \ {s}) \cup {t}
    OBVIOUS
  <2> HIDE DEF R
  <2>3. Rank(R, t) = Rank(S, s)
    BY SMTT(30), <1>1, <1>3, <1>4, <1>5, <2>1, <2>2, RankSwapped
  <2>4. Rank(T, b) \in Nat
    <3>1. b \in Int
      BY <1>7
    <3> QED
      BY <1>1, <3>1, RankFinite
  <2>5. Unflagged(g)' = R
    BY <1>6, <2>2
  <2>6. Rank(S, s) = Rank(T, b)
    <3>1. Rank(S, s) + 1 = Rank(T, b) + 1
      BY <1>2, <1>8, <1>9
    <3>2. \A p, q \in Nat : p + 1 = q + 1 => p = q
      OBVIOUS
    <3> QED
      BY <1>8, <2>4, <3>1, <3>2
  <2> QED
    BY <2>3, <2>5, <2>6
<1>11. ASSUME NEW k \in -1..(s - 1) PROVE changed'[g][k] = changed[g][k]
  <2>1. k \in -1..n /\ k # s /\ k # t
    BY <1>1, <1>3
  <2> QED
    BY <1>6, <2>1
<1>12. ASSUME NEW k \in from..(t - 1) PROVE changed'[g][k]
  <2>1. CASE k < s
    <3>1. k \in from..(start - 2) /\ k \in -1..(s - 1)
      BY <1>3, <2>1
    <3> QED
      BY <1>11, <3>1
  <2>2. CASE k = s
    BY <1>6, <2>2
  <2>3. CASE s < k
    <3>1. k \in start..t /\ k \in -1..n /\ k # s /\ k # t
      BY <1>1, <1>3, <2>3
    <3> QED
      BY <1>2, <1>6, <3>1
  <2>4. k \in Int /\ s \in Int
    BY <1>3
  <2>5. k < s \/ k = s \/ s < k
    BY ONLY <2>4
  <2> QED
    BY <2>1, <2>2, <2>3, <2>5
<1>13. AtRun(g, from, t, b)'
  <2>1. /\ from < t /\ t <= n /\ b <= Len(equivs[h]) /\ b \in Nat /\ t \in Nat
    <3>1. t \in Nat /\ t <= n /\ start <= t
      BY ONLY <1>1, <1>2, <1>3
    <3>2. b \in Nat /\ b <= Len(equivs[h])
      BY ONLY <1>1, <1>2, <1>7, <1>9
    <3>3. from \in Nat /\ from < start /\ start \in Nat
      BY <1>2
    <3>4. from < t
      BY ONLY <3>1, <3>3
    <3> QED
      BY <3>1, <3>2, <3>4
  <2>2. ~changed'[g][t] /\ ~changed'[h][b]
    BY <1>6, <1>7
  <2> QED
    BY <1>6, <1>10, <1>12, <2>1, <2>2 DEF AtRun, n, h
<1>14. AtRun(g, from, i - 1, b)'
  BY <1>13 DEF t
<1>15. \A k \in -1..(start - 2) : changed'[g][k] = changed[g][k]
  <2>1. start - 2 = s - 1
    BY <1>2 DEF s
  <2> QED
    BY <1>11, <2>1
<1> QED
  BY <1>6, <1>14, <1>15

LEMMA RunDown ==
  ASSUME ReadInv, FlagsSame, NEW g \in Files, NEW start, NEW i, NEW j, AtRun(g, start, i, j),
         i # Len(equivs[g]), equivs[g][start + 1] = equivs[g][i + 1], equivs' = equivs,
         changed' = [changed EXCEPT ![g][start] = FALSE, ![g][i] = TRUE],
         NEW to, to = After(g, i + 1), NEW b, b = After(1 - g, j + 1)
  PROVE  /\ FlagsSame' /\ AtRun(g, start + 1, to, b)' /\ ~changed'[g][start]
         /\ i + 1 <= to
         /\ \A k \in -1..(start - 1) : changed'[g][k] = changed[g][k]
<1> DEFINE n == Len(equivs[g])
           h == 1 - g
           S == Unflagged(g)
           T == Unflagged(h)
<1>1. /\ n \in Nat /\ h \in Files /\ 1 - h = g /\ Len(equivs[h]) \in Nat
      /\ Within(S, n) /\ Within(T, Len(equivs[h]))
  <2>1. h \in Files
    BY UnflaggedWithin
  <2> QED
    BY <2>1, UnflaggedWithin
<1>2. /\ start \in Nat /\ i \in Nat /\ j \in Nat
      /\ start < i /\ i < n /\ j <= Len(equivs[h])
      /\ (\A k \in start..(i - 1) : changed[g][k]) /\ ~changed[g][i] /\ ~changed[h][j]
      /\ Rank(S, i) = Rank(T, j)
  BY <1>1 DEF AtRun
<1>3. i \in S /\ start \in 0..(n - 1) /\ i + 1 \in 0..n
  <2>1. i \in 0..(n - 1) /\ start \in 0..(n - 1) /\ i + 1 \in 0..n
    <3> HIDE DEF n
    <3> QED
      BY <1>1, <1>2
  <2>2. ~changed[g][i]
    BY <1>2
  <2> QED
    BY <2>1, <2>2 DEF Unflagged, buffered_lines
<1>4. changed[g][start] /\ \A k \in S : k < start \/ i <= k
  <2>1. changed[g][start]
    BY <1>2
  <2>2. ASSUME NEW k \in S PROVE k < start \/ i <= k
    <3>1. k \in 0..(n - 1) /\ ~changed[g][k]
      BY DEF Unflagged, buffered_lines
    <3>2. k \notin start..(i - 1)
      BY <1>2, <3>1
    <3>3. k \in Int /\ start \in Int /\ i \in Int
      <4>1. k \in Int
        BY <3>1
      <4>2. start \in Nat /\ i \in Nat
        BY <1>2
      <4> QED
        BY <4>1, <4>2
    <3> QED
      BY <3>2, <3>3
  <2> QED
    BY <2>1, <2>2
<1>5. ASSUME NEW k \in S PROVE ~(i < k /\ k < start) /\ ~(start < k /\ k < i)
  <2>1. k \in Int /\ (k < start \/ i <= k)
    BY <1>1, <1>4 DEF Within
  <2> HIDE DEF S
  <2> QED
    BY <1>2, <2>1
<1>6. /\ FlagsSame' /\ Unflagged(g)' = (S \ {i}) \cup {start} /\ Unflagged(h)' = T
      /\ changed'[h] = changed[h] /\ changed'[g][i] /\ ~changed'[g][start]
      /\ \A k \in -1..n : k # i /\ k # start => changed'[g][k] = changed[g][k]
  <2>1. /\ equivs[g][i + 1] = equivs[g][start + 1]
        /\ changed' = [changed EXCEPT ![g][start] = FALSE, ![g][i] = TRUE]
        /\ ReadInv /\ FlagsSame /\ g \in Files /\ equivs' = equivs
    OBVIOUS
  <2> QED
    BY ONLY <1>3, <1>4, <1>5, <2>1, Swapped DEF S, T, n, h
<1> HIDE DEF n, h, S, T
<1>7. /\ to \in (i + 1)..n /\ ~changed[g][to] /\ \A m \in (i + 1)..(to - 1) : changed[g][m]
  BY <1>1, <1>3, AfterStops DEF FlagsSame, n
<1>8. Rank(S, i) < Cardinality(S) /\ Rank(S, i) \in Nat /\ Cardinality(S) = Cardinality(T)
  <2>1. n \in Int /\ i \in Int
    BY <1>1, <1>2
  <2>2. Rank(S, i) < Rank(S, n) /\ Rank(S, n) = Cardinality(S) /\ Rank(S, i) \in Nat
    BY <1>1, <1>2, <1>3, <2>1, RankStrict, RankEnds, RankFinite
  <2>3. Cardinality(S) = Cardinality(T)
    BY DEF FlagsSame, Alike, S, T, h
  <2> QED
    BY <2>2, <2>3
<1>9. j < Len(equivs[h]) /\ j \in T /\ j + 1 \in 0..Len(equivs[h])
  <2>1. j # Len(equivs[h])
    <3>1. Rank(T, Len(equivs[h])) = Cardinality(T)
      BY <1>1, RankEnds
    <3> QED
      BY <1>2, <1>8, <3>1
  <2>2. j < Len(equivs[h]) /\ j + 1 \in 0..Len(equivs[h]) /\ j \in 0..(Len(equivs[h]) - 1)
    BY <1>1, <1>2, <2>1
  <2>3. j \in T
    BY <1>2, <2>2 DEF T, Unflagged, buffered_lines
  <2> QED
    BY <2>2, <2>3
<1>10. /\ b \in (j + 1)..Len(equivs[h]) /\ ~changed[h][b]
       /\ \A m \in (j + 1)..(b - 1) : changed[h][m]
  <2>1. b = After(h, j + 1)
    BY DEF h
  <2> QED
    BY <1>1, <1>9, <2>1, AfterStops DEF FlagsSame
<1>11. Rank(T, b) = Rank(T, j) + 1
  <2>1. ASSUME NEW m \in T PROVE m < j + 1 \/ b <= m
    <3>1. m \in 0..(Len(equivs[h]) - 1) /\ ~changed[h][m]
      BY DEF T, Unflagged, buffered_lines
    <3> QED
      BY <1>2, <1>10, <3>1
  <2>2. b \in Int /\ j + 1 \in Int /\ j + 1 <= b /\ j \in Int
    BY <1>2, <1>10
  <2>3. Rank(T, j + 1) = Rank(T, b)
    BY <1>1, <2>1, <2>2, RankSame
  <2>4. Rank(T, j + 1) = Rank(T, j) + 1
    BY <1>1, <1>9, <2>2, RankNext
  <2> QED
    BY <2>3, <2>4
<1>12. Rank(S, to) = Rank(S, i) + 1
  <2>1. ASSUME NEW m \in S PROVE m < i + 1 \/ to <= m
    <3>1. m \in 0..(n - 1) /\ ~changed[g][m]
      BY DEF S, Unflagged, buffered_lines, n
    <3> QED
      BY <1>2, <1>7, <3>1
  <2>2. to \in Int /\ i + 1 \in Int /\ i + 1 <= to /\ i \in Int
    BY <1>2, <1>7
  <2>3. Rank(S, i + 1) = Rank(S, to)
    BY <1>1, <2>1, <2>2, RankSame
  <2>4. Rank(S, i + 1) = Rank(S, i) + 1
    BY <1>1, <1>3, <2>2, RankNext
  <2> QED
    BY <2>3, <2>4
<1>13. Rank(Unflagged(g)', to) = Rank(S, to)
  <2> DEFINE R == (S \ {i}) \cup {start}
  <2>1. start \notin S
    BY <1>4 DEF S, Unflagged
  <2>2. R = (S \ {i}) \cup {start}
    OBVIOUS
  <2> HIDE DEF R
  <2>3. to \in Int /\ i < to /\ start < to
    BY <1>2, <1>7
  <2>4. Rank(R, to) = Rank(S, to)
    BY <1>1, <1>3, <1>5, <2>1, <2>2, <2>3, RankSwapped
  <2>5. Unflagged(g)' = R
    BY <1>6, <2>2
  <2> QED
    BY <2>4, <2>5
<1>14. Rank(Unflagged(g)', to) = Rank(T, b)
  BY <1>2, <1>11, <1>12, <1>13
<1>15. ASSUME NEW k \in -1..(start - 1) PROVE changed'[g][k] = changed[g][k]
  <2>1. k \in -1..n /\ k # i /\ k # start
    BY <1>1, <1>2
  <2> QED
    BY <1>6, <2>1
<1>16. ASSUME NEW k \in (start + 1)..(to - 1) PROVE changed'[g][k]
  <2>1. CASE k = i
    BY <1>6, <2>1
  <2>2. CASE k # i
    <3>1. k \in -1..n /\ k # start /\ (k \in start..(i - 1) \/ k \in (i + 1)..(to - 1))
      BY <1>1, <1>2, <1>7, <2>2
    <3> QED
      BY <1>2, <1>6, <1>7, <2>2, <3>1
  <2> QED
    BY <2>1, <2>2
<1>17. ~changed'[g][to] /\ ~changed'[h][b]
  <2>1. to \in -1..n /\ to # i /\ to # start
    BY <1>1, <1>2, <1>7
  <2> QED
    BY <1>6, <1>7, <1>10, <2>1
<1>18. AtRun(g, start + 1, to, b)'
  <2>1. /\ start + 1 \in Nat /\ to \in Nat /\ b \in Nat /\ start + 1 < to
        /\ to <= n /\ b <= Len(equivs[h])
    BY <1>2, <1>7, <1>10
  <2> QED
    BY <1>6, <1>14, <1>16, <1>17, <2>1 DEF AtRun, n, h
<1>19. i + 1 <= to
  BY <1>2, <1>7
<1> QED
  BY <1>6, <1>15, <1>18, <1>19

(* What Passed and Scan find.                                              *)
LEMMA RankBetween ==
  ASSUME NEW m \in Nat, NEW T, Within(T, m), NEW j \in Nat, NEW q \in Nat, j <= q + 1
  PROVE  Rank(T, q + 1) = Rank(T, j) + Cardinality({l \in T : j <= l /\ l <= q})
<1> DEFINE A == {y \in T : y < j}
           B == {l \in T : j <= l /\ l <= q}
<1>1. /\ IsFiniteSet(T) /\ IsFiniteSet(A) /\ Rank(T, j) \in Nat
      /\ \A x \in T : x \in Int
  <2>1. j \in Int
    OBVIOUS
  <2> QED
    BY <2>1, RankFinite DEF Within
<1>2. IsFiniteSet(B)
  BY <1>1, FS_Subset
<1>3. {y \in T : y < q + 1} = A \cup B
  BY <1>1
<1>4. A \cap B = {}
  BY <1>1
<1> HIDE DEF A, B
<1>5. Cardinality(A \cup B) = Cardinality(A) + Cardinality(B) - Cardinality({})
  BY <1>1, <1>2, <1>4, FS_Union
<1>6. Cardinality({}) = 0 /\ Cardinality(A) \in Nat /\ Cardinality(B) \in Nat
  BY <1>1, <1>2, FS_EmptySet, FS_CardinalityType
<1>7. Cardinality(A \cup B) = Cardinality(A) + Cardinality(B)
  BY <1>5, <1>6
<1>8. Rank(T, q + 1) = Cardinality(A \cup B)
  BY <1>3 DEF Rank
<1>9. Rank(T, j) = Cardinality(A)
  BY DEF Rank, A
<1>10. Rank(T, q + 1) = Rank(T, j) + Cardinality(B)
  BY <1>7, <1>8, <1>9
<1> QED
  BY <1>10 DEF B

LEMMA PassedRank ==
  ASSUME ReadInv, FlagsSame, NEW h \in Files, NEW j \in 0..Len(equivs[h]), NEW c \in Nat,
         Rank(Unflagged(h), j) + c <= Cardinality(Unflagged(h))
  PROVE  /\ Passed(h, j, c) \in 0..Len(equivs[h])
         /\ Rank(Unflagged(h), Passed(h, j, c)) = Rank(Unflagged(h), j) + c
<1> DEFINE m == Len(equivs[h])
           T == Unflagged(h)
           P == {q \in j..m : Cardinality({l \in j..q : ~changed[h][l]}) = c}
<1>1. m \in Nat /\ Within(T, m) /\ j \in Nat /\ j \in Int /\ j <= m
  <2>1. Len(equivs[h]) \in Nat /\ Within(Unflagged(h), Len(equivs[h]))
    BY UnflaggedWithin
  <2> QED
    BY <2>1
<1>2. Rank(T, j) \in Nat /\ Cardinality(T) \in Nat
  BY <1>1, RankFinite
<1> HIDE DEF m
<1>3. CASE c = 0
  <2>1. Passed(h, j, c) = j
    BY <1>3 DEF Passed
  <2> QED
    BY <1>1, <1>2, <1>3, <2>1 DEF m
<1>4. CASE c # 0
  <2>1. Passed(h, j, c) = 1 + Least(P)
    BY <1>4 DEF Passed, buffered_lines, m
  <2>2. ASSUME NEW q \in Nat, j <= q, q < m
        PROVE  Rank(T, q + 1) = Rank(T, j) + Cardinality({l \in j..q : ~changed[h][l]})
    <3>1. {l \in j..q : ~changed[h][l]} = {l \in T : j <= l /\ l <= q}
      BY <1>1, <2>2 DEF Unflagged, buffered_lines, m
    <3>2. j <= q + 1
      BY <1>1, <2>2
    <3> HIDE DEF T
    <3>3. Rank(T, q + 1) = Rank(T, j) + Cardinality({l \in T : j <= l /\ l <= q})
      BY <1>1, <2>2, <3>2, RankBetween
    <3> QED
      BY <3>1, <3>3
  <2> HIDE DEF T
  <2>3. PICK x \in T : Rank(T, x) = Rank(T, j) + c - 1
    <3>1. Rank(T, j) + c - 1 \in Nat /\ Rank(T, j) + c - 1 < Cardinality(T)
      BY <1>2, <1>4 DEF T
    <3> QED
      BY <1>1, <3>1, RankSurjective
  <2>4. x \in Nat /\ x < m /\ j <= x
    <3>1. x \in Int /\ 0 <= x /\ x < m
      BY <1>1 DEF Within
    <3>2. ASSUME x < j PROVE FALSE
      <4>1. Rank(T, x) < Rank(T, j)
        BY <1>1, <3>2, RankStrict
      <4> QED
        BY <1>2, <1>4, <2>3, <4>1
    <3> QED
      BY <1>1, <3>1, <3>2
  <2>5. x \in P
    <3>1. Rank(T, x + 1) = Rank(T, j) + Cardinality({l \in j..x : ~changed[h][l]})
      BY <2>2, <2>4
    <3>2. Rank(T, x + 1) = Rank(T, x) + 1
      <4>1. x \in Int
        BY <2>4
      <4> QED
        BY <1>1, <4>1, RankNext
    <3>3. Cardinality({l \in j..x : ~changed[h][l]}) \in Nat
      <4>1. IsFiniteSet(j..x)
        BY <1>1, <2>4, FS_Interval
      <4>2. IsFiniteSet({l \in j..x : ~changed[h][l]})
        BY <4>1, FS_Subset
      <4> QED
        BY <4>2, FS_CardinalityType
    <3>4. Cardinality({l \in j..x : ~changed[h][l]}) = c
      <4>1. ASSUME NEW r \in Nat, NEW k \in Nat, NEW z, z = r + k, z = (r + c - 1) + 1 PROVE k = c
        BY <4>1
      <4> QED
        BY <1>2, <2>3, <3>1, <3>2, <3>3, <4>1
    <3> QED
      BY <1>1, <2>4, <3>4
  <2>6. (\A q \in P : q \in Int /\ j <= q) /\ P # {}
    <3>1. ASSUME NEW q \in P PROVE q \in Int /\ j <= q
      BY <1>1
    <3> QED
      BY <2>5, <3>1
  <2> HIDE DEF P
  <2>7. Least(P) \in P /\ Least(P) <= x
    BY <1>1, <2>5, <2>6, LeastIsLeast
  <2> DEFINE p == Least(P)
  <2>8. p \in Nat /\ j <= p /\ p < m /\ Cardinality({l \in j..p : ~changed[h][l]}) = c
    BY <1>1, <2>4, <2>7 DEF P
  <2> HIDE DEF p
  <2>9. Rank(T, p + 1) = Rank(T, j) + c
    BY <2>2, <2>8
  <2>10. p + 1 \in 0..m /\ 1 + p = p + 1
    BY <1>1, <2>8
  <2> QED
    BY <2>1, <2>9, <2>10 DEF p, T, m
<1> QED
  BY <1>3, <1>4

-----------------------------------------------------------------------------
(* When no call is left, what compareseq has not flagged is the same.      *)
LEMMA UnflaggedElements ==
  ASSUME ReadInv, AllListed, NEW f \in Files, DiscardedFlagged(f), Boxes = {}
  PROVE  /\ Within(Compared(f), Count(f)) /\ Count(f) \in Nat
         /\ \A k \in Compared(f) : realindexes[f][k + 1] \in Unflagged(f)
         /\ \A i \in Unflagged(f) : \E k \in Compared(f) : realindexes[f][k + 1] = i
         /\ \A j, k \in Compared(f) : j < k <=> realindexes[f][j + 1] < realindexes[f][k + 1]
<1>1. /\ Count(f) \in Nat /\ Within(Compared(f), Count(f))
  BY ElementFacts DEF ElementsKnown
<1>2. Compared(f) = Elements(f, FALSE)
  BY DEF Compared
<1>3. Listed(f) /\ Flags(f)
  BY DEF AllListed
<1>4. /\ DOMAIN realindexes[f] = 1..Count(f)
      /\ \A k \in 1..Count(f) : realindexes[f][k] \in 0..(Len(equivs[f]) - 1)
      /\ \A j, k \in 1..Count(f) : j < k <=> realindexes[f][j] < realindexes[f][k]
  BY <1>3, ListedLines DEF Count
<1>5. \A k \in Compared(f) : k \in Int /\ k + 1 \in 1..Count(f)
  BY <1>1 DEF Within
<1>6. ASSUME NEW k \in Compared(f) PROVE realindexes[f][k + 1] \in Unflagged(f)
  <2>1. changed[f][realindexes[f][k + 1]] = FALSE
    BY <1>2 DEF Elements
  <2> QED
    BY <1>4, <1>5, <2>1 DEF Unflagged, buffered_lines
<1>7. ASSUME NEW i \in Unflagged(f) PROVE \E k \in Compared(f) : realindexes[f][k + 1] = i
  <2>1. i \in 0..(Len(equivs[f]) - 1) /\ ~changed[f][i]
    BY DEF Unflagged, buffered_lines
  <2>2. i \in Kept(f)
    BY <2>1 DEF DiscardedFlagged
  <2>3. PICK k \in 1..Count(f) : realindexes[f][k] = i
    BY <1>4, <2>2 DEF Kept
  <2>4. k - 1 \in 0..(Count(f) - 1) /\ (k - 1) + 1 = k
    BY <1>1
  <2>5. changed[f][i] = FALSE
    <3>1. changed[f][i] \in BOOLEAN
      BY <1>3, <2>1 DEF Flags
    <3> QED
      BY <2>1, <3>1
  <2>6. k - 1 \in Elements(f, FALSE)
    <3>1. changed[f][realindexes[f][(k - 1) + 1]] = FALSE
      BY <2>3, <2>4, <2>5
    <3> QED
      BY <2>4, <3>1 DEF Elements, Count
  <2> QED
    BY <1>2, <2>3, <2>4, <2>6
<1>8. ASSUME NEW j \in Compared(f), NEW k \in Compared(f)
      PROVE  j < k <=> realindexes[f][j + 1] < realindexes[f][k + 1]
  <2>1. j < k <=> j + 1 < k + 1
    BY <1>5
  <2> QED
    BY <1>4, <1>5, <2>1
<1> QED
  BY <1>1, <1>6, <1>7, <1>8

ComparedAll ==
    /\ VecInv /\ CallsInv /\ AllListed /\ DOMAIN changed = Files
    /\ \A f \in Files : DiscardedFlagged(f)
    /\ stage \notin Reading /\ todo = <<>>

LEMMA ComparedSame == ReadInv /\ ComparedAll /\ Division!IInv => FlagsSame
<1> SUFFICES ASSUME ReadInv, ComparedAll, Division!IInv PROVE FlagsSame
  OBVIOUS
<1>1. Boxes = {}
  BY DEF ComparedAll, Boxes
<1>2. 0 \in Files /\ 1 \in Files /\ \A f \in Files : f = 0 \/ f = 1
  BY DEF Files
<1> DEFINE X(k) == realindexes[0][k + 1]
           Y(k) == realindexes[1][k + 1]
           S == Unflagged(0)
           T == Unflagged(1)
           m == {<<X(p[1]), Y(p[2])>> : p \in Matched}
<1>3. /\ \A k \in Compared(0) : X(k) \in S
      /\ \A i \in S : \E k \in Compared(0) : X(k) = i
      /\ \A j, k \in Compared(0) : j < k <=> X(j) < X(k)
  BY <1>1, <1>2, UnflaggedElements DEF ComparedAll
<1>4. /\ \A k \in Compared(1) : Y(k) \in T
      /\ \A i \in T : \E k \in Compared(1) : Y(k) = i
      /\ \A j, k \in Compared(1) : j < k <=> Y(j) < Y(k)
  BY <1>1, <1>2, UnflaggedElements DEF ComparedAll
<1>5. Matching(Matched, Compared(0), Compared(1))
  BY MatchingNow DEF ComparedAll
<1>6. ASSUME NEW p \in Matched PROVE equivs[0][X(p[1]) + 1] = equivs[1][Y(p[2]) + 1]
  <2>1. Vector(0)[p[1] + 1] = Vector(1)[p[2] + 1]
    BY DEF Division!IInv, Division!MatchedEqual, Division!Equal
  <2>2. p[1] + 1 \in 1..Count(0) /\ p[2] + 1 \in 1..Count(1)
    <3>1. p[1] \in Compared(0) /\ p[2] \in Compared(1)
      BY <1>5 DEF Matching
    <3>2. \A f \in Files : Within(Compared(f), Count(f)) /\ Count(f) \in Nat
      BY <1>1, UnflaggedElements DEF ComparedAll
    <3> QED
      BY <1>2, <3>1, <3>2 DEF Within
  <2>3. \A f \in Files : \A k \in 1..Count(f) : Vector(f)[k] = equivs[f][realindexes[f][k] + 1]
    BY VectorFacts DEF VectorsKnown, ComparedAll
  <2> QED
    BY <1>2, <2>1, <2>2, <2>3
<1>7. Matching(m, S, T)
  <2>0. \A p \in Matched : p[1] \in Compared(0) /\ p[2] \in Compared(1)
    BY <1>5 DEF Matching
  <2> HIDE DEF S, T, X, Y
  <2>1. \A q \in m : \E p \in Matched : q = <<X(p[1]), Y(p[2])>>
    OBVIOUS
  <2>2. \A q \in m : q[1] \in S /\ q[2] \in T
    BY <1>3, <1>4, <2>0, <2>1
  <2>3. ASSUME NEW x \in S PROVE \E y \in T : <<x, y>> \in m
    <3>1. PICK j \in Compared(0) : X(j) = x
      BY <1>3
    <3>2. PICK k \in Compared(1) : <<j, k>> \in Matched
      BY <1>5 DEF Matching
    <3>3. <<X(j), Y(k)>> \in m
      BY <3>2
    <3> QED
      BY <1>4, <3>1, <3>3
  <2>4. ASSUME NEW y \in T PROVE \E x \in S : <<x, y>> \in m
    <3>1. PICK k \in Compared(1) : Y(k) = y
      BY <1>4
    <3>2. PICK j \in Compared(0) : <<j, k>> \in Matched
      BY <1>5 DEF Matching
    <3>3. <<X(j), Y(k)>> \in m
      BY <3>2
    <3> QED
      BY <1>3, <3>1, <3>3
  <2>5. ASSUME NEW p \in m, NEW q \in m PROVE p[1] < q[1] <=> p[2] < q[2]
    <3>1. PICK a \in Matched : p = <<X(a[1]), Y(a[2])>>
      BY <2>1
    <3>2. PICK c \in Matched : q = <<X(c[1]), Y(c[2])>>
      BY <2>1
    <3>3. a[1] < c[1] <=> a[2] < c[2]
      BY <1>5 DEF Matching
    <3> QED
      BY <1>3, <1>4, <2>0, <3>1, <3>2, <3>3
  <2> QED
    BY <2>2, <2>3, <2>4, <2>5 DEF Matching
<1>8. /\ Within(S, Len(equivs[0])) /\ Within(T, Len(equivs[1]))
      /\ Len(equivs[0]) \in Nat /\ Len(equivs[1]) \in Nat
  BY <1>2, UnflaggedWithin
<1>9. \A q \in m : equivs[0][q[1] + 1] = equivs[1][q[2] + 1]
  <2>1. \A q \in m : \E p \in Matched : q = <<X(p[1]), Y(p[2])>>
    OBVIOUS
  <2> HIDE DEF m, X, Y
  <2> QED
    BY <1>6, <2>1
<1> HIDE DEF m, S, T
<1>10. /\ Cardinality(S) = Cardinality(T)
       /\ \A x \in S, y \in T : <<x, y>> \in m <=> Rank(S, x) = Rank(T, y)
  BY ONLY <1>7, <1>8, MatchingByRank
<1>11. \A x \in S, y \in T : Rank(S, x) = Rank(T, y) => equivs[0][x + 1] = equivs[1][y + 1]
  BY <1>9, <1>10
<1>12. Alike(0, 1) /\ Alike(1, 0)
  BY <1>10, <1>11 DEF Alike, S, T
<1>13. \A f \in Files : Alike(f, 1 - f)
  BY <1>2, <1>12
<1> QED
  BY <1>13 DEF FlagsSame, ComparedAll, AllListed

LEMMA ComparedLast ==
  ASSUME ComparingInv, ComparingInv', DivisionInv, SimpleCase, stage' = "scan"
  PROVE  FlagsSame'
<1>1. /\ stage \in Comparing /\ stage \notin Reading /\ stage' \notin Reading
      /\ UNCHANGED <<equivs, realindexes>> /\ todo' = <<>>
  BY SimpleSteps DEF Comparing, Reading
<1>2. DOMAIN changed' = Files
  BY DEF SimpleCase
<1>3. ASSUME NEW f \in Files PROVE Listed(f)' /\ Flags(f)' /\ DiscardedFlagged(f)'
  <2>1. Listed(f)'
    BY <1>1 DEF ComparingInv, VecInv
  <2>2. /\ Flags(f)'
        /\ \A i \in 0..(Len(equivs[f]) - 1) : changed[f][i] => changed'[f][i]
    BY FlaggedElements DEF ComparingInv
  <2>3. DiscardedFlagged(f)'
    <3>1. DiscardedFlagged(f) /\ Kept(f)' = Kept(f)
      BY <1>1 DEF ComparingInv, VecInv, Kept
    <3> QED
      BY <1>1, <2>2, <3>1 DEF DiscardedFlagged
  <2> QED
    BY <2>1, <2>2, <2>3
<1>4. ComparedAll'
  BY <1>1, <1>2, <1>3 DEF ComparedAll, AllListed, ComparingInv
<1>5. Division!IInv'
  BY <1>1, DivisionKept DEF DivisionInv, Next
<1>6. (ReadInv /\ ComparedAll /\ Division!IInv => FlagsSame)'
  BY ComparedSame, PTL
<1> QED
  BY <1>4, <1>5, <1>6 DEF ComparingInv

-----------------------------------------------------------------------------
(* What Scan finds: the next run, and the place that matches its end.      *)
LEMMA ScanFinds ==
  ASSUME ReadInv, FlagsSame, NEW g \in Files,
         NEW i \in 0..Len(equivs[g]), NEW j \in 0..Len(equivs[1 - g]),
         Rank(Unflagged(g), i) = Rank(Unflagged(1 - g), j), i = 0 \/ ~changed[g][i],
         NEW first,
         first = Least({k \in i..Len(equivs[g]) : k = Len(equivs[g]) \/ changed[g][k]}),
         first # Len(equivs[g])
  PROVE  /\ first \in Nat /\ first < After(g, first) /\ ~changed[g][first - 1]
         /\ AtRun(g, first, After(g, first), After(1 - g, Passed(1 - g, j, first - i)))
<1> DEFINE n == Len(equivs[g])
           h == 1 - g
           S == Unflagged(g)
           T == Unflagged(h)
           P == {k \in i..n : k = n \/ changed[g][k]}
           last == After(g, first)
           p == Passed(h, j, first - i)
           b == After(h, p)
<1>1. /\ n \in Nat /\ h \in Files /\ Len(equivs[h]) \in Nat
      /\ Within(S, n) /\ Within(T, Len(equivs[h]))
  <2>1. h \in Files
    BY UnflaggedWithin
  <2> QED
    BY <2>1, UnflaggedWithin
<1>2. /\ i \in Nat /\ j \in Nat /\ i <= n /\ j <= Len(equivs[h]) /\ Rank(S, i) = Rank(T, j)
      /\ i \in Int /\ j \in Int
  BY <1>1
<1>3. Flags(g) /\ Flags(h) /\ Cardinality(S) = Cardinality(T)
  BY <1>1 DEF FlagsSame, Alike
<1> HIDE DEF n
<1>4. /\ first \in i..n /\ changed[g][first] /\ first < n
      /\ \A k \in i..(first - 1) : ~changed[g][k]
  <2>1. P # {} /\ \A k \in P : k \in Int /\ i <= k
    <3>1. n \in P
      BY <1>1, <1>2
    <3> QED
      BY <3>1
  <2> HIDE DEF P
  <2>2. Least(P) \in P /\ \A k \in P : Least(P) <= k
    BY <1>2, <2>1, LeastIsLeast
  <2>3. first = Least(P) /\ first # n
    BY DEF P, n
  <2>4. first \in i..n /\ changed[g][first] /\ first < n
    <3>1. first \in P
      BY <2>2, <2>3
    <3>2. first \in i..n /\ changed[g][first]
      BY <2>3, <3>1 DEF P
    <3> QED
      BY <1>1, <1>2, <2>3, <3>2
  <2>5. ASSUME NEW k \in i..(first - 1), changed[g][k] PROVE FALSE
    <3>1. k \in i..n /\ k < first
      BY <1>1, <1>2, <2>4
    <3>2. k \in P
      BY <2>5, <3>1 DEF P
    <3> QED
      BY <1>2, <2>2, <2>3, <2>4, <3>1, <3>2
  <2> QED
    BY <2>4, <2>5
<1> HIDE DEF P
<1>5. first \in Nat /\ first \in Int /\ i <= first
  BY <1>2, <1>4
<1>6. ~changed[g][first - 1]
  <2>1. CASE first = i
    <3>1. first = 0
      BY <1>4, <2>1
    <3>2. first - 1 = -1
      BY <3>1
    <3> QED
      BY <1>3, <3>2 DEF Flags
  <2>2. CASE i < first
    <3>1. first - 1 \in i..(first - 1)
      BY <1>2, <1>5, <2>2
    <3> QED
      BY <1>4, <3>1
  <2> QED
    BY <1>2, <1>5, <2>1, <2>2
<1>7. Rank(S, first) = Rank(S, i) + (first - i)
  <2>1. CASE first = i
    <3>1. Rank(S, i) \in Nat
      BY <1>1, <1>2, RankFinite
    <3> QED
      BY <1>2, <2>1, <3>1
  <2>2. CASE i < first
    <3>1. first - 1 \in Nat /\ i <= (first - 1) + 1 /\ (first - 1) + 1 = first
      BY <1>2, <1>5, <2>2
    <3> DEFINE q == first - 1
    <3>2. Rank(S, q + 1) = Rank(S, i) + Cardinality({l \in S : i <= l /\ l <= q})
      <4> HIDE DEF q, S
      <4>1. q \in Nat /\ i <= q + 1
        BY <3>1 DEF q
      <4> QED
        BY <1>1, <1>2, <4>1, RankBetween
    <3>3. {l \in S : i <= l /\ l <= q} = i..q
      <4>1. ASSUME NEW l \in i..q PROVE l \in S
        <5>1. l \in 0..(n - 1) /\ ~changed[g][l]
          BY <1>1, <1>2, <1>4
        <5> QED
          BY <5>1 DEF Unflagged, buffered_lines, n
      <4>2. \A l \in S : l \in Int
        BY <1>1 DEF Within
      <4> HIDE DEF S
      <4> QED
        BY <1>2, <1>5, <4>1, <4>2
    <3>4. Cardinality(i..q) = q - i + 1
      BY <1>2, <3>1, FS_Interval
    <3>5. q - i + 1 = first - i
      BY <1>2, <1>5
    <3> QED
      BY <3>1, <3>2, <3>3, <3>4, <3>5
  <2> QED
    BY <1>2, <1>5, <2>1, <2>2
<1>8. first - i \in Nat /\ Rank(T, j) + (first - i) <= Cardinality(T)
  <2>1. Rank(S, first) <= Cardinality(S)
    BY <1>1, <1>5, RankFinite
  <2> QED
    BY <1>2, <1>3, <1>5, <1>7, <2>1
<1>9. p \in 0..Len(equivs[h]) /\ Rank(T, p) = Rank(S, first)
  <2>1. /\ p \in 0..Len(equivs[h]) /\ Rank(T, p) = Rank(T, j) + (first - i)
    BY <1>1, <1>8, PassedRank
  <2> QED
    BY <1>2, <1>7, <2>1
<1>10. /\ last \in first..n /\ ~changed[g][last]
       /\ \A k \in first..(last - 1) : changed[g][k]
  <2>1. first \in 0..n
    BY <1>4, <1>5
  <2> QED
    BY <1>1, <1>3, <2>1, AfterStops DEF n
<1> HIDE DEF p, S, T, h
<1>11. /\ b \in p..Len(equivs[h]) /\ ~changed[h][b]
       /\ \A k \in p..(b - 1) : changed[h][k]
  BY <1>1, <1>3, <1>9, AfterStops
<1> HIDE DEF last, b
<1>12. Rank(S, first) = Rank(S, last)
  <2>1. ASSUME NEW k \in S PROVE k < first \/ last <= k
    <3>1. k \in 0..(n - 1) /\ ~changed[g][k]
      BY DEF S, Unflagged, buffered_lines, n
    <3> QED
      BY <1>5, <1>10, <3>1
  <2>2. last \in Int /\ first <= last
    BY <1>5, <1>10
  <2> QED
    BY <1>1, <1>5, <2>1, <2>2, RankSame
<1>13. Rank(T, p) = Rank(T, b)
  <2>1. ASSUME NEW k \in T PROVE k < p \/ b <= k
    <3>1. k \in 0..(Len(equivs[h]) - 1) /\ ~changed[h][k]
      BY DEF T, Unflagged, buffered_lines
    <3> QED
      BY <1>9, <1>11, <3>1
  <2>2. b \in Int /\ p <= b /\ p \in Int
    BY <1>9, <1>11
  <2> QED
    BY <1>1, <2>1, <2>2, RankSame
<1>14. first < last
  <2>1. first # last
    BY <1>4, <1>10
  <2> QED
    BY <1>5, <1>10, <2>1
<1>15. AtRun(g, first, last, b)
  <2>1. /\ last \in Nat /\ b \in Nat /\ last <= Len(equivs[g]) /\ b <= Len(equivs[1 - g])
        /\ Rank(Unflagged(g), last) = Rank(Unflagged(1 - g), b) /\ ~changed[1 - g][b]
    BY <1>1, <1>5, <1>9, <1>10, <1>11, <1>12, <1>13 DEF n, h, S, T
  <2> QED
    BY <1>5, <1>10, <1>14, <2>1 DEF AtRun
<1> QED
  BY <1>5, <1>6, <1>14, <1>15 DEF last, b, p, h

-----------------------------------------------------------------------------
(* shift_boundaries: "i" and "j" stand at places that match, a run that is *)
(* moved is as long as it was at least; and as long as it has not grown it *)
(* can be taken back to "corresponding", over lines equal to its own.      *)
Locals == [f : Files, i : Nat, j : Nat, start : Nat, runlength : Nat, corresponding : Nat]

Tracks(g, s) ==
    s.i - s.start = s.runlength =>
        \A m \in s.corresponding..(s.i - 1) :
            /\ m - s.runlength >= 0 /\ ~changed[g][m - s.runlength]
            /\ equivs[g][(m - s.runlength) + 1] = equivs[g][m + 1]

ScanInv ==
    stage = "scan" =>
        /\ shift.i <= buffered_lines(shift.f) /\ shift.j <= buffered_lines(other)
        /\ Rank(Unflagged(shift.f), shift.i) = Rank(Unflagged(other), shift.j)
        /\ shift.i = 0 \/ ~changed[shift.f][shift.i]

RunInv ==
    /\ stage \in {"back", "forth", "return"} =>
         /\ AtRun(shift.f, shift.start, shift.i, shift.j)
         /\ shift.runlength <= shift.i - shift.start
    /\ stage \in {"back", "forth"} => ~changed[shift.f][shift.start - 1]
    /\ stage \in {"forth", "return"} => Tracks(shift.f, shift)
    /\ stage = "return" => shift.i - shift.start = shift.runlength

ShiftInv ==
    /\ stage \in Reading \cup Comparing => shift = AtFile(0)
    /\ stage \in Shifting \cup {"build", "done"} => FlagsSame
    /\ stage \in Shifting => shift \in Locals
    /\ ScanInv /\ RunInv

LEMMA FlagsSameKept ==
  ASSUME FlagsSame, UNCHANGED <<equivs, changed>>
  PROVE  FlagsSame' /\ \A f \in Files : Unflagged(f)' = Unflagged(f)
<1>1. \A f \in Files : Unflagged(f)' = Unflagged(f)
  BY DEF Unflagged, buffered_lines
<1>2. \A f \in Files : 1 - f \in Files
  BY DEF Files
<1>3. \A f \in Files : Alike(f, 1 - f)'
  BY <1>1, <1>2 DEF FlagsSame, Alike
<1>4. \A f \in Files : Flags(f)'
  BY DEF FlagsSame, Flags
<1> QED
  BY <1>1, <1>3, <1>4 DEF FlagsSame

LEMMA AtFileInv ==
  ASSUME ReadInv', FlagsSame', NEW g \in Files, shift' = AtFile(g), stage' = "scan"
  PROVE  ShiftInv'
<1>1. /\ shift' \in Locals /\ shift'.i = 0 /\ shift'.j = 0 /\ shift'.f = g
  BY DEF AtFile, Locals
<1>2. ASSUME NEW f \in Files
      PROVE  Len(equivs'[f]) \in Nat /\ Within(Unflagged(f)', Len(equivs'[f]))
  BY DEF ReadInv, Within, Unflagged, buffered_lines
<1>3. \A f \in Files : Rank(Unflagged(f)', 0) = 0
  BY <1>2, RankEnds
<1>4. g \in Files /\ 1 - g \in Files
  BY DEF Files
<1>5. Rank(Unflagged(shift.f)', shift'.i) = Rank(Unflagged(other)', shift'.j)
  BY <1>1, <1>3, <1>4 DEF other, Unflagged
<1>6. ScanInv'
  BY <1>1, <1>2, <1>4, <1>5 DEF ScanInv, buffered_lines, other, Rank
<1> QED
  BY <1>1, <1>6 DEF ShiftInv, RunInv, Shifting, Reading, Comparing

LEMMA ScanShiftInv ==
  ASSUME ReadInv, ReadInv', ShiftInv, Scan
  PROVE  ShiftInv'
<1> DEFINE g == shift.f
           first == Least({k \in shift.i..i_end : k = i_end \/ changed[g][k]})
           last == After(g, first)
<1>1. /\ FlagsSame /\ shift \in Locals /\ ScanInv /\ stage = "scan"
      /\ UNCHANGED <<equivs, changed>>
  BY DEF ShiftInv, Scan, Shifting, compared, reading
<1>2. FlagsSame'
  BY <1>1, FlagsSameKept
<1>3. CASE first = i_end /\ shift.f = 0
  <2>1. stage' = "scan" /\ shift' = AtFile(1) /\ 1 \in Files
    BY <1>3 DEF Scan, Files
  <2> QED
    BY <1>2, <2>1, AtFileInv
<1>4. CASE first = i_end /\ shift.f # 0
  <2>1. stage' = "build"
    BY <1>4 DEF Scan
  <2> QED
    BY <1>2, <2>1 DEF ShiftInv, ScanInv, RunInv, Shifting, Reading, Comparing
<1>5. CASE first # i_end
  <2>1. /\ stage' = "back"
        /\ shift' = [shift EXCEPT !.i = last, !.start = first, !.runlength = last - first,
                       !.j = After(other, Passed(other, @, first - shift.i))]
    BY <1>5 DEF Scan
  <2>2. /\ g \in Files /\ Len(equivs[g]) \in Nat /\ Len(equivs[1 - g]) \in Nat
        /\ shift.i \in 0..Len(equivs[g]) /\ shift.j \in 0..Len(equivs[1 - g])
    <3>1. g \in Files /\ shift.i \in Nat /\ shift.j \in Nat
      BY <1>1 DEF Locals
    <3>2. 1 - g \in Files /\ Len(equivs[g]) \in Nat
      BY <3>1, UnflaggedWithin
    <3>3. Len(equivs[1 - g]) \in Nat
      BY <3>2, UnflaggedWithin
    <3> QED
      BY <1>1, <3>1, <3>2, <3>3 DEF ScanInv, buffered_lines, other
  <2>3. /\ Rank(Unflagged(g), shift.i) = Rank(Unflagged(1 - g), shift.j)
        /\ shift.i = 0 \/ ~changed[g][shift.i]
        /\ first = Least({k \in shift.i..Len(equivs[g]) : k = Len(equivs[g]) \/ changed[g][k]})
        /\ first # Len(equivs[g])
    BY <1>1, <1>5 DEF ScanInv, other, i_end, buffered_lines
  <2> DEFINE b == After(1 - g, Passed(1 - g, shift.j, first - shift.i))
  <2>4. /\ first \in Nat /\ first < last /\ ~changed[g][first - 1]
        /\ AtRun(g, first, last, b)
    <3> HIDE DEF first, g
    <3> QED
      BY ONLY ReadInv, <1>1, <2>2, <2>3, ScanFinds DEF last, b
  <2>5. /\ shift'.f = g /\ shift'.i = last /\ shift'.start = first
        /\ shift'.runlength = last - first /\ shift'.j = b /\ shift' \in Locals
    <3>1. PICK l : l = last - first
      OBVIOUS
    <3>2. last \in Nat /\ b \in Nat /\ l \in Nat
      BY SMTT(30), <2>4, <3>1 DEF AtRun
    <3>3. shift' = [shift EXCEPT !.i = last, !.start = first, !.runlength = l, !.j = b]
      BY <2>1, <3>1 DEF b, other
    <3> HIDE DEF first, last, b
    <3>4. shift \in [f : Files, i : Nat, j : Nat, start : Nat, runlength : Nat,
                     corresponding : Nat]
      BY <1>1 DEF Locals
    <3>5. /\ shift'.f = g /\ shift'.i = last /\ shift'.start = first
          /\ shift'.runlength = l /\ shift'.j = b
      BY <3>3, <3>4
    <3>6. shift' \in Locals
      BY <2>4, <3>2, <3>3, <3>4 DEF Locals
    <3> QED
      BY <3>1, <3>5, <3>6
  <2>6. AtRun(shift.f, shift.start, shift.i, shift.j)'
    <3> HIDE DEF first, last, b, g
    <3> QED
      BY <1>1, <2>4, <2>5 DEF AtRun, Unflagged, buffered_lines
  <2>7. /\ shift'.runlength <= shift'.i - shift'.start
        /\ ~changed'[shift'.f][shift'.start - 1]
    <3>1. last \in Int
      BY <2>4 DEF AtRun
    <3> HIDE DEF first, last, b, g
    <3> QED
      BY <1>1, <2>4, <2>5, <3>1
  <2> HIDE DEF first, last, b, g
  <2> QED
    BY <1>2, <2>1, <2>5, <2>6, <2>7
    DEF ShiftInv, ScanInv, RunInv, Shifting, Reading, Comparing
<1> QED
  BY <1>3, <1>4, <1>5

LEMMA RunKept ==
  ASSUME FlagsSame, UNCHANGED <<equivs, changed>>, NEW g \in Files,
         NEW start, NEW i, NEW j, AtRun(g, start, i, j)
  PROVE  AtRun(g, start, i, j)'
<1>1. /\ Unflagged(g)' = Unflagged(g) /\ Unflagged(1 - g)' = Unflagged(1 - g)
  BY FlagsSameKept DEF Files
<1> QED
  BY <1>1 DEF AtRun

LEMMA LocalsTypes ==
  ASSUME NEW s \in Locals
  PROVE  /\ s.f \in Files /\ s.i \in Nat /\ s.j \in Nat /\ s.start \in Nat
         /\ s.runlength \in Nat /\ s.corresponding \in Nat
         /\ s \in [f : Files, i : Nat, j : Nat, start : Nat, runlength : Nat,
                   corresponding : Nat]
  BY DEF Locals

LEMMA RunOfShift ==
  ASSUME NEW g, NEW start, NEW i, NEW j, AtRun(g, start, i, j)',
         shift'.f = g, shift'.start = start, shift'.i = i, shift'.j = j
  PROVE  AtRun(shift.f, shift.start, shift.i, shift.j)'
  BY DEF AtRun, Unflagged, buffered_lines

LEMMA ShiftBackInv ==
  ASSUME ReadInv, ShiftInv, ShiftBack
  PROVE  ShiftInv'
<1>0. PICK s : s = shift
  OBVIOUS
<1>1. /\ FlagsSame /\ s \in Locals /\ stage = "back" /\ equivs' = equivs
      /\ AtRun(s.f, s.start, s.i, s.j) /\ ~changed[s.f][s.start - 1]
      /\ s.runlength <= s.i - s.start
  BY <1>0 DEF ShiftInv, RunInv, ShiftBack, Shifting, compared, reading
<1>2. /\ s.f \in Files /\ s.i \in Nat /\ s.j \in Nat /\ s.start \in Nat
      /\ s.runlength \in Nat
      /\ s \in [f : Files, i : Nat, j : Nat, start : Nat, runlength : Nat,
                corresponding : Nat]
  BY <1>1, LocalsTypes
<1>3. CASE shift.start > 0 /\ Line(shift.start - 1) = Line(shift.i - 1)
  <2>1. PICK from : from = Before(s.f, s.start - 1) + 1
    OBVIOUS
  <2>2. PICK b : b = Before(1 - s.f, s.j)
    OBVIOUS
  <2>3. /\ stage' = "back"
        /\ changed' = [changed EXCEPT ![s.f][s.start - 1] = TRUE, ![s.f][s.i - 1] = FALSE]
        /\ shift' = [s EXCEPT !.start = from, !.i = s.i - 1, !.j = b]
    BY <1>0, <1>1, <1>3, <2>1, <2>2 DEF ShiftBack, MoveUp, other
  <2>4. /\ from \in Nat /\ from < s.start /\ ~changed[s.f][from - 1]
        /\ \A k \in from..(s.start - 2) : changed[s.f][k]
    <3>1. /\ Len(equivs[s.f]) \in Nat /\ Flags(s.f)
          /\ s.start - 1 \in 0..(Len(equivs[s.f]) + 1)
      <4>1. Len(equivs[s.f]) \in Nat /\ Flags(s.f)
        BY <1>1, <1>2 DEF ReadInv, FlagsSame
      <4>2. s.start < s.i /\ s.i <= Len(equivs[s.f])
        BY <1>1 DEF AtRun
      <4>3. s.start > 0
        BY <1>0, <1>3
      <4> QED
        BY <1>2, <4>1, <4>2, <4>3
    <3> DEFINE k == s.start - 1
               g == s.f
    <3>2. /\ Before(g, k) \in -1..(k - 1) /\ ~changed[g][Before(g, k)]
          /\ \A m \in (Before(g, k) + 1)..(k - 1) : changed[g][m]
      <4>1. g \in Files
        BY <1>2
      <4> HIDE DEF k, g
      <4> QED
        BY <3>1, <4>1, BeforeStops DEF k, g
    <3>3. from - 1 = Before(g, k) /\ k - 1 = s.start - 2
      BY <1>2, <2>1, <3>2
    <3> QED
      BY <1>2, <2>1, <3>2, <3>3
  <2>5. equivs[s.f][s.start] = equivs[s.f][s.i]
    <3>1. (s.start - 1) + 1 = s.start /\ (s.i - 1) + 1 = s.i
      BY <1>2
    <3> QED
      BY <1>0, <1>3, <3>1 DEF Line
  <2>6. /\ FlagsSame' /\ AtRun(s.f, from, s.i - 1, b)'
        /\ \A k \in -1..(s.start - 2) : changed'[s.f][k] = changed[s.f][k]
    <3>1. s.start > 0
      BY <1>0, <1>3
    <3> QED
      BY <1>1, <1>2, <2>2, <2>3, <2>4, <2>5, <3>1, RunUp
  <2>7. ~changed'[s.f][from - 1]
    <3>1. from - 1 \in -1..(s.start - 2)
      BY <1>2, <2>4
    <3> QED
      BY <2>4, <2>6, <3>1
  <2>8. /\ shift'.f = s.f /\ shift'.start = from /\ shift'.i = s.i - 1 /\ shift'.j = b
        /\ shift'.runlength = s.runlength /\ shift' \in Locals
    <3>1. s.i - 1 \in Nat /\ b \in Nat
      BY <2>6 DEF AtRun
    <3> QED
      BY <1>2, <2>3, <2>4, <3>1 DEF Locals
  <2>9. s.runlength <= (s.i - 1) - from
    BY <1>1, <1>2, <2>4
  <2>10. AtRun(shift.f, shift.start, shift.i, shift.j)'
    BY <2>6, <2>8, RunOfShift
  <2> QED
    BY <2>3, <2>6, <2>7, <2>8, <2>9, <2>10
    DEF ShiftInv, ScanInv, RunInv, Shifting, Reading, Comparing
<1>4. CASE ~(shift.start > 0 /\ Line(shift.start - 1) = Line(shift.i - 1))
  <2>1. PICK c : c = IF changed[other][shift.j - 1] THEN shift.i ELSE i_end
    OBVIOUS
  <2>2. /\ stage' = "forth" /\ changed' = changed
        /\ shift' = [s EXCEPT !.corresponding = c]
    BY <1>0, <1>1, <1>4, <2>1 DEF ShiftBack
  <2>3. c \in Nat /\ c >= s.i
    BY <1>0, <1>1, <1>2, <2>1 DEF i_end, buffered_lines, AtRun, ReadInv
  <2>4. /\ shift'.f = s.f /\ shift'.start = s.start /\ shift'.i = s.i
        /\ shift'.j = s.j /\ shift'.runlength = s.runlength
        /\ shift'.corresponding = c /\ shift' \in Locals
    BY <1>2, <2>2, <2>3 DEF Locals
  <2>5. FlagsSame' /\ AtRun(s.f, s.start, s.i, s.j)'
    BY <1>1, <1>2, <2>2, RunKept, FlagsSameKept
  <2>6. AtRun(shift.f, shift.start, shift.i, shift.j)'
    BY <2>4, <2>5, RunOfShift
  <2>7. Tracks(shift.f, shift)'
    <3>1. shift'.corresponding..(shift'.i - 1) = {}
      BY <1>2, <2>3, <2>4
    <3> QED
      BY <3>1 DEF Tracks
  <2> QED
    BY <1>1, <2>2, <2>4, <2>5, <2>6, <2>7
    DEF ShiftInv, ScanInv, RunInv, Shifting, Reading, Comparing
<1> QED
  BY <1>3, <1>4

LEMMA ShiftForthInv ==
  ASSUME ReadInv, ShiftInv, ShiftForth
  PROVE  ShiftInv'
<1>0. PICK s : s = shift
  OBVIOUS
<1>1. /\ FlagsSame /\ s \in Locals /\ stage = "forth" /\ equivs' = equivs
      /\ AtRun(s.f, s.start, s.i, s.j) /\ ~changed[s.f][s.start - 1]
      /\ s.runlength <= s.i - s.start /\ Tracks(s.f, s)
  BY <1>0 DEF ShiftInv, RunInv, ShiftForth, Shifting, compared, reading
<1>2. /\ s.f \in Files /\ s.i \in Nat /\ s.j \in Nat /\ s.start \in Nat
      /\ s.runlength \in Nat /\ s.corresponding \in Nat
      /\ s \in [f : Files, i : Nat, j : Nat, start : Nat, runlength : Nat,
                corresponding : Nat]
  BY <1>1, LocalsTypes
<1>3. CASE /\ shift.i # i_end /\ Line(shift.start) = Line(shift.i)
           /\ MoveDown /\ UNCHANGED stage
  <2>1. PICK to : to = After(s.f, s.i + 1)
    OBVIOUS
  <2>2. PICK b : b = After(1 - s.f, s.j + 1)
    OBVIOUS
  <2>3. PICK c : c = IF b > s.j + 1 THEN to ELSE s.corresponding
    OBVIOUS
  <2>4. /\ stage' = "forth"
        /\ changed' = [changed EXCEPT ![s.f][s.start] = FALSE, ![s.f][s.i] = TRUE]
        /\ shift' = [s EXCEPT !.start = s.start + 1, !.i = to, !.j = b, !.corresponding = c]
    BY <1>0, <1>1, <1>3, <2>1, <2>2, <2>3 DEF MoveDown, other
  <2>5. s.i # Len(equivs[s.f]) /\ equivs[s.f][s.start + 1] = equivs[s.f][s.i + 1]
    BY <1>0, <1>3 DEF Line, i_end, buffered_lines
  <2>6. /\ FlagsSame' /\ AtRun(s.f, s.start + 1, to, b)' /\ ~changed'[s.f][s.start]
        /\ s.i + 1 <= to
        /\ \A k \in -1..(s.start - 1) : changed'[s.f][k] = changed[s.f][k]
    BY <1>1, <1>2, <2>1, <2>2, <2>4, <2>5, RunDown
  <2>7. /\ to \in Nat /\ b \in Nat /\ c \in Nat /\ s.start < s.i
    BY <1>1, <1>2, <2>3, <2>6 DEF AtRun
  <2>8. /\ shift'.f = s.f /\ shift'.start = s.start + 1 /\ shift'.i = to /\ shift'.j = b
        /\ shift'.runlength = s.runlength /\ shift'.corresponding = c /\ shift' \in Locals
    <3>1. PICK a : a = s.start + 1
      OBVIOUS
    <3>2. a \in Nat
      BY <1>2, <3>1
    <3>3. shift' = [s EXCEPT !.start = a, !.i = to, !.j = b, !.corresponding = c]
      BY <2>4, <3>1
    <3>4. /\ shift'.f = s.f /\ shift'.start = a /\ shift'.i = to /\ shift'.j = b
          /\ shift'.runlength = s.runlength /\ shift'.corresponding = c
      BY <1>2, <3>3
    <3>5. shift' \in Locals
      BY <1>2, <2>7, <3>2, <3>3 DEF Locals
    <3> QED
      BY <3>1, <3>4, <3>5
  <2>9. s.runlength <= to - (s.start + 1)
    BY <1>1, <1>2, <2>6, <2>7
  <2>10. AtRun(shift.f, shift.start, shift.i, shift.j)'
    BY <2>6, <2>8, RunOfShift
  <2>11. ASSUME to - (s.start + 1) = s.runlength, NEW m \in c..(to - 1)
         PROVE  /\ m - s.runlength >= 0 /\ ~changed'[s.f][m - s.runlength]
                /\ equivs[s.f][(m - s.runlength) + 1] = equivs[s.f][m + 1]
    <3>1. to = s.i + 1 /\ s.i - s.start = s.runlength
      BY <1>1, <1>2, <2>6, <2>7, <2>11
    <3>2. c = s.corresponding
      <4>1. c # to
        BY <2>7, <2>11
      <4> QED
        BY <2>3, <4>1
    <3>3. CASE m = s.i
      <4>1. m - s.runlength = s.start
        BY <1>2, <3>1, <3>3
      <4> QED
        BY <1>2, <2>5, <2>6, <3>3, <4>1
    <3>4. CASE m # s.i
      <4>1. m \in s.corresponding..(s.i - 1)
        BY <1>2, <2>7, <2>11, <3>1, <3>2, <3>4
      <4>2. /\ m - s.runlength >= 0 /\ ~changed[s.f][m - s.runlength]
            /\ equivs[s.f][(m - s.runlength) + 1] = equivs[s.f][m + 1]
        BY <1>1, <3>1, <4>1 DEF Tracks
      <4>3. m - s.runlength \in -1..(s.start - 1)
        BY <1>2, <3>1, <4>1, <4>2
      <4> QED
        BY <2>6, <4>2, <4>3
    <3> QED
      BY <3>3, <3>4
  <2>12. Tracks(shift.f, shift)'
    BY <1>1, <2>8, <2>11 DEF Tracks
  <2>13. ~changed'[shift'.f][shift'.start - 1]
    <3>1. (s.start + 1) - 1 = s.start
      BY <1>2
    <3> QED
      BY <2>6, <2>8, <3>1
  <2>14. shift'.runlength <= shift'.i - shift'.start
    BY <2>8, <2>9
  <2> QED
    BY <2>4, <2>6, <2>8, <2>10, <2>12, <2>13, <2>14
    DEF ShiftInv, ScanInv, RunInv, Shifting, Reading, Comparing
<1>4. CASE /\ stage' = IF shift.runlength # shift.i - shift.start THEN "back" ELSE "return"
           /\ shift' = [shift EXCEPT !.runlength = shift.i - shift.start]
           /\ UNCHANGED changed
  <2>1. s.i - s.start \in Nat
    BY <1>1, <1>2 DEF AtRun
  <2>2. /\ shift'.f = s.f /\ shift'.start = s.start /\ shift'.i = s.i
        /\ shift'.j = s.j /\ shift'.runlength = s.i - s.start
        /\ shift'.corresponding = s.corresponding /\ shift' \in Locals
    BY <1>0, <1>2, <1>4, <2>1 DEF Locals
  <2>3. FlagsSame' /\ AtRun(s.f, s.start, s.i, s.j)'
    BY <1>1, <1>2, <1>4, RunKept, FlagsSameKept
  <2>4. AtRun(shift.f, shift.start, shift.i, shift.j)'
    BY <2>2, <2>3, RunOfShift
  <2>5. shift'.runlength <= shift'.i - shift'.start /\ shift'.i - shift'.start = shift'.runlength
    BY <2>1, <2>2
  <2>6. ~changed'[shift'.f][shift'.start - 1]
    BY <1>1, <1>4, <2>2
  <2>7. CASE s.runlength # s.i - s.start
    <3>1. stage' = "back"
      BY <1>0, <1>4, <2>7
    <3> QED
      BY <2>2, <2>3, <2>4, <2>5, <2>6, <3>1
      DEF ShiftInv, ScanInv, RunInv, Shifting, Reading, Comparing
  <2>8. CASE s.runlength = s.i - s.start
    <3>1. stage' = "return"
      BY <1>0, <1>4, <2>8
    <3>2. shift' = s
      BY <1>0, <1>2, <1>4, <2>8
    <3>3. Tracks(shift.f, shift)'
      BY <1>1, <1>4, <3>2 DEF Tracks
    <3> QED
      BY <2>2, <2>3, <2>4, <2>5, <3>1, <3>3
      DEF ShiftInv, ScanInv, RunInv, Shifting, Reading, Comparing
  <2> QED
    BY <2>7, <2>8
<1> QED
  BY <1>3, <1>4 DEF ShiftForth

LEMMA ReturnInv ==
  ASSUME ReadInv, ShiftInv, ReturnToCorresponding
  PROVE  ShiftInv'
<1>0. PICK s : s = shift
  OBVIOUS
<1>1. /\ FlagsSame /\ s \in Locals /\ stage = "return" /\ equivs' = equivs
      /\ AtRun(s.f, s.start, s.i, s.j) /\ s.i - s.start = s.runlength /\ Tracks(s.f, s)
  BY <1>0 DEF ShiftInv, RunInv, ReturnToCorresponding, Shifting, compared, reading
<1>2. /\ s.f \in Files /\ s.i \in Nat /\ s.j \in Nat /\ s.start \in Nat
      /\ s.runlength \in Nat /\ s.corresponding \in Nat
      /\ s \in [f : Files, i : Nat, j : Nat, start : Nat, runlength : Nat,
                corresponding : Nat]
  BY <1>1, LocalsTypes
<1>3. CASE s.corresponding < s.i
  <2>1. PICK b : b = Before(1 - s.f, s.j)
    OBVIOUS
  <2>2. /\ stage' = "return"
        /\ changed' = [changed EXCEPT ![s.f][s.start - 1] = TRUE, ![s.f][s.i - 1] = FALSE]
        /\ shift' = [s EXCEPT !.start = s.start - 1, !.i = s.i - 1, !.j = b]
    BY <1>0, <1>1, <1>3, <2>1 DEF ReturnToCorresponding, other
  <2>3. /\ s.start > 0 /\ ~changed[s.f][s.start - 1]
        /\ equivs[s.f][s.start] = equivs[s.f][s.i]
    <3>1. s.i - 1 \in s.corresponding..(s.i - 1)
      BY <1>2, <1>3
    <3>2. /\ (s.i - 1) - s.runlength = s.start - 1 /\ (s.start - 1) + 1 = s.start
          /\ (s.i - 1) + 1 = s.i
      BY <1>1, <1>2
    <3> DEFINE m == s.i - 1
    <3>3. /\ m - s.runlength >= 0 /\ ~changed[s.f][m - s.runlength]
          /\ equivs[s.f][(m - s.runlength) + 1] = equivs[s.f][m + 1]
      <4> HIDE DEF m
      <4> QED
        BY <1>1, <3>1 DEF Tracks, m
    <3> QED
      BY <1>2, <3>2, <3>3
  <2>4. s.start - 1 \in Nat /\ s.start - 1 < s.start /\ (s.start - 1)..(s.start - 2) = {}
    BY <1>2, <2>3
  <2>5. PICK from : from = s.start - 1
    OBVIOUS
  <2>6. /\ FlagsSame' /\ AtRun(s.f, from, s.i - 1, b)'
        /\ \A k \in -1..(s.start - 2) : changed'[s.f][k] = changed[s.f][k]
    <3>1. \A k \in from..(s.start - 2) : changed[s.f][k]
      BY <2>4, <2>5
    <3> QED
      BY <1>1, <1>2, <2>1, <2>2, <2>3, <2>4, <2>5, <3>1, RunUp
  <2>7. s.i - 1 \in Nat /\ b \in Nat
    BY <2>6 DEF AtRun
  <2>8. /\ shift'.f = s.f /\ shift'.start = from /\ shift'.i = s.i - 1 /\ shift'.j = b
        /\ shift'.runlength = s.runlength /\ shift'.corresponding = s.corresponding
        /\ shift' \in Locals
    BY <1>2, <2>2, <2>4, <2>5, <2>7 DEF Locals
  <2>9. (s.i - 1) - from = s.runlength
    BY <1>1, <1>2, <2>5
  <2>10. AtRun(shift.f, shift.start, shift.i, shift.j)'
    BY <2>6, <2>8, RunOfShift
  <2>11. ASSUME NEW m \in s.corresponding..((s.i - 1) - 1)
         PROVE  /\ m - s.runlength >= 0 /\ ~changed'[s.f][m - s.runlength]
                /\ equivs[s.f][(m - s.runlength) + 1] = equivs[s.f][m + 1]
    <3>1. m \in s.corresponding..(s.i - 1)
      BY <1>2
    <3>2. /\ m - s.runlength >= 0 /\ ~changed[s.f][m - s.runlength]
          /\ equivs[s.f][(m - s.runlength) + 1] = equivs[s.f][m + 1]
      BY <1>1, <3>1 DEF Tracks
    <3>3. m - s.runlength \in -1..(s.start - 2)
      BY <1>1, <1>2, <3>2
    <3> QED
      BY <2>6, <3>2, <3>3
  <2>12. Tracks(shift.f, shift)'
    BY <1>1, <2>8, <2>11 DEF Tracks
  <2>13. /\ shift'.i - shift'.start = shift'.runlength
         /\ shift'.runlength <= shift'.i - shift'.start
    BY <1>2, <2>8, <2>9
  <2> QED
    BY <2>2, <2>6, <2>8, <2>10, <2>12, <2>13
    DEF ShiftInv, ScanInv, RunInv, Shifting, Reading, Comparing
<1>4. CASE ~(s.corresponding < s.i)
  <2>1. stage' = "scan" /\ UNCHANGED <<equivs, changed, shift>>
    BY <1>0, <1>1, <1>4 DEF ReturnToCorresponding
  <2>2. FlagsSame' /\ AtRun(s.f, s.start, s.i, s.j)'
    BY <1>1, <1>2, <2>1, RunKept, FlagsSameKept
  <2>3. AtRun(shift.f, shift.start, shift.i, shift.j)'
    BY <1>0, <2>1, <2>2, RunOfShift
  <2>4. ScanInv'
    BY <2>3 DEF ScanInv, AtRun, other, buffered_lines
  <2> QED
    BY <1>0, <1>1, <2>1, <2>2, <2>4 DEF ShiftInv, RunInv, Shifting, Reading, Comparing
<1> QED
  BY <1>3, <1>4

LEMMA ShiftInvNext ==
  ComparingInv /\ ComparingInv' /\ DivisionInv /\ ShiftInv /\ [Next]_vars => ShiftInv'
<1> SUFFICES ASSUME ComparingInv, ComparingInv', DivisionInv, ShiftInv, [Next]_vars
             PROVE  ShiftInv'
  OBVIOUS
<1>0. ReadInv /\ ReadInv'
  BY DEF ComparingInv
<1>1. CASE stage' \in Reading \cup Comparing /\ stage \in Reading \cup Comparing /\ shift' = shift
  BY <1>1 DEF ShiftInv, ScanInv, RunInv, Reading, Comparing, Shifting, AtFile
<1>2. CASE ReadStep
  BY <1>1, <1>2, ReadSteps DEF Reading
<1>3. CASE Discard
  BY <1>1, <1>3 DEF Discard, Reading, Comparing
<1>4. CASE SearchStep
  BY <1>1, <1>4, SearchSteps
<1>5. CASE SimpleCase
  <2>1. stage \in Comparing /\ shift' = shift
    BY <1>5, SimpleSteps
  <2>2. CASE stage' = "slide"
    BY <1>1, <2>1, <2>2 DEF Comparing
  <2>3. CASE stage' = "scan"
    <3>1. FlagsSame'
      BY <1>5, <2>3, ComparedLast
    <3>2. shift' = AtFile(0) /\ 0 \in Files
      BY <2>1 DEF ShiftInv, Files
    <3> QED
      BY <1>0, <2>3, <3>1, <3>2, AtFileInv
  <2> QED
    BY <1>5, <2>2, <2>3, SimpleSteps
<1>6. CASE ShiftStep
  <2>1. CASE BuildScript
    <3>1. FlagsSame /\ UNCHANGED <<equivs, changed>> /\ stage' = "done"
      BY <2>1 DEF BuildScript, ShiftInv, compared, reading
    <3> QED
      BY <3>1, FlagsSameKept
      DEF ShiftInv, ScanInv, RunInv, Reading, Comparing, Shifting
  <2> QED
    BY <1>0, <1>6, <2>1, ScanShiftInv, ShiftBackInv, ShiftForthInv, ReturnInv DEF ShiftStep
<1>7. CASE UNCHANGED vars
  <2>1. UNCHANGED <<stage, equivs, changed, shift>>
    BY <1>7 DEF vars
  <2>2. FlagsSame => FlagsSame' /\ \A f \in Files : Unflagged(f)' = Unflagged(f)
    BY <2>1, FlagsSameKept
  <2> QED
    BY <2>1, <2>2 DEF ShiftInv, ScanInv, RunInv, AtRun, Tracks, Unflagged, buffered_lines, other
<1> QED
  BY <1>2, <1>3, <1>4, <1>5, <1>6, <1>7, Steps

LEMMA ShiftInvariant == Spec => []ComparingInv /\ []ShiftInv
<1>1. Init => ShiftInv /\ DivisionInv
  BY DEF Init, ShiftInv, ScanInv, RunInv, Shifting, Reading, Comparing, DivisionInv
<1>2. Spec => []ComparingInv /\ []DivisionInv
  BY <1>1, ComparingInvariant, DivisionInvNext, PTL DEF Spec
<1> QED
  BY <1>1, <1>2, ShiftInvNext, PTL DEF Spec

LEMMA UnchangedListed ==
  ASSUME ReadInv, NEW f \in Files
  PROVE  /\ Unchanged(f) = InOrder(Unflagged(f))
         /\ Unchanged(f) \in Seq(Unflagged(f))
         /\ Len(Unchanged(f)) = Cardinality(Unflagged(f))
         /\ DOMAIN Unchanged(f) = 1..Cardinality(Unflagged(f))
         /\ Cardinality(Unflagged(f)) \in Nat
         /\ \A k \in 1..Cardinality(Unflagged(f)) :
              /\ Unchanged(f)[k] \in Unflagged(f)
              /\ Rank(Unflagged(f), Unchanged(f)[k]) = k - 1
<1> DEFINE S == Unflagged(f)
<1>1. Within(S, Len(equivs[f])) /\ Len(equivs[f]) \in Nat
  BY UnflaggedWithin
<1>2. Unchanged(f) = InOrder(S)
  BY DEF Unchanged, Unflagged
<1> HIDE DEF S
<1>3. /\ InOrder(S) \in Seq(S) /\ Len(InOrder(S)) = Cardinality(S)
      /\ \A k \in 1..Cardinality(S) : InOrder(S)[k] \in S /\ Rank(S, InOrder(S)[k]) = k - 1
  BY <1>1, InOrderListed
<1>4. DOMAIN InOrder(S) = 1..Cardinality(S) /\ Cardinality(S) \in Nat
  BY <1>3
<1> QED
  BY <1>2, <1>3, <1>4 DEF S

(* The lines that diff reports as common are common, in the same order,    *)
(* and shift_boundaries moves a run between places that match: for files   *)
(* of any length, whatever was discarded and whatever diag gave up.        *)
THEOREM WhatIsLeftMatches == Spec => []FlagsMatch
<1>1. ComparingInv /\ ShiftInv => FlagsMatch
  <2> SUFFICES ASSUME ComparingInv, ShiftInv PROVE FlagsMatch
    OBVIOUS
  <2> DEFINE rest == [f \in Files |-> Unchanged(f)]
             Rest(f) == [k \in DOMAIN rest[f] |-> equivs[f][rest[f][k] + 1]]
             Unmoved(f, lim) == Cardinality({k \in 0..(lim - 1) : ~changed[f][k]})
  <2>0. ReadInv
    BY DEF ComparingInv
  <2>1. ASSUME stage \in Shifting \cup {"build", "done"} PROVE Rest(0) = Rest(1)
    <3>1. FlagsSame
      BY <2>1 DEF ShiftInv
    <3>2. 0 \in Files /\ 1 \in Files /\ 1 - 0 = 1
      BY DEF Files
    <3>3. Alike(0, 1)
      BY <3>1, <3>2 DEF FlagsSame
    <3> DEFINE S == Unflagged(0)
               T == Unflagged(1)
    <3>4. /\ DOMAIN Unchanged(0) = 1..Cardinality(S)
          /\ \A k \in 1..Cardinality(S) : /\ Unchanged(0)[k] \in S
                                          /\ Rank(S, Unchanged(0)[k]) = k - 1
      BY <2>0, <3>2, UnchangedListed
    <3>5. /\ DOMAIN Unchanged(1) = 1..Cardinality(T)
          /\ \A k \in 1..Cardinality(T) : /\ Unchanged(1)[k] \in T
                                          /\ Rank(T, Unchanged(1)[k]) = k - 1
      BY <2>0, <3>2, UnchangedListed
    <3>6. /\ Cardinality(S) = Cardinality(T)
          /\ \A x \in S, y \in T : Rank(S, x) = Rank(T, y) => equivs[0][x + 1] = equivs[1][y + 1]
      BY <3>3 DEF Alike
    <3> HIDE DEF S, T
    <3>7. /\ DOMAIN Unchanged(0) = DOMAIN Unchanged(1)
          /\ \A k \in DOMAIN Unchanged(0) :
               equivs[0][Unchanged(0)[k] + 1] = equivs[1][Unchanged(1)[k] + 1]
      <4>1. ASSUME NEW k \in 1..Cardinality(S)
            PROVE  equivs[0][Unchanged(0)[k] + 1] = equivs[1][Unchanged(1)[k] + 1]
        <5>1. /\ Unchanged(0)[k] \in S /\ Unchanged(1)[k] \in T
              /\ Rank(S, Unchanged(0)[k]) = Rank(T, Unchanged(1)[k])
          BY <3>4, <3>5, <3>6
        <5> QED
          BY <3>6, <5>1
      <4> QED
        BY <3>4, <3>5, <3>6, <4>1
    <3>8. rest[0] = Unchanged(0) /\ rest[1] = Unchanged(1)
      BY <3>2
    <3> HIDE DEF rest
    <3> QED
      BY <3>7, <3>8
  <2>2. ASSUME stage \in {"back", "forth", "return"}
        PROVE  /\ shift.j \in 0..buffered_lines(other) /\ ~changed[other][shift.j]
               /\ Unmoved(shift.f, shift.i) = Unmoved(other, shift.j)
    <3>1. AtRun(shift.f, shift.start, shift.i, shift.j) /\ shift \in Locals
      BY <2>2 DEF ShiftInv, RunInv, Shifting
    <3>2. shift.f \in Files /\ other \in Files /\ other = 1 - shift.f
      BY <3>1, LocalsTypes DEF other, Files
    <3>3. ASSUME NEW f \in Files, NEW lim \in Nat, lim <= Len(equivs[f])
          PROVE  Unmoved(f, lim) = Rank(Unflagged(f), lim)
      <4>1. Len(equivs[f]) \in Nat
        BY <2>0 DEF ReadInv
      <4>2. {k \in 0..(lim - 1) : ~changed[f][k]} = {y \in Unflagged(f) : y < lim}
        BY <3>3, <4>1 DEF Unflagged, buffered_lines
      <4> QED
        BY <4>2 DEF Rank
    <3>4. /\ shift.i \in Nat /\ shift.j \in Nat /\ shift.i <= Len(equivs[shift.f])
          /\ shift.j <= Len(equivs[other]) /\ ~changed[other][shift.j]
          /\ Rank(Unflagged(shift.f), shift.i) = Rank(Unflagged(other), shift.j)
      BY <3>1, <3>2 DEF AtRun
    <3>5. shift.j \in 0..buffered_lines(other)
      BY <2>0, <3>2, <3>4 DEF ReadInv, buffered_lines
    <3> HIDE DEF Unmoved
    <3> QED
      BY <3>2, <3>3, <3>4, <3>5
  <2> QED
    BY <2>1, <2>2 DEF FlagsMatch
<1> QED
  BY <1>1, ShiftInvariant, PTL

-----------------------------------------------------------------------------
(* The stages, and what build_script returns.                              *)
StageInv == stage \in Reading \cup Comparing \cup Shifting \cup {"build", "done"}

ScriptInv == \A k \in DOMAIN script : script[k].deleted + script[k].inserted > 0

LEMMA StageInvNext == StageInv /\ [Next]_vars => StageInv'
<1> SUFFICES ASSUME StageInv, [Next]_vars PROVE StageInv'
  OBVIOUS
<1>1. CASE ReadStep \/ SearchStep \/ ShiftStep
  BY <1>1, ReadSteps, SearchSteps, ShiftSteps DEF StageInv
<1>2. CASE Discard
  BY <1>2 DEF Discard, StageInv, Comparing
<1>3. CASE SimpleCase
  <2>1. stage' = "scan" \/ stage' = "slide"
    BY <1>3, SimpleSteps
  <2> QED
    BY <2>1 DEF StageInv, Comparing, Shifting
<1>4. CASE UNCHANGED vars
  BY <1>4 DEF vars, StageInv
<1> QED
  BY <1>1, <1>2, <1>3, <1>4, Steps

LEMMA ScriptInvNext == ReadInv /\ ScriptInv /\ [Next]_vars => ScriptInv'
<1> SUFFICES ASSUME ReadInv, ScriptInv, [Next]_vars PROVE ScriptInv'
  OBVIOUS
<1>1. CASE BuildScript
  <2> DEFINE stops == [f \in Files |-> <<-1>> \o Unchanged(f) \o <<buffered_lines(f)>>]
  <2>1. PICK stop \in {stops} :
          LET Between(k) == Change(stop[0][k] + 1, stop[1][k] + 1,
                                   stop[0][k + 1] - stop[0][k] - 1,
                                   stop[1][k + 1] - stop[1][k] - 1)
          IN  \E changes \in {InOrder({k \in 1..(Len(stop[0]) - 1) :
                                     Between(k).deleted + Between(k).inserted > 0})} :
                 script' = [n \in DOMAIN changes |-> Between(changes[n])]
    BY <1>1 DEF BuildScript
  <2> DEFINE Between(k) == Change(stop[0][k] + 1, stop[1][k] + 1,
                                  stop[0][k + 1] - stop[0][k] - 1,
                                  stop[1][k + 1] - stop[1][k] - 1)
             S == {k \in 1..(Len(stop[0]) - 1) : Between(k).deleted + Between(k).inserted > 0}
  <2>2. script' = [n \in DOMAIN InOrder(S) |-> Between(InOrder(S)[n])]
    BY <2>1
  <2>3. Len(stop[0]) \in Nat
    <3>1. 0 \in Files
      BY DEF Files
    <3>2. stop[0] = <<-1>> \o Unchanged(0) \o <<buffered_lines(0)>>
      BY <2>1, <3>1
    <3>3. Unchanged(0) \in Seq(Unflagged(0))
      BY <3>1, UnchangedListed
    <3>4. Len(Unchanged(0)) \in Nat
      BY <3>3
    <3>5. Unchanged(0) \in Seq(Int) /\ buffered_lines(0) \in Int
      <4>1. Unflagged(0) \subseteq Int
        BY DEF Unflagged
      <4>2. \A k \in 1..Len(Unchanged(0)) : Unchanged(0)[k] \in Int
        BY <3>3, <4>1
      <4>3. Len(equivs[0]) \in Nat
        BY <3>1 DEF ReadInv
      <4> QED
        BY <3>3, <4>1, <4>2, <4>3 DEF buffered_lines
    <3> QED
      BY <3>2, <3>5
  <2>4. Within(S, Len(stop[0]))
    <3> HIDE DEF Between
    <3> QED
      BY <2>3 DEF Within
  <2>5. \A k \in S : Between(k).deleted + Between(k).inserted > 0
    OBVIOUS
  <2> HIDE DEF Between, S
  <2>6. /\ DOMAIN InOrder(S) = 1..Cardinality(S)
        /\ \A n \in 1..Cardinality(S) : InOrder(S)[n] \in S
    BY <2>3, <2>4, InOrderListed
  <2> QED
    BY <2>2, <2>5, <2>6 DEF ScriptInv
<1>2. CASE UNCHANGED script
  BY <1>2 DEF ScriptInv
<1>3. ~BuildScript => UNCHANGED script
  BY Steps, ReadSteps, SearchSteps, SimpleSteps
  DEF ShiftStep, Discard, Scan, ShiftBack, ShiftForth, ReturnToCorresponding, vars
<1> QED
  BY <1>1, <1>2, <1>3

(* Every variable has its type, the calls lie in the vectors, no change is *)
(* empty, and the sentinels around the flags stay off.                     *)
THEOREM TypeCorrect == Spec => []TypeOK
<1>1. ComparingInv /\ ShiftInv /\ StageInv /\ ScriptInv => TypeOK
  <2> SUFFICES ASSUME ComparingInv, ShiftInv, StageInv, ScriptInv PROVE TypeOK
    OBVIOUS
  <2>0. ReadInv /\ VecInv /\ CallsInv
    BY DEF ComparingInv
  <2>1. ASSUME stage \notin Reading, NEW f \in Files PROVE Flags(f)
    <3>1. CASE stage \in Comparing
      BY <2>0, <3>1 DEF VecInv
    <3>2. CASE stage \notin Comparing
      BY <2>1, <3>2 DEF StageInv, ShiftInv, FlagsSame
    <3> QED
      BY <3>1, <3>2
  <2>2. ASSUME NEW f \in Files, NEW k \in DOMAIN equivs[f]
        PROVE  \E l \in DOMAIN File(f) : equivs[f][k] \in {File(f)[l], Class(File(f)[l])}
    BY <2>0 DEF ReadInv
  <2>3. ASSUME NEW f \in Files, NEW k \in DOMAIN realindexes[f]
        PROVE  realindexes[f][k] \in 0..(buffered_lines(f) - 1)
    <3>1. stage \notin Reading
      BY <2>0 DEF VecInv
    <3>2. Listed(f)
      BY <2>0, <3>1 DEF VecInv
    <3> QED
      BY <2>0, <3>2, ListedLines DEF buffered_lines
  <2>4. ASSUME NEW k \in DOMAIN todo
        PROVE  /\ todo[k].xoff \in 0..todo[k].xlim /\ todo[k].yoff \in 0..todo[k].ylim
               /\ todo[k].xlim <= Len(realindexes[0]) /\ todo[k].ylim <= Len(realindexes[1])
    <3>1. todo[k] \in Calls /\ InVectors(todo[k])
      BY <2>0 DEF CallsInv
    <3>2. /\ todo[k].xoff \in Nat /\ todo[k].xlim \in Nat
          /\ todo[k].yoff \in Nat /\ todo[k].ylim \in Nat
      BY <3>1 DEF Calls
    <3> QED
      BY <3>1, <3>2 DEF InVectors
  <2>5. prefix_lines \in 0..Len(input.old)
    BY <2>0 DEF ReadInv
  <2> QED
    BY <2>0, <2>1, <2>2, <2>3, <2>4, <2>5
    DEF TypeOK, Flags, buffered_lines, StageInv, ScriptInv, CallsInv
<1>2. Init => StageInv /\ ScriptInv
  BY DEF Init, StageInv, ScriptInv, Reading
<1>3. Spec => []StageInv
  BY <1>2, StageInvNext, PTL DEF Spec
<1>4. ComparingInv => ReadInv
  BY DEF ComparingInv
<1>5. Spec => []ScriptInv
  BY <1>2, <1>4, ComparingInvariant, ScriptInvNext, PTL DEF Spec
<1> QED
  BY <1>1, <1>3, <1>5, ShiftInvariant, PTL
=============================================================================
