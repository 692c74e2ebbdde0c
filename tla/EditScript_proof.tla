---------------------------- MODULE EditScript_proof ----------------------------
(***************************************************************************)
(* Sequences of words, and sequences put together of others: what          *)
(* FlattenSeq makes of them.                                               *)
(***************************************************************************)
EXTENDS EditScript, WellFoundedInduction, TLAPS

-----------------------------------------------------------------------------
(* Induction: a set that holds 0, and with a number the next, holds all.   *)
LEMMA AllNumbers ==
    ASSUME NEW S, 0 \in S, \A n \in Nat : n \in S => n + 1 \in S
    PROVE  Nat \subseteq S
<1> SUFFICES ASSUME Nat \ S # {} PROVE FALSE
  OBVIOUS
<1>1. PICK x \in Nat \ S : \A y \in Nat \ S : ~(<<y, x>> \in OpToRel(<, Nat))
  BY NatLessThanWellFounded, WFMin
<1>2. \A y \in Nat \ S : ~(y < x) BY <1>1 DEF OpToRel
<1>3. x - 1 \in Nat /\ x - 1 < x /\ (x - 1) + 1 = x OBVIOUS
<1> QED BY <1>2, <1>3

LEMMA Joining ==
    ASSUME NEW S, NEW a \in Seq(S), NEW b \in Seq(S)
    PROVE  /\ a \o b \in Seq(S) /\ Len(a \o b) = Len(a) + Len(b)
           /\ Len(a) \in Nat /\ Len(b) \in Nat
           /\ \A k \in 1..Len(a) : (a \o b)[k] = a[k]
           /\ \A k \in 1..Len(b) : (a \o b)[Len(a) + k] = b[k]
OBVIOUS

LEMMA SameSequence ==
    ASSUME NEW S, NEW a \in Seq(S), NEW b \in Seq(S), Len(a) = Len(b),
           \A k \in 1..Len(a) : a[k] = b[k]
    PROVE  a = b
OBVIOUS

(***************************************************************************)
(* Sequences put together.  Unfolds(f, g, n): g[i] is what FlattenSeq      *)
(* computes of the first i sequences of f, for every i up to n.            *)
(***************************************************************************)
Unfolds(f, g, n) == g = [i \in 1..n |-> IF i = 1 THEN f[i] ELSE g[i - 1] \o f[i]]

LEMMA FlattenIs ==
    ASSUME NEW f, Len(f) # 0
    PROVE  FlattenSeq(f) = (CHOOSE g : Unfolds(f, g, Len(f)))[Len(f)]
BY DEF FlattenSeq, Unfolds

LEMMA UnfoldsAt ==
    ASSUME NEW f, NEW g, NEW n \in Nat, Unfolds(f, g, n)
    PROVE  /\ \A i \in 1..n : i = 1 => g[i] = f[i]
           /\ \A i \in 1..n : i # 1 => g[i] = g[i - 1] \o f[i]
<1> DEFINE F(i) == IF i = 1 THEN f[i] ELSE g[i - 1] \o f[i]
<1>1. g = [i \in 1..n |-> F(i)] BY DEF Unfolds
<1>2. \A i \in 1..n : g[i] = F(i)
  <2> HIDE DEF F
  <2> QED BY <1>1
<1> QED BY <1>2

LEMMA UnfoldsOnce ==
    ASSUME NEW f, NEW S, f \in Seq(Seq(S)), NEW g, Unfolds(f, g, Len(f)),
           NEW h, NEW n \in 0..Len(f), Unfolds(f, h, n)
    PROVE  \A i \in 1..n : g[i] = h[i] /\ g[i] \in Seq(S)
<1> DEFINE P == {i \in Nat : i + 1 <= n => g[i + 1] = h[i + 1] /\ g[i + 1] \in Seq(S)}
<1>1. Len(f) \in Nat /\ n \in Nat /\ n <= Len(f) /\ \A i \in 1..n : f[i] \in Seq(S) OBVIOUS
<1>2. 0 \in P
  <2> SUFFICES ASSUME n >= 1 PROVE g[1] = h[1] /\ g[1] \in Seq(S)
    BY <1>1
  <2>1. 1 \in 1..n /\ Len(f) > 0 /\ n > 0 BY <1>1
  <2>2. \A i \in 1..Len(f) : i = 1 => g[i] = f[i] BY ZenonT(30), <1>1, UnfoldsAt
  <2>3. \A i \in 1..n : i = 1 => h[i] = f[i] BY ZenonT(30), <1>1, UnfoldsAt
  <2> QED BY <1>1, <2>1, <2>2, <2>3
<1>3. ASSUME NEW i \in Nat, i \in P PROVE i + 1 \in P
  <2> SUFFICES ASSUME i + 2 <= n
               PROVE  g[i + 2] = h[i + 2] /\ g[i + 2] \in Seq(S)
    OBVIOUS
  <2>1. i + 2 \in 1..n /\ i + 2 \in 1..Len(f) /\ i + 2 # 1 /\ (i + 2) - 1 = i + 1 BY <1>1
  <2>2. g[i + 2] = g[i + 1] \o f[i + 2]
    <3>1. \A j \in 1..Len(f) : j # 1 => g[j] = g[j - 1] \o f[j] BY <1>1, UnfoldsAt
    <3> QED BY <2>1, <3>1
  <2>5. h[i + 2] = h[i + 1] \o f[i + 2]
    <3>1. \A j \in 1..n : j # 1 => h[j] = h[j - 1] \o f[j] BY <1>1, UnfoldsAt
    <3> QED BY <2>1, <3>1
  <2>3. g[i + 1] = h[i + 1] /\ g[i + 1] \in Seq(S) BY <1>1, <1>3
  <2>4. f[i + 2] \in Seq(S) BY <1>1, <2>1
  <2> QED BY <2>2, <2>3, <2>4, <2>5
<1> HIDE DEF P
<1>4. Nat \subseteq P BY <1>2, <1>3, AllNumbers
<1>5. ASSUME NEW i \in 1..n PROVE g[i] = h[i] /\ g[i] \in Seq(S)
  <2>1. i - 1 \in Nat /\ (i - 1) + 1 = i BY <1>1
  <2>2. i - 1 \in P BY <1>4, <2>1
  <2> QED BY <2>1, <2>2 DEF P
<1> QED BY <1>5

LEMMA UnfoldsTo ==
    ASSUME NEW S, NEW f \in Seq(Seq(S))
    PROVE  \A n \in 0..Len(f) : \E g : Unfolds(f, g, n)
<1> DEFINE P == {n \in Nat : n <= Len(f) => \E g : Unfolds(f, g, n)}
<1>1. 0 \in P
  <2>1. Unfolds(f, <<>>, 0) BY DEF Unfolds
  <2> QED BY <2>1
<1>2. ASSUME NEW n \in Nat, n \in P PROVE n + 1 \in P
  <2> SUFFICES ASSUME n + 1 <= Len(f) PROVE \E g : Unfolds(f, g, n + 1) OBVIOUS
  <2>1. PICK g : Unfolds(f, g, n) BY <1>2
  <2> DEFINE h == [i \in 1..(n + 1) |->
                     IF i <= n THEN g[i] ELSE IF n = 0 THEN f[1] ELSE g[n] \o f[n + 1]]
  <2>2. ASSUME NEW i \in 1..(n + 1)
        PROVE  h[i] = IF i = 1 THEN f[i] ELSE h[i - 1] \o f[i]
    <3>1. CASE i = 1
      <4>1. \A j \in 1..n : j = 1 => g[j] = f[j] BY <2>1, UnfoldsAt
      <4>2. h[1] = f[1]
        <5>1. CASE n = 0 BY <5>1
        <5>2. CASE n > 0 BY <4>1, <5>2
        <5> QED BY <5>1, <5>2
      <4> QED BY <3>1, <4>2
    <3>2. CASE i # 1 /\ i <= n
      <4>1. i \in 1..n /\ i - 1 \in 1..(n + 1) /\ i - 1 <= n BY <3>2
      <4>2. g[i] = g[i - 1] \o f[i] BY <2>1, <3>2, <4>1, UnfoldsAt
      <4>3. h[i] = g[i] /\ h[i - 1] = g[i - 1] BY <4>1
      <4> QED BY <3>2, <4>2, <4>3
    <3>3. CASE i # 1 /\ i = n + 1
      <4>1. n # 0 /\ n \in 1..(n + 1) /\ i - 1 = n /\ ~(i <= n) BY <3>3
      <4>2. h[i] = g[n] \o f[n + 1] BY <4>1
      <4>3. h[n] = g[n] BY <4>1
      <4> QED BY <3>3, <4>1, <4>2, <4>3
    <3> QED BY <3>1, <3>2, <3>3
  <2>3. Unfolds(f, h, n + 1)
    <3>1. h = [i \in 1..(n + 1) |-> h[i]] OBVIOUS
    <3> HIDE DEF h
    <3> QED BY <2>2, <3>1 DEF Unfolds
  <2> QED BY <2>3
<1> HIDE DEF P
<1>3. Nat \subseteq P BY <1>1, <1>2, AllNumbers
<1> QED BY <1>3 DEF P

(* The first n members of f.                                               *)
Members(f, n) == [i \in 1..n |-> f[i]]

LEMMA MembersOf ==
    ASSUME NEW S, NEW f \in Seq(Seq(S)), NEW n \in 0..Len(f)
    PROVE  /\ Members(f, n) \in Seq(Seq(S)) /\ Len(Members(f, n)) = n
           /\ Members(f, Len(f)) = f
           /\ \A i \in 1..n : Members(f, n)[i] = f[i]
<1>1. \A i \in 1..n : i \in 1..Len(f) /\ f[i] \in Seq(S) OBVIOUS
<1>2. Members(f, n) \in Seq(Seq(S)) /\ Len(Members(f, n)) = n BY <1>1 DEF Members
<1>3. Members(f, Len(f)) = f BY DEF Members
<1> QED BY <1>2, <1>3 DEF Members

LEMMA FlattenFirst ==
    ASSUME NEW S, NEW f \in Seq(Seq(S))
    PROVE  \E g : /\ Unfolds(f, g, Len(f))
                  /\ \A i \in 1..Len(f) : FlattenSeq(Members(f, i)) = g[i] /\ g[i] \in Seq(S)
<1>1. PICK g : Unfolds(f, g, Len(f)) BY UnfoldsTo
<1>2. ASSUME NEW i \in 1..Len(f)
      PROVE  FlattenSeq(Members(f, i)) = g[i] /\ g[i] \in Seq(S)
  <2> DEFINE m == Members(f, i)
             u == CHOOSE x : Unfolds(m, x, Len(m))
  <2>1. /\ m \in Seq(Seq(S)) /\ Len(m) = i /\ \A j \in 1..i : m[j] = f[j]
        /\ i \in Nat /\ i # 0 /\ i \in 0..Len(m) /\ i \in 0..Len(f) BY MembersOf
  <2>2. \E x : Unfolds(m, x, Len(m))
    <3> HIDE DEF m
    <3> QED BY <2>1, UnfoldsTo
  <2>3. Unfolds(m, u, i) BY <2>1, <2>2
  <2>4. Unfolds(f, u, i)
    <3> HIDE DEF m, u
    <3>1. [j \in 1..i |-> IF j = 1 THEN m[j] ELSE u[j - 1] \o m[j]]
            = [j \in 1..i |-> IF j = 1 THEN f[j] ELSE u[j - 1] \o f[j]] BY <2>1
    <3> QED BY <2>3, <3>1 DEF Unfolds
  <2>5. FlattenSeq(m) = u[i] BY <2>1, FlattenIs
  <2> HIDE DEF m, u
  <2>6. g[i] = u[i] /\ g[i] \in Seq(S) BY <1>1, <2>1, <2>4, UnfoldsOnce
  <2> QED BY <2>5, <2>6 DEF m
<1> QED BY <1>1, <1>2

LEMMA FlattenEmpty == FlattenSeq(<<>>) = <<>>
BY DEF FlattenSeq

LEMMA FlattenNext ==
    ASSUME NEW S, NEW f \in Seq(Seq(S)), NEW n \in 0..(Len(f) - 1)
    PROVE  /\ FlattenSeq(Members(f, n + 1)) = FlattenSeq(Members(f, n)) \o f[n + 1]
           /\ FlattenSeq(Members(f, n)) \in Seq(S) /\ f[n + 1] \in Seq(S)
<1>1. PICK g : /\ Unfolds(f, g, Len(f))
               /\ \A i \in 1..Len(f) : FlattenSeq(Members(f, i)) = g[i] /\ g[i] \in Seq(S)
  BY FlattenFirst
<1>2. n + 1 \in 1..Len(f) /\ f[n + 1] \in Seq(S) /\ Len(f) \in Nat OBVIOUS
<1>3. /\ \A i \in 1..Len(f) : i = 1 => g[i] = f[i]
      /\ \A i \in 1..Len(f) : i # 1 => g[i] = g[i - 1] \o f[i]
  BY ZenonT(30), <1>1, <1>2, UnfoldsAt
<1>4. CASE n = 0
  <2>1. Members(f, n) = <<>> BY <1>4 DEF Members
  <2>2. FlattenSeq(Members(f, n)) = <<>> BY <2>1, FlattenEmpty
  <2>3. FlattenSeq(Members(f, n + 1)) = f[n + 1] BY <1>1, <1>2, <1>3, <1>4
  <2> QED BY <1>2, <2>2, <2>3
<1>5. CASE n # 0
  <2>1. n \in 1..Len(f) /\ n + 1 # 1 /\ (n + 1) - 1 = n BY <1>5
  <2>2. g[n + 1] = g[n] \o f[n + 1] BY <1>2, <1>3, <2>1
  <2> QED BY <1>1, <1>2, <2>1, <2>2
<1> QED BY <1>4, <1>5

LEMMA FlattenType ==
    ASSUME NEW S, NEW f \in Seq(Seq(S))
    PROVE  FlattenSeq(f) \in Seq(S)
<1>1. CASE Len(f) = 0
  <2>1. f = <<>> BY <1>1
  <2>2. <<>> \in Seq(S) OBVIOUS
  <2>3. FlattenSeq(f) = <<>> BY <2>1, FlattenEmpty
  <2> QED BY <2>2, <2>3
<1>2. CASE Len(f) # 0
  <2>1. Len(f) \in 1..Len(f) BY <1>2
  <2>2. Members(f, Len(f)) = f BY MembersOf
  <2> QED BY <2>1, <2>2, FlattenFirst
<1> QED BY <1>1, <1>2

LEMMA FlattenBoth ==
    ASSUME NEW S, NEW a \in Seq(Seq(S)), NEW b \in Seq(Seq(S))
    PROVE  FlattenSeq(a \o b) = FlattenSeq(a) \o FlattenSeq(b)
<1> DEFINE f == a \o b
           Both(n) == FlattenSeq(Members(f, Len(a) + n))
                        = FlattenSeq(a) \o FlattenSeq(Members(b, n))
           P == {n \in Nat : n <= Len(b) => Both(n)}
<1>1. f \in Seq(Seq(S)) /\ Len(f) = Len(a) + Len(b) /\ Len(a) \in Nat /\ Len(b) \in Nat
  OBVIOUS
<1>2. \A i \in 1..Len(a) : f[i] = a[i] OBVIOUS
<1>3. \A i \in 1..Len(b) : f[Len(a) + i] = b[i] OBVIOUS
<1>4. FlattenSeq(a) \in Seq(S) BY FlattenType
<1>5. Members(f, Len(a)) = a
  <2>1. a = [i \in 1..Len(a) |-> a[i]] OBVIOUS
  <2>2. [i \in 1..Len(a) |-> a[i]] = [i \in 1..Len(a) |-> f[i]] BY <1>2
  <2> HIDE DEF f
  <2> QED BY <2>1, <2>2 DEF Members
<1> HIDE DEF f
<1>6. Members(f, Len(f)) = f /\ Members(b, Len(b)) = b
  <2>1. Len(f) \in 0..Len(f) /\ Len(b) \in 0..Len(b) BY <1>1
  <2>2. Members(f, Len(f)) = f BY <1>1, <2>1, MembersOf
  <2>3. Members(b, Len(b)) = b BY <1>1, <2>1, MembersOf
  <2> QED BY <2>2, <2>3
<1>7. 0 \in P
  <2>1. Members(b, 0) = <<>> BY DEF Members
  <2>2. Len(a) + 0 = Len(a) /\ FlattenSeq(a) \o <<>> = FlattenSeq(a) BY <1>1, <1>4
  <2> QED BY <1>5, <2>1, <2>2, FlattenEmpty
<1>8. ASSUME NEW n \in Nat, n \in P PROVE n + 1 \in P
  <2> SUFFICES ASSUME n + 1 <= Len(b) PROVE Both(n + 1) OBVIOUS
  <2>1. Both(n) BY SMTT(30), <1>1, <1>8
  <2>2. n \in 0..(Len(b) - 1) /\ Len(a) + n \in 0..(Len(f) - 1) BY SMTT(30), <1>1
  <2>3. /\ FlattenSeq(Members(b, n + 1)) = FlattenSeq(Members(b, n)) \o b[n + 1]
        /\ FlattenSeq(Members(b, n)) \in Seq(S) /\ b[n + 1] \in Seq(S)
    BY <2>2, FlattenNext
  <2>4. FlattenSeq(Members(f, (Len(a) + n) + 1))
          = FlattenSeq(Members(f, Len(a) + n)) \o f[(Len(a) + n) + 1]
    BY <1>1, <2>2, FlattenNext
  <2>5. (Len(a) + n) + 1 = Len(a) + (n + 1) /\ n + 1 \in 1..Len(b) BY <1>1
  <2>6. f[Len(a) + (n + 1)] = b[n + 1] BY <1>3, <2>5
  <2> DEFINE x == FlattenSeq(a)
             y == FlattenSeq(Members(b, n))
             z == b[n + 1]
  <2>7. x \in Seq(S) /\ y \in Seq(S) /\ z \in Seq(S) BY <1>4, <2>3
  <2> HIDE DEF x, y, z
  <2>8. (x \o y) \o z = x \o (y \o z) BY SMTT(30), <2>7
  <2> QED BY <2>1, <2>3, <2>4, <2>5, <2>6, <2>8 DEF x, y, z
<1> HIDE DEF P
<1>9. Nat \subseteq P BY <1>7, <1>8, AllNumbers
<1>10. Both(Len(b)) BY <1>1, <1>9 DEF P
<1> QED BY <1>1, <1>6, <1>10 DEF f

LEMMA FlattenSingles ==
    ASSUME NEW S, NEW f \in Seq(Seq(S)), NEW e \in Seq(S), Len(e) = Len(f),
           \A i \in 1..Len(f) : f[i] = <<e[i]>>
    PROVE  FlattenSeq(f) = e
<1> DEFINE P == {n \in Nat : n <= Len(f) => FlattenSeq(Members(f, n)) = [i \in 1..n |-> e[i]]}
<1>1. 0 \in P
  <2>1. Members(f, 0) = <<>> /\ [i \in 1..0 |-> e[i]] = <<>> BY DEF Members
  <2> QED BY <2>1, FlattenEmpty
<1>2. ASSUME NEW n \in Nat, n \in P PROVE n + 1 \in P
  <2> SUFFICES ASSUME n + 1 <= Len(f)
               PROVE  FlattenSeq(Members(f, n + 1)) = [i \in 1..(n + 1) |-> e[i]]
    OBVIOUS
  <2>1. n \in 0..(Len(f) - 1) /\ n + 1 \in 1..Len(f) OBVIOUS
  <2>2. FlattenSeq(Members(f, n)) = [i \in 1..n |-> e[i]] BY <1>2
  <2>3. FlattenSeq(Members(f, n + 1)) = FlattenSeq(Members(f, n)) \o <<e[n + 1]>>
    BY <2>1, FlattenNext
  <2>4. [i \in 1..n |-> e[i]] \o <<e[n + 1]>> = [i \in 1..(n + 1) |-> e[i]] BY <2>1
  <2> QED BY <2>2, <2>3, <2>4
<1> HIDE DEF P
<1>3. Nat \subseteq P BY <1>1, <1>2, AllNumbers
<1>4. FlattenSeq(Members(f, Len(f))) = [i \in 1..Len(f) |-> e[i]] BY SMTT(30), <1>3 DEF P
<1>5. Members(f, Len(f)) = f BY MembersOf
<1>6. e = [i \in 1..Len(f) |-> e[i]] OBVIOUS
<1> QED BY <1>4, <1>5, <1>6

LEMMA FlattenNothing ==
    ASSUME NEW S, NEW f \in Seq(Seq(S)), \A i \in 1..Len(f) : f[i] = <<>>
    PROVE  FlattenSeq(f) = <<>>
<1> DEFINE P == {n \in Nat : n <= Len(f) => FlattenSeq(Members(f, n)) = <<>>}
<1>1. 0 \in P
  <2>1. Members(f, 0) = <<>> BY DEF Members
  <2> QED BY <2>1, FlattenEmpty
<1>2. ASSUME NEW n \in Nat, n \in P PROVE n + 1 \in P
  <2> SUFFICES ASSUME n + 1 <= Len(f) PROVE FlattenSeq(Members(f, n + 1)) = <<>>
    OBVIOUS
  <2>1. n \in 0..(Len(f) - 1) /\ n + 1 \in 1..Len(f) OBVIOUS
  <2>2. FlattenSeq(Members(f, n)) = <<>> BY <1>2
  <2>3. FlattenSeq(Members(f, n + 1)) = FlattenSeq(Members(f, n)) \o <<>>
    BY <2>1, FlattenNext
  <2> QED BY <2>2, <2>3
<1> HIDE DEF P
<1>3. Nat \subseteq P BY <1>1, <1>2, AllNumbers
<1>4. Members(f, Len(f)) = f BY MembersOf
<1> QED BY <1>3, <1>4 DEF P
=============================================================================
