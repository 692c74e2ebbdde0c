-------------------------- MODULE Compareseq_proof --------------------------
(***************************************************************************)
(* Whatever points diag divides a box at, the lines that compareseq does   *)
(* not flag are a common subsequence.                                      *)
(***************************************************************************)
EXTENDS Compareseq, TLAPS

(* Where a pair or an element lies, and where boxes lie, to each other.    *)
XIn(x, b) == b.xoff <= x /\ x < b.xlim
YIn(y, b) == b.yoff <= y /\ y < b.ylim
Precedes(p, b) == p[1] < b.xoff /\ p[2] < b.yoff
Follows(p, b) == b.xlim <= p[1] /\ b.ylim <= p[2]
BoxPrecedes(b, c) == b.xlim <= c.xoff /\ b.ylim <= c.yoff

Boxed == [xoff : 0..Len(xvec), xlim : 0..Len(xvec), yoff : 0..Len(yvec), ylim : 0..Len(yvec)]

TypeInv ==
    /\ xvec \in Seq(Element) /\ yvec \in Seq(Element)
    /\ boxes \subseteq Boxed
    /\ \A b \in boxes : b.xoff <= b.xlim /\ b.yoff <= b.ylim
    /\ deleted \subseteq XOffsets /\ inserted \subseteq YOffsets
    /\ matched \subseteq XOffsets \X YOffsets

(* Every element is flagged, matched, or still to be compared.             *)
XCovered ==
    \A x \in XOffsets : \/ x \in deleted
                        \/ \E y \in YOffsets : <<x, y>> \in matched
                        \/ \E b \in boxes : XIn(x, b)
YCovered ==
    \A y \in YOffsets : \/ y \in inserted
                        \/ \E x \in XOffsets : <<x, y>> \in matched
                        \/ \E b \in boxes : YIn(y, b)

(* What is flagged is in no box, and not matched.                          *)
FlaggedApart ==
    /\ \A x \in deleted : \A b \in boxes : ~XIn(x, b)
    /\ \A y \in inserted : \A b \in boxes : ~YIn(y, b)
    /\ \A p \in matched : p[1] \notin deleted /\ p[2] \notin inserted

MatchedEqual == \A p \in matched : Equal(p[1], p[2])

(* Pairs and boxes are ordered the same way in both vectors.               *)
PairsOrdered == \A p, q \in matched : p[1] < q[1] <=> p[2] < q[2]
PairsOutside == \A p \in matched : \A b \in boxes : Precedes(p, b) \/ Follows(p, b)
BoxesOrdered == \A b, c \in boxes : b = c \/ BoxPrecedes(b, c) \/ BoxPrecedes(c, b)

IInv ==
    /\ TypeInv /\ XCovered /\ YCovered /\ FlaggedApart /\ MatchedEqual
    /\ PairsOrdered /\ PairsOutside /\ BoxesOrdered

-----------------------------------------------------------------------------
LEMMA InitIInv == Init => IInv
  <1> SUFFICES ASSUME Init PROVE IInv
    OBVIOUS
  <1>1. TypeInv
    BY DEF Init, TypeInv, Box, Boxed
  <1>2. XCovered
    BY DEF Init, XCovered, Box, XIn, XOffsets
  <1>3. YCovered
    BY DEF Init, YCovered, Box, YIn, YOffsets
  <1>4. FlaggedApart /\ MatchedEqual /\ PairsOrdered /\ PairsOutside /\ BoxesOrdered
    BY DEF Init, FlaggedApart, MatchedEqual, PairsOrdered, PairsOutside, BoxesOrdered
  <1> QED
    BY <1>1, <1>2, <1>3, <1>4 DEF IInv

(* A box that is done with takes its place among the flagged elements.     *)
LEMMA FlagIInv ==
  ASSUME IInv, NEW b \in boxes, Flag(b)
  PROVE  IInv'
  <1> USE DEF IInv
  <1>1. b \in Boxed /\ b.xoff <= b.xlim /\ b.yoff <= b.ylim
    BY DEF TypeInv
  <1>2. TypeInv'
    <2>1. /\ b.xoff..(b.xlim - 1) \subseteq XOffsets
          /\ b.yoff..(b.ylim - 1) \subseteq YOffsets
      BY <1>1 DEF TypeInv, Boxed, XOffsets, YOffsets
    <2> QED
      BY <2>1 DEF Flag, TypeInv, Boxed, XOffsets, YOffsets
  <1>3. XCovered'
    <2>1. ASSUME NEW x \in XOffsets, NEW c \in boxes, XIn(x, c)
          PROVE  x \in deleted' \/ \E d \in boxes' : XIn(x, d)
      <3>1. CASE c = b
        <4>1. x \in b.xoff..(b.xlim - 1)
          BY <1>1, <2>1, <3>1 DEF XIn, XOffsets, Boxed, TypeInv
        <4> QED
          BY <4>1 DEF Flag
      <3>2. CASE c # b
        BY <2>1, <3>2 DEF Flag
      <3> QED
        BY <3>1, <3>2
    <2>2. XOffsets' = XOffsets /\ YOffsets' = YOffsets /\ deleted \subseteq deleted'
          /\ matched' = matched
      BY DEF Flag, XOffsets, YOffsets
    <2>3. ASSUME NEW x \in XOffsets'
          PROVE  \/ x \in deleted'
                 \/ \E o \in YOffsets' : <<x, o>> \in matched'
                 \/ \E d \in boxes' : XIn(x, d)
      BY <2>1, <2>2, <2>3 DEF XCovered
    <2> QED
      BY <2>3 DEF XCovered
  <1>4. YCovered'
    <2>1. ASSUME NEW y \in YOffsets, NEW c \in boxes, YIn(y, c)
          PROVE  y \in inserted' \/ \E d \in boxes' : YIn(y, d)
      <3>1. CASE c = b
        <4>1. y \in b.yoff..(b.ylim - 1)
          BY <1>1, <2>1, <3>1 DEF YIn, YOffsets, Boxed, TypeInv
        <4> QED
          BY <4>1 DEF Flag
      <3>2. CASE c # b
        BY <2>1, <3>2 DEF Flag
      <3> QED
        BY <3>1, <3>2
    <2>2. YOffsets' = YOffsets /\ XOffsets' = XOffsets /\ inserted \subseteq inserted'
          /\ matched' = matched
      BY DEF Flag, XOffsets, YOffsets
    <2>3. ASSUME NEW y \in YOffsets'
          PROVE  \/ y \in inserted'
                 \/ \E o \in XOffsets' : <<o, y>> \in matched'
                 \/ \E d \in boxes' : YIn(y, d)
      BY <2>1, <2>2, <2>3 DEF YCovered
    <2> QED
      BY <2>3 DEF YCovered
  <1>5. FlaggedApart'
    <2>1. ASSUME NEW c \in boxes, c # b
          PROVE  /\ \A x \in b.xoff..(b.xlim - 1) : ~XIn(x, c)
                 /\ \A y \in b.yoff..(b.ylim - 1) : ~YIn(y, c)
      <3>1. BoxPrecedes(b, c) \/ BoxPrecedes(c, b)
        BY <2>1 DEF BoxesOrdered
      <3>2. \A d \in {b, c} : /\ d.xoff \in Nat /\ d.xlim \in Nat /\ d.xoff <= d.xlim
                            /\ d.yoff \in Nat /\ d.ylim \in Nat /\ d.yoff <= d.ylim
        BY <2>1 DEF TypeInv, Boxed
      <3> QED
        BY <3>1, <3>2 DEF BoxPrecedes, XIn, YIn
    <2>2. ASSUME NEW p \in matched
          PROVE  p[1] \notin b.xoff..(b.xlim - 1) /\ p[2] \notin b.yoff..(b.ylim - 1)
      BY <1>1, <2>2 DEF PairsOutside, Precedes, Follows, TypeInv, Boxed, XOffsets, YOffsets
    <2> QED
      BY <2>1, <2>2 DEF Flag, FlaggedApart, XIn, YIn
  <1>6. MatchedEqual' /\ PairsOrdered' /\ PairsOutside' /\ BoxesOrdered'
    BY DEF Flag, MatchedEqual, Equal, PairsOrdered, PairsOutside, Precedes, Follows,
           BoxesOrdered, BoxPrecedes
  <1> QED
    BY <1>2, <1>3, <1>4, <1>5, <1>6

LEMMA DivideIInv ==
  ASSUME IInv, NEW b \in boxes, Divide(b)
  PROVE  IInv'
  <1> USE DEF IInv
  <1>1. b \in Boxed /\ b.xoff <= b.xlim /\ b.yoff <= b.ylim
    BY DEF TypeInv
  <1>2. PICK xmid \in b.xoff..b.xlim, ymid \in b.yoff..b.ylim :
          /\ boxes' = (boxes \ {b}) \cup {Box(b.xoff, xmid, b.yoff, ymid),
                                          Box(xmid, b.xlim, ymid, b.ylim)}
          /\ UNCHANGED <<xvec, yvec, deleted, inserted, matched>>
    BY DEF Divide
  <1> DEFINE lo == Box(b.xoff, xmid, b.yoff, ymid)
             hi == Box(xmid, b.xlim, ymid, b.ylim)
  <1>3. /\ lo.xoff = b.xoff /\ lo.xlim = xmid /\ lo.yoff = b.yoff /\ lo.ylim = ymid
        /\ hi.xoff = xmid /\ hi.xlim = b.xlim /\ hi.yoff = ymid /\ hi.ylim = b.ylim
        /\ lo \in Boxed /\ hi \in Boxed
        /\ boxes' = (boxes \ {b}) \cup {lo, hi}
        /\ xmid \in Int /\ ymid \in Int
        /\ b.xoff <= xmid /\ xmid <= b.xlim /\ b.yoff <= ymid /\ ymid <= b.ylim
    BY <1>1, <1>2 DEF Box, Boxed, TypeInv
  <1> HIDE DEF lo, hi
  <1>4. TypeInv'
    BY <1>1, <1>2, <1>3 DEF TypeInv, Boxed, XOffsets, YOffsets
  <1>5. XCovered'
    <2>1. ASSUME NEW x \in XOffsets, XIn(x, b) PROVE XIn(x, lo) \/ XIn(x, hi)
      BY <1>1, <1>3, <2>1 DEF XIn, XOffsets, Boxed, TypeInv
    <2> QED
      BY <1>2, <1>3, <2>1 DEF XCovered, XOffsets, YOffsets
  <1>6. YCovered'
    <2>1. ASSUME NEW y \in YOffsets, YIn(y, b) PROVE YIn(y, lo) \/ YIn(y, hi)
      BY <1>1, <1>3, <2>1 DEF YIn, YOffsets, Boxed, TypeInv
    <2> QED
      BY <1>2, <1>3, <2>1 DEF YCovered, XOffsets, YOffsets
  <1>7. FlaggedApart'
    <2>1. ASSUME NEW x \in deleted PROVE ~XIn(x, lo) /\ ~XIn(x, hi)
      BY <1>1, <1>3, <2>1 DEF FlaggedApart, XIn, XOffsets, Boxed, TypeInv
    <2>2. ASSUME NEW y \in inserted PROVE ~YIn(y, lo) /\ ~YIn(y, hi)
      BY <1>1, <1>3, <2>2 DEF FlaggedApart, YIn, YOffsets, Boxed, TypeInv
    <2> QED
      BY <1>2, <1>3, <2>1, <2>2 DEF FlaggedApart
  <1>8. MatchedEqual' /\ PairsOrdered'
    BY <1>2 DEF MatchedEqual, Equal, PairsOrdered
  <1>9. PairsOutside'
    <2>1. ASSUME NEW p \in matched
          PROVE  (Precedes(p, lo) \/ Follows(p, lo)) /\ (Precedes(p, hi) \/ Follows(p, hi))
      <3>1. p[1] \in Nat /\ p[2] \in Nat
        BY <2>1 DEF TypeInv, XOffsets, YOffsets
      <3>2. /\ b.xoff \in Nat /\ b.xlim \in Nat
            /\ b.yoff \in Nat /\ b.ylim \in Nat
        BY <1>1 DEF Boxed
      <3>3. Precedes(p, b) \/ Follows(p, b)
        BY <2>1 DEF PairsOutside
      <3> QED
        BY <1>3, <3>1, <3>2, <3>3 DEF Precedes, Follows
    <2> QED
      BY <1>2, <1>3, <2>1 DEF PairsOutside
  <1>10. BoxesOrdered'
    <2>1. BoxPrecedes(lo, hi)
      BY <1>1, <1>3 DEF BoxPrecedes, Boxed
    <2>2. ASSUME NEW c \in boxes, c # b
          PROVE  /\ BoxPrecedes(c, lo) \/ BoxPrecedes(lo, c)
                 /\ BoxPrecedes(c, hi) \/ BoxPrecedes(hi, c)
      BY <1>1, <1>3, <2>2 DEF BoxesOrdered, BoxPrecedes, Boxed, TypeInv
    <2> QED
      BY <1>3, <2>1, <2>2 DEF BoxesOrdered
  <1> QED
    BY <1>4, <1>5, <1>6, <1>7, <1>8, <1>9, <1>10

(* The limits of boxes and the places of pairs are numbers.                *)
LEMMA BoxInts ==
  ASSUME TypeInv, NEW b \in boxes
  PROVE  /\ b.xoff \in Nat /\ b.xlim \in Nat /\ b.yoff \in Nat /\ b.ylim \in Nat
         /\ b.xoff <= b.xlim /\ b.yoff <= b.ylim
  BY DEF TypeInv, Boxed

LEMMA BoxLens ==
  ASSUME TypeInv, NEW b \in boxes
  PROVE  /\ b.xlim <= Len(xvec) /\ b.ylim <= Len(yvec)
         /\ Len(xvec) \in Nat /\ Len(yvec) \in Nat
  BY DEF TypeInv, Boxed

LEMMA PairInts ==
  ASSUME TypeInv
  PROVE  /\ \A p \in matched : p[1] \in Int /\ p[2] \in Int
         /\ \A x \in XOffsets : x \in Int
         /\ \A y \in YOffsets : y \in Int
         /\ \A x \in deleted : x \in Int
         /\ \A y \in inserted : y \in Int
  BY DEF TypeInv, XOffsets, YOffsets

LEMMA OffsetsIn ==
  ASSUME TypeInv, NEW b \in boxes, NEW x \in Nat, NEW y \in Nat
  PROVE  /\ x < b.xlim => x \in XOffsets
         /\ y < b.ylim => y \in YOffsets
  <1>1. b.xlim \in 0..Len(xvec) /\ b.ylim \in 0..Len(yvec)
    BY DEF TypeInv, Boxed
  <1>2. Len(xvec) \in Nat /\ Len(yvec) \in Nat
    BY BoxLens
  <1> QED
    BY <1>1, <1>2 DEF XOffsets, YOffsets

(* The limits of a box that is narrowed from both ends are limits still.   *)
LEMMA Narrowed ==
  ASSUME NEW off \in Nat, NEW lim \in Nat, NEW n \in Nat, lim <= n,
         NEW lo \in Nat, NEW hi \in Nat, lo + hi <= lim - off
  PROVE  off + lo \in 0..n /\ lim - hi \in 0..n
  OBVIOUS

(* Where the pairs lie that a slide matches: in the box, but outside what  *)
(* is left of it.                                                          *)
LEMMA Diagonals ==
  ASSUME TypeInv, NEW b \in boxes, NEW lo \in Nat, NEW hi \in Nat,
         lo + hi <= b.xlim - b.xoff, lo + hi <= b.ylim - b.yoff,
         NEW p \in Initial(b, lo) \cup Final(b, hi)
  PROVE  /\ p[1] \in XOffsets /\ p[2] \in YOffsets
         /\ XIn(p[1], b) /\ YIn(p[2], b)
         /\ \/ p[1] < b.xoff + lo /\ p[2] < b.yoff + lo /\ p[1] - p[2] = b.xoff - b.yoff
            \/ b.xlim - hi <= p[1] /\ b.ylim - hi <= p[2] /\ p[1] - p[2] = b.xlim - b.ylim
  <1>1. b.xoff \in Nat /\ b.xlim \in Nat /\ b.yoff \in Nat /\ b.ylim \in Nat
    BY BoxInts
  <1>2. CASE p \in Initial(b, lo)
    <2>1. PICK k \in 0..(lo - 1) : p = <<b.xoff + k, b.yoff + k>>
      BY <1>2 DEF Initial
    <2>2. p[1] = b.xoff + k /\ p[2] = b.yoff + k
      BY <2>1
    <2>3. k \in Nat /\ k < lo
      BY <2>1
    <2>4. /\ p[1] \in Nat /\ p[2] \in Nat
          /\ b.xoff <= p[1] /\ p[1] < b.xlim /\ b.yoff <= p[2] /\ p[2] < b.ylim
          /\ p[1] < b.xoff + lo /\ p[2] < b.yoff + lo /\ p[1] - p[2] = b.xoff - b.yoff
      BY <1>1, <2>2, <2>3
    <2>5. p[1] \in XOffsets /\ p[2] \in YOffsets
      BY <2>4, OffsetsIn
    <2> QED
      BY <2>2, <2>4, <2>5 DEF XIn, YIn
  <1>3. CASE p \in Final(b, hi)
    <2>1. PICK k \in 1..hi : p = <<b.xlim - k, b.ylim - k>>
      BY <1>3 DEF Final
    <2>2. p[1] = b.xlim - k /\ p[2] = b.ylim - k
      BY <2>1
    <2>3. k \in Nat /\ 1 <= k /\ k <= hi
      BY <2>1
    <2>4. /\ p[1] \in Nat /\ p[2] \in Nat
          /\ b.xoff <= p[1] /\ p[1] < b.xlim /\ b.yoff <= p[2] /\ p[2] < b.ylim
          /\ b.xlim - hi <= p[1] /\ b.ylim - hi <= p[2] /\ p[1] - p[2] = b.xlim - b.ylim
      BY <1>1, <2>2, <2>3
    <2>5. p[1] \in XOffsets /\ p[2] \in YOffsets
      BY <2>4, OffsetsIn
    <2> QED
      BY <2>2, <2>4, <2>5 DEF XIn, YIn
  <1> QED
    BY <1>2, <1>3

LEMMA DiagonalPairs ==
  ASSUME NEW b, NEW lo, NEW hi, NEW p \in Initial(b, lo) \cup Final(b, hi)
  PROVE  p = <<p[1], p[2]>>
  <1>1. CASE p \in Initial(b, lo)
    BY <1>1 DEF Initial
  <1>2. CASE p \in Final(b, hi)
    BY <1>2 DEF Final
  <1> QED
    BY <1>1, <1>2

(* What the slide leaves of the box, the rest, is what it does not match;  *)
(* and what it matches falls into place among the pairs before.            *)
LEMMA SlidPairs ==
  ASSUME IInv, NEW b \in boxes, NEW lo \in Nat, NEW hi \in Nat,
         lo + hi <= b.xlim - b.xoff, lo + hi <= b.ylim - b.yoff
  PROVE  LET rest == Box(b.xoff + lo, b.xlim - hi, b.yoff + lo, b.ylim - hi)
             slid == Initial(b, lo) \cup Final(b, hi)
         IN  /\ rest.xoff <= rest.xlim /\ rest.yoff <= rest.ylim
             /\ \A p \in slid :
                  /\ p[1] \in XOffsets /\ p[2] \in YOffsets
                  /\ XIn(p[1], b) /\ YIn(p[2], b)
                  /\ \/ p[1] < rest.xoff /\ p[2] < rest.yoff
                     \/ rest.xlim <= p[1] /\ rest.ylim <= p[2]
             /\ \A x \in XOffsets : XIn(x, b) => XIn(x, rest) \/ \E y \in YOffsets : <<x, y>> \in slid
             /\ \A y \in YOffsets : YIn(y, b) => YIn(y, rest) \/ \E x \in XOffsets : <<x, y>> \in slid
             /\ \A p, q \in matched \cup slid : p[1] < q[1] <=> p[2] < q[2]
  <1> USE DEF IInv
  <1> DEFINE rest == Box(b.xoff + lo, b.xlim - hi, b.yoff + lo, b.ylim - hi)
             slid == Initial(b, lo) \cup Final(b, hi)
  <1>1. /\ b.xoff \in Nat /\ b.xlim \in Nat /\ b.yoff \in Nat /\ b.ylim \in Nat
        /\ b.xoff <= b.xlim /\ b.yoff <= b.ylim
    BY BoxInts
  <1>3. /\ rest.xoff = b.xoff + lo /\ rest.xlim = b.xlim - hi
        /\ rest.yoff = b.yoff + lo /\ rest.ylim = b.ylim - hi
        /\ rest.xoff <= rest.xlim /\ rest.yoff <= rest.ylim
    <2>1. /\ rest.xoff = b.xoff + lo /\ rest.xlim = b.xlim - hi
          /\ rest.yoff = b.yoff + lo /\ rest.ylim = b.ylim - hi
      BY DEF Box
    <2>2. rest.xoff <= rest.xlim /\ rest.yoff <= rest.ylim
      BY <1>1, <2>1
    <2> QED
      BY <2>1, <2>2
  <1>6. ASSUME NEW p \in slid
        PROVE  /\ p[1] \in XOffsets /\ p[2] \in YOffsets
               /\ XIn(p[1], b) /\ YIn(p[2], b)
               /\ \/ p[1] < rest.xoff /\ p[2] < rest.yoff /\ p[1] - p[2] = b.xoff - b.yoff
                  \/ rest.xlim <= p[1] /\ rest.ylim <= p[2] /\ p[1] - p[2] = b.xlim - b.ylim
    BY <1>3, Diagonals
  <1>7. /\ \A x \in XOffsets : XIn(x, b) => XIn(x, rest) \/ \E y \in YOffsets : <<x, y>> \in slid
        /\ \A y \in YOffsets : YIn(y, b) => YIn(y, rest) \/ \E x \in XOffsets : <<x, y>> \in slid
    <2>1. ASSUME NEW x \in XOffsets, XIn(x, b), ~XIn(x, rest)
          PROVE  \E y \in YOffsets : <<x, y>> \in slid
      <3>1. x \in Nat /\ b.xoff <= x /\ x < b.xlim
        BY <2>1 DEF XIn, XOffsets
      <3>2. CASE x < b.xoff + lo
        <4>1. x - b.xoff \in 0..(lo - 1) /\ x = b.xoff + (x - b.xoff)
          BY <1>1, <1>3, <3>1, <3>2
        <4>2. <<x, b.yoff + (x - b.xoff)>> \in Initial(b, lo)
          BY <4>1 DEF Initial
        <4> QED
          BY <4>2, <1>6
      <3>3. CASE b.xlim - hi <= x
        <4>1. b.xlim - x \in 1..hi /\ x = b.xlim - (b.xlim - x)
          BY <1>1, <1>3, <3>1, <3>3
        <4>2. <<x, b.ylim - (b.xlim - x)>> \in Final(b, hi)
          BY <4>1 DEF Final
        <4> QED
          BY <4>2, <1>6
      <3>4. x < rest.xoff \/ rest.xlim <= x
        BY <1>1, <1>3, <2>1, <3>1 DEF XIn
      <3> QED
        BY <1>3, <3>2, <3>3, <3>4
    <2>2. ASSUME NEW y \in YOffsets, YIn(y, b), ~YIn(y, rest)
          PROVE  \E x \in XOffsets : <<x, y>> \in slid
      <3>1. y \in Nat /\ b.yoff <= y /\ y < b.ylim
        BY <2>2 DEF YIn, YOffsets
      <3>2. CASE y < b.yoff + lo
        <4>1. y - b.yoff \in 0..(lo - 1) /\ y = b.yoff + (y - b.yoff)
          BY <1>1, <1>3, <3>1, <3>2
        <4>2. <<b.xoff + (y - b.yoff), y>> \in Initial(b, lo)
          BY <4>1 DEF Initial
        <4> QED
          BY <4>2, <1>6
      <3>3. CASE b.ylim - hi <= y
        <4>1. b.ylim - y \in 1..hi /\ y = b.ylim - (b.ylim - y)
          BY <1>1, <1>3, <3>1, <3>3
        <4>2. <<b.xlim - (b.ylim - y), y>> \in Final(b, hi)
          BY <4>1 DEF Final
        <4> QED
          BY <4>2, <1>6
      <3>4. y < rest.yoff \/ rest.ylim <= y
        BY <1>1, <1>3, <2>2, <3>1 DEF YIn
      <3> QED
        BY <1>3, <3>2, <3>3, <3>4
    <2> QED
      BY <2>1, <2>2
  <1> HIDE DEF rest, slid
  <1>14. \A p, q \in matched \cup slid : p[1] < q[1] <=> p[2] < q[2]
    <2> DEFINE Upper(p) == p[1] < rest.xoff /\ p[2] < rest.yoff /\ p[1] - p[2] = b.xoff - b.yoff
               Lower(p) == rest.xlim <= p[1] /\ rest.ylim <= p[2] /\ p[1] - p[2] = b.xlim - b.ylim
    <2>1. ASSUME NEW p \in matched, NEW q \in slid
          PROVE  (p[1] < q[1] <=> p[2] < q[2]) /\ (q[1] < p[1] <=> q[2] < p[2])
      <3>1. p[1] \in Int /\ p[2] \in Int /\ q[1] \in Int /\ q[2] \in Int
        BY <1>6, PairInts
      <3>2. Precedes(p, b) \/ Follows(p, b)
        BY DEF PairsOutside
      <3>3. /\ b.xoff <= q[1] /\ q[1] < b.xlim /\ b.yoff <= q[2] /\ q[2] < b.ylim
        BY <1>6 DEF XIn, YIn
      <3>4. CASE Precedes(p, b)
        <4>1. p[1] < q[1] /\ p[2] < q[2]
          BY <1>1, <3>1, <3>3, <3>4 DEF Precedes
        <4> QED
          BY <3>1, <4>1
      <3>5. CASE Follows(p, b)
        <4>1. q[1] < p[1] /\ q[2] < p[2]
          BY <1>1, <3>1, <3>3, <3>5 DEF Follows
        <4> QED
          BY <3>1, <4>1
      <3> QED
        BY <3>2, <3>4, <3>5
    <2>2. ASSUME NEW p \in slid, NEW q \in slid
          PROVE  p[1] < q[1] <=> p[2] < q[2]
      <3>1. p[1] \in Int /\ p[2] \in Int /\ q[1] \in Int /\ q[2] \in Int
        BY <1>6, PairInts
      <3>2. /\ Upper(p) \/ Lower(p)
            /\ Upper(q) \/ Lower(q)
        BY <1>6
      <3>3. CASE Upper(p) /\ Upper(q)
        BY <1>1, <3>1, <3>3
      <3>4. CASE Lower(p) /\ Lower(q)
        BY <1>1, <3>1, <3>4
      <3>5. CASE Upper(p) /\ Lower(q)
        <4>1. p[1] < q[1] /\ p[2] < q[2]
          BY <1>1, <1>3, <3>1, <3>5
        <4> QED
          BY <3>1, <4>1
      <3>6. CASE Lower(p) /\ Upper(q)
        <4>1. q[1] < p[1] /\ q[2] < p[2]
          BY <1>1, <1>3, <3>1, <3>6
        <4> QED
          BY <3>1, <4>1
      <3> QED
        BY <3>2, <3>3, <3>4, <3>5, <3>6
    <2> QED
      <3>1. ASSUME NEW p \in matched \cup slid, NEW q \in matched \cup slid
            PROVE  p[1] < q[1] <=> p[2] < q[2]
        <4>1. CASE p \in matched /\ q \in matched
          BY <4>1 DEF PairsOrdered
        <4>2. CASE p \in matched /\ q \in slid
          BY <4>2, <2>1
        <4>3. CASE p \in slid /\ q \in matched
          BY <4>3, <2>1
        <4>4. CASE p \in slid /\ q \in slid
          BY <4>4, <2>2
        <4> QED
          BY <4>1, <4>2, <4>3, <4>4
      <3> QED
        BY <3>1
  <1> QED
    BY <1>3, <1>6, <1>7, <1>14 DEF rest, slid

LEMMA SlideIInv ==
  ASSUME IInv, NEW b \in boxes, Slide(b)
  PROVE  IInv'
  <1> USE DEF IInv
  <1>1. /\ b.xoff \in Nat /\ b.xlim \in Nat /\ b.yoff \in Nat /\ b.ylim \in Nat
        /\ b.xoff <= b.xlim /\ b.yoff <= b.ylim
    BY BoxInts
  <1>2. PICK lo, hi \in 0..(b.xlim - b.xoff) :
          /\ lo + hi <= b.xlim - b.xoff /\ lo + hi <= b.ylim - b.yoff
          /\ \A p \in Initial(b, lo) \cup Final(b, hi) : Equal(p[1], p[2])
          /\ boxes' = (boxes \ {b}) \cup
                      {Box(b.xoff + lo, b.xlim - hi, b.yoff + lo, b.ylim - hi)}
          /\ matched' = matched \cup Initial(b, lo) \cup Final(b, hi)
          /\ UNCHANGED <<xvec, yvec, deleted, inserted>>
    BY DEF Slide
  <1> DEFINE rest == Box(b.xoff + lo, b.xlim - hi, b.yoff + lo, b.ylim - hi)
             slid == Initial(b, lo) \cup Final(b, hi)
  <1>3. /\ lo \in Nat /\ hi \in Nat
        /\ rest.xoff = b.xoff + lo /\ rest.xlim = b.xlim - hi
        /\ rest.yoff = b.yoff + lo /\ rest.ylim = b.ylim - hi
        /\ lo + hi <= b.xlim - b.xoff /\ lo + hi <= b.ylim - b.yoff
    BY <1>1, <1>2 DEF Box
  <1>4. rest \in Boxed
    <2>1. /\ b.xlim <= Len(xvec) /\ b.ylim <= Len(yvec)
          /\ Len(xvec) \in Nat /\ Len(yvec) \in Nat
      BY BoxLens
    <2>2. lo \in Nat /\ hi \in Nat /\ lo + hi <= b.xlim - b.xoff /\ lo + hi <= b.ylim - b.yoff
      BY <1>3
    <2>3. b.xoff + lo \in 0..Len(xvec) /\ b.xlim - hi \in 0..Len(xvec)
      BY <1>1, <2>1, <2>2, Narrowed
    <2>4. b.yoff + lo \in 0..Len(yvec) /\ b.ylim - hi \in 0..Len(yvec)
      BY <1>1, <2>1, <2>2, Narrowed
    <2> QED
      BY <2>3, <2>4 DEF Box, Boxed
  <1>5. boxes' = (boxes \ {b}) \cup {rest} /\ matched' = matched \cup slid
    BY <1>2
  <1>6. /\ rest.xoff <= rest.xlim /\ rest.yoff <= rest.ylim
        /\ \A p \in slid : /\ p[1] \in XOffsets /\ p[2] \in YOffsets
                           /\ XIn(p[1], b) /\ YIn(p[2], b)
                           /\ \/ p[1] < rest.xoff /\ p[2] < rest.yoff
                              \/ rest.xlim <= p[1] /\ rest.ylim <= p[2]
    BY <1>2, <1>3, SlidPairs
  <1>7. /\ \A x \in XOffsets : XIn(x, b) => XIn(x, rest) \/ \E y \in YOffsets : <<x, y>> \in slid
        /\ \A y \in YOffsets : YIn(y, b) => YIn(y, rest) \/ \E x \in XOffsets : <<x, y>> \in slid
        /\ \A p, q \in matched \cup slid : p[1] < q[1] <=> p[2] < q[2]
    BY <1>2, <1>3, SlidPairs
  <1> HIDE DEF rest, slid
  <1>8. XOffsets' = XOffsets /\ YOffsets' = YOffsets
    BY <1>2 DEF XOffsets, YOffsets
  <1>9. TypeInv'
    <2>1. boxes' \subseteq Boxed /\ \A c \in boxes' : c.xoff <= c.xlim /\ c.yoff <= c.ylim
      BY <1>4, <1>5, <1>6 DEF TypeInv
    <2>2. matched' \subseteq XOffsets \X YOffsets
      <3>1. ASSUME NEW p \in slid PROVE p \in XOffsets \X YOffsets
        BY <1>6, <3>1, DiagonalPairs DEF slid
      <3> QED
        BY <1>5, <3>1 DEF TypeInv
    <2>3. Boxed' = Boxed
      BY <1>2 DEF Boxed
    <2> QED
      BY <1>2, <1>8, <2>1, <2>2, <2>3 DEF TypeInv
  <1>10. XCovered'
    BY <1>2, <1>5, <1>7, <1>8 DEF XCovered
  <1>11. YCovered'
    BY <1>2, <1>5, <1>7, <1>8 DEF YCovered
  <1>12. FlaggedApart'
    <2>1. ASSUME NEW x \in deleted PROVE ~XIn(x, rest)
      BY <1>1, <1>3, <2>1, PairInts DEF FlaggedApart, XIn
    <2>2. ASSUME NEW y \in inserted PROVE ~YIn(y, rest)
      BY <1>1, <1>3, <2>2, PairInts DEF FlaggedApart, YIn
    <2> QED
      BY <1>2, <1>5, <1>6, <2>1, <2>2 DEF FlaggedApart
  <1>13. MatchedEqual'
    BY <1>2, <1>5 DEF MatchedEqual, Equal, slid
  <1>14. PairsOrdered'
    BY <1>5, <1>7 DEF PairsOrdered
  <1>15. PairsOutside'
    <2>1. ASSUME NEW p \in matched PROVE Precedes(p, rest) \/ Follows(p, rest)
      BY <1>1, <1>3, <2>1, PairInts DEF PairsOutside, Precedes, Follows
    <2>2. ASSUME NEW p \in slid PROVE Precedes(p, rest) \/ Follows(p, rest)
      BY <1>6, <2>2 DEF Precedes, Follows
    <2>3. ASSUME NEW p \in slid, NEW c \in boxes, c # b
          PROVE  Precedes(p, c) \/ Follows(p, c)
      <3>1. /\ p[1] \in Int /\ p[2] \in Int
            /\ c.xoff \in Nat /\ c.xlim \in Nat /\ c.yoff \in Nat /\ c.ylim \in Nat
        BY <1>6, PairInts, BoxInts
      <3>2. BoxPrecedes(b, c) \/ BoxPrecedes(c, b)
        BY <2>3 DEF BoxesOrdered
      <3>3. /\ b.xoff <= p[1] /\ p[1] < b.xlim /\ b.yoff <= p[2] /\ p[2] < b.ylim
        BY <1>6 DEF XIn, YIn
      <3>4. CASE BoxPrecedes(b, c)
        BY <1>1, <3>1, <3>3, <3>4 DEF BoxPrecedes, Precedes
      <3>5. CASE BoxPrecedes(c, b)
        BY <1>1, <3>1, <3>3, <3>5 DEF BoxPrecedes, Follows
      <3> QED
        BY <3>2, <3>4, <3>5
    <2> QED
      <3>1. ASSUME NEW p \in matched \cup slid, NEW c \in (boxes \ {b}) \cup {rest}
            PROVE  Precedes(p, c) \/ Follows(p, c)
        <4>1. CASE c = rest
          BY <4>1, <2>1, <2>2
        <4>2. CASE c \in boxes /\ c # b /\ p \in matched
          BY <4>2 DEF PairsOutside
        <4>3. CASE c \in boxes /\ c # b /\ p \in slid
          BY <4>3, <2>3
        <4> QED
          BY <4>1, <4>2, <4>3
      <3> QED
        BY <1>5, <3>1 DEF PairsOutside
  <1>16. BoxesOrdered'
    <2>1. ASSUME NEW c \in boxes, c # b
          PROVE  BoxPrecedes(c, rest) \/ BoxPrecedes(rest, c)
      <3>1. c.xoff \in Nat /\ c.xlim \in Nat /\ c.yoff \in Nat /\ c.ylim \in Nat
        BY BoxInts
      <3>2. BoxPrecedes(b, c) \/ BoxPrecedes(c, b)
        BY <2>1 DEF BoxesOrdered
      <3>3. CASE BoxPrecedes(b, c)
        BY <1>1, <1>3, <3>1, <3>3 DEF BoxPrecedes
      <3>4. CASE BoxPrecedes(c, b)
        BY <1>1, <1>3, <3>1, <3>4 DEF BoxPrecedes
      <3> QED
        BY <3>2, <3>3, <3>4
    <2> QED
      <3>1. ASSUME NEW c \in (boxes \ {b}) \cup {rest}, NEW d \in (boxes \ {b}) \cup {rest}
            PROVE  c = d \/ BoxPrecedes(c, d) \/ BoxPrecedes(d, c)
        <4>1. CASE c = rest
          BY <4>1, <2>1
        <4>2. CASE d = rest
          BY <4>2, <2>1
        <4>3. CASE c \in boxes /\ d \in boxes
          BY <4>3 DEF BoxesOrdered
        <4> QED
          BY <4>1, <4>2, <4>3
      <3> QED
        BY <1>5, <3>1 DEF BoxesOrdered
  <1> QED
    BY <1>9, <1>10, <1>11, <1>12, <1>13, <1>14, <1>15, <1>16
-----------------------------------------------------------------------------
(* Whatever diag returns, the lines that compareseq leaves unflagged when  *)
(* it is through are the same in both files, in the same order.            *)
THEOREM Correctness == Spec => []Correct
  <1>1. IInv /\ [Next]_vars => IInv'
    <2> SUFFICES ASSUME IInv, [Next]_vars PROVE IInv'
      OBVIOUS
    <2>1. ASSUME NEW b \in boxes, Slide(b) PROVE IInv'
      BY <2>1, SlideIInv
    <2>2. ASSUME NEW b \in boxes, Flag(b) PROVE IInv'
      BY <2>2, FlagIInv
    <2>3. ASSUME NEW b \in boxes, Divide(b) PROVE IInv'
      BY <2>3, DivideIInv
    <2>4. CASE UNCHANGED vars
      BY <2>4 DEF vars, IInv, TypeInv, XCovered, YCovered, FlaggedApart, MatchedEqual,
                  PairsOrdered, PairsOutside, BoxesOrdered, Equal, XOffsets, YOffsets, Boxed
    <2> QED
      BY <2>1, <2>2, <2>3, <2>4 DEF Next
  <1>2. IInv => Correct
    <2> SUFFICES ASSUME IInv, boxes = {} PROVE SameRest
      BY DEF Correct
    <2>1. /\ \A x \in XOffsets : x \notin deleted => \E y \in YOffsets : <<x, y>> \in matched
          /\ \A y \in YOffsets : y \notin inserted => \E x \in XOffsets : <<x, y>> \in matched
      BY DEF IInv, XCovered, YCovered
    <2>2. \A p \in matched : /\ p[1] \in XOffsets \ deleted /\ p[2] \in YOffsets \ inserted
                              /\ Equal(p[1], p[2])
      BY DEF IInv, TypeInv, FlaggedApart, MatchedEqual
    <2> QED
      BY <2>1, <2>2 DEF IInv, PairsOrdered, SameRest
  <1> QED
    BY InitIInv, <1>1, <1>2, PTL DEF Spec
=============================================================================
