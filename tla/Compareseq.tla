----------------------------- MODULE Compareseq -----------------------------
(***************************************************************************)
(* compareseq of diffseq.h with diag left open: a box of the edit matrix   *)
(* loses equal elements at its ends, is flagged when one side of it is     *)
(* empty, and is otherwise divided at any point that diag may choose.  "If *)
(* we return the wrong partitions, the worst this can do is cause          *)
(* suboptimal diff output.  It cannot cause incorrect diff output."        *)
(***************************************************************************)
EXTENDS Integers, Sequences

CONSTANT Element

VARIABLES
    xvec, yvec,          \* the two vectors; offsets count from 0
    boxes,               \* the boxes still to be compared
    deleted, inserted,   \* the offsets flagged by NOTE_DELETE and NOTE_INSERT
    matched              \* history: the pairs of offsets found equal

vars == <<xvec, yvec, boxes, deleted, inserted, matched>>

Box(xoff, xlim, yoff, ylim) ==
    [xoff |-> xoff, xlim |-> xlim, yoff |-> yoff, ylim |-> ylim]

Init ==
    /\ xvec \in Seq(Element) /\ yvec \in Seq(Element)
    /\ boxes = {Box(0, Len(xvec), 0, Len(yvec))}
    /\ deleted = {} /\ inserted = {} /\ matched = {}

Equal(x, y) == xvec[x + 1] = yvec[y + 1]

(* The pairs on the initial and the final diagonal of a box.               *)
Initial(b, n) == {<<b.xoff + k, b.yoff + k>> : k \in 0..(n - 1)}
Final(b, n) == {<<b.xlim - k, b.ylim - k>> : k \in 1..n}

(* Slide down the initial and up the final diagonal.                       *)
Slide(b) ==
    \E lo, hi \in 0..(b.xlim - b.xoff) :
        /\ lo + hi <= b.xlim - b.xoff /\ lo + hi <= b.ylim - b.yoff
        /\ \A p \in Initial(b, lo) \cup Final(b, hi) : Equal(p[1], p[2])
        /\ boxes' = (boxes \ {b}) \cup
                    {Box(b.xoff + lo, b.xlim - hi, b.yoff + lo, b.ylim - hi)}
        /\ matched' = matched \cup Initial(b, lo) \cup Final(b, hi)
        /\ UNCHANGED <<xvec, yvec, deleted, inserted>>

(* One side is empty: the other one is flagged.                            *)
Flag(b) ==
    /\ b.xoff = b.xlim \/ b.yoff = b.ylim
    /\ deleted' = deleted \cup b.xoff..(b.xlim - 1)
    /\ inserted' = inserted \cup b.yoff..(b.ylim - 1)
    /\ boxes' = boxes \ {b}
    /\ UNCHANGED <<xvec, yvec, matched>>

Divide(b) ==
    \E xmid \in b.xoff..b.xlim, ymid \in b.yoff..b.ylim :
        /\ boxes' = (boxes \ {b}) \cup {Box(b.xoff, xmid, b.yoff, ymid),
                                        Box(xmid, b.xlim, ymid, b.ylim)}
        /\ UNCHANGED <<xvec, yvec, deleted, inserted, matched>>

Next == \E b \in boxes : Slide(b) \/ Flag(b) \/ Divide(b)

Spec == Init /\ [][Next]_vars

-----------------------------------------------------------------------------
(* The elements that were not flagged are the same in both vectors, in the *)
(* same order: matched is an isomorphism between them.                     *)
XOffsets == 0..(Len(xvec) - 1)
YOffsets == 0..(Len(yvec) - 1)

SameRest ==
    /\ \A x \in XOffsets : x \notin deleted => \E y \in YOffsets : <<x, y>> \in matched
    /\ \A y \in YOffsets : y \notin inserted => \E x \in XOffsets : <<x, y>> \in matched
    /\ \A p \in matched :
         /\ p[1] \in XOffsets \ deleted /\ p[2] \in YOffsets \ inserted
         /\ Equal(p[1], p[2])
    /\ \A p, q \in matched : p[1] < q[1] <=> p[2] < q[2]

(* Whatever diag returns, what is left when no box is to be compared any   *)
(* more is a correct comparison.                                           *)
Correct == boxes = {} => SameRest
=============================================================================
