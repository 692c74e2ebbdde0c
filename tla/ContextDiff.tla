----------------------------- MODULE ContextDiff -----------------------------
(***************************************************************************)
(* What diff prints of two files in its context and unified formats        *)
(* (context.c of diffutils), line by line.  A comparison is a sequence of  *)
(* columns: a common, a deleted or an inserted line each, the deleted ones *)
(* of a change before the inserted ones.                                   *)
(***************************************************************************)
EXTENDS Integers, Sequences, SequencesExt

Kinds == {" ", "-", "+"}

IsComparison(c) ==
    /\ \E i \in DOMAIN c : c[i] # " "
    /\ \A i \in 1..(Len(c) - 1) : ~(c[i] = "+" /\ c[i + 1] = "-")

(* The lines of a diff.                                                    *)
Comment(patch) == [kind |-> "comment", patch |-> patch]
Index(name) == [kind |-> "index", name |-> name]
Label(mark, name) == [kind |-> "label", mark |-> mark, name |-> name]
At(old, new) == [kind |-> "@@", old |-> old, new |-> new]
Stars == [kind |-> "stars"]
Numbers(mark, numbers, star) ==
    [kind |-> "range", mark |-> mark, numbers |-> numbers, star |-> star]
Body(mark, text) == [kind |-> "body", mark |-> mark, text |-> text]

-----------------------------------------------------------------------------
(* Hunks are intervals of columns: the changes with their context, those   *)
(* of two changes joined if no line would be left out between them.        *)

Runs(set) ==
    LET first == SetToSortSeq({i \in set : i - 1 \notin set}, <)
    IN  [n \in DOMAIN first |->
            <<first[n], Max({k \in set : first[n]..k \subseteq set})>>]

Changes(c) == Runs({i \in DOMAIN c : c[i] # " "})

Around(change, c, context) ==
    <<Max({1, change[1] - context}), Min({Len(c), change[2] + context})>>

HunksOf(c, context) ==
    Runs(UNION {LET a == Around(Changes(c)[n], c, context) IN a[1]..a[2] :
                  n \in DOMAIN Changes(c)})

Old == {" ", "-"}
New == {" ", "+"}
Number(c, i, side) == Cardinality({j \in 1..i : c[j] \in side})

FirstLine(c, hunk, side) == Number(c, hunk[1] - 1, side) + 1
LastLine(c, hunk, side) == Number(c, hunk[2], side)

(* print_unidiff_number_range and print_context_number_range.              *)
Counted(c, hunk, side) ==
    LET first == FirstLine(c, hunk, side)  last == LastLine(c, hunk, side)
    IN  IF last = first THEN <<last>>
        ELSE IF last < first THEN <<last, 0>> ELSE <<first, last - first + 1>>

Bounded(c, hunk, side) ==
    LET first == FirstLine(c, hunk, side)  last == LastLine(c, hunk, side)
    IN  IF last <= first THEN <<last>> ELSE <<first, last>>

Interval(hunk) == [k \in 1..(hunk[2] - hunk[1] + 1) |-> hunk[1] + k - 1]
Present(c, hunk, kind) == \E i \in hunk[1]..hunk[2] : c[i] = kind

(* A change with lines of both files.                                      *)
Both(c, i) ==
    \E n \in DOMAIN Changes(c) :
        LET change == Changes(c)[n]
        IN  /\ i \in change[1]..change[2]
            /\ Present(c, change, "-") /\ Present(c, change, "+")

UnifiedHunk(f, c, hunk) ==
    <<At(Counted(c, hunk, Old), Counted(c, hunk, New))>> \o
    [k \in DOMAIN Interval(hunk) |->
        LET i == Interval(hunk)[k] IN Body(c[i], <<f, i>>)]

Part(f, c, hunk, side) ==
    LET here == SelectSeq(Interval(hunk), LAMBDA i : c[i] \in side)
    IN  [k \in DOMAIN here |->
            Body(IF c[here[k]] # " " /\ Both(c, here[k]) THEN "!" ELSE c[here[k]],
                 <<f, here[k]>>)]

(* A part in which nothing changed is left out.                            *)
ContextHunk(f, c, hunk) ==
    <<Stars, Numbers("***", Bounded(c, hunk, Old), TRUE)>> \o
    (IF Present(c, hunk, "-") THEN Part(f, c, hunk, Old) ELSE <<>>) \o
    <<Numbers("---", Bounded(c, hunk, New), TRUE)>> \o
    (IF Present(c, hunk, "+") THEN Part(f, c, hunk, New) ELSE <<>>)

(* The old style: no part is left out and contexts may overlap.            *)
OldHunk(f, c, hunk, star) ==
    <<Stars, Numbers("***", Bounded(c, hunk, Old), star)>> \o Part(f, c, hunk, Old) \o
    <<Numbers("---", Bounded(c, hunk, New), star)>> \o Part(f, c, hunk, New)
=============================================================================
