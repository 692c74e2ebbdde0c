----------------------------- MODULE EditScript -----------------------------
(***************************************************************************)
(* What diff's normal output says of two lists of words: a sequence of     *)
(* hunks, each the directive line that print_normal_hunk writes and        *)
(* decode_directive_line reads (normal.c, wdiff.c), and the transcript of  *)
(* common, deleted and inserted words that such a script stands for.       *)
(***************************************************************************)
EXTENDS Integers, Sequences, SequencesExt

Side == {"left", "right"}

(* letter and the four numbers of a directive line.                        *)
Letters == {"a", "d", "c"}
Hunk(letter, a0, a1, a2, a3) ==
    [letter |-> letter, left |-> <<a0, a1>>, right |-> <<a2, a3>>]

(* The words of a hunk: an empty range is printed as the line before it.   *)
FirstWord(h, s) ==
    IF h.letter = (IF s = "left" THEN "a" ELSE "d") THEN h[s][1] + 1 ELSE h[s][1]
LastWord(h, s) == h[s][2]

(* Every hunk that can be printed of a left and b right words.             *)
Hunks(a, b) ==
    {Hunk("a", i, i, j, k) : i \in 0..a, j \in 1..b, k \in 1..b} \cup
    {Hunk("d", i, j, k, k) : i \in 1..a, j \in 1..a, k \in 0..b} \cup
    {Hunk("c", i, j, k, l) : i \in 1..a, j \in 1..a, k \in 1..b, l \in 1..b}

WellFormed(h) == \A s \in Side : h[s][1] <= h[s][2]

(* The last word of either side that the first n hunks account for.        *)
Accounted(script, n, s) == IF n = 0 THEN 0 ELSE LastWord(script[n], s)

Gap(script, n, s) == FirstWord(script[n], s) - Accounted(script, n - 1, s) - 1

(* Between two hunks, and before the first and after the last, there are   *)
(* as many words left as right, and between two hunks at least one.        *)
IsScript(script, total) ==
    /\ \A n \in DOMAIN script :
         /\ WellFormed(script[n])
         /\ Gap(script, n, "left") = Gap(script, n, "right")
         /\ Gap(script, n, "left") >= (IF n = 1 THEN 0 ELSE 1)
    /\ total["left"] - Accounted(script, Len(script), "left")
         = total["right"] - Accounted(script, Len(script), "right")
    /\ total["left"] >= Accounted(script, Len(script), "left")

(* h hunks and the words between them are at most a + b words.             *)
Scripts(a, b) ==
    LET hunks == {h \in Hunks(a, b) : WellFormed(h)}
    IN  {script \in UNION {[1..n -> hunks] : n \in 0..((a + b + 2) \div 3)} :
           IsScript(script, [left |-> a, right |-> b])}

-----------------------------------------------------------------------------
(* A word of the transcript: common words are named by both ordinals.      *)
Column(kind, i, j) == [kind |-> kind, left |-> i, right |-> j]

CommonWords(i, j, n) == [k \in 1..n |-> Column("common", i + k, j + k)]

HunkWords(h) ==
    [k \in 1..(LastWord(h, "left") - FirstWord(h, "left") + 1) |->
        Column("deleted", FirstWord(h, "left") + k - 1, 0)] \o
    [k \in 1..(LastWord(h, "right") - FirstWord(h, "right") + 1) |->
        Column("inserted", 0, FirstWord(h, "right") + k - 1)]

Transcript(script, total) ==
    LET Before(n) == CommonWords(Accounted(script, n - 1, "left"),
                                 Accounted(script, n - 1, "right"),
                                 Gap(script, n, "left"))
        rest == CommonWords(Accounted(script, Len(script), "left"),
                            Accounted(script, Len(script), "right"),
                            total["left"] - Accounted(script, Len(script), "left"))
    IN  FlattenSeq([n \in DOMAIN script |-> Before(n) \o HunkWords(script[n])]) \o rest
=============================================================================
