---------------------------- MODULE MCWdiffSplit ----------------------------
(* Small unified diffs for module WdiffSplit.                              *)
EXTENDS WdiffSplit

CONSTANTS
    MaxLines,    \* lines of a diff
    MaxColumns   \* the same of one whose lines are single words

Line(mark, body, dos) ==
    [mark |-> mark, body |-> body, end |-> IF dos THEN <<"\r", "\n">> ELSE <<"\n">>]

(* Marked lines, and the lines of hunks.                                   *)
Lines(bodies, dos) ==
    {Line(mark, body, d) : mark \in {"-", "+", " "}, body \in bodies, d \in dos}
      \cup {Line("@", <<"b">>, d) : d \in dos}

(* Empty lines, indented ones, lines of two words, and a line that begins  *)
(* like a marked one, as the lines of the file names do.                   *)
Bodies == {<<>>, <<"a">>, <<" ", "b">>, <<"a", " ", "b">>, <<"-", "a">>}

SmallDiffs ==
    UNION {[1..n -> Lines(Bodies, BOOLEAN)] : n \in 0..MaxLines}
      \cup [1..MaxColumns -> Lines({<<"a">>, <<" ", "b">>}, {FALSE})]
=============================================================================
