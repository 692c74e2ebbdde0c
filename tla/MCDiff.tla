------------------------------- MODULE MCDiff -------------------------------
(* Small pairs of files, and longer ones that reach the heuristics, for    *)
(* the modules of diff.                                                    *)
EXTENDS DiffOutput

CONSTANTS
    MaxTwo,      \* lines of a file of two different lines
    MaxThree,    \* lines of a file of three different lines
    MaxRun,      \* lines of a file with a run of discardable lines
    MaxFrequent  \* repetitions of the frequent line in the other file

Texts(L, n) == UNION {[1..m -> L] : m \in 0..n}

Case(old, new, minimal, large, horizon, expensive) ==
    [old |-> old, new |-> new, minimal |-> minimal, speed_large_files |-> large,
     horizon_lines |-> horizon, too_expensive |-> expensive]

(* The lines 1 and 2 compare equal to themselves only, 3 to 1, as with -i. *)
FoldCase(line) == IF line = 3 THEN 1 ELSE line

Options(old, new) ==
    {Case(old, new, TRUE, TRUE, 0, 1)}
      \cup {Case(old, new, FALSE, FALSE, h, e) : h \in {0, 1}, e \in {1, 2, 4096}}
      \cup {Case(old, new, FALSE, TRUE, 0, 4096)}

(* A run of lines 4, which the other file lacks, and of lines 1, which it  *)
(* has many of.                                                            *)
Runs == {Case(old, [k \in 1..n |-> 1], minimal, FALSE, 0, 4096) :
           old \in [1..MaxRun -> {1, 4}], n \in 2..MaxFrequent, minimal \in BOOLEAN}

(* Files that differ a lot, but for a snake at one end.                    *)
Snakes ==
    LET Ends == [1..4 -> {1, 2}]
        Pairs == {<<<<2, 1, 1>> \o s, <<1, 1>> \o t>> : s \in Ends, t \in Ends}
    IN  {Case(p[1], p[2], m, TRUE, 0, IF m THEN 1 ELSE 4096) : p \in Pairs, m \in BOOLEAN}
          \cup {Case(Reverse(p[1]), Reverse(p[2]), FALSE, TRUE, 0, 4096) : p \in Pairs}

SmallCases ==
    UNION {Options(old, new) : old \in Texts({1, 2}, MaxTwo), new \in Texts({1, 2}, MaxTwo)}
      \cup {Case(old, new, minimal, FALSE, 0, 4096) :
              old \in Texts({1, 2, 3}, MaxThree), new \in Texts({1, 2, 3}, MaxThree),
              minimal \in BOOLEAN}
      \cup Runs \cup Snakes
=============================================================================
