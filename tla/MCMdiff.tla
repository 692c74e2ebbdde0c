------------------------------ MODULE MCMdiff ------------------------------
(* Small corpora and command lines for module Mdiff.                       *)
EXTENDS Mdiff

CONSTANTS
    MaxInputs,   \* files
    MaxItems,    \* items of all files together
    MaxWords,    \* the same of two files of words only
    MaxRepeats   \* the same of two files that repeat one word

(* Every way to cut every text of at most n items into k files.            *)
Cut(k, n, L) ==
    UNION {{[j \in 1..k |-> SubSeq(text, cut[j - 1] + 1, cut[j])] :
              text \in [1..m -> L],
              cut \in {c \in [0..k -> 0..m] :
                         c[0] = 0 /\ c[k] = m /\ \A j \in 1..k : c[j - 1] <= c[j]}} :
           m \in 0..n}

Same(m) == [n \in 1..m |-> CHOOSE l \in Alnums : TRUE]

(* All small files, two longer ones, and two that repeat one word.         *)
SmallCorpus ==
    UNION {Cut(k, MaxItems, Lines) : k \in 1..MaxInputs}
      \cup Cut(2, MaxWords, Alnums)
      \cup {<<Same(m), Same(MaxRepeats - m)>> : m \in 0..MaxRepeats}

Command(relist, words, minimum, ignore, inhibit) ==
    [relist_files |-> relist, word_mode |-> words, minimum_size |-> minimum,
     ignore_delimiters |-> ignore, ignore_blank_lines |-> ignore, inhibit |-> inhibit]

AllCommands ==
    {Command(relist, TRUE, 1, FALSE, {}) : relist \in BOOLEAN}
      \cup {Command(FALSE, TRUE, 2, FALSE, h) : h \in {{1}, {2}}}
      \cup {Command(relist, FALSE, minimum, ignore, {}) :
              relist \in BOOLEAN, minimum \in 1..2, ignore \in BOOLEAN}
=============================================================================
