----------------------------- MODULE WdiffSplit -----------------------------
(***************************************************************************)
(* What passes between wdiff and diff, character by character: split_diff  *)
(* makes the two sides of a unified diff (wdiff -d), split_file_into_words *)
(* writes the words of a side one per line, diff compares these files and  *)
(* prints its normal format, and decode_directive_line reads of it the     *)
(* directives that module WdiffReformat obeys.  Files that cannot be made, *)
(* signals and the processes are those of module WdiffRun.                 *)
(***************************************************************************)
EXTENDS Integers, Sequences, FiniteSets, FiniteSetsExt, SequencesExt, Functions

E == INSTANCE EditScript

CONSTANTS
    Base,     \* of the numbers diff prints: 10; less gives few words long numbers
    Corpus    \* unified diffs: sequences of lines [mark, body, end]

Side == {"left", "right"}
EOF == "EOF"
Numerals == <<"0", "1", "2", "3", "4", "5", "6", "7", "8", "9">>
Digits == {Numerals[k] : k \in 1..Base}

ASSUME SplitAssumption ==
    /\ Base \in 2..10
    /\ \A d \in Corpus : \A k \in DOMAIN d : d[k].end \in {<<"\n">>, <<"\r", "\n">>}

VARIABLES
    diff,         \* the lines of the input, for the properties
    pc,           \* "split" | "words" | "compare" | "listing" | "decode" | "done"
    input,        \* what is still to be read of it
    start_of_line,
    output_to,    \* the sides the line goes to: 1 left, 2 right, 3 both
    file,         \* [Side -> Seq(character)]: side->file
    side,         \* the side being split into words
    rest,         \* what is still to be read of its file
    temp_file,    \* [Side -> Seq(word)]: a word on each line
    script,       \* what diff finds
    listing,      \* what is still to be read of what it prints
    state, value, error, argument, directive,   \* of decode_directive_line
    heard         \* the directives it has returned

splitter == <<input, start_of_line, output_to, file>>
splitting == <<side, rest, temp_file>>
decoder == <<state, value, error, argument, directive>>
vars == <<diff, pc, splitter, splitting, script, listing, decoder, heard>>

Init ==
    /\ diff \in Corpus
    /\ pc = "split"
    /\ input = FlattenSeq([k \in DOMAIN diff |-> <<diff[k].mark>> \o diff[k].body \o diff[k].end])
    /\ start_of_line = TRUE /\ output_to = Side
    /\ file = [s \in Side |-> <<>>]
    /\ side = "left" /\ rest = <<>>
    /\ temp_file = [s \in Side |-> <<>>]
    /\ script = <<>> /\ listing = <<>>
    /\ state = 0 /\ value = 0 /\ error = FALSE
    /\ argument = [k \in 0..3 |-> 0] /\ directive = "a"
    /\ heard = <<>>

Peek(stream) == IF stream = <<>> THEN EOF ELSE Head(stream)
isspace(c) == c \in {" ", "\n", "\r"}

-----------------------------------------------------------------------------
(* split_diff.                                                             *)

(* Mutant: a line with no mark goes where the line before it went.         *)
KeptWithoutMark(c) ==
    IF c = "-" THEN {"left"} ELSE IF c = "+" THEN {"right"}
    ELSE IF c = " " THEN Side ELSE output_to

(* Lines without a mark, such as those of file names and hunks, are both's. *)
OutputTo(c) ==
    IF c = "-" THEN {"left"} ELSE IF c = "+" THEN {"right"} ELSE Side

(* One character.  A line begins after a carriage return as well.          *)
SplitCharacter ==
    /\ pc = "split" /\ input # <<>>
    /\ LET c == Head(input)
           to == IF start_of_line THEN OutputTo(c) ELSE output_to
           mark == start_of_line /\ c \in {"-", "+", " "}
       IN  /\ output_to' = to
           /\ file' = [s \in Side |-> IF s \in to /\ ~mark THEN Append(file[s], c) ELSE file[s]]
           /\ start_of_line' = (~mark /\ c \in {"\n", "\r"})
    /\ input' = Tail(input)
    /\ UNCHANGED <<diff, pc, splitting, script, listing, decoder, heard>>

Rewind ==
    /\ pc = "split" /\ input = <<>>
    /\ pc' = "words"
    /\ rest' = file[side]
    /\ UNCHANGED <<diff, splitter, side, temp_file, script, listing, decoder, heard>>

-----------------------------------------------------------------------------
(* split_file_into_words.                                                  *)

(* The characters before the first that is none of these.                  *)
Leading(t, isIn) ==
    LET k == SelectInSeq(t, LAMBDA c : c \notin isIn) IN IF k = 0 THEN Len(t) ELSE k - 1
Blanks == {c \in Range(rest) : isspace(c)}
AfterWhitespace == SubSeq(rest, Leading(rest, Blanks) + 1, Len(rest))

(* One round of its loop that finds a word.                                *)
SplitWord ==
    /\ pc = "words" /\ AfterWhitespace # <<>>
    /\ LET n == Leading(AfterWhitespace, Range(rest) \ Blanks)
       IN  /\ temp_file' = [temp_file EXCEPT ![side] = Append(@, SubSeq(AfterWhitespace, 1, n))]
           /\ rest' = SubSeq(AfterWhitespace, n + 1, Len(AfterWhitespace))
    /\ UNCHANGED <<diff, pc, splitter, side, script, listing, decoder, heard>>

(* None is left: main turns to the other side, then to diff.               *)
SideSplit ==
    /\ pc = "words" /\ AfterWhitespace = <<>>
    /\ \/ side = "left" /\ side' = "right" /\ rest' = file["right"] /\ UNCHANGED pc
       \/ side = "right" /\ pc' = "compare" /\ UNCHANGED <<side, rest>>
    /\ UNCHANGED <<diff, splitter, temp_file, script, listing, decoder, heard>>

-----------------------------------------------------------------------------
(* diff finds as many common words as there are in both, and says what is  *)
(* left between them.                                                      *)

(* Increasing pairs of numbers of common words.                            *)
Matchings(n) ==
    LET Sorted(I) == SetToSortSeq(I, <)
    IN  {m \in {[k \in 1..n |-> <<Sorted(I)[k], Sorted(J)[k]>>] :
                   I \in kSubset(n, DOMAIN temp_file["left"]),
                   J \in kSubset(n, DOMAIN temp_file["right"])} :
           \A k \in 1..n : temp_file["left"][m[k][1]] = temp_file["right"][m[k][2]]}

Longest == {m \in UNION {Matchings(n) : n \in 0..Len(temp_file["left"])} :
              Matchings(Len(m) + 1) = {}}

(* The hunk for what is between two pairs, if there is anything.           *)
HunkBetween(p, q) ==
    IF q[1] = p[1] + 1 /\ q[2] = p[2] + 1 THEN <<>>
    ELSE IF q[1] = p[1] + 1 THEN <<E!Hunk("a", p[1], p[1], p[2] + 1, q[2] - 1)>>
    ELSE IF q[2] = p[2] + 1 THEN <<E!Hunk("d", p[1] + 1, q[1] - 1, p[2], p[2])>>
    ELSE <<E!Hunk("c", p[1] + 1, q[1] - 1, p[2] + 1, q[2] - 1)>>

ScriptOf(matching) ==
    LET all == <<<<0, 0>>>> \o matching
                 \o <<<<Len(temp_file["left"]) + 1, Len(temp_file["right"]) + 1>>>>
    IN  FlattenSeq([k \in 1..(Len(all) - 1) |-> HunkBetween(all[k], all[k + 1])])

(* print_number_range: an empty range and one of a single line are one     *)
(* number.                                                                 *)
Printed(n) ==
    LET numeral[k \in Nat] ==
            (IF k < Base THEN <<>> ELSE numeral[k \div Base]) \o <<Numerals[(k % Base) + 1]>>
    IN  numeral[n]
NumberRange(a, b) == (IF b > a THEN Printed(a) \o <<",">> ELSE <<>>) \o Printed(b)

(* print_normal_hunk.                                                      *)
NormalHunk(h) ==
    LET Lines(s, mark) ==
            FlattenSeq([k \in 1..(E!LastWord(h, s) - E!FirstWord(h, s) + 1) |->
                <<mark, " ">> \o temp_file[s][E!FirstWord(h, s) + k - 1] \o <<"\n">>])
    IN  NumberRange(h.left[1], h.left[2]) \o <<h.letter>>
          \o NumberRange(h.right[1], h.right[2]) \o <<"\n">>
          \o Lines("left", "<") \o (IF h.letter = "c" THEN <<"-", "-", "-", "\n">> ELSE <<>>)
          \o Lines("right", ">")

Compare ==
    /\ pc = "compare"
    /\ script' \in {ScriptOf(m) : m \in Longest}
    /\ listing' = FlattenSeq([k \in DOMAIN script' |-> NormalHunk(script'[k])])
    /\ pc' = "listing"
    /\ UNCHANGED <<diff, splitter, splitting, decoder, heard>>

-----------------------------------------------------------------------------
(* reformat_diff_output and decode_directive_line.                         *)

AfterLine(stream) ==
    LET k == SelectInSeq(stream, LAMBDA c : c = "\n")
    IN  IF k = 0 THEN <<>> ELSE SubSeq(stream, k + 1, Len(stream))

(* Lines that do not begin with a digit are skipped.                       *)
SkipLine ==
    /\ pc = "listing" /\ Peek(listing) \notin Digits \cup {EOF}
    /\ listing' = AfterLine(listing)
    /\ UNCHANGED <<diff, pc, splitter, splitting, script, decoder, heard>>

BeginDirective ==
    /\ pc = "listing" /\ Peek(listing) \in Digits
    /\ pc' = "decode"
    /\ state' = 0 /\ value' = 0 /\ error' = FALSE
    /\ UNCHANGED <<diff, splitter, splitting, script, listing, argument, directive, heard>>

(* One of the four numbers, of which the second and the last may be        *)
(* missing, and the character behind it.                                   *)
ReadNumber ==
    /\ pc = "decode" /\ ~error /\ state < 4
    /\ LET n == Leading(listing, Digits)
           after == SubSeq(listing, n + 1, Len(listing))
           number == FoldLeft(LAMBDA v, c : Base * v + CHOOSE d \in 0..(Base - 1) : Numerals[d + 1] = c,
                              0, SubSeq(listing, 1, n))
           c == Peek(after)
       IN  /\ value' = IF n = 0 THEN value ELSE number
           /\ argument' = [argument EXCEPT ![state] = value']
           /\ error' = \/ n = 0 /\ state \in {0, 2}
                       \/ state = 1 /\ c \notin E!Letters
                       \/ state = 3 /\ c # "\n"
           /\ directive' = IF state = 1 /\ c \in E!Letters THEN c ELSE directive
           /\ listing' = IF c \in (CASE state \in {0, 2} -> {","} [] state = 1 -> E!Letters [] OTHER -> {})
                         THEN Tail(after) ELSE after
    /\ state' = state + 1
    /\ UNCHANGED <<diff, pc, splitter, splitting, script, heard>>

(* The rest of the line is read, whatever it is.                           *)
EndDirective ==
    /\ pc = "decode" /\ (error \/ state = 4)
    /\ listing' = AfterLine(listing)
    /\ heard' = IF error THEN heard
                ELSE Append(heard, E!Hunk(directive, argument[0], argument[1], argument[2], argument[3]))
    /\ pc' = "listing"
    /\ UNCHANGED <<diff, splitter, splitting, script, decoder>>

ListingEnds ==
    /\ pc = "listing" /\ Peek(listing) = EOF
    /\ pc' = "done"
    /\ UNCHANGED <<diff, splitter, splitting, script, listing, decoder, heard>>

Terminated == pc = "done" /\ UNCHANGED vars

Next ==
    \/ SplitCharacter \/ Rewind \/ SplitWord \/ SideSplit \/ Compare
    \/ SkipLine \/ BeginDirective \/ ReadNumber \/ EndDirective \/ ListingEnds
    \/ Terminated

Spec == Init /\ [][Next]_vars

-----------------------------------------------------------------------------
(* The lines of the diff that a side has: its own and common ones without  *)
(* their marks, and every line that is neither.                            *)
TextOf(s) ==
    LET own == SelectSeq(diff, LAMBDA l : l.mark # (IF s = "left" THEN "+" ELSE "-"))
    IN  FlattenSeq([k \in DOMAIN own |->
            (IF own[k].mark \in {"-", "+", " "} THEN <<>> ELSE <<own[k].mark>>)
              \o own[k].body \o own[k].end])

(* The maximal runs of characters that are not white space, in order.      *)
WordsOf(t) ==
    LET Word(i, j) == /\ \A k \in i..j : ~isspace(t[k])
                      /\ i = 1 \/ isspace(t[i - 1])
                      /\ j = Len(t) \/ isspace(t[j + 1])
        firsts == SetToSortSeq({i \in DOMAIN t : \E j \in i..Len(t) : Word(i, j)}, <)
    IN  [k \in DOMAIN firsts |->
            SubSeq(t, firsts[k], CHOOSE j \in firsts[k]..Len(t) : Word(firsts[k], j))]

(* What wdiff obeys is a comparison of the words that the diff's two sides *)
(* have, of lines that end like DOS's too: diff is given these words, the  *)
(* files that are read again when its script is obeyed hold them as well,  *)
(* and the directives heard from diff are those that it printed, numbers   *)
(* of several digits and missing ones included.                            *)
ComparesTheSides ==
    /\ pc \in {"compare", "listing", "decode", "done"} =>
         \A s \in Side : temp_file[s] = WordsOf(TextOf(s)) /\ WordsOf(file[s]) = temp_file[s]
    /\ IsPrefix(heard, script)
    /\ pc = "done" => heard = script
=============================================================================
