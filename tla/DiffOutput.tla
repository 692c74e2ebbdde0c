----------------------------- MODULE DiffOutput -----------------------------
(***************************************************************************)
(* The output formats of diff (util.c, normal.c, ed.c, side.c, ifdef.c):   *)
(* what is printed of the chain of changes that DiffCompare builds, and    *)
(* what the programs that read these formats make of it.                   *)
(***************************************************************************)
EXTENDS DiffCompare

CONSTANTS
    Blank,        \* the lines that --ignore-blank-lines ignores
    Dot, DotDot   \* the lines "." and ".."

E == INSTANCE EditScript

ASSUME LinesAssumption == Dot # DotDot

-----------------------------------------------------------------------------
(* analyze_hunk, for the single change that find_change puts in a hunk:    *)
(* the first and last line in each file, and what kind of change it is,    *)
(* "unchanged" if all its lines are ignored.  Offsets are internal: they   *)
(* count from 0, behind the prefix.                                        *)
Kinds(deleted, inserted) ==
    IF deleted = 0 THEN "a" ELSE IF inserted = 0 THEN "d" ELSE "c"

valid_lines(f) == Len(File(f)) - prefix_lines
LineAt(f, i) == File(f)[i + prefix_lines + 1]
LinesOf(f, from, upto) == [k \in 1..(upto - from) |-> LineAt(f, from + k - 1)]

Ignorable(c) ==
    /\ \A i \in c.line0..(c.line0 + c.deleted - 1) : LineAt(0, i) \in Blank
    /\ \A i \in c.line1..(c.line1 + c.inserted - 1) : LineAt(1, i) \in Blank

AnalyzeHunk(c, ignore_blank_lines) ==
    [first0 |-> c.line0, last0 |-> c.line0 + c.deleted - 1,
     first1 |-> c.line1, last1 |-> c.line1 + c.inserted - 1,
     changes |-> IF ignore_blank_lines /\ Ignorable(c) THEN "unchanged"
                 ELSE Kinds(c.deleted, c.inserted)]

(* print_script: the hunks that are printed, in the order of the chain.    *)
Hunks(ignore_blank_lines) ==
    LET hunk == [n \in DOMAIN script |-> AnalyzeHunk(script[n], ignore_blank_lines)]
        printed == InOrder({n \in DOMAIN script : hunk[n].changes # "unchanged"})
    IN  [k \in DOMAIN printed |-> hunk[printed[k]]]

(* diff_2_files: the exit status.                                          *)
Changes(ignore_blank_lines) ==
    IF \E n \in DOMAIN script :
           AnalyzeHunk(script[n], ignore_blank_lines).changes # "unchanged"
    THEN 1 ELSE 0

(* translate_line_number: real lines count from 1, in the whole file.      *)
Real(i) == i + prefix_lines + 1

(* Mutant: an empty range is printed as the line behind it.                *)
NumberRangeBehind(a, b) == IF Real(b) > Real(a) THEN <<Real(a), Real(b)>> ELSE <<Real(a), Real(a)>>

(* print_number_range: an empty range is printed as the line before it.    *)
NumberRange(a, b) == IF Real(b) > Real(a) THEN <<Real(a), Real(b)>> ELSE <<Real(b), Real(b)>>

Old(h) == LinesOf(0, h.first0, h.last0 + 1)
New(h) == LinesOf(1, h.first1, h.last1 + 1)

-----------------------------------------------------------------------------
(* print_normal_script.                                                    *)
Normal(ignore) ==
    LET Directive(h) == [letter |-> h.changes,
                         left |-> NumberRange(h.first0, h.last0),
                         right |-> NumberRange(h.first1, h.last1)]
    IN  [n \in DOMAIN Hunks(ignore) |-> Directive(Hunks(ignore)[n])]

(* print_ed_script: commands from the end of the file to its beginning.    *)
(* A line that is just a dot is inserted as two, and then loses the first. *)
Command(letter, range) == [op |-> letter, range |-> range]
Input(line) == [op |-> "text", line |-> line]
EndInput == [op |-> "text", line |-> Dot]
RemoveDot == [op |-> "s/.//"]
MoreInput == [op |-> "a", range |-> <<>>]

(* Mutant: after a dot nothing brings ed back to typing.                   *)
EdTextOnce(lines) ==
    LET Typed(k) == IF lines[k] = Dot THEN <<Input(DotDot), EndInput, RemoveDot>>
                                      ELSE <<Input(lines[k])>>
    IN  FlattenSeq([k \in DOMAIN lines |-> Typed(k)]) \o
        (IF Last(lines) = Dot THEN <<>> ELSE <<EndInput>>)

EdText(lines) ==
    LET Typed(k) ==
          (IF k > 1 /\ lines[k - 1] = Dot THEN <<MoreInput>> ELSE <<>>) \o
          (IF lines[k] = Dot THEN <<Input(DotDot), EndInput, RemoveDot>>
                             ELSE <<Input(lines[k])>>)
    IN  FlattenSeq([k \in DOMAIN lines |-> Typed(k)]) \o
        (IF Last(lines) = Dot THEN <<>> ELSE <<EndInput>>)

EdHunk(h) ==
    <<Command(h.changes, NumberRange(h.first0, h.last0))>> \o
    (IF h.changes = "d" THEN <<>> ELSE EdText(New(h)))

Ed(ignore) ==
    FlattenSeq([n \in DOMAIN Hunks(ignore) |-> EdHunk(Reverse(Hunks(ignore))[n])])

(* print_rcs_script: line numbers are those of the first file throughout.  *)
RcsDelete(h) == [op |-> "d", line |-> Real(h.first0), lines |-> Old(h)]
RcsAdd(h) == [op |-> "a", line |-> Real(h.last0), lines |-> New(h)]

Rcs(ignore) ==
    LET Commands(h) == (IF h.changes = "a" THEN <<>> ELSE <<RcsDelete(h)>>) \o
                       (IF h.changes = "d" THEN <<>> ELSE <<RcsAdd(h)>>)
    IN  FlattenSeq([n \in DOMAIN Hunks(ignore) |-> Commands(Hunks(ignore)[n])])

-----------------------------------------------------------------------------
(* print_sdiff_script.  A row has a line or none in each of its columns,   *)
(* and a mark; --sdiff-merge-assist prints the numbers of lines before.    *)
Row(left, mark, right) == [left |-> left, mark |-> mark, right |-> right]
Record(letter, left, right) == [mark |-> letter, left |-> left, right |-> right]
None == <<>>

CommonRows(left, right, left_column) ==
    LET both == Smaller(Len(left), Len(right))
        Plain == [k \in 1..both |-> Row(<<left[k]>>, " ", <<right[k]>>)]
        Rest == [k \in 1..(Len(right) - both) |-> Row(None, ")", <<right[both + k]>>)]
        Left(from) == [k \in 1..(Len(left) - from) |-> Row(<<left[from + k]>>, "(", None)]
    IN  IF left_column THEN Left(0) ELSE Plain \o Rest \o Left(both)

SdiffCommon(left, right, assist, left_column) ==
    IF left = <<>> /\ right = <<>> THEN <<>>
    ELSE (IF assist THEN <<Record("i", Len(left), Len(right))>> ELSE <<>>) \o
         CommonRows(left, right, left_column)

SdiffHunk(h, assist) ==
    LET both == Smaller(Len(Old(h)), Len(New(h)))
    IN  (IF assist THEN <<Record("c", Len(Old(h)), Len(New(h)))>> ELSE <<>>) \o
        [k \in 1..both |-> Row(<<Old(h)[k]>>, "|", <<New(h)[k]>>)] \o
        [k \in 1..(Len(New(h)) - both) |-> Row(None, ">", <<New(h)[both + k]>>)] \o
        [k \in 1..(Len(Old(h)) - both) |-> Row(<<Old(h)[both + k]>>, "<", None)]

(* Mutant: the second file is read from behind the prefix.                 *)
Next1Rest(hunks, n) == IF n = 1 THEN 0 ELSE hunks[n - 1].last1 + 1

(* The next line of either file to be printed, before hunk n.              *)
Next0(hunks, n) == IF n = 1 THEN -prefix_lines ELSE hunks[n - 1].last0 + 1
Next1(hunks, n) == IF n = 1 THEN -prefix_lines ELSE hunks[n - 1].last1 + 1

Sdiff(ignore, assist, left_column, suppress_common_lines) ==
    LET hunks == Hunks(ignore)
        last == Len(hunks) + 1
        Common(n, limit0, limit1) ==
          IF suppress_common_lines THEN <<>>
          ELSE SdiffCommon(LinesOf(0, Next0(hunks, n), limit0),
                           LinesOf(1, Next1(hunks, n), limit1), assist, left_column)
    IN  FlattenSeq([n \in DOMAIN hunks |->
          Common(n, hunks[n].first0, hunks[n].first1) \o SdiffHunk(hunks[n], assist)])
        \o Common(last, valid_lines(0), valid_lines(1))

-----------------------------------------------------------------------------
(* print_ifdef_script with the group formats of -D: each line, and what    *)
(* the directives around it make the preprocessor keep it for.             *)
KeptFor(lines, macro) == [k \in DOMAIN lines |-> [line |-> lines[k], macro |-> macro]]

Ifdef(ignore) ==
    LET hunks == Hunks(ignore)
        last == Len(hunks) + 1
        Common(n, limit0) == KeptFor(LinesOf(0, Next0(hunks, n), limit0), BOOLEAN)
    IN  FlattenSeq([n \in DOMAIN hunks |->
          Common(n, hunks[n].first0) \o KeptFor(Old(hunks[n]), {FALSE})
                                     \o KeptFor(New(hunks[n]), {TRUE})])
        \o Common(last, valid_lines(0))

-----------------------------------------------------------------------------
(* What reads these formats.                                               *)

(* ed: the text, the current line, and whether lines are being typed.      *)
Insert(ed, line) ==
    [ed EXCEPT !.text = SubSeq(@, 1, ed.at) \o <<line>> \o SubSeq(@, ed.at + 1, Len(@)),
               !.at = @ + 1]
Without(text, a, b) == SubSeq(text, 1, a - 1) \o SubSeq(text, b + 1, Len(text))

EdStep(ed, line) ==
    IF ed.typing
    THEN CASE line.op # "text" -> [ed EXCEPT !.trouble = TRUE]
           [] line = EndInput -> [ed EXCEPT !.typing = FALSE]
           [] OTHER -> Insert(ed, line.line)
    ELSE CASE line.op = "s/.//" /\ ed.text[ed.at] = DotDot -> [ed EXCEPT !.text[ed.at] = Dot]
           [] line = MoreInput -> [ed EXCEPT !.typing = TRUE]
           [] line.op = "a" /\ line # MoreInput ->
                [ed EXCEPT !.at = line.range[2], !.typing = TRUE]
           [] line.op \in {"c", "d"} ->
                [ed EXCEPT !.text = Without(@, line.range[1], line.range[2]),
                           !.at = line.range[1] - 1, !.typing = line.op = "c"]
           [] OTHER -> [ed EXCEPT !.trouble = TRUE]

RunEd(text, commands) ==
    FoldLeft(EdStep, [text |-> text, at |-> Len(text), typing |-> FALSE, trouble |-> FALSE],
             commands)

(* rcs: the file is copied up to the line of each command in turn.         *)
RcsStep(text, rcs, command) ==
    LET before == IF command.op = "a" THEN command.line ELSE command.line - 1
        copied == rcs.out \o SubSeq(text, rcs.read + 1, Smaller(before, Len(text)))
    IN  [trouble |-> rcs.trouble \/ before < rcs.read \/ before > Len(text),
         out |-> IF command.op = "a" THEN copied \o command.lines ELSE copied,
         read |-> IF command.op = "a" THEN before ELSE before + Len(command.lines)]

RunRcs(text, commands) ==
    LET rcs == FoldLeft(LAMBDA r, c : RcsStep(text, r, c),
                        [out |-> <<>>, read |-> 0, trouble |-> FALSE], commands)
    IN  [trouble |-> rcs.trouble, text |-> rcs.out \o SubSeq(text, rcs.read + 1, Len(text))]

Preprocess(lines, defined) ==
    LET kept == SelectSeq(lines, LAMBDA l : defined \in l.macro)
    IN  [k \in DOMAIN kept |-> kept[k].line]

ColumnOf(rows, side) == FlattenSeq([k \in DOMAIN rows |-> rows[k][side]])

-----------------------------------------------------------------------------
(* What is printed may differ from the second file only in lines that the  *)
(* options make diff ignore.                                               *)
Like(s, t, ignore) ==
    LET Rest(text) == SelectSeq([k \in DOMAIN text |-> Class(text[k])],
                                LAMBDA line : ~(ignore /\ line \in Blank))
    IN  Rest(s) = Rest(t)

(* The scripts restore the second file from the first, but for ignored     *)
(* lines: ed, whose commands must not disturb the line numbers of those    *)
(* that follow, and whose text must not end at a line that is just a dot;  *)
(* rcs, in one pass over the first file; and the preprocessor, which makes *)
(* either file of the merged one.  diff does not exit with 0, "no          *)
(* differences", for files that differ in more than ignored lines.         *)
ScriptsRestore ==
    stage = "done" => \A ignore \in BOOLEAN :
        LET ed == RunEd(input.old, Ed(ignore))
            rcs == RunRcs(input.old, Rcs(ignore))
            merged == Ifdef(ignore)
        IN  /\ ~ed.trouble /\ ~ed.typing /\ Like(ed.text, input.new, ignore)
            /\ ~rcs.trouble /\ Like(rcs.text, input.new, ignore)
            /\ Preprocess(merged, FALSE) = input.old
            /\ Like(Preprocess(merged, TRUE), input.new, ignore)
            /\ Changes(ignore) = 0 => Like(input.old, input.new, ignore)

(* The columns of a side by side listing hold the two files, all lines in  *)
(* their order, with the lines of ignored changes among the common ones;   *)
(* without ignored changes, lines beside each other without a mark are the *)
(* same, and no column of common lines is longer than the other.           *)
SdiffTells ==
    stage = "done" => \A ignore \in BOOLEAN :
        LET rows == Sdiff(ignore, FALSE, FALSE, FALSE)
        IN  /\ ColumnOf(rows, "left") = input.old
            /\ ColumnOf(rows, "right") = input.new
            /\ ~ignore => \A k \in DOMAIN rows :
                 /\ rows[k].mark \in {" ", "|", "<", ">"}
                 /\ rows[k].mark = " " => Class(rows[k].left[1]) = Class(rows[k].right[1])

(* The directives that wdiff reads of two files of words: a script as      *)
(* EditScript describes it, in which the words between the hunks are       *)
(* common ones.                                                            *)
Total == [s \in E!Side |-> IF s = "left" THEN Len(input.old) ELSE Len(input.new)]
WdiffReads ==
    stage = "done" =>
        LET words == E!Transcript(Normal(FALSE), Total)
        IN  /\ E!IsScript(Normal(FALSE), Total)
            /\ \A k \in DOMAIN words :
                 words[k].kind = "common" =>
                     Class(input.old[words[k].left]) = Class(input.new[words[k].right])

=============================================================================
