-------------------------------- MODULE Diff3 --------------------------------
(***************************************************************************)
(* diff3 (diff3.c): two runs of diff, of two files against a common third, *)
(* are combined to a list of three way blocks, which is listed, written as *)
(* an ed script that takes the changes from OLDFILE to YOURFILE into       *)
(* MYFILE, or merged into a copy of MYFILE.                                *)
(*                                                                         *)
(* Files are numbered 0 (MYFILE), 1 (OLDFILE), 2 (YOURFILE) as arguments;  *)
(* internally the common file is number 2 and the other two are 0 and 1.   *)
(***************************************************************************)
EXTENDS Integers, Sequences, FiniteSets, SequencesExt

CONSTANT Comparisons    \* two files, other and common, and diff's script for them

E == INSTANCE EditScript

ASSUME ComparisonsAssumption ==
    \A c \in Comparisons :
        /\ Len(c.other) \in Nat /\ Len(c.common) \in Nat
        /\ c.script \in Seq(E!Hunks(Len(c.other), Len(c.common)))
        /\ E!IsScript(c.script, [left |-> Len(c.other), right |-> Len(c.common)])

VARIABLES
    input,               \* the files, which is common, and both scripts
    stage,               \* which loop of make_3way_diff is being run
    current,             \* hunks of each thread still to be used
    using,               \* hunks of each thread for the block being made
    high_water_mark,     \* last line in the common file of a used hunk
    high_water_thread,   \* the thread that hunk is of
    base_water_thread,   \* the thread of the first hunk used
    diff3                \* the blocks made so far

vars == <<input, stage, current, using, high_water_mark, high_water_thread,
          base_water_thread, diff3>>

Threads == {0, 1}
FILEC == 2

(* A line: the dots that it begins with, and the rest.                     *)
Line(text) == [dots |-> 0, text |-> text]
Dot == [dots |-> 1, text |-> ""]

mapping == [i \in 0..2 |-> IF i = 0 THEN 0 ELSE IF i = 1 THEN 3 - input.common
                                             ELSE input.common]
rev_mapping == [m \in 0..2 |-> CHOOSE i \in 0..2 : mapping[i] = m]
File(m) == input.files[rev_mapping[m]]

-----------------------------------------------------------------------------
(* make_3way_diff.                                                         *)

(* A hunk has a range in the common file and one in the other; an empty    *)
(* range begins behind its end.                                            *)
FC == "right"
FO == "left"
LowLine(hunk, file) == E!FirstWord(hunk, file)
HighLine(hunk, file) == E!LastWord(hunk, file)

(* process_diff is run for either file; both runs on the same file print   *)
(* the same.  OLDFILE is the common file, YOURFILE if -m or a script is    *)
(* not asked for, and the other of the two if that is standard input.      *)
Init ==
    /\ \E mine, other \in Comparisons :
         /\ mine.common = other.common
         /\ mine.other = other.other => mine = other
         /\ \E common \in {1, 2} :
              input = [common |-> common,
                       files |-> [i \in 0..2 |-> IF i = 0 THEN mine.other
                                                 ELSE IF i = common THEN mine.common
                                                 ELSE other.other],
                       threads |-> [t \in Threads |-> IF t = 0 THEN mine.script ELSE other.script]]
    /\ stage = "next"
    /\ current = input.threads
    /\ using = [t \in Threads |-> <<>>]
    /\ high_water_mark = 0 /\ high_water_thread = 0 /\ base_water_thread = 0
    /\ diff3 = <<>>

(* The hunk that begins first is the first of a block.                     *)
FirstThread ==
    CASE current[0] = <<>> -> 1
      [] current[0] # <<>> /\ current[1] = <<>> -> 0
      [] OTHER -> IF LowLine(Head(current[0]), FC) > LowLine(Head(current[1]), FC)
                  THEN 1 ELSE 0

BeginBlock ==
    /\ stage = "next"
    /\ \E t \in Threads : current[t] # <<>>
    /\ base_water_thread' = FirstThread
    /\ high_water_thread' = FirstThread
    /\ high_water_mark' = HighLine(Head(current[FirstThread]), FC)
    /\ using' = [t \in Threads |-> IF t = FirstThread THEN <<Head(current[t])>> ELSE <<>>]
    /\ current' = [current EXCEPT ![FirstThread] = Tail(@)]
    /\ stage' = "shuffle"
    /\ UNCHANGED <<input, diff3>>

other_thread == 1 - high_water_thread

(* Mutant: hunks that only touch are not used for the same block.          *)
ReachesOver ==
    /\ current[other_thread] # <<>>
    /\ LowLine(Head(current[other_thread]), FC) <= high_water_mark

Reaches ==
    /\ current[other_thread] # <<>>
    /\ LowLine(Head(current[other_thread]), FC) <= high_water_mark + 1

(* "Shuffle up the ladder": the next hunk of the other thread, if it       *)
(* begins before the high water mark or right behind it, is used, too.     *)
Incorporate ==
    /\ stage = "shuffle" /\ Reaches
    /\ LET other_diff == Head(current[other_thread])
           higher == high_water_mark < HighLine(other_diff, FC)
       IN  /\ using' = [using EXCEPT ![other_thread] = Append(@, other_diff)]
           /\ current' = [current EXCEPT ![other_thread] = Tail(@)]
           /\ high_water_mark' = IF higher THEN HighLine(other_diff, FC) ELSE high_water_mark
           /\ high_water_thread' = IF higher THEN other_thread ELSE high_water_thread
    /\ UNCHANGED <<input, stage, base_water_thread, diff3>>

-----------------------------------------------------------------------------
(* using_to_diff3_block.                                                   *)
ALL == 3    \* the block's type if all files differ, else the one that does
Unset == Line("unset")

LastHigh(m) == IF diff3 = <<>> THEN 0 ELSE Last(diff3).high[m]

lowc == LowLine(Head(using[base_water_thread]), FC)
highc == HighLine(Last(using[high_water_thread]), FC)

(* Mutant: the block of a file without hunks begins where the last ended.  *)
lowAtLast(d) ==
    IF using[d] # <<>>
    THEN lowc - LowLine(Head(using[d]), FC) + LowLine(Head(using[d]), FO)
    ELSE LastHigh(d) + 1

(* The first and the last line in file d: in step with the common file     *)
(* before the first hunk, and behind the last one, of this block or those  *)
(* before.                                                                 *)
low(d) ==
    IF using[d] # <<>>
    THEN lowc - LowLine(Head(using[d]), FC) + LowLine(Head(using[d]), FO)
    ELSE lowc - LastHigh(FILEC) + LastHigh(d)
high(d) ==
    IF using[d] # <<>>
    THEN highc - HighLine(Last(using[d]), FC) + HighLine(Last(using[d]), FO)
    ELSE highc - LastHigh(FILEC) + LastHigh(d)

(* A line of the common file is known if a hunk of either thread has it.   *)
CommonLine(n) ==
    IF \E t \in Threads : \E k \in DOMAIN using[t] :
           n \in LowLine(using[t][k], FC)..HighLine(using[t][k], FC)
    THEN File(FILEC)[n] ELSE Unset

(* The lines of file d: those of its hunks, and between them, before the   *)
(* first and after the last, those of the common file.                     *)
LineOf(d, n) ==
    LET begun == {k \in DOMAIN using[d] : LowLine(using[d][k], FO) <= n}
        last == using[d][Cardinality(begun)]
    IN  IF begun = {} THEN CommonLine(lowc + n - low(d))
        ELSE IF n <= HighLine(last, FO) THEN File(d)[n]
        ELSE CommonLine(HighLine(last, FC) + n - HighLine(last, FO))

Lines(d) == [k \in 1..(high(d) - low(d) + 1) |-> LineOf(d, low(d) + k - 1)]

Correspond ==
    CASE using[0] = <<>> -> 1
      [] using[0] # <<>> /\ using[1] = <<>> -> 0
      [] OTHER -> IF Lines(0) = Lines(1) /\ Unset \notin ToSet(Lines(0)) THEN FILEC ELSE ALL

Block ==
    [correspond |-> Correspond,
     low |-> [m \in 0..2 |-> IF m = FILEC THEN lowc ELSE low(m)],
     high |-> [m \in 0..2 |-> IF m = FILEC THEN highc ELSE high(m)],
     lines |-> [m \in 0..2 |-> IF m = FILEC
                               THEN [k \in 1..(highc - lowc + 1) |-> CommonLine(lowc + k - 1)]
                               ELSE Lines(m)]]

MakeBlock ==
    /\ stage = "shuffle" /\ ~Reaches
    /\ diff3' = Append(diff3, Block)
    /\ stage' = "next"
    /\ UNCHANGED <<input, current, using, high_water_mark, high_water_thread, base_water_thread>>

Output ==
    /\ stage = "next" /\ \A t \in Threads : current[t] = <<>>
    /\ stage' = "output"
    /\ UNCHANGED <<input, current, using, high_water_mark, high_water_thread,
                   base_water_thread, diff3>>

Done == stage = "output" /\ UNCHANGED vars

Next == BeginBlock \/ Incorporate \/ MakeBlock \/ Output \/ Done

Spec == Init /\ [][Next]_vars

-----------------------------------------------------------------------------
(* Options: one of -A -e -E -3 -x -X or none, and -m or not.               *)
Letters == {"A", "e", "E", "3", "x", "X"}
Options(letter, merge) ==
    [show_2nd |-> letter = "A" \/ (letter = "" /\ merge),
     flagging |-> letter \in {"A", "E"} \/ (letter = "" /\ merge),
     simple_only |-> letter = "3",
     overlap_only |-> letter \in {"x", "X"}]

(* The type of a block in terms of the arguments, and what is made of it.  *)
Type(b) == IF b.correspond = ALL THEN ALL ELSE rev_mapping[b.correspond]

Skipped(b, o) ==
    \/ Type(b) = 0
    \/ Type(b) = 1 /\ ~o.show_2nd
    \/ Type(b) = 2 /\ o.overlap_only
    \/ Type(b) = ALL /\ o.simple_only
Conflict(b, o) == Type(b) = 1 \/ (Type(b) = ALL /\ o.flagging)

ConflictsFound(o) == \E n \in DOMAIN diff3 : ~Skipped(diff3[n], o) /\ Conflict(diff3[n], o)

Low(b, i) == b.low[mapping[i]]
High(b, i) == b.high[mapping[i]]
LinesIn(b, i) == b.lines[mapping[i]]

-----------------------------------------------------------------------------
(* output_diff3: a block is listed as its type and an entry for each file, *)
(* with or without its lines.                                              *)
DontPrint(b) == IF Type(b) = ALL THEN 3 ELSE IF Type(b) = 0 THEN 1 ELSE 0

Order(b) == IF Type(b) = 1 THEN <<0, 2, 1>> ELSE <<0, 1, 2>>

Entry(b, i) ==
    [file |-> i,
     range |-> IF Low(b, i) - High(b, i) = 1 THEN [letter |-> "a", at |-> Low(b, i) - 1]
               ELSE [letter |-> "c", from |-> Low(b, i), to |-> High(b, i)],
     lines |-> IF i = DontPrint(b) THEN <<>> ELSE LinesIn(b, i)]

Listing ==
    LET Hunk(b) == [odd |-> Type(b), entries |-> [k \in 1..3 |-> Entry(b, Order(b)[k])]]
    IN  [n \in DOMAIN diff3 |-> Hunk(diff3[n])]

-----------------------------------------------------------------------------
(* output_diff3_edscript, with dotlines and undotlines.                    *)
Dotted(line) == line.dots > 0
LeadingDot(lines) == \E k \in DOMAIN lines : Dotted(lines[k])
DotLines(lines) ==
    [k \in DOMAIN lines |-> IF Dotted(lines[k]) THEN [lines[k] EXCEPT !.dots = @ + 1]
                                                ELSE lines[k]]
UndotLines(lines, start, num) ==
    IF LeadingDot(lines) THEN <<[op |-> "s", from |-> start, to |-> start + num - 1]>> ELSE <<>>

Add(at, text) == <<[op |-> "a", from |-> at, to |-> at, text |-> text]>>
Change(from, to, text) == <<[op |-> "c", from |-> from, to |-> to, text |-> text]>>
Delete(from, to) == <<[op |-> "d", from |-> from, to |-> to]>>

Separator == <<Line("separator")>>
Label(marks, i) == <<Line(marks \o (CASE i = 0 -> " MYFILE" [] i = 1 -> " OLDFILE" [] i = 2 -> " YOURFILE"))>>

(* The end of a conflict is written before its beginning.  The number of   *)
(* lines to be undotted counts those of OLDFILE, shown or not.             *)
EdConflict(b, o) ==
    LET old == LinesIn(b, 1)
        yours == LinesIn(b, 2)
        shown == IF Type(b) # ALL THEN <<>>
                 ELSE (IF o.show_2nd THEN Label("|||||||", 1) \o DotLines(old) ELSE <<>>)
                        \o Separator \o DotLines(yours)
        begin == IF Type(b) = 1 THEN DotLines(old) \o Separator ELSE <<>>
    IN  Add(High(b, 0), shown \o Label(">>>>>>>", 2))
          \o UndotLines(IF Type(b) = ALL THEN (IF o.show_2nd THEN old ELSE <<>>) \o yours
                        ELSE <<>>, High(b, 0) + 2, Len(old) + Len(yours) + 1)
          \o Add(Low(b, 0) - 1, Label("<<<<<<<", IF Type(b) = ALL THEN 0 ELSE 1) \o begin)
          \o UndotLines(IF Type(b) = 1 THEN old ELSE <<>>, Low(b, 0) + 1, Len(old))

EdChange(b) ==
    LET yours == LinesIn(b, 2)
    IN  IF yours = <<>> THEN Delete(Low(b, 0), High(b, 0))
        ELSE (IF High(b, 0) - Low(b, 0) = -1 THEN Add(High(b, 0), DotLines(yours))
              ELSE Change(Low(b, 0), High(b, 0), DotLines(yours)))
             \o UndotLines(yours, Low(b, 0), Len(yours))

EdCommands(b, o) ==
    IF Skipped(b, o) THEN <<>> ELSE IF Conflict(b, o) THEN EdConflict(b, o) ELSE EdChange(b)

(* Mutant: the commands are in the order of the blocks.                    *)
EdScriptForward(o) == FlattenSeq([n \in DOMAIN diff3 |-> EdCommands(diff3[n], o)])

(* "Reverse the order of the set of diff3 blocks".                         *)
EdScript(o) == FlattenSeq([n \in DOMAIN diff3 |-> EdCommands(Reverse(diff3)[n], o)])

-----------------------------------------------------------------------------
(* output_diff3_merge: MYFILE is read again, up to each block and behind.  *)
Mine == input.files[0]

Bracketed(b, o) ==
    (IF Type(b) = ALL THEN Label("<<<<<<<", 0) \o LinesIn(b, 0) ELSE <<>>)
      \o (IF o.show_2nd THEN Label(IF Type(b) = ALL THEN "|||||||" ELSE "<<<<<<<", 1)
                               \o LinesIn(b, 1)
          ELSE <<>>)
      \o Separator \o LinesIn(b, 2) \o Label(">>>>>>>", 2)

MergeBlock(o, merged, b) ==
    IF Skipped(b, o) THEN merged
    ELSE [out |-> merged.out \o SubSeq(Mine, merged.linesread + 1, Low(b, 0) - 1)
                    \o (IF Conflict(b, o) THEN Bracketed(b, o) ELSE LinesIn(b, 2)),
          linesread |-> High(b, 0)]

Merge(o) ==
    LET merged == FoldLeft(LAMBDA m, b : MergeBlock(o, m, b),
                           [out |-> <<>>, linesread |-> 0], diff3)
    IN  merged.out \o SubSeq(Mine, merged.linesread + 1, Len(Mine))

-----------------------------------------------------------------------------
(* What reads the script and the listing.                                  *)

(* ed: a text ends at a line of a single dot, and a command must name      *)
(* lines that are there, s also one that it changes.                       *)
EdStep(ed, command) ==
    LET text == ed.text
        before == SubSeq(text, 1, command.from - 1)
        after == SubSeq(text, command.to + 1, Len(text))
        there == IF command.op = "a" THEN command.from >= 0 /\ command.to <= Len(text)
                 ELSE 1 <= command.from /\ command.from <= command.to /\ command.to <= Len(text)
        Undotted(line) == IF Dotted(line) THEN [line EXCEPT !.dots = @ - 1] ELSE line
        at == command.from..command.to
    IN  IF \/ ed.trouble \/ ~there
           \/ command.op \in {"a", "c"} /\ Dot \in ToSet(command.text)
           \/ command.op = "s" /\ \A k \in at : ~Dotted(text[k])
        THEN [ed EXCEPT !.trouble = TRUE]
        ELSE [ed EXCEPT !.text =
                CASE command.op = "a" -> SubSeq(text, 1, command.to) \o command.text \o after
                  [] command.op = "c" -> before \o command.text \o after
                  [] command.op = "d" -> before \o after
                  [] command.op = "s" ->
                       [k \in DOMAIN text |-> IF k \in at THEN Undotted(text[k]) ELSE text[k]]]

RunEd(text, commands) == FoldLeft(EdStep, [text |-> text, trouble |-> FALSE], commands)

(* One that has YOURFILE and the listing: file i, entry by entry.  The     *)
(* lines that are not printed are those of the next entry.                 *)
EntryOf(hunk, i) == CHOOSE k \in 1..3 : hunk.entries[k].file = i
First(range) == IF range.letter = "a" THEN range.at + 1 ELSE range.from
Final(range) == IF range.letter = "a" THEN range.at ELSE range.to
Read(hunk, i) ==
    LET k == EntryOf(hunk, i)
        entry == hunk.entries[k]
    IN  IF entry.range.letter = "c" /\ entry.lines = <<>> THEN hunk.entries[k + 1].lines
        ELSE entry.lines

Restored(i) ==
    LET RangeOf(hunk, f) == hunk.entries[EntryOf(hunk, f)].range
        Copied(r, hunk) == r.out \o SubSeq(input.files[2], r.read + 1,
                                          First(RangeOf(hunk, 2)) - 1)
        Step(r, hunk) ==
          [out |-> Copied(r, hunk) \o Read(hunk, i),
           read |-> Final(RangeOf(hunk, 2)),
           trouble |-> \/ r.trouble
                       \/ First(RangeOf(hunk, i)) # Len(Copied(r, hunk)) + 1
                       \/ Final(RangeOf(hunk, i)) # Len(Copied(r, hunk)) + Len(Read(hunk, i))]
        r == FoldLeft(Step, [out |-> <<>>, read |-> 0, trouble |-> FALSE], Listing)
    IN  [text |-> r.out \o SubSeq(input.files[2], r.read + 1, Len(input.files[2])),
         trouble |-> r.trouble]

-----------------------------------------------------------------------------
(* Properties.                                                             *)

(* "shows any differences among them": from a listing and one of the files *)
(* the other two can be restored, numbers included; two files that a hunk  *)
(* does not name as the odd one out are the same there, and three files    *)
(* that are said to differ are not all alike.                              *)
ListingRestores ==
    stage = "output" =>
        /\ \A i \in 0..1 : Restored(i) = [text |-> input.files[i], trouble |-> FALSE]
        /\ \A n \in DOMAIN Listing :
             LET hunk == Listing[n]
                 Of(odd) == {Read(hunk, i) : i \in (0..2) \ {odd}}
             IN  IF hunk.odd = ALL THEN Cardinality(Of(ALL)) > 1 ELSE Cardinality(Of(hunk.odd)) = 1

(* "HIGH_WATER_DIFF should always be equal to                              *)
(* LAST_USING[HIGH_WATER_THREAD]": the high water mark is the last line of *)
(* that hunk, no hunk used ends behind it and none begins before lowc.     *)
WaterMarks ==
    stage = "shuffle" =>
        /\ using[high_water_thread] # <<>> /\ high_water_mark = highc
        /\ \A t \in Threads : using[t] # <<>> =>
              /\ HighLine(Last(using[t]), FC) <= high_water_mark
              /\ LowLine(Head(using[t]), FC) >= lowc

(* Between two blocks, and before the first, there are as many lines in    *)
(* each of the files, and between two at least one, which all have kept:   *)
(* the ranges of the files never get out of step, and output_diff3_merge   *)
(* and the ed script never go back in MYFILE.                              *)
BlockHigh(n, m) == IF n = 0 THEN 0 ELSE diff3[n].high[m]
BlocksInOrder ==
    \A n \in DOMAIN diff3 : \A m \in 0..2 :
        /\ diff3[n].low[m] <= diff3[n].high[m] + 1
        /\ diff3[n].low[m] - BlockHigh(n - 1, m)
             = diff3[n].low[FILEC] - BlockHigh(n - 1, FILEC)
        /\ diff3[n].low[m] - BlockHigh(n - 1, m) >= (IF n = 1 THEN 1 ELSE 2)

(* output_diff3_merge "acts like 'ed file0 <[output_diff3_edscript]'".     *)
Agrees(letter) ==
    LET ed == RunEd(Mine, EdScript(Options(letter, FALSE)))
    IN  ~ed.trouble /\ ed.text = Merge(Options(letter, TRUE))

ActsLikeEd == stage = "output" => \A letter \in Letters : Agrees(letter)

(* It does so but for -E, which undots lines behind the conflict, or wants *)
(* to, as many as OLDFILE has in it.                                       *)
ActsMostlyLikeEd ==
    stage = "output" =>
        \A letter \in Letters :
            \/ Agrees(letter)
            \/ /\ letter = "E"
               /\ \E n \in DOMAIN diff3 : /\ Type(diff3[n]) = ALL
                                         /\ LinesIn(diff3[n], 1) # <<>>
                                         /\ LeadingDot(LinesIn(diff3[n], 2))

(* What a merge is, if OLDFILE is the common file: the lines that both     *)
(* sides have kept are stable, and divide the files into parts.  A part    *)
(* that one side has changed is taken as that side has it; one that both   *)
(* have changed is an overlap, unless they have made the same of it.       *)
At(d, n) == {k \in DOMAIN input.threads[d] : LowLine(input.threads[d][k], FC) = n}
Inserted(d, n) ==
    LET hunk == input.threads[d][CHOOSE k \in At(d, n) : TRUE]
    IN  IF At(d, n) = {} THEN <<>> ELSE SubSeq(File(d), LowLine(hunk, FO), HighLine(hunk, FO))
KeptBy(d, n) ==
    \A k \in DOMAIN input.threads[d] :
        n \notin LowLine(input.threads[d][k], FC)..HighLine(input.threads[d][k], FC)
Parts ==
    LET ends == {n \in 1..(Len(File(FILEC)) + 1) : \A d \in Threads : KeptBy(d, n)}
        Begin(end) == CHOOSE n \in {0} \cup ends :
                          n < end /\ \A m \in ends : m < end => m <= n
    IN  {[first |-> Begin(end) + 1, end |-> end] : end \in ends}
ChangedBy(d, p) == \E n \in p.first..p.end : At(d, n) # {}
PartOf(d, p) ==
    LET Step(n) == Inserted(d, n) \o (IF n < p.end /\ KeptBy(d, n) THEN <<File(FILEC)[n]>> ELSE <<>>)
    IN  FlattenSeq([k \in 1..(p.end - p.first + 1) |-> Step(p.first + k - 1)])
Overlap(p) == ChangedBy(0, p) /\ ChangedBy(1, p) /\ PartOf(0, p) # PartOf(1, p)

(* The merge that takes the changes of YOURFILE in the parts of a set.     *)
Taking(parts) ==
    LET Ended(n) == {p \in Parts : p.end = n}
        Text(p) == PartOf(IF p \in parts THEN 1 ELSE 0, p)
                     \o (IF p.end <= Len(File(FILEC)) THEN <<File(FILEC)[p.end]>> ELSE <<>>)
    IN  FlattenSeq([n \in 1..(Len(File(FILEC)) + 1) |->
                      IF Ended(n) = {} THEN <<>> ELSE Text(CHOOSE p \in Ended(n) : TRUE)])

(* A merge takes the changes from OLDFILE to YOURFILE, each of them once,  *)
(* and keeps those of MYFILE: -e all, -3 those that do not overlap, -x     *)
(* those that do; and -E finds a conflict just if there is an overlap.     *)
(* Whichever file is the common one, if YOURFILE has no changes the result *)
(* is MYFILE, if MYFILE has none it is YOURFILE, if both have the same it  *)
(* is either.                                                              *)
TakesChanges ==
    stage = "output" =>
        LET mine == input.files[0]
            older == input.files[1]
            yours == input.files[2]
            Result(letter) == Merge(Options(letter, TRUE))
            Clean == ~ConflictsFound(Options("E", TRUE))
            all == {p \in Parts : ChangedBy(1, p)}
            overlaps == {p \in Parts : Overlap(p)}
        IN  /\ older = yours => Clean /\ \A letter \in Letters : Result(letter) = mine
            /\ older = mine =>
                 Clean /\ Result("e") = yours /\ Result("3") = yours /\ Result("x") = mine
            /\ mine = yours => Clean /\ \A letter \in Letters \ {"A"} : Result(letter) = mine
            /\ input.common = 1 =>
                 /\ Clean <=> overlaps = {}
                 /\ Result("e") = Taking(all)
                 /\ Result("3") = Taking(all \ overlaps)
                 /\ Result("x") = Taking(overlaps)
=============================================================================
