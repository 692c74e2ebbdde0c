-------------------------------- MODULE Unify --------------------------------
(***************************************************************************)
(* unify.c: a diff is read line by line, in context or unified format, and *)
(* written in the other format or the one asked for.  The two parts of a   *)
(* context hunk are merged into one list of lines, in which `hold' and     *)
(* `head' point at the place where merging goes on.                        *)
(***************************************************************************)
EXTENDS ContextDiff

CONSTANTS
    MaxColumns,  \* columns of all the comparisons of a diff together
    MaxDressed,  \* the same of a diff with comments, index lines or options
    Contexts,    \* lines of context diff was asked for
    Styles       \* formats of the input

ASSUME InputsAssumption ==
    /\ MaxColumns \in Nat /\ MaxDressed \in 0..MaxColumns
    /\ Contexts \subseteq Nat
    /\ Styles \subseteq {"unified", "equals", "context", "old", "old_star"}

VARIABLES
    given,        \* the comparisons, how they were printed and the options
    input,        \* the lines of the file
    line_number,  \* the line in the buffer
    state,        \* of the parser
    input_type,   \* "UNDECIDED" | "CDIFF" | "UNIDIFF"
    output_type,
    found_index,
    name,         \* a name is its length, 0 for none
    previous_start,
    hunk,         \* list: the lines of the hunk, [type, number, text];
                  \* head, hold: the elements pointed at, 0 for root;
                  \* first, last: old_first and new_first, old_last and new_last
    start, end,   \* old_start, old_end and new_end
    old_line, new_line,
    star,         \* star_in_cdiff = '*'
    output,
    status        \* "running" | "ok" | "failed" | "crashed"

header == <<input_type, output_type, found_index, name, previous_start>>
place == <<start, end, old_line, new_line, star>>
vars == <<given, input, line_number, state, header, hunk, place, output, status>>

-----------------------------------------------------------------------------
(* The inputs: what diff prints of one or two pairs of files.              *)

Comparisons ==
    {c \in UNION {[1..n -> Kinds] : n \in 1..MaxColumns} : IsComparison(c)}

Diffs == {<<c>> : c \in Comparisons} \cup
         {<<c, d>> \in Comparisons \X Comparisons : Len(c) + Len(d) <= MaxColumns}

Width(diff) == Len(FlattenSeq(diff))

(* Comments and an Index line before a pair, options -p, -s and -=.        *)
Undressed == [comment |-> "none", index |-> FALSE, patch_format |-> FALSE,
              strip_comments |-> FALSE, use_equals |-> FALSE]
Dresses == [comment : {"none", "diff", "other"}, index : BOOLEAN,
            patch_format : BOOLEAN, strip_comments : BOOLEAN, use_equals : BOOLEAN]

(* The names of the files of a pair; of the second the new one is longer.  *)
Names(f) == IF f = 1 THEN <<2, 1>> ELSE <<1, 2>>

(* In the old style the context of a change is shown as unchanged: no      *)
(* other change may be in it.                                              *)
ShowsOld(c, context) ==
    \A m, n \in DOMAIN Changes(c) :
        m < n => Changes(c)[n][1] - Changes(c)[m][2] > context

Givens ==
    {g \in [diff : Diffs, style : Styles, context : Contexts,
            option : {"UNDECIDED", "CDIFF", "UNIDIFF"}, dress : Dresses] :
       /\ g.dress # Undressed => Width(g.diff) <= MaxDressed
       /\ g.style \in {"old", "old_star"} => \A f \in DOMAIN g.diff : ShowsOld(g.diff[f], g.context)}

IsUnified == given.style \in {"unified", "equals"}

(* How diff prints the f-th pair.                                          *)
CommentLines(g) == IF g.dress.comment = "none" THEN <<>>
                   ELSE <<Comment(g.dress.comment = "diff")>>
IndexLines(g, f) == IF g.dress.index THEN <<Index(Names(f)[1])>> ELSE <<>>
Labels(old, new, f) == <<Label(old, Names(f)[1]), Label(new, Names(f)[2])>>

Equals(lines) ==
    [k \in DOMAIN lines |-> IF lines[k].kind = "body" /\ lines[k].mark = " "
                            THEN Body("=", lines[k].text) ELSE lines[k]]

(* The hunks: in the old style one for each change.                        *)
IsOld(g) == g.style \in {"old", "old_star"}
Apart(c, context) == [n \in DOMAIN Changes(c) |-> Around(Changes(c)[n], c, context)]

Printed(style, f, c, hunks) ==
    LET Each(Op(_, _, _)) == FlattenSeq([n \in DOMAIN hunks |-> Op(f, c, hunks[n])])
        Plain(i, d, h) == OldHunk(i, d, h, FALSE)
        Starred(i, d, h) == OldHunk(i, d, h, TRUE)
    IN  CASE style = "unified" -> Labels("---", "+++", f) \o Each(UnifiedHunk)
          [] style = "equals" -> Labels("---", "+++", f) \o Equals(Each(UnifiedHunk))
          [] style = "context" -> Labels("***", "---", f) \o Each(ContextHunk)
          [] style = "old" -> Labels("***", "---", f) \o Each(Plain)
          [] style = "old_star" -> Labels("***", "---", f) \o Each(Starred)

InputOf(g) ==
    FlattenSeq([f \in DOMAIN g.diff |->
                  CommentLines(g) \o IndexLines(g, f) \o
                  Printed(g.style, f, g.diff[f],
                          IF IsOld(g) THEN Apart(g.diff[f], g.context)
                                      ELSE HunksOf(g.diff[f], g.context))])

(* root, head, hold and the ranges when there is no hunk.                  *)
Empty == [list |-> <<>>, head |-> 0, hold |-> 0,
          first |-> [old |-> 0, new |-> 0], last |-> [old |-> -1, new |-> 0]]

Init ==
    /\ given \in Givens
    /\ input = InputOf(given)
    /\ line_number = 1
    /\ state = "FIND_NEXT"
    /\ input_type = "UNDECIDED" /\ output_type = given.option
    /\ found_index = FALSE /\ name = 0 /\ previous_start = " "
    /\ hunk = Empty
    /\ start = 0 /\ end = [old |-> 0, new |-> 0]
    /\ old_line = 0 /\ new_line = 0 /\ star = FALSE
    /\ output = <<>>
    /\ status = "running"

patch_format == given.dress.patch_format
(* Option -o, needed when the old style has the stars of the new.          *)
force_old_style == given.style = "old_star"

-----------------------------------------------------------------------------
(* Reading.                                                                *)

More == status = "running" /\ line_number <= Len(input)
Line == input[line_number]
Is(kind) == More /\ Line.kind = kind

Parse(s) == state = s /\ More

(* break, and goto reprocess.                                              *)
Break(s) == state' = s /\ line_number' = line_number + 1 /\ UNCHANGED status
Reprocess(s) == state' = s /\ UNCHANGED <<line_number, status>>

(* error (EXIT_FAILURE, ...), and a null pointer followed.                 *)
Fail == status' = "failed" /\ UNCHANGED <<state, line_number>>
Crash == status' = "crashed" /\ UNCHANGED <<state, line_number>>

Put(lines) == output' = output \o lines

-----------------------------------------------------------------------------
(* generate_output.                                                        *)

(* The lines of l around i without a common one: a group of changed lines. *)
Group(l, i) == {j \in DOMAIN l :
                  \A k \in Min({i, j})..Max({i, j}) : l[k].type # " "}
RunEnd(l, i) == Max({k \in i..Len(l) : \A n \in i..k : l[n].type = l[i].type})

(* The first run of deleted lines in a group decides how all of them are   *)
(* marked; inserted lines are marked as changed if they follow that run.   *)
Marked(l, i) ==
    LET minus == {j \in Group(l, i) : l[j].type = "-"}
        after == RunEnd(l, Min(minus)) + 1
    IN  IF /\ l[i].type # " " /\ minus # {}
           /\ after \in DOMAIN l /\ l[after].type = "+"
           /\ l[i].type = "-" \/ i \in after..RunEnd(l, after)
        THEN "!" ELSE l[i].type

Spaced(l, i) == IF given.dress.use_equals /\ l[i].type = " " THEN "=" ELSE l[i].type

Bodies(l, types, Mark(_, _)) ==
    LET chosen == SelectSeq([i \in DOMAIN l |-> i], LAMBDA i : l[i].type \in types)
    IN  [k \in DOMAIN chosen |-> Body(Mark(l, chosen[k]), l[chosen[k]].text)]

Extent(h, side) ==
    IF h.first[side] = 0 THEN 0 ELSE h.last[side] - h.first[side] + 1
Ends(h, side) ==
    IF h.first[side] = h.last[side] THEN <<h.first[side]>>
                                    ELSE <<h.first[side], h.last[side]>>

UnifiedOutput(h) ==
    <<At(<<h.first["old"], Extent(h, "old")>>, <<h.first["new"], Extent(h, "new")>>)>> \o
    Bodies(h.list, Kinds, Spaced)

ContextOutput(h) ==
    LET has(type) == \E i \in DOMAIN h.list : h.list[i].type = type
    IN  <<Stars, Numbers("***", Ends(h, "old"), TRUE)>> \o
        (IF has("-") THEN Bodies(h.list, Old, Marked) ELSE <<>>) \o
        <<Numbers("---", Ends(h, "new"), TRUE)>> \o
        (IF has("+") \/ ~has("-") THEN Bodies(h.list, New, Marked) ELSE <<>>)

NoHunk(h) == h.last["old"] < 0

Generated(h) == IF NoHunk(h) THEN <<>>
                ELSE IF output_type = "UNIDIFF" THEN UnifiedOutput(h)
                ELSE ContextOutput(h)

(* Mutants: head is not put back to root; a printed hunk is kept.          *)
AfterWithHead(h) == IF NoHunk(h) THEN h ELSE [Empty EXCEPT !.head = Len(h.list)]
AfterKept(h) == h

After(h) == IF NoHunk(h) THEN h ELSE Empty

GenerateOutput(h) == Put(Generated(h)) /\ hunk' = After(h)

-----------------------------------------------------------------------------
(* The list of lines.                                                      *)

AddLine(h, type, number) ==
    [h EXCEPT !.list = InsertAt(@, h.hold + 1,
                          [type |-> type, number |-> number, text |-> Line.text]),
              !.hold = @ + 1]

(* The deleted ones of the n lines after the k-th get the numbers that     *)
(* follow number.                                                          *)
DeletedIn(l, k, n) == Cardinality({i \in (k + 1)..n : l[i].type = "-"})
NumberDeleted(l, k, n, number) ==
    [i \in DOMAIN l |->
        IF i \in (k + 1)..(k + n) /\ l[i].type = "-"
        THEN [l[i] EXCEPT !.number = number + DeletedIn(l, k, i)] ELSE l[i]]

(* How many lines after the k-th can be passed, one after the other.       *)
Passed(l, k, May(_)) ==
    Max({n \in 0..(Len(l) - k) : \A i \in (k + 1)..(k + n) : May(l[i])})

-----------------------------------------------------------------------------
(* FIND_NEXT.                                                              *)

IndexOutput == IF found_index \/ name = 0 \/ ~patch_format THEN <<>> ELSE <<Index(name)>>

Decide(input_t, opposite) ==
    /\ input_type' = input_t
    /\ output_type' = IF output_type = "UNDECIDED" THEN opposite ELSE output_type
    /\ Put(IndexOutput)
    /\ UNCHANGED <<found_index, name, previous_start>>

FindNext(kind) == Parse("FIND_NEXT") /\ Line.kind = kind /\ UNCHANGED <<given, input, hunk, place>>

FindUnified ==
    /\ FindNext("@@") /\ input_type # "CDIFF"
    /\ Decide("UNIDIFF", "CDIFF")
    /\ Reprocess("PARSE_UNIDIFF")

FindContext ==
    /\ FindNext("stars") /\ input_type # "UNIDIFF"
    /\ Decide("CDIFF", "UNIDIFF")
    /\ Break("PARSE_OLD")

CopyIndex ==
    /\ FindNext("index")
    /\ found_index' = TRUE
    /\ Put(<<Line>>) /\ Break("FIND_NEXT")
    /\ UNCHANGED <<input_type, output_type, name, previous_start>>

(* The mark of a label in the output, which is in the opposite format as   *)
(* long as nothing else is decided.                                        *)
Relabelled(mark) ==
    LET new_of_context == mark = "---" /\ previous_start = "***"
        of_context == mark = "***" \/ new_of_context
    IN  IF output_type = (IF of_context THEN "CDIFF" ELSE "UNIDIFF") THEN mark
        ELSE IF mark \in {"***", "+++"} THEN "---"
        ELSE IF new_of_context THEN "+++" ELSE "***"

CopyLabel ==
    /\ FindNext("label")
    /\ name' = IF ~found_index /\ (name = 0 \/ Line.name < name) THEN Line.name ELSE name
    /\ IF patch_format THEN UNCHANGED <<output, previous_start>>
       ELSE /\ Put(<<Label(Relabelled(Line.mark), Line.name)>>)
            /\ previous_start' = Line.mark
    /\ Break("FIND_NEXT")
    /\ UNCHANGED <<input_type, output_type, found_index>>

Stripped(comment) == given.dress.strip_comments \/ (patch_format /\ comment.patch)

CopyComment ==
    /\ FindNext("comment")
    /\ Put(IF Stripped(Line) THEN <<>> ELSE <<Line>>)
    /\ Break("FIND_NEXT")
    /\ UNCHANGED header

-----------------------------------------------------------------------------
(* Unified hunks.                                                          *)

NewPair ==
    /\ found_index' = FALSE /\ name' = 0
    /\ UNCHANGED <<input_type, output_type, previous_start>>

ParseUnidiff ==
    /\ Parse("PARSE_UNIDIFF")
    /\ IF Line.kind # "@@"
       THEN /\ NewPair /\ Reprocess("FIND_NEXT")
            /\ UNCHANGED <<hunk, place>>
       ELSE LET from == [s \in {"old", "new"} |-> Line[s][1]]
                count(s) == IF Len(Line[s]) = 2 THEN Line[s][2] ELSE 1
                before(s) == IF from[s] = 0 THEN 0 ELSE from[s] - 1
            IN  /\ end' = [s \in {"old", "new"} |->
                             IF from[s] = 0 THEN 0 ELSE from[s] + count(s) - 1]
                /\ hunk' = [hunk EXCEPT !.first = from,
                              !.last = [s \in {"old", "new"} |->
                                          IF from[s] = 0 THEN 0 ELSE @[s]]]
                /\ old_line' = before("old") /\ new_line' = before("new")
                /\ start' = from["old"]
                /\ Break("UNI_LINES")
                /\ UNCHANGED <<header, star>>
    /\ UNCHANGED <<given, input, output>>

UniLines ==
    /\ Parse("UNI_LINES")
    /\ IF Line.kind # "body" \/ Line.mark \notin Kinds \cup {"="}
       THEN Fail /\ UNCHANGED <<hunk, output, old_line, new_line>>
       ELSE LET type == IF Line.mark = "=" THEN " " ELSE Line.mark
                reached == [old |-> IF type \in Old THEN old_line + 1 ELSE hunk.last["old"],
                            new |-> IF type \in New THEN new_line + 1 ELSE hunk.last["new"]]
                added == AddLine([hunk EXCEPT !.last = reached], type, 0)
            IN  /\ old_line' = old_line + (IF type \in Old THEN 1 ELSE 0)
                /\ new_line' = new_line + (IF type \in New THEN 1 ELSE 0)
                /\ IF old_line' = end["old"] /\ new_line' = end["new"]
                   THEN GenerateOutput(added) /\ Break("PARSE_UNIDIFF")
                   ELSE hunk' = added /\ Break("UNI_LINES") /\ UNCHANGED output
    /\ UNCHANGED <<given, input, header, start, end, star>>

-----------------------------------------------------------------------------
(* Context hunks.                                                          *)

ParseCdiff ==
    /\ Parse("PARSE_CDIFF")
    /\ IF Line.kind = "stars"
       THEN Break("PARSE_OLD") /\ UNCHANGED <<header, hunk, output>>
       ELSE GenerateOutput(hunk) /\ NewPair /\ Reprocess("FIND_NEXT")
    /\ UNCHANGED <<given, input, place>>

IsRange(mark) == Line.kind = "range" /\ Line.mark = mark

(* A hunk that begins within the one before it, in the old style, is       *)
(* merged with it: head goes to the line before the one it begins with.    *)
ParseOld ==
    /\ Parse("PARSE_OLD")
    /\ IF ~IsRange("***")
       THEN Fail /\ UNCHANGED <<hunk, output, place>>
       ELSE LET old_start == Line.numbers[1]
                merging == ~NoHunk(hunk) /\ old_start <= hunk.last["old"]
                kept == IF merging THEN hunk ELSE After(hunk)
            IN  /\ start' = old_start
                /\ end' = [end EXCEPT !["old"] = Line.numbers[Len(Line.numbers)]]
                /\ star' = (Line.star /\ Len(Line.numbers) = 2 /\ ~force_old_style /\ ~merging)
                /\ hunk' = [kept EXCEPT
                      !.first["old"] = IF @ = 0 THEN old_start ELSE @,
                      !.head = IF merging
                               THEN @ + Passed(kept.list, @, LAMBDA l : l.number # old_start)
                               ELSE @]
                /\ IF merging THEN UNCHANGED output ELSE Put(Generated(hunk))
                /\ old_line' = old_start - 1 /\ new_line' = 0
                /\ Break(IF old_start = 0 THEN "PARSE_NEW" ELSE "CHECK_OLD")
    /\ UNCHANGED <<given, input, header>>

(* Mutant: an old part that was left out is not recognised.                *)
CheckOldPresent ==
    /\ Parse("CHECK_OLD")
    /\ Reprocess("OLD_LINES") /\ hunk' = [hunk EXCEPT !.hold = hunk.head]
    /\ UNCHANGED <<given, input, header, place, output>>

(* A part without changes may have been left out.                          *)
CheckOld ==
    /\ Parse("CHECK_OLD")
    /\ IF Line.kind \in {"label", "range"} /\ Line.mark = "---"
       THEN Reprocess("PARSE_NEW") /\ UNCHANGED hunk
       ELSE Reprocess("OLD_LINES") /\ hunk' = [hunk EXCEPT !.hold = hunk.head]
    /\ UNCHANGED <<given, input, header, place, output>>

(* A line of the old file that the list has already is found behind the    *)
(* inserted ones.                                                          *)
OldLines ==
    /\ Parse("OLD_LINES")
    /\ IF Line.kind # "body" \/ Line.mark \notin {" ", "-", "!"}
       THEN Fail /\ UNCHANGED <<hunk, old_line, new_line>>
       ELSE LET type == IF Line.mark = " " THEN " " ELSE "-"
                found == hunk.hold + 1 + Passed(hunk.list, hunk.hold, LAMBDA l : l.type = "+")
            IN  /\ old_line' = old_line + 1
                /\ new_line' = new_line + (IF type = " " THEN 1 ELSE 0)
                /\ IF old_line' > hunk.last["old"]
                   THEN hunk' = AddLine([hunk EXCEPT !.last = [old |-> old_line', new |-> new_line']], type, 0)
                   ELSE hunk' = [hunk EXCEPT !.hold = found,
                                  !.list = IF type = "-" /\ found <= Len(@)
                                           THEN [@ EXCEPT ![found].type = "-", ![found].number = 0] ELSE @]
                /\ IF old_line' <= hunk.last["old"] /\ found > Len(hunk.list) THEN Crash
                   ELSE Break(IF old_line' = end["old"] THEN "PARSE_NEW" ELSE "OLD_LINES")
    /\ UNCHANGED <<given, input, header, start, end, star, output>>

ParseNew ==
    /\ Parse("PARSE_NEW")
    /\ IF ~IsRange("---")
       THEN Fail /\ UNCHANGED <<hunk, end, old_line, new_line>>
       ELSE LET new_start == Line.numbers[1]
                before(n) == IF n = 0 THEN 0 ELSE n - 1
                first_part == hunk.first["new"] = 0
                deleted == IF first_part
                           THEN Passed(hunk.list, hunk.head, LAMBDA l : l.type = "-") ELSE 0
            IN  /\ end' = [end EXCEPT !["new"] = Line.numbers[Len(Line.numbers)]]
                /\ old_line' = before(start) + deleted
                /\ new_line' = before(new_start)
                /\ hunk' = [hunk EXCEPT
                      !.last["new"] = new_line + before(new_start),
                      !.first["new"] = IF first_part THEN new_start ELSE @,
                      !.hold = hunk.head + deleted,
                      !.list = NumberDeleted(@, hunk.head, deleted, before(start))]
                /\ Break(IF star /\ hunk'.last["new"] = end'["new"]
                         THEN "PARSE_CDIFF" ELSE "NEW_LINES")
    /\ UNCHANGED <<given, input, header, start, star, output>>

(* A common line is looked for in the list, and the changed lines after it *)
(* are passed.                                                             *)
NewLines ==
    /\ Parse("NEW_LINES")
    /\ IF Line.kind # "body" \/ Line.mark \notin {" ", "+", "!"}
       THEN Fail /\ UNCHANGED <<hunk, old_line, new_line>>
       ELSE LET common == Line.mark = " "
                at == old_line + (IF common THEN 1 ELSE 0)
                unknown == at > hunk.last["old"]
                found == hunk.hold + 1
                passed == Passed(hunk.list, found, LAMBDA l : l.number = 0 /\ l.type # " ")
                numbered == NumberDeleted(hunk.list, found, passed, at)
            IN  /\ new_line' = new_line + 1
                /\ IF unknown \/ ~common
                   THEN /\ old_line' = at
                        /\ hunk' = AddLine([hunk EXCEPT !.last["new"] = @ + 1,
                                              !.last["old"] = IF unknown THEN at ELSE @],
                                           IF common THEN " " ELSE "+", IF unknown THEN at ELSE 0)
                   ELSE IF found > Len(hunk.list) THEN UNCHANGED <<hunk, old_line>>
                   ELSE /\ old_line' = at + DeletedIn(hunk.list, found, found + passed)
                        /\ hunk' = [hunk EXCEPT !.hold = found + passed,
                                      !.list = [numbered EXCEPT ![found].number = at]]
                /\ IF ~unknown /\ common /\ found > Len(hunk.list) THEN Crash
                   ELSE Break(IF old_line' = end["old"] /\ new_line' = end["new"]
                              THEN "PARSE_CDIFF" ELSE "NEW_LINES")
    /\ UNCHANGED <<given, input, header, start, end, star, output>>

(* The end of the file: what there is of a hunk is printed.                *)
Finish ==
    /\ status = "running" /\ line_number > Len(input)
    /\ GenerateOutput(hunk)
    /\ status' = "ok"
    /\ UNCHANGED <<given, input, line_number, state, header, place>>

Terminated == status # "running" /\ UNCHANGED vars

Next ==
    \/ FindUnified \/ FindContext \/ CopyIndex \/ CopyLabel \/ CopyComment
    \/ ParseUnidiff \/ UniLines
    \/ ParseCdiff \/ ParseOld \/ CheckOld \/ OldLines \/ ParseNew \/ NewLines
    \/ Finish \/ Terminated

Spec == Init /\ [][Next]_vars

-----------------------------------------------------------------------------
(* Every variable has its type; the pointers point into the list.          *)
Pointers == 0..Len(hunk.list)
Pair == [{"old", "new"} -> Int]

TypeOK ==
    /\ line_number \in 1..(Len(input) + 1)
    /\ state \in {"FIND_NEXT", "PARSE_UNIDIFF", "UNI_LINES", "PARSE_CDIFF", "PARSE_OLD",
                  "CHECK_OLD", "OLD_LINES", "PARSE_NEW", "NEW_LINES"}
    /\ {input_type, output_type} \subseteq {"UNDECIDED", "CDIFF", "UNIDIFF"}
    /\ found_index \in BOOLEAN /\ name \in Nat
    /\ previous_start \in {" ", "***", "---", "+++"}
    /\ hunk.list \in Seq([type : Kinds, number : Nat, text : Nat \X Nat])
    /\ hunk.head \in Pointers /\ hunk.hold \in Pointers
    /\ hunk.first \in Pair /\ hunk.last \in Pair /\ end \in Pair
    /\ {start, old_line, new_line} \subseteq Int
    /\ star \in BOOLEAN
    /\ status \in {"running", "ok", "failed", "crashed"}

-----------------------------------------------------------------------------
(* What the output should be: the same comparisons in the other format.    *)

(* The counts of a header, of which diff leaves out a count of one.        *)
Normal(lines) ==
    LET full(n) == IF Len(n) = 2 THEN n ELSE <<n[1], 1>>
    IN  [k \in DOMAIN lines |->
            IF lines[k].kind = "@@" THEN At(full(lines[k].old), full(lines[k].new))
            ELSE lines[k]]

(* Old hunks of one pair that have lines in common become one.             *)
Merged(c, context) ==
    LET covered == UNION {2 * h[1]..2 * h[2] : h \in ToSet(Apart(c, context))}
        runs == Runs(covered)
    IN  [n \in DOMAIN runs |-> <<runs[n][1] \div 2, runs[n][2] \div 2>>]

Expected ==
    LET unified == IF given.option = "UNDECIDED" THEN ~IsUnified ELSE given.option = "UNIDIFF"
        style == IF ~unified THEN "context"
                 ELSE IF given.dress.use_equals THEN "equals" ELSE "unified"
        comments == SelectSeq(CommentLines(given), LAMBDA l : ~Stripped(l))
        named(f) == IF given.dress.index THEN <<>> ELSE <<Index(Min(ToSet(Names(f))))>>
        lines(f) == LET c == given.diff[f]
                    IN  Printed(style, f, c, IF IsOld(given) THEN Merged(c, given.context)
                                                             ELSE HunksOf(c, given.context))
    IN  Normal(FlattenSeq([f \in DOMAIN given.diff |->
                 comments \o IndexLines(given, f) \o
                 (IF patch_format THEN named(f) \o Tail(Tail(lines(f))) ELSE lines(f))]))

(* "convert context diffs into unidiffs, or vice-versa": the output is     *)
(* what diff itself would have printed of the same files in the format     *)
(* asked for, down to the numbers, the marks and the labels.  What a run   *)
(* has printed so far, one that may fail later included, is the beginning  *)
(* of it: no hunk is printed wrong, twice or too early.                    *)
Converts == /\ IsPrefix(Normal(output), Expected)
            /\ status = "ok" => Normal(output) = Expected

(* A diff that was converted shows the changed lines of the one given: no  *)
(* hunk is still waiting to be printed when unify ends.                    *)
Changed(lines) ==
    {l.text : l \in {b \in ToSet(lines) : b.kind = "body" /\ b.mark \in {"-", "+", "!"}}}
ShowsEveryChange == status = "ok" => Changed(output) = Changed(input)

(* A file that was removed, in a diff that has more to say.  Of one line,  *)
(* the old header `*** 1 ****' does not tell the new style from the old,   *)
(* and the lines of the new part, which is empty, are waited for.          *)
RemovedBefore ==
    \E f \in 1..(Len(given.diff) - 1) :
        \/ given.style = "context" /\ given.diff[f] = <<"-">>
        \/ IsOld(given) /\ ToSet(given.diff[f]) = {"-"}

(* "will accept either a regular context diff (old- or new-style) or a     *)
(* unified context diff": no other diff is taken for malformed, and no     *)
(* pointer is followed past the end of the list while two parts are merged.*)
Accepts == status \in {"running", "ok"} \/ (status = "failed" /\ RemovedBefore)
=============================================================================
