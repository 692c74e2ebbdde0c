--------------------------- MODULE WdiffReformat ---------------------------
(***************************************************************************)
(* reformat_diff_output of wdiff.c: the script that diff printed drives    *)
(* two readers over the input files, copying or skipping words, while      *)
(* markers, separator lines and the counts of the statistics are produced. *)
(* The straight-line code that obeys one directive is a sequence of calls; *)
(* the functions called are actions, so that a signal can come between any *)
(* two of them.  The processes around it are those of module WdiffRun.     *)
(***************************************************************************)
EXTENDS EditScript

CONSTANTS
    MaxWords,     \* words in an input file
    Blanks,       \* white space between words: within {"space", "newline"}
    Inhibits,     \* what options -1, -2, -3 inhibit: subsets of Inhibitable
    Terms,        \* markers the terminal may have, option -t: subsets of Markers
    Users,        \* markers the user may set, options -w to -z
    Overstrikes,  \* options -p and -l: a subset of {"none", "printer", "less"}
    Shrinks       \* whether a file may have shrunk when it is read again

Inhibitable == Side \cup {"common"}
Markers == {"delete_start", "delete_end", "insert_start", "insert_end"}

ASSUME OptionsAssumption ==
    /\ MaxWords \in Nat
    /\ Blanks \subseteq {"space", "newline"}
    /\ Inhibits \subseteq SUBSET Inhibitable
    /\ Terms \subseteq SUBSET Markers /\ Users \subseteq SUBSET Markers
    /\ Overstrikes \subseteq {"none", "printer", "less"}
    /\ Shrinks \subseteq BOOLEAN

VARIABLES
    options,      \* the command line
    text,         \* [Side -> Seq(item)]: the files as they are read again
    total,        \* count_total_left, count_total_right
    script,       \* what diff printed
    obeyed,       \* how many of its directives have been read
    calls,        \* the calls to be made before the next directive is read
    pc,           \* "reformat" | "remainder" | "cleanup" | "report" | "exited"
    next,         \* [Side -> Nat]: side->character is text[s][next[s]]
    position,     \* [Side -> Nat]: words read so far
    isolated,     \* [Side -> Nat]: count_isolated_left, count_isolated_right
    changed,      \* [Side -> Nat]: count_changed_left, count_changed_right
    copy_mode,
    output,       \* what was written to output_file
    interrupted,
    exit_status,
    wanted        \* the words the options ask for, for the properties

inputs == <<options, text, total, script, wanted>>
readers == <<next, position>>
counts == <<isolated, changed>>
vars == <<inputs, obeyed, calls, pc, readers, counts, copy_mode, output,
          interrupted, exit_status>>

-----------------------------------------------------------------------------
(* The inputs.                                                             *)

(* Text of words with one blank between two of them and, possibly, one at  *)
(* either end.                                                             *)
Items == Blanks \cup {"word"}
Texts == {t \in UNION {[1..n -> Items] : n \in 0..(2 * MaxWords + 1)} :
            /\ Cardinality({i \in DOMAIN t : t[i] = "word"}) <= MaxWords
            /\ \A i \in 1..(Len(t) - 1) : (t[i] = "word") # (t[i + 1] = "word")}

WordsIn(t) == Cardinality({i \in DOMAIN t : t[i] = "word"})

ScriptsOf == [p \in (0..MaxWords) \X (0..MaxWords) |-> Scripts(p[1], p[2])]

Options == [inhibit : Inhibits, term : Terms, user : Users,
            overstrike : Overstrikes, no_wrapping : BOOLEAN]

inhibited(x) == x \in options.inhibit

When(cond, seq) == IF cond THEN seq ELSE <<>>

(* Common words come from the right file, unless only deletions are shown. *)
Source == IF inhibited("right") /\ ~inhibited("left") THEN "left" ELSE "right"

(* What the options ask for of a transcript.                              *)
Wanted(t) ==
    LET Option(c) == IF c.kind = "common" THEN "common"
                       ELSE IF c.kind = "deleted" THEN "left" ELSE "right"
        From(c) == IF c.kind = "common" THEN Source ELSE Option(c)
        Entry(c) == [kind |-> c.kind, from |-> From(c), ordinal |-> c[From(c)]]
    IN  FlattenSeq([k \in DOMAIN t |-> When(~inhibited(Option(t[k])), <<Entry(t[k])>>)])

Init ==
    /\ options \in Options
    /\ text \in [Side -> Texts]
    /\ total = [s \in Side |-> WordsIn(text[s])]
    /\ script \in ScriptsOf[<<total["left"], total["right"]>>]
    /\ obeyed = 0
    /\ calls = <<>>
    /\ pc = "reformat"
    /\ next = [s \in Side |-> 1]
    /\ position = [s \in Side |-> 0]
    /\ isolated = [s \in Side |-> 0] /\ changed = [s \in Side |-> 0]
    /\ copy_mode = "NORMAL"
    /\ output = <<>>
    /\ interrupted = FALSE
    /\ exit_status = -1
    /\ \E t \in {Transcript(script, total)} : wanted = Wanted(t)

-----------------------------------------------------------------------------
(* Output.                                                                 *)

(* initialize_strings: the default markers.                                *)
Defaults == IF options.overstrike # "none" THEN {}
            ELSE Markers \ (options.term \cup options.user)

UserStrings == options.user \cup Defaults

(* How -p and -l print a character in the current mode.                    *)
Look(item) ==
    IF \/ copy_mode = "NORMAL" \/ item = "newline"
       \/ item = "word" /\ options.overstrike = "none"
       \/ item = "space" /\ options.overstrike # "less"
    THEN "plain"
    ELSE IF copy_mode = "DELETED" THEN "underlined" ELSE "bold"

Char(s, i) == [kind |-> text[s][i], from |-> s, at |-> i, mode |-> copy_mode,
               look |-> Look(text[s][i])]

Other(kind, from) == [kind |-> kind, from |-> from, at |-> 0,
                      mode |-> copy_mode, look |-> "plain"]
TermMark(m) == When(m \in options.term, <<Other(m, "term")>>)
UserMark(m) == When(m \in UserStrings, <<Other(m, "user")>>)
StartMarks(m) == TermMark(m) \o UserMark(m)

(* Mutant: the terminal's own mode is not ended.                           *)
EndMarksOfUser(m) == UserMark(m)

EndMarks(m) == UserMark(m) \o TermMark(m)

Start(mode) == IF mode = "DELETED" THEN "delete_start" ELSE "insert_start"
End(mode) == IF mode = "DELETED" THEN "delete_end" ELSE "insert_end"

(* Emphasis that would be useless: everything shown would have it.         *)
Useless == inhibited("common") /\ (inhibited("right") \/ inhibited("left"))

(* A line ends inside an emphasis.                                         *)
Newline(s, i) ==
    When(options.no_wrapping, UserMark(End(copy_mode))) \o
    TermMark(End(copy_mode)) \o <<Char(s, i)>> \o TermMark(Start(copy_mode)) \o
    When(options.no_wrapping, UserMark(Start(copy_mode)))

Blank(s, i) ==
    IF text[s][i] = "newline" /\ copy_mode # "NORMAL" THEN Newline(s, i)
                                                     ELSE <<Char(s, i)>>

-----------------------------------------------------------------------------
(* Calls.                                                                  *)

copy_whitespace(s) == [fn |-> "copy_whitespace", side |-> s]
copy_word(s) == [fn |-> "copy_word", side |-> s]
copy_until_ordinal(s, n) == [fn |-> "copy_until_ordinal", side |-> s, ordinal |-> n]
skip_until_ordinal(s, n) == [fn |-> "skip_until_ordinal", side |-> s, ordinal |-> n]
start_of(mode) == [fn |-> "start", mode |-> mode]
end_of(mode) == [fn |-> "end", mode |-> mode]
separator == [fn |-> "separator"]

(* The words before the directive's own, which are common.                 *)
Resync(h) ==
    When(~inhibited("left"),
         IF ~inhibited("common") /\ inhibited("right")
         THEN <<copy_until_ordinal("left", FirstWord(h, "left") - 1)>>
         ELSE <<skip_until_ordinal("left", FirstWord(h, "left") - 1)>>) \o
    When(~inhibited("right"),
         IF inhibited("common")
         THEN <<skip_until_ordinal("right", FirstWord(h, "right") - 1)>>
         ELSE <<copy_until_ordinal("right", FirstWord(h, "right") - 1)>>) \o
    When(~inhibited("common") /\ Side \subseteq options.inhibit,
         <<copy_until_ordinal("right", FirstWord(h, "right") - 1)>>)

Separate ==
    When((Side \subseteq options.inhibit) # inhibited("common"), <<separator>>)

Emphasised(s, mode, last) ==
    <<copy_whitespace(s), start_of(mode), copy_word(s),
      copy_until_ordinal(s, last), end_of(mode)>>

ShowDeleted(h) ==
    When(h.letter \in {"d", "c"} /\ ~inhibited("left"),
         Emphasised("left", "DELETED", LastWord(h, "left")))

(* Mutant: inserted words that are not shown are not skipped either.       *)
InsertedNotSkipped(h) ==
    When(h.letter \in {"a", "c"} /\ ~inhibited("right"),
         Emphasised("right", "INSERTED", LastWord(h, "right")))

ShowInserted(h) ==
    When(h.letter \in {"a", "c"},
         IF inhibited("right")
         THEN When(~inhibited("common") /\ inhibited("left"),
                   <<skip_until_ordinal("right", LastWord(h, "right"))>>)
         ELSE Emphasised("right", "INSERTED", LastWord(h, "right")))

Obey(h) == Resync(h) \o Separate \o ShowDeleted(h) \o ShowInserted(h)

(* Mutant: the white space after the last word is not copied.              *)
CopyRestWords ==
    IF inhibited("common")
    THEN When(~(Side \subseteq options.inhibit), <<separator>>)
    ELSE LET s == IF ~inhibited("left") /\ inhibited("right") THEN "left" ELSE "right"
         IN  <<copy_until_ordinal(s, total[s])>>

CopyRest ==
    IF inhibited("common")
    THEN When(~(Side \subseteq options.inhibit), <<separator>>)
    ELSE LET s == IF ~inhibited("left") /\ inhibited("right") THEN "left" ELSE "right"
         IN  <<copy_until_ordinal(s, total[s]), copy_whitespace(s)>>

-----------------------------------------------------------------------------
(* Actions.                                                                *)

(* What is left to be done once the present call is.                       *)
Then(first) == calls' = first \o Tail(calls)

Called(fn) == calls # <<>> /\ Head(calls).fn = fn

(* longjmp to main, out of whatever was being done.                        *)
LongJump == interrupted /\ pc' = "cleanup" /\ calls' = <<>>

(* Mutant: changed words count as isolated on the left.                    *)
CountChangedLeft(h) ==
    /\ isolated' = [s \in Side |-> isolated[s] +
                      IF h.letter = "c" /\ s = "right" THEN 0
                      ELSE LastWord(h, s) - FirstWord(h, s) + 1]
    /\ changed' = [s \in Side |-> changed[s] +
                      IF h.letter = "c" THEN LastWord(h, s) - FirstWord(h, s) + 1 ELSE 0]

Count(h) ==
    /\ isolated' = [s \in Side |-> isolated[s] +
                      IF h.letter = "c" THEN 0 ELSE LastWord(h, s) - FirstWord(h, s) + 1]
    /\ changed' = [s \in Side |-> changed[s] +
                      IF h.letter = "c" THEN LastWord(h, s) - FirstWord(h, s) + 1 ELSE 0]

(* The head of the loop: obey the next directive or leave.                 *)
ReadDirective ==
    /\ pc = "reformat" /\ calls = <<>>
    /\ \/ LongJump /\ UNCHANGED <<obeyed, counts>>
       \/ /\ ~interrupted
          /\ IF obeyed < Len(script)
             THEN /\ obeyed' = obeyed + 1
                  /\ Count(script[obeyed'])
                  /\ calls' = Obey(script[obeyed'])
                  /\ UNCHANGED pc
             ELSE /\ calls' = CopyRest
                  /\ pc' = "remainder"
                  /\ UNCHANGED <<obeyed, counts>>
    /\ UNCHANGED <<inputs, readers, copy_mode, output, interrupted, exit_status>>

control == <<inputs, obeyed, counts, interrupted, exit_status>>

CopyUntilOrdinal ==
    /\ Called("copy_until_ordinal")
    /\ LET s == Head(calls).side
       IN  Then(IF position[s] < Head(calls).ordinal
                THEN <<copy_whitespace(s), copy_word(s), Head(calls)>> ELSE <<>>)
    /\ UNCHANGED <<control, pc, readers, copy_mode, output>>

(* Where the white space ends that the reader is at.                       *)
NextWord(s) ==
    Min({i \in DOMAIN text[s] : i >= next[s] /\ text[s][i] = "word"}
          \cup {Len(text[s]) + 1})

CopyWhitespace ==
    /\ Called("copy_whitespace")
    /\ LET s == Head(calls).side
       IN  \/ LongJump /\ UNCHANGED <<next, output>>
          \/ /\ ~interrupted /\ Then(<<>>) /\ UNCHANGED pc
             /\ next' = [next EXCEPT ![s] = NextWord(s)]
             /\ output' = output \o
                  FlattenSeq([k \in 1..(NextWord(s) - next[s]) |-> Blank(s, next[s] + k - 1)])
    /\ UNCHANGED <<control, position, copy_mode>>

AtWord(s) == next[s] \in DOMAIN text[s] /\ text[s][next[s]] = "word"

(* Mutant: a word is counted only if there was one.                        *)
CountedOnlyIfRead(s) == AtWord(s)

(* position++ at the end of the file as well.                              *)
Counted(s) == TRUE

CopyWord ==
    /\ Called("copy_word")
    /\ LET s == Head(calls).side
       IN  \/ LongJump /\ UNCHANGED <<readers, output>>
          \/ /\ ~interrupted /\ Then(<<>>) /\ UNCHANGED pc
             /\ next' = [next EXCEPT ![s] = @ + IF AtWord(s) THEN 1 ELSE 0]
             /\ position' = [position EXCEPT ![s] = @ + IF Counted(s) THEN 1 ELSE 0]
             /\ output' = output \o When(AtWord(s), <<Char(s, next[s])>>)
    /\ UNCHANGED <<control, copy_mode>>

(* One round of the loop, skip_whitespace and skip_word.                   *)
SkipUntilOrdinal ==
    /\ Called("skip_until_ordinal")
    /\ LET s == Head(calls).side
       IN  IF position[s] >= Head(calls).ordinal
           THEN Then(<<>>) /\ UNCHANGED <<pc, readers>>
           ELSE \/ LongJump /\ UNCHANGED readers
                \/ /\ ~interrupted /\ UNCHANGED <<pc, calls>>
                   /\ next' = [next EXCEPT ![s] =
                                 Min({NextWord(s) + 1, Len(text[s]) + 1})]
                   /\ position' = [position EXCEPT ![s] = @ + IF Counted(s) THEN 1 ELSE 0]
    /\ UNCHANGED <<control, copy_mode, output>>

StartEmphasis ==
    /\ Called("start") /\ Then(<<>>)
    /\ LET mode == Head(calls).mode
       IN  IF Useless THEN UNCHANGED <<copy_mode, output>>
           ELSE /\ copy_mode' = mode
                /\ output' = output \o StartMarks(Start(mode))
    /\ UNCHANGED <<control, pc, readers>>

EndOf(mode) ==
    IF Useless THEN UNCHANGED <<copy_mode, output>>
    ELSE /\ output' = output \o EndMarks(End(mode))
         /\ copy_mode' = "NORMAL"

EndEmphasis ==
    /\ Called("end") /\ Then(<<>>)
    /\ EndOf(Head(calls).mode)
    /\ UNCHANGED <<control, pc, readers>>

PutSeparator ==
    /\ Called("separator") /\ Then(<<>>)
    /\ output' = output \o <<Other("newline", "wdiff"), Other("separator", "wdiff"),
                            Other("newline", "wdiff")>>
    /\ UNCHANGED <<control, pc, readers, copy_mode>>

(* The remainder has been copied.                                          *)
Return ==
    /\ pc = "remainder" /\ calls = <<>>
    /\ pc' = "cleanup"
    /\ UNCHANGED <<control, calls, readers, copy_mode, output>>

(* Mutant: main forgets the emphasis that a signal left pending.           *)
PendingForgotten == UNCHANGED <<copy_mode, output>>

(* complete_output_program ends a pending emphasis.                        *)
PendingEnded ==
    IF copy_mode = "NORMAL" THEN UNCHANGED <<copy_mode, output>>
                            ELSE EndOf(copy_mode)

CompleteOutput ==
    /\ pc = "cleanup"
    /\ pc' = "report"
    /\ PendingEnded
    /\ UNCHANGED <<control, calls, readers>>

(* Mutant: changed words do not make a difference.                         *)
DifferentIfIsolated == \E s \in Side : isolated[s] # 0

Different == \E s \in Side : isolated[s] # 0 \/ changed[s] # 0

(* Mutant: the status is the number of words that differ.                  *)
StatusIsCount ==
    IF interrupted THEN 2 ELSE isolated["left"] + isolated["right"] + changed["right"]

Status == IF interrupted THEN 2 ELSE IF Different THEN 1 ELSE 0

Report ==
    /\ pc = "report"
    /\ pc' = "exited"
    /\ exit_status' = Status
    /\ UNCHANGED <<inputs, obeyed, counts, interrupted, calls, readers,
                   copy_mode, output>>

Interrupt ==
    /\ ~interrupted /\ pc # "exited"
    /\ interrupted' = TRUE
    /\ UNCHANGED <<inputs, obeyed, counts, exit_status, calls, pc, readers,
                   copy_mode, output>>

(* A file may lose its end after its words were counted.                   *)
Shrink ==
    /\ TRUE \in Shrinks /\ pc \in {"reformat", "remainder"}
    /\ \E s \in Side, n \in 0..(2 * MaxWords) :
          /\ next[s] - 1 <= n /\ n < Len(text[s])
          /\ text' = [text EXCEPT ![s] = SubSeq(@, 1, n)]
    /\ UNCHANGED <<options, total, script, wanted, obeyed, calls, pc, readers, counts,
                   copy_mode, output, interrupted, exit_status>>

Terminated == pc = "exited" /\ UNCHANGED vars

Reformat ==
    \/ ReadDirective \/ CopyUntilOrdinal \/ SkipUntilOrdinal \/ CopyWhitespace
    \/ CopyWord \/ StartEmphasis \/ EndEmphasis \/ PutSeparator \/ Return
    \/ CompleteOutput \/ Report

Next == Reformat \/ Interrupt \/ Shrink \/ Terminated

Spec == Init /\ [][Next]_vars
FairSpec == Spec /\ WF_vars(Reformat)

-----------------------------------------------------------------------------
(* Every variable has its type.                                            *)
TypeOK ==
    /\ options \in Options
    /\ \A s \in Side : text[s] \in Seq(Items) /\ total[s] \in 0..MaxWords
    /\ obeyed \in 0..Len(script)
    /\ \A i \in DOMAIN calls :
         calls[i].fn \in {"copy_until_ordinal", "skip_until_ordinal", "copy_whitespace",
                         "copy_word", "start", "end", "separator"}
    /\ pc \in {"reformat", "remainder", "cleanup", "report", "exited"}
    /\ next \in [Side -> Nat \ {0}] /\ position \in [Side -> Nat]
    /\ isolated \in [Side -> Nat] /\ changed \in [Side -> Nat]
    /\ copy_mode \in {"NORMAL", "DELETED", "INSERTED"}
    /\ output \in Seq([kind : Items \cup Markers \cup {"separator", "newline"},
                       from : Side \cup {"term", "user", "wdiff"}, at : Nat,
                       mode : {"NORMAL", "DELETED", "INSERTED"},
                       look : {"plain", "underlined", "bold"}])
    /\ interrupted \in BOOLEAN
    /\ exit_status \in {-1, 0, 1, 2}

(***************************************************************************)
(* What the output shows: its words, each with what the reader takes it    *)
(* for, against the transcript of the script without what is inhibited.    *)
(***************************************************************************)
Succeeded == exit_status \in {0, 1}

Ordinal(s, i) == Cardinality({k \in 1..i : text[s][k] = "word"})

TakenFor(o) ==
    CASE o.mode = "DELETED" -> "deleted"
      [] o.mode = "INSERTED" -> "inserted"
      [] o.mode = "NORMAL" /\ ~inhibited("common") -> "common"
      [] OTHER -> IF o.from = "left" THEN "deleted" ELSE "inserted"

Shown ==
    LET Entry(o) == [kind |-> TakenFor(o), from |-> o.from, ordinal |-> Ordinal(o.from, o.at)]
    IN  FlattenSeq([i \in DOMAIN output |->
            When(output[i].kind = "word", <<Entry(output[i])>>)])

Copy == INSTANCE AnnotatedCopy WITH
            transcript <- wanted, shown <- Shown,
            outcome <- IF exit_status = -1 THEN "running"
                       ELSE IF Succeeded THEN "complete" ELSE "stopped"

(* The two readers, advanced separately, skipping or copying as the        *)
(* options say, show the words of the comparison in order, each once, and  *)
(* all of them unless a signal stops the run.                              *)
ShowsComparison == Copy!Spec

(* Text whose words are all shown is shown as it is, white space and line  *)
(* ends included, whatever is inserted into it.                            *)
TextIntact ==
    Succeeded /\ ~inhibited("common") /\ ~inhibited(Source) =>
        LET chars == {i \in DOMAIN output : output[i].from = Source}
        IN  /\ \A i, j \in chars : i < j => output[i].at < output[j].at
            /\ {output[i].at : i \in chars} = DOMAIN text[Source]

(* The markers that have been printed up to i leave an emphasis on.        *)
Starts == {"delete_start", "insert_start"}
On(i, from) ==
    LET marks == {j \in DOMAIN output : j < i /\ output[j].from = from}
    IN  marks # {} /\ output[Max(marks)].kind \in Starts

Strings(from) == IF from = "term" THEN options.term ELSE UserStrings
Closable(from) ==
    \A mode \in {"DELETED", "INSERTED"} : Start(mode) \in Strings(from) => End(mode) \in Strings(from)

(* A word looks emphasised, by its markers or by overstriking, exactly     *)
(* when it is not common to both files.                                    *)
EmphasisTellsTruth ==
    ~Useless /\ Closable("user") /\ Closable("term") =>
        \A i \in DOMAIN output :
            output[i].kind = "word" =>
                ((output[i].look # "plain" \/ On(i, "user") \/ On(i, "term"))
                   <=> \E n \in 1..obeyed :
                         Ordinal(output[i].from, output[i].at)
                           \in FirstWord(script[n], output[i].from)..LastWord(script[n], output[i].from))

(* Option -n, "end/restart strings at ends of lines", and the terminal's   *)
(* modes always: no line ends while an emphasis is on.  And whatever a     *)
(* signal interrupts, none is left on at the end.                          *)
LinesEndPlain ==
    /\ \A i \in DOMAIN output :
         output[i].kind = "newline" =>
             /\ Closable("term") => ~On(i, "term")
             /\ Closable("user") /\ options.no_wrapping => ~On(i, "user")
    /\ pc = "exited" => \A from \in {"user", "term"} :
                           Closable(from) => ~On(Len(output) + 1, from)

Common(s) == total[s] - isolated[s] - changed[s]

(* print_statistics reports as many common words for the left file as for  *)
(* the right, never a negative number of them.                             *)
StatisticsAgree ==
    Succeeded => Common("left") = Common("right") /\ Common("left") >= 0

(* The counts decide on the exit status as the script does.                *)
StatusTellsScript ==
    /\ exit_status = 0 => script = <<>>
    /\ exit_status = 1 => script # <<>>

(* Reading on at the end of a file that has shrunk, or stopping for a      *)
(* signal, the reformatting ends.                                          *)
Terminates == <>(pc = "exited")

=============================================================================
