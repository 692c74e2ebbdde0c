# A verification project for wdiff

The repository distributes GNU wdiff 1.2.2 (`upstream/wdiff`) with the `diff`
it runs (`upstream/diffutils`). `wdiff` compares two files word by word: it
writes one word per line to two temporary files, has `diff` compare those, and
copies the original files with the words that differ marked. `mdiff`, from the
same sources, looks for text repeated in any number of files, and `unify`
converts a diff between context and unified format. diffutils comes with `diff3`,
which combines two runs of `diff` to a merge.

The modules here model these programs, TLC checks them on small
instances, and TLAPS proves the theorems of the eight `_proof` modules. Paths and
line numbers below are of `upstream/wdiff/src/` unless they say otherwise;
`analyze.c`, `io.c`, `util.c`, `normal.c`, `ed.c`, `side.c`, `ifdef.c` and `diff3.c`
are in `upstream/diffutils/src/`, `diffseq.h` in `upstream/diffutils/lib/`.

| module | models | runs | theorems |
|---|---|---|---|
| `WdiffRun` | one run of wdiff with its children, files and signals | `WdiffRun_*` | `WdiffRun_proof` |
| `EditScript` | the directives of diff's normal format | through `WdiffReformat` | `EditScript_proof` |
| `WdiffSplit` | what wdiff gives diff and hears of it, by characters | through `MCWdiffSplit` | |
| `MCWdiffSplit` | small unified diffs | `WdiffSplit_sides` | |
| `AnnotatedCopy` | abstract: what wdiff promises its reader | refined by `WdiffReformat` | |
| `WdiffReformat` | `reformat_diff_output` and all it calls | `WdiffReformat_*` | `WdiffReformat_proof`, `WdiffReformat_copy_proof` |
| `ContextDiff` | diff's context and unified formats | through `Unify` | |
| `Unify` | `unify.c` | `Unify_*` | |
| `MdiffClusters` | items and clusters of `mdiff.c` | through `Mdiff` | |
| `Mdiff` | mergings and listings of `mdiff.c` | through `MCMdiff` | |
| `MCMdiff` | corpora and command lines for `Mdiff` | `Mdiff_*` | |
| `Compareseq` | abstract: `compareseq`, dividing anywhere | refined by `DiffCompare` | `Compareseq_proof` |
| `DiffCompare` | diff's comparison of two files, heuristics and all | through `MCDiff` | `DiffCompare_proof` |
| `DiffOutput` | the formats diff prints and what reads them | through `MCDiff` | `DiffScript_proof` |
| `MCDiff` | pairs of files and options for diff | `Diff_compare` | |
| `Diff3` | `diff3.c` | through `MCDiff3` | `Diff3_proof` |
| `MCDiff3` | triples of files with diff's scripts for them | `Diff3_*` | |


## 1. Inventory

### wdiff: the run (`wdiff.c` main, `pipes.c`)

*State.* Two sides with a temporary file each; the pipe from `diff`
(`input_file`) and the stream to the pager or to standard output
(`output_file`); a flag `interrupted` set by the signal handler; the emphasis
that is on (`copy_mode`); six counts, of which the exit status is made.

*Operations.* `split_diff` (only with `-d`), `setup_signals`,
`split_file_into_words` twice, `launch_input_program`, `launch_output_program`,
`initialize_strings`, `reformat_diff_output`, `complete_input_program`,
cleaning up, `complete_output_program`, the exit status.

*Interactions.* Three processes and two pipes. `diff` opens the temporary files
by name, some time after it was launched. `wait` returns whichever child has
ended. The pager inherits every descriptor that wdiff has when it is launched.
The handler only sets a flag, which the copying functions look at; they
`longjmp` to main.

*Hard.* Who ends first; which `wait` reaps whom; a full pipe; a pager that was
quit; a signal between any two steps; every early `exit` with files and
children left behind.

*Correct if* status 0 or 1 means a complete comparison, whose children were
reaped; main's cleaning up tries to remove every file that was made; `diff` finds
its files; lost output is an error; a run ends.

### wdiff: reformatting (`wdiff.c` 278-528, 800-1000, 1110-1166)

*State.* A reader for each input file, with the count of the words it has
passed; the directive being obeyed; the emphasis; the counts.

*Operations.* Read a directive, count it, bring both readers up to it, show the
deleted and the inserted words, copy the rest; `copy_whitespace`, `copy_word`
and their skipping twins; start and end of emphasis.

*Hard.* Options `-1 -2 -3` decide in five places which reader copies and which
skips; markers of the terminal, of the user, by default and overstriking are
combined; emphasis is interrupted at line ends; the input files are read a
second time and may have changed.

*Correct if* the words asked for are shown in order, each once, with the
emphasis that tells what they are; statistics add up; emphasis is off at the
end, whatever was interrupted.

### wdiff: splitting and directives (`wdiff.c` 597-723, 734-801)

*State.* The sides the current line goes to and whether a line begins; the reader of
a side; four numbers, a letter and an error while a directive is decoded.

*Operations.* `split_diff` deals the lines of a diff out to two files;
`split_file_into_words` finds the words; `decode_directive_line` scans a directive,
and the lines between two are skipped.

*Hard.* A mark counts at the beginning of a line only, and a line begins after a
carriage return as well as after a newline; a line without a mark belongs to both
sides, whatever the one before it did. In a directive two of the four numbers may
be missing and take the value of the one before.

*Correct if* diff compares the words of the two sides of the diff and the directives
obeyed are those that it printed.

### unify (`unify.c`)

*State.* A parser of nine states over lines; a list of the lines of the current
hunk with pointers `hold` and `head`; the ranges of the hunk; what is known of
the format and of the file's name.

*Hard.* The old part of a context hunk is read first, then the new part is
woven into it; a part without changes is left out; hunks of the old style may
overlap and become one; one number stands for a range of one line or of none.

*Correct if* the output is what `diff` would have printed in the other format.

### mdiff (`mdiff.c`)

*State.* `item_array`: the words or lines of all files, with sentinels;
`cluster_array` and `member_array`: runs of items repeated somewhere;
`indirect_array`: members in textual order; `merging_array`: how files are
merged; for each file a cursor.

*Operations.* `study_all_inputs`, `prepare_clusters`, `prepare_indirects`,
`prepare_mergings`, then one listing: merged by words (`-W`), merged by lines
(`-c`, `-u`), or annotated (`-G` and the default for one file).

*Hard.* Text that repeats itself gives members that overlap; clusters within
clusters; members that cross; the arrays are changed while they are walked;
every cursor of every file must stay in step.

*Correct if* members really repeat and do not overlap, whatever occurs twice is
in some cluster, a merged listing restores every file, an annotated one tells
which members an item is in, no assertion fails, and the search ends.

### diff: comparison (`analyze.c`, `diffseq.h`, `find_identical_ends` of `io.c`)

*State.* The lines that remain of both files when identical ends are cut off, by
class; which of them are discarded as hopeless; a flag for each line that is
deleted or inserted; the recursion of `compareseq` over boxes of the edit matrix;
the diagonals `fdiag` and `bdiag` of the sweep that runs; a run being moved.

*Operations.* `find_identical_ends`, `discard_confusing_lines`, `compareseq` with
`diag`, `shift_boundaries`, `build_script`.

*Hard.* The two sweeps of `diag` share the limits of the box, which grow and shrink
by diagonals of one parity; each reads its neighbours' entries, written a sweep
ago. Three heuristics end the search early at a point that is on no shortest path.
Discarded lines may match. A run that is moved merges with others, in two files.

*Correct if* the lines left without a flag are the same in both files, as many as
can be where that is promised; the recursion ends; runs are joined as far as they
can be.

### diff: formats (`util.c`, `normal.c`, `ed.c`, `side.c`, `ifdef.c`)

*State.* None but `next0` and `next1` of side by side and ifdef output, the lines to be
printed next.

*Hard.* Offsets inside, line numbers outside, empty ranges at 0; ignored hunks move
nothing and print nothing, and the lines they leave behind must still come out.

*Correct if* each reader of a format makes the second file of the first: `ed`,
`rcs`, the preprocessor, a reader of two columns, and wdiff.

### diff3 (`diff3.c`)

*State.* Two threads of hunks, diffs of two files against a common third; the hunks
in `using` for the block being made with a high and a base water mark; the blocks
made so far.

*Operations.* `make_3way_diff`, `using_to_diff3_block`, then one output: a listing, an ed
script, or a merge into a copy of MYFILE.

*Hard.* Hunks of the threads overlap, touch, and bridge each other; a file without
a hunk in a block is counted on from the block before; the common file is OLDFILE
for a merge, YOURFILE for a listing and another one when that is standard input; the
ed script is written backwards, brackets end first, with dots doubled and taken
off again.

*Correct if* a block is made for each connected group of changes, everything outside
is shared by all three, a listing restores the files, a merge takes every change of
the kind asked for once and no other, and the ed script does the same.

### The rest

`wdiff2.c` translates options and executes mdiff. `cmp`, `sdiff` and diff's walk
through directories are not run by wdiff, mdiff or unify. `lib`, `gnulib-tests`, `m4`, `po`, `build`, `scripts`, `fuzz`,
`dist` and `docs` hold portability code, tests, build scripts and pages.
`PROJECT.json` lists all of it under `components`, with what is modelled.


## 2. How modules correspond to code

### WdiffRun

One action for each step of main that another process can see or disturb.
`pc` names the place in main; an action's name is that of the function or of
the statement it stands for (`MakeRaw` and `UnlinkRaw` are the two halves of
`create_temporary_side`; `FcloseInput` and `CompleteInputProgram` are the
`fclose` and the `wait` of `complete_input_program`, called from two places).

| variable | code |
|---|---|
| `temp_name`, `disk` | `side->temp_name`; what the directory holds |
| `stuck` | no variable of the code: the files that the clean-up tried to unlink in vain, whose failure main does not look at |
| `input_file`, `output_file` | the streams, `"stdin"` and `"fd0"` being what `fdopen (0)` gives after a failed `pipe` or `fork` |
| `processed` | the directives obeyed: counts are zero iff it is empty |
| `child`, `readers`, `writer` | the processes and who holds the pipe ends |
| `diff_pipe`, `todo`, `pager_pipe`, `buffered` | what was written, by whom, and where it is |
| `dropped` | output refused by a pager that had gone |

`DiffOpens`, `DiffWrites`, `DiffEnds`, `DiffFails`, `PagerStarts`, `PagerReads`,
`PagerQuits` and `Signal` are the environment. `Faults` names the failures that
may be injected: opening and making files, unlinking (an error in
`create_temporary_side`, ignored in main's cleaning up), `fork`, executing the pager, the terminal's description, a failing diff, word files that diff takes
for binary. Output is counted in chunks: which words they hold is the business
of `WdiffReformat`.

### WdiffReformat, EditScript, AnnotatedCopy

A directive is obeyed by a straight sequence of calls; `calls` holds those still
to be made, so that a signal (`Interrupt`) can come between any two of them, and
each function called is an action. `text` is what the readers find, `total` how
many words the first reading counted: `Shrink` lets them differ. `output` is
the sequence of what was written, a record for each character or marker with the
emphasis it was written under.

`EditScript` says which scripts `diff` can print of two lists of words, and what
they mean, from `print_normal_hunk` and `translate_range`. The model takes any of
them, not just the one that diff's algorithm finds. `AnnotatedCopy` is the
abstract specification, three actions: show the next word, complete, stop.
`ShowsComparison` is its specification under the mapping `Shown`, the words
that a reader sees with what their emphasis says of them.

### WdiffSplit

`SplitCharacter` is a turn of the loop of `split_diff`, `SplitWord` one of that of
`split_file_into_words`, `ReadNumber` one of that of `decode_directive_line`, whose
beginning and end are `BeginDirective` and `EndDirective`; `SkipLine` is the loop
that skips what diff prints below a directive. `listing` is that text, written by
`NormalHunk` as `normal.c` does; `script` is any of those that leave as many words
common as can be (`Longest`). `Base` stands for the 10 of the
decimal system: in base 2 four words have numbers of three digits.
`WordsOf` and `TextOf` define what words and sides are without a loop over
characters. The files are made and removed, and signals come, in `WdiffRun`, and
the directives heard are the `script` of `WdiffReformat`.

### Unify, ContextDiff

One action per state of the parser (`FIND_NEXT` has one per kind of line),
`break` and `goto reprocess` being `Break` and `Reprocess`. `hunk` keeps the list
as a sequence, in which `head` and `hold` are positions, 0 standing for `root`.
Following a null pointer is the status `"crashed"`. `ContextDiff` prints
comparisons the way `context.c` does; it makes the inputs, and the output is
compared with what it prints in the other format.

Names of files are lengths (only that is compared); texts are identities. Left
out: `-e`, `Prereq:` lines, stripped blank lines and their repair, blank lines
before a new header, lines longer than 2048 characters.

### MdiffClusters, Mdiff

Indices count from 1. The loops of `prepare_clusters` are the stages `"set"`,
`"tallest"`, `"gather"` and `"overlap"`, one action for each turn: `BeginSet`
computes `size_array` for items that go on alike, `Tallest` picks the next size,
`Gather` the next putative members, `Overlap` judges one member, `NewCluster`
stores those that remain. `MergeGroup` is one turn of the loop of
`prepare_mergings`, `ListGroup` of that of the merged listings, `ListItem` of that
of the annotated one. An assertion that fails is the stage `"aborted"`.

An item's checksum is the item (no collisions); `--tolerance` is 0; `-I` is the
type WHITE that it gives to a line. Wording, margins, links, explanations,
braces' columns and paging are left out. Files end with a newline unless they are
empty, and the minimum size is at least 1.

The model was compared with the compiled program on about nine thousand final
states of the model, by words, by lines and annotated: both list the same items,
marked the same.

### DiffCompare, Compareseq, DiffOutput

Each `stage` is a loop or a call: `"read"` and `"suffix"` of `find_identical_ends`,
`"discard"` (`MarkDiscardable`) and `"thin"` of `discard_confusing_lines`, `"slide"` to
`"consider"` of `compareseq` and `diag`, `"scan"` to `"return"` of
`shift_boundaries`, and `"build"`. `todo` is the call stack of `compareseq`, the
running call first; `search` holds `diag`'s locals, of whose arrays only the entries
written in this call are in the domain, so that one left over from another call is never
taken for a value. `Forward` and `Backward` are one sweep of one direction. A line is
a number, `Class` the number of the first line that compares equal to it.

The machine's speed is behind the thresholds 5, 20, 200 and 12 of the heuristics:
they are the constants `Many`, `SnakeLimit`, `LongSearch` and `Progress`, so that
files of a few lines reach every branch. `OFFSET_MAX` is the machine's `LIN_MAX`; that a
file has fewer lines is assumed, since its lines are in memory and `io.c:416` gives up
before they are as many.

`Compareseq` is the abstract specification, three actions: slide along a
diagonal, flag a box with an empty side, divide a box anywhere. `Compares` is its
specification under the mapping `Abstract`, in which the pairs found equal are the
kth of one file with the kth of the other. So "It cannot cause incorrect diff
output" (`diffseq.h`) is checked as a refinement, and what follows from it is
proved for vectors of any length.

`DiffOutput` prints the script as `normal.c`, `ed.c`, `side.c` and `ifdef.c` do, and
reads it back as `ed`, `rcs` and the preprocessor would (these are marked external).

### Diff3

`BeginBlock`, `Incorporate` and `MakeBlock` are the statements in front of the inner
loop of `make_3way_diff`, a turn of it, and the call of `using_to_diff3_block`
behind it. Files are numbered as arguments, internally the common one is 2, as in the
code; `mapping` and `rev_mapping` go between. The outputs are functions of the
blocks: `Listing`, `EdScript` and `Merge`, the last with the copy of MYFILE that
`output_diff3_merge` reads along. `Options` holds the flags that the letters set.
A line is a number of leading dots and a text. `CONSTANT Comparisons` gives diff's
scripts; diff may print any script that `EditScript` allows.


## 3. Runs

The first eight runs find no error. Each of their properties has a mutant in
`PROJECT.json`, a plausible bug for which TLC finds it violated.

| run | instance | shows |
|---|---|---|
| `WdiffRun_faults` | 2 directives, pipes of one chunk, one signal, every fault, without a pager and with both kinds | types; `SuccessIsComplete`, `CleanUpForgetsNoFile`, `SuccessReapsChildren`, `LostOutputIsAnError`, `DiffFindsItsFiles`, `EmphasisClosed`, `DiffTroubleIsSeen`; `TerminatesUndisturbed` |
| `WdiffSplit_sides` | diffs of up to 2 lines of 32 kinds (marks, words, indentation, DOS line ends, lines of hunks) and of 4 lines of 7 kinds, numbers in base 2 | `ComparesTheSides` |
| `WdiffReformat_words` | texts of up to 3 words, all valid scripts, all of `-1 -2 -3`, a signal anywhere | the refinement `ShowsComparison`; `TextIntact`, `StatisticsAgree`, `StatusTellsScript` |
| `WdiffReformat_markers` | texts of 2 words with line ends, markers of terminal and user, `-l`, `-n`, a signal, files that shrink | `EmphasisTellsTruth`, `LinesEndPlain`, `Terminates` |
| `Unify_styles` | one or two pairs, 5 columns in all, 5 input formats, context 1 and 2, options up to 2 columns | `Converts`, `Accepts` |
| `Mdiff_listings` | texts of up to 4 lines of 4 kinds in up to 3 files; 2 files of up to 5 words; 9 times one word in 2 files; 12 command lines | `MembersAreRepeats`, `Restores`, `BracesTell`, `AssertionsHold`, `Terminates` |
| `Diff_compare` | all pairs of files of up to 4 lines of 2 kinds and 3 of 3 kinds, with `--minimal`, `--speed-large-files`, a horizon of 0 and 1, a cost limit of 1, 2 and 4096; runs of 7 lines to discard; files alike in a snake only | `FlagsMatch`, `SweepsInBox`, `Minimal`, `Joined`, the refinement `Compares`, `Terminates`; `ScriptsRestore`, `SdiffTells`, `WdiffReads` |
| `Diff3_merge` | three files of up to 2 lines of 3 kinds, one a dot, with every script; 5 lines against two files that lack or replace any runs of them; either common file; all options | `BlocksInOrder`, `ListingRestores`, `ActsMostlyLikeEd`, `TakesChanges` |
| `WdiffRun_hang`, `_masked`, `Unify_zero`, `Diff3_dots` | | violated, see 5 |

*Why the bounds are enough.* Two directives and a pipe of one chunk make diff
block with a directive in the pipe and another to come, and make wdiff block
writing to the pager: a longer pipe or script only repeats this. One signal
suffices, the flag being all it leaves. Three words a side give scripts with
two hunks, with words before, between and after. Five columns give two hunks
that are joined, touch or overlap, parts that are left out at either end, and
a second pair whose header is decided by the first. In mdiff the members of
clusters of size 1 and 2 nest, cross and overlap within four items; overlaps that
chop a size a second time need nine repetitions of one word, which are included.
Four lines of single words put every
mark behind every other and give scripts of two hunks of every letter; two lines of all kinds put each of
these next to each. Four lines of two kinds make `diag` sweep three times in either direction, divide
a box in two that both have work left, and let a run be moved over another; with the
thresholds lowered each heuristic ends some search, and runs of seven lines reach
the rules by which provisional discards are cancelled. Five lines of the common file let diff3 join hunks that overlap, touch,
or are bridged by a third, twice, and leave lines between two blocks.

*Fairness.* `FairSpec` of `WdiffRun` has weak fairness of wdiff, of diff's
opening, writing and ending, and of the pager's starting, reading and quitting:
each is a process that the system schedules, blocked only where its action is
disabled. That the user quits the pager at last is the meaning of the pager's kind
`"quit"`; a pager of kind `"eof"` quits only at the end of its input, as the one
in `tests/wdiff.at` does. Nothing is assumed of signals, of failures or of a diff
that fails. `WdiffReformat` has weak fairness of the program, not of `Interrupt`
or `Shrink`; `Mdiff` and `DiffCompare` of their single process. `Compares` and all of
`Diff3` need none.

*Deadlock* is checked everywhere but in `WdiffRun_hang`, which is about one, and in
`WdiffRun_faults`, where the same happens and another like it (section 5):
`TerminatesUndisturbed` says that nothing else stops there.


## 4. What is proved

`WdiffRun_proof`, for any number of directives and signals, any capacity of a
pipe, any set of faults, from `BoundsAssumption`:

- `Typing`: `TypeOK` is invariant.
- `TempFiles` and `FilesInPlace`: `CleanUpForgetsNoFile` and `DiffFindsItsFiles`. Neither is
  inductive: that what is left at the end is what could not be unlinked depends on which
  names each side holds at every place of main, and that the files are there when diff opens
  them on wdiff being unable to leave `first_getc` before diff has printed or
  ended. `FilesInv` has four parts: `Making` (what a half-made temporary side
  looks like), `Named` (a file in the directory has the name its side
  remembers), `Removing` (what is left while unlinking is what was tried in vain) and `Starting` (a diff
  that has not opened its files has printed nothing, and wdiff is still in
  front of the look ahead).
- `Emphasis`: `EmphasisClosed`, with `EmphasisInv`, which adds that there is an
  output wherever an emphasis can be on.

Its second part, on top of `Typing`, says what lies behind a status of success:

- `LostOutput`: `LostOutputIsAnError`. `LostInv`: output is only refused by a
  pager, the SIGPIPE sets the flag that nothing clears after `setup_signals`, and
  when main looks at the flag for the last time nothing is buffered any more.
- `Reaping`: `SuccessReapsChildren`. `ReapInv` counts: there is one wait for each
  child that was launched, so between the waits at most one child is left, and
  none if there is no pager. Which of the two a wait returns does not matter.
- `Trouble`: `DiffTroubleIsSeen`. `TroubleInv`: without a pager the wait for diff
  can return no other child. (With one it can: section 5.)
- `Completeness`: `SuccessIsComplete`. `ScriptInv` says that the directives obeyed,
  those in the pipe and those diff has still to print are its script; `ReadInv`
  that, undisturbed, wdiff is past its loop only when the last two are none.

`WdiffReformat_proof`, for any number of words and every choice of options, from
`OptionsAssumption`:

- `Statistics`: `StatisticsAgree`. `CountsInv` says that what the obeyed
  directives have not counted is as much on the left as on the right and not
  negative; it rests on the gaps of a valid script (`IsScript`) and is carried
  over `ReadDirective` by `CountSide` and `CountsStep`, other actions leaving
  the counts alone.
- `ExitStatus`: `StatusTellsScript`. `StatusInv` says that something was counted
  iff a directive was obeyed, since every directive has a word on one side
  (`HunkSize`).

Its second part, from the same assumption, with `LineInv`:

- `Lines`: `LinesEndPlain`, for every text, script, choice of options and markers, and
  wherever a signal comes. Markers are written by calls that are still to come, so
  the invariant speaks of these: a call that starts an emphasis is followed by the
  one that ends it, with no other start and no separator line in between
  (`Matched`); while `copy_mode` is not `NORMAL` the next such call is the one that
  ends it (`Closes`), hence none is on where one starts, where a separator is
  written and where a directive is obeyed. Of the output, a marker that can be
  closed is only on if it is that of `copy_mode` (`Held`), so `complete_output_program`
  knows what to end after a `longjmp` from anywhere. `Perhaps` and `Decided` say
  what one more item and one more pair of markers do to what is on.
- `Types`: `TypeOK`, from `LineInv`, `CountsInv` and `StatusInv`.

Its third part, from the same assumption, for texts and scripts of any length, every
choice of options, and files that may shrink:

- `EmphasisTold`: `EmphasisTellsTruth`.
- `TextKept`: `TextIntact`.

What makes these hard is that nothing in the state says which words a reader is copying: it
is told ordinals, by calls that were made up from the directive and three flags, and it
counts on at the end of a file. So the invariant `PlanInv` follows a reader through the
calls still to be made. A place is an ordinal, whether white space has been read up to a
word, and a mode; `Step` says to which place a call leads from another one, and demands
what must not go wrong: a word is copied only behind white space, in the mode that it
deserves (`Truthful`: emphasised iff a directive names it), and text that is to be shown
whole (`Whole`) is not skipped. `Leads` strings steps together, and `Planned` says that
the calls lead from here to where the last directive ends, or to the end of the text.
`ObeyLeads` shows this of all that a directive makes main call, for every choice of
`-1 -2 -3`, `RestLeads` of the remainder; it rests on directives naming words in order
(`BehindInv`, `NextHunk`). `ReadInv` ties the count to the text: it is the ordinal until
the file ends too early. `FirmInv` is the converse of `Held`: an emphasis for which there
is a marker is on. From these `WordsInv` (every word that is out is emphasised as it
should; a directive read later names none of them, `NamesNothingRead`), `IntactInv`
(what has been read of `Source` is out, once and in order) and `EndInv` (a run that is not
interrupted reads to the end, `ReturnsAtEnd`) are carried from step to step.

`WdiffReformat_copy_proof`, on top of that, for texts and scripts of any length and every choice
of options and markers, with the hypothesis `TRUE \notin Shrinks`: the files keep their
length between the counting of their words and the copying. wdiff does not keep another process
from writing to its input, and goes on without an error at the end of a file that has become
shorter; it then reports success for words it has not shown, so without the hypothesis the
refinement is false. `EmphasisTold`, `TextKept`, `Lines`, `Types` and the theorems on
counts and status do without it.

- `WordsShown`: `ShowsComparison`, the refinement of `AnnotatedCopy`. The word that
  `copy_word` shows is the next of the transcript (`Show`), a status of 0 or 1 means
  that all have been shown (`Complete`), 2 that a signal came (`Stop`), and no other
  step changes what is shown.

The argument has three layers. *What is wanted.* `Wanted` is filtered from a transcript that is
put together from parts, one before and one in each hunk. `FlattenSeq` is a recursive function:
`FlattenNext`, in `EditScript_proof`, unfolds it by one sequence and `AllNumbers`, induction
over numbers by well-foundedness, does the rest. `WantedIsLaid` then gives, for every hunk, how
many words are wanted up to there and which positions of `wanted` hold its common, deleted and inserted
words (`Laid`), without any sequence being filtered. *What the calls show.* `PlanInv` follows
one reader at a time; here the order between the two matters, so a `Spot` holds the
places of both, the mode and the number of words shown, `Does` says what a call makes of it and
demands that the words it copies are the next of `wanted` (`Offers`), and `Goes` strings calls
together. `ObeyGoes` and `RestGoes` show that what a directive, or the remainder, makes main
call goes from where the last one ended to where this one does, for every choice of
`-1 -2 -3`. *What the run has shown.* `CopyInv`: the words shown are the first `n` of
`wanted` (`Printed`), the calls left go on from there (`Following`), and when the run returns
undisturbed `n` is all (`ReturnsWithAll`); and the ordinals that are counted are those of the
words read (`WholeInv`), which is what a file that shrinks breaks.

`Compareseq_proof`, for vectors of any length and wherever boxes are divided:

- `Correctness`: when no box is left, the elements not flagged are pairwise equal and
  in the same order in both vectors. The invariant `IInv` says that every element is
  flagged, matched or in a box (`XCovered`, `YCovered`), never two of them
  (`FlaggedApart`); that pairs are equal (`MatchedEqual`) and in order
  (`PairsOrdered`); and, without which the order would be lost when a box slides,
  that boxes and pairs, and boxes among each other, lie before or behind each other
  in both vectors at once (`PairsOutside`, `BoxesOrdered`).

`DiffCompare_proof`, for files of any length, any relation of equality between lines (`Class`),
any thresholds, from `CasesAssumption` (files are sequences of `Lines` with fewer than `OFFSET_MAX` of them),
`LinesHaveClasses` and `LimitsAssumption`:

- `InsideTheBox`: `SweepsInBox`. Its invariant `ComparingInv` has four parts. `ReadInv` and
  `VecInv`: what was read, and that `realindexes` lists, in order, the lines that were not
  discarded. `CallsInv`: the boxes on the stack are inside the vectors and apart from each
  other. `SearchInv`: which entries of `fd` and `bd` this call has written, the sentinels of
  `Lower` and `Upper` included (`LimitsInv`, `Beside`, `Edges`), and how far the diagonals
  have been followed (`TopInv`, `BottomInv`). A sweep may run over the far end of its box by
  steps that compare nothing; what bounds this, and makes the point where the searches
  meet lie inside the box, is that it happens only on diagonals that the other search has
  reached already (`Frontier`, `Rear`).
- `DiagDivides`: `Compares`, the refinement of `Compareseq`, step by step: `DivisionSlide`,
  `DivisionFlag` and `DivisionDivide` show which action of `Compareseq` each one is
  under the mapping `Abstract`, or that it is a stutter. That the point where `diag` divides
  lies inside its box, whichever heuristic chose it, is `SearchInv` again. The pairs found equal
  are there the kth of one file with the kth of the other, of those neither flagged nor
  in a box; what a slide adds to them, and that flagging adds nothing, is counting
  (`SlidMatched`, `SameMatched`).
- `WhatIsLeftMatches`: `FlagsMatch`. When the comparison ends it follows from the
  invariant of `Compareseq`, which the refinement carries over (`DivisionInv`). While
  runs are moved `ShiftInv` carries it on: `j` is an unflagged place of the other file with as many
  unflagged lines before it as the run's end has (`AtRun`), and as long as the run has not
  grown the lines from `corresponding` on can be passed again on the way back
  (`Tracks`), without which `ReturnToCorresponding`, which compares nothing, might exchange
  lines that differ. `Swapped` says that a move exchanges two equal lines between
  which all are flagged.
- `TypeCorrect`: `TypeOK`, from the same and `StageInv`, `ScriptInv`.

`DiffScript_proof`, on top of it and from the same assumptions, for files of any length and any
choice of options:

- `RunsJoined`: `Joined`, from `JoinInv`. That a run cannot be moved down to the next one
  (`Parted`, its first part) is not settled when it comes to rest, as what is behind it has
  not been scanned, and the next run itself may be moved, up and down and up again. So the
  invariant says where the run at rest would stop: at a line `c` that differs from the one
  it would have to take (`Onward`), and the run that moves meanwhile, wherever it is, can be
  moved down until `c` is behind it and leaves the lines up to `c` as they are (`Below`,
  `Clear`). Why it then comes to rest behind `c`, and does not return before it, is that the
  way down to `c` passes no run of the other file (`Calm`, with `Silent` the places, counted
  in unflagged lines, where that has none): `corresponding` would be behind `c`. Conversely
  the way back stops behind the run before it (`Short`), and what it passes again is still
  free of runs of the other file (`Recent`). When runs meet (`BelowMerged`), the run before
  the two takes the part of the first (`HeldUpto`). All this is said of lines and flags
  alone, as lemmas on a run moved by a line (`MovedUp`, `MovedDown`), then of the actions.
- `RunsReadable`: `WdiffReads`. When diff is done, the directives it prints in its normal
  format are a script as `EditScript` describes it, and the words between its hunks are common
  ones, equal as diff compares them. `EndsInv` says that what `find_identical_ends` takes off
  both ends is alike, and that what is compared are the classes of the lines between.
  `ChainInv` says of the changes that `build_script` leaves that they are a chain (`IsChain`):
  before the first, from each to the next and from the last to the end there are as many
  lines in either file, the same ones (`Bridged`), and at least one between two changes.
  `build_script` makes a change of what lies between two unflagged lines, if there is anything:
  so one bridge may pass many unflagged lines (`Stops`, these lines in order), and
  that the kth of one file is the kth of the other is `WhatIsLeftMatches`. `NormalIs` then says what
  `print_normal_hunk` makes of a change, the lines of the common beginning added to its
  numbers; `DirectiveReads`, that its ranges, an empty one printed as the line before it,
  are read as the change; `GapsRead`, that the bridges are the gaps of the script; and
  `TranscriptRight`, with `FlattenWords`, that every common word of the transcript comes from
  one.

`Diff3_proof`, for any two scripts onto the same file, of any length, from
`ComparisonsAssumption` (they are scripts as `EditScript` defines them):

- `InOrder`: `BlocksInOrder`. What makes it inductive is how far each thread is: between
  blocks its next hunk is as far behind the last block in its file as in the common
  one, and at least a line (`BetweenBlocks`); within a block the same holds of the
  first hunk used of each thread, hunks used and to come follow each other as in
  the script, and none begins before the block (`WithinBlock`, `Used`). `Ranges` derives
  the block's lines from it, `MakeBlockIInv` that the next hunks are in step again.
- `Marks`: `WaterMarks`, what the comment of `make_3way_diff` says of its variables; no run
  checks it by itself.

*Only model-checked:* everything temporal that needs fairness (`Terminates`,
`TerminatesUndisturbed`); `ComparesTheSides` of `WdiffSplit`; `Unify` and
`Mdiff` altogether; of diff `Minimal` (which quantifies over all subsequences)
and that `ed`, `rcs` and a preprocessor get the files back from what it prints
(`ScriptsRestore`: folds and filters over sequences);
of diff3 what the listing, the merge and the ed script make of the blocks.


## 5. Where the code disagrees with its documentation

Each of these is a run that TLC finds violated.

- `WdiffRun_hang`. The pager inherits the read end of diff's pipe. After a signal
  wdiff closes its own and waits for diff, which stays blocked on the full pipe
  while the pager waits for the end of its input: nobody goes on.
- `WdiffRun_masked`. The `wait` meant for diff reaps a pager that was quit; diff's
  failure is reaped later and only looked at for a signal. wdiff may exit 0.
- `Unify_zero`. A unified hunk that only inserts, without context, does not set
  `old_last`, off which `generate_output` reads whether there is a hunk: it is kept back,
  and lost when the diff ends with it.
- `Diff3_dots`. `diff3 -E` has as many lines undotted behind a conflict as OLDFILE and
  YOURFILE have in it, but shows only those of YOURFILE: lines of MYFILE lose a
  leading dot, or ed is told of lines that are not there and gives up, while
  `diff3 -m -E`, which "acts like" the script, is right.

The last two were seen with the compiled programs, too.

Read off the code while modelling, without a run of their own:

- main ignores what `unlink` returns when it cleans up: a file that cannot be removed
  stays, unreported, and the status may be 0 or 1, although "2 for any error" is what
  the manual says (modelled; the exception `stuck` of `CleanUpForgetsNoFile`).
- A hunk that unify keeps back (`Unify_zero`) is printed with the next hunk, if there is one,
  under the numbers of that (modelled).
- Of a unified hunk without context that only deletes, `@@ -2 +1,0 @@`, unify gives the new
  part the header `--- 1,0 ----`, where diff prints `--- 1 ----` (`unify.c:239`; modelled,
  and seen with the compiled program; `Converts` is checked with one and two lines of context).
- When diff died of a signal `complete_input_program` exits, with status 2, in the middle of
  main's cleaning up: temporary files stay, and so does an emphasis (modelled; no
  property speaks of it).
- diff prints one line without a directive and exits 1 if it takes the word files
  for binary; wdiff exits 0 (modelled).
- Text that is repeated inside one file only is listed as common to both by mdiff's
  merged word listing (`mdiff.c:3659`, modelled).
- `diff3 -X` sets no flag that brackets conflicts, although it is "like -x, but bracket
  conflicts" (`diff3.c:312` and `486`; modelled).
- `diff -y` with ignored blank lines puts lines beside each other, unmarked, that are not
  the same, and `--left-column` then drops the right one; a `|` may stand between
  lines that are the same (`SdiffTells` says what can be relied on).
- A failed `pipe` or `fork` gives stream 0: wdiff reads its standard input as if
  it were diff's output, and the `wait` meant for diff waits for the pager, which, if
  it is one that reads to the end of its input, waits for wdiff: a second way to
  stop for ever, without a signal (modelled; the exception `input_file = "stdin"` of
  `TerminatesUndisturbed`).
- `wdiff -d` takes a carriage return inside a line for the end of one: the next
  character is taken for a mark if it looks like one, or else the rest of the line
  goes to both sides. At the end of a line it does no harm
  (`ComparesTheSides`). The line `\ No newline at end of file` goes to both sides
  as well, behind different words: of files that differ only in the final newline
  the last words are shown as deleted and inserted.
- unify takes a removed file of one line, followed by another file, for a malformed
  diff: its header has one number, in which the new style cannot be told from the old one
  (excluded in `Accepts` by `RemovedBefore`; seen with the compiled program).
  `\ No newline at end of file` is malformed inside a hunk.
- mdiff: six times a word against three times the same fails an assertion
  (`mdiff.c:1800`), and so does an empty file with `-W` (`mdiff.c:2922`); both are
  the exceptions that `AssertionsHold` names, and were seen with the compiled
  program. A file without a final newline is
  read past its end (`mdiff.c:2988`). `explain_group` asks for the size of members
  that were invalidated and reads in front of `cluster_array`. The first column
  of a filler margin is an uninitialised byte (`mdiff.c:2845`). A chopped size may
  be below the minimum size. `real_member_size` does not count the last of the
  delimiters that follow a member. `-3` does not inhibit the common words of
  `-W`. The counts behind its exit status are never raised (`mdiff.c:3574`). The
  line listing does not complete its output program. Cluster numbers and group
  flags are 14 to 16 bits wide.
- wdiff2's `-K`, documented as equal to `-t`, is passed on as another option than
  `-t` is (`wdiff2.c:256` and `293`).


## 6. Not modelled, and why

- The text of words: one letter stands for all that is not white space; case
  folding and locale. Carriage returns inside a line of a diff, and numbers of words
  beyond an `int`.
- diff's reading and hashing of lines, what `-i -w -b -I` make of a line, binary files,
  a missing newline at the end, the forward ed script, colours, tabs and formats
  given by the user. The models of wdiff, unify and diff3 accept any valid script, and
  `WdiffReads` shows that diff prints such a one.
- diff3's scanning of diff's text, and a file that changes between its two runs of diff.
- Terminal descriptions, the layout of margins and statistics, help texts.
- `wdiff2`: a table without state. `cmp` compares bytes, `sdiff` asks a user,
  `dir.c` walks directories; gnulib, build and packaging scripts, web pages hold none of
  the programs' own logic. They are most of the repository's lines.


## 7. Plan

Done, in this order: the run of wdiff, which has the concurrency and most of the
ways to fail; the reformatting, which is what users see; unify; mdiff from the
items to the listings; diff's comparison, its formats, and diff3; splitting. `MdiffClusters` is extended by `Mdiff`, `EditScript` by
`WdiffReformat`, `ContextDiff` by `Unify`. `WdiffRun` and `WdiffReformat` meet in
the directives: what the first counts as `processed` the second obeys. `DiffOutput`
extends `DiffCompare`, prints what `EditScript` defines, and so do the scripts of `Diff3`.

Next:

1. *WdiffRun and WdiffReformat composed*: the chunks of the one are the calls of
   the other, `processed` the prefix of `script` that was obeyed.
2. *Theorems on mdiff*: the type invariant of `MdiffClusters`; that members lie apart, from
   the order of `sorter_array` and the distance that `Overlap` checks.
3. *Theorems on unify*: the type invariant, with the pointers into the list.
4. *Theorems on diff and diff3*: of `ScriptsRestore` the preprocessor's part, which
   filters what `SideBySide` adds up; that the blocks of diff3 end where the files do.
5. The layout of mdiff's margins and the nesting of its emphasis.
