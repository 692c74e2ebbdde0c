------------------------------ MODULE WdiffRun ------------------------------
(***************************************************************************)
(* One run of wdiff as a family of processes: wdiff itself, the `diff' it  *)
(* reads from, and the pager it may write to (wdiff.c, pipes.c).  The      *)
(* module keeps the control of main and of the functions it calls: the     *)
(* temporary files, the two pipes with the processes holding their ends,   *)
(* the signal flag, the two calls of wait and every early exit.  What is   *)
(* printed for a directive is the business of module WdiffReformat; here   *)
(* an emphasised passage is one chunk of output.                           *)
(***************************************************************************)
EXTENDS Integers, Sequences

CONSTANTS
    MaxDirectives,  \* diff prints at most this many directives
    PipeCap,        \* a pipe holds this many chunks before a writer blocks
    MaxSignals,     \* signals delivered to wdiff from outside
    Paging,         \* whether a pager may be interposed: a subset of BOOLEAN
    Faults,         \* the failures the environment may inject
    Pagers          \* kinds of pager: its user may "quit", or it ends at "eof"

FaultNames == {"open", "mkstemp", "unlink", "fork", "exec_pager", "term",
               "trouble", "binary"}

ASSUME BoundsAssumption ==
    /\ MaxDirectives \in Nat
    /\ PipeCap \in Nat \ {0}
    /\ MaxSignals \in Nat
    /\ Paging \subseteq BOOLEAN
    /\ Faults \subseteq FaultNames
    /\ Pagers \subseteq {"quit", "eof"}

Side == {"left", "right"}
Child == {"diff", "pager"}
Directive == {"a", "d", "c"}
SIGNALED == 128                     \* WIFSIGNALED, any signal
Status == {0, 1, 2, SIGNALED}       \* what wait stores
ChildState == {"none", "started", "running", "zombie", "reaped"}
Printed == Directive \cup {"text"}
NotExited == -1

VARIABLES
    conf,         \* the options, the inputs and what diff will make of them
    pc,           \* where wdiff is
    side,         \* the side being split or unlinked
    interrupted,
    temp_name,    \* [Side -> "null" | "raw" | "words"]
    disk,         \* temporary files in the directory, pairs <<side, kind>>
    stuck,        \* those of them that the clean-up tried to unlink in vain
    input_file,   \* "null" | "pipe" | "stdin"
    output_file,  \* "null" | "stdout" | "pipe" | "fd0"
    copy_mode,
    processed,    \* directives obeyed: the counts are zero iff it is empty
    child,        \* [Child -> [state : ChildState, status : Status]]
    todo,         \* what diff has still to print
    diff_pipe,    \* what diff has printed and wdiff has not read
    readers,      \* processes holding the read end of diff's pipe
    writer,       \* wdiff holds the write end of the pager's pipe
    pager_pipe,   \* chunks in the pager's pipe
    buffered,     \* a chunk waits in the stdio buffer of output_file
    dropped,      \* a chunk was refused by a pager that had gone
    exit_status,
    signals       \* signals delivered so far

files == <<side, temp_name, disk, stuck>>
procs == <<child, todo, diff_pipe, readers, writer>>
output == <<pager_pipe, buffered, dropped>>
vars == <<conf, pc, files, interrupted, input_file, output_file, copy_mode,
          processed, procs, output, exit_status, signals>>

-----------------------------------------------------------------------------
(* The state before main's first file operation.                           *)

Scripts == UNION {[1..n -> Directive] : n \in 0..MaxDirectives}

(* script is what diff's output format would say of the two word lists;    *)
(* binary is diff taking them for binary files.                            *)
Confs == [paging : Paging, pager : Pagers, diff_input : BOOLEAN, script : Scripts,
          binary : IF "binary" \in Faults THEN BOOLEAN ELSE {FALSE}]

Differs == conf.script # <<>>

Init ==
    /\ conf \in Confs
    /\ pc = "start"
    /\ side = "left"
    /\ interrupted = FALSE
    /\ temp_name = [s \in Side |-> "null"]
    /\ disk = {} /\ stuck = {}
    /\ input_file = "null" /\ output_file = "null"
    /\ copy_mode = "NORMAL"
    /\ processed = <<>>
    /\ child = [c \in Child |-> [state |-> "none", status |-> 0]]
    /\ todo = <<>> /\ diff_pipe = <<>>
    /\ readers = {} /\ writer = FALSE
    /\ pager_pipe = 0 /\ buffered = FALSE /\ dropped = FALSE
    /\ exit_status = NotExited
    /\ signals = 0

Goto(l) == pc' = l /\ UNCHANGED exit_status
exit(n) == pc' = "exit" /\ exit_status' = n
Fault(f) == f \in Faults

Become(c, s, st) == child' = [child EXCEPT ![c] = [state |-> s, status |-> st]]
Ends(c, st) == Become(c, "zombie", st)
Live(c) == child[c].state \in {"started", "running"}
BeforeSignals == pc \in {"start", "open_diff", "split_mkraw",
                         "split_unraw", "setup"}

-----------------------------------------------------------------------------
(* Temporary files.                                                        *)

quiet == <<conf, interrupted, input_file, output_file, copy_mode, processed,
           procs, output, signals>>

Start ==
    /\ pc = "start"
    /\ Goto(IF conf.diff_input THEN "open_diff" ELSE "setup")
    /\ UNCHANGED <<files, quiet>>

OpenDiffInput ==
    /\ pc = "open_diff"
    /\ \/ Goto("split_mkraw")
       \/ Fault("open") /\ exit(2)
    /\ UNCHANGED <<files, quiet>>

(* create_temporary_side, first half.  temp_name is set even on failure,   *)
(* and the file exists already when it is fdopen that fails.               *)
MakeRaw ==
    /\ pc \in {"split_mkraw", "mkraw"}
    /\ temp_name' = [temp_name EXCEPT ![side] = "raw"]
    /\ \/ /\ disk' = disk \cup {<<side, "raw">>}
          /\ Goto(IF pc = "mkraw" THEN "unraw" ELSE "split_unraw")
       \/ Fault("mkstemp") /\ exit(2) /\ disk' \in {disk, disk \cup {<<side, "raw">>}}
    /\ UNCHANGED <<side, stuck, quiet>>

(* create_temporary_side, second half; split_diff then makes the other     *)
(* side, or copies the whole diff; split_file_into_words copies its stream.*)
UnlinkRaw ==
    /\ pc \in {"split_unraw", "unraw"}
    /\ \/ /\ disk' = disk \ {<<side, "raw">>}
          /\ IF pc = "unraw" THEN Goto("words") /\ UNCHANGED side
             ELSE IF side = "left" THEN Goto("split_mkraw") /\ side' = "right"
             ELSE Goto("setup") /\ side' = "left"
       \/ Fault("unlink") /\ exit(2) /\ UNCHANGED <<disk, side>>
    /\ UNCHANGED <<temp_name, stuck, quiet>>

SetupSignals ==
    /\ pc = "setup"
    /\ Goto("open")
    /\ interrupted' = FALSE
    /\ input_file' = "null" /\ output_file' = "null"
    /\ UNCHANGED <<files, conf, copy_mode, processed, procs, output, signals>>

(* split_file_into_words, up to the file it reads from: one that is not    *)
(* seekable is copied to a temporary one first.                            *)
OpenSide ==
    /\ pc = "open"
    /\ \/ Goto("words")
       \/ ~conf.diff_input /\ Goto("mkraw")
       \/ Fault("open") /\ ~conf.diff_input /\ exit(2)
    /\ UNCHANGED <<files, quiet>>

MakeWords ==
    /\ pc = "words"
    /\ temp_name' = [temp_name EXCEPT ![side] = "words"]
    /\ \/ disk' = disk \cup {<<side, "words">>} /\ Goto("split")
       \/ Fault("mkstemp") /\ exit(2) /\ disk' \in {disk, disk \cup {<<side, "words">>}}
    /\ UNCHANGED <<side, stuck, quiet>>

(* The loop over the words of one side.  The flag is looked at before each *)
(* word, so a signal after the last word, or on an empty file, is missed.  *)
SplitSide ==
    /\ pc = "split"
    /\ \/ interrupted /\ Goto("cleanup") /\ UNCHANGED side
       \/ side = "left" /\ side' = "right" /\ Goto("open")
       \/ side = "right" /\ Goto("launch_input") /\ UNCHANGED side
    /\ UNCHANGED <<temp_name, disk, stuck, quiet>>

-----------------------------------------------------------------------------
(* The two children.                                                       *)

stable == <<conf, files, signals>>

(* Mutant: the child of openpipe does not close the end it does not need.  *)
ReadersWithDiff == {"wdiff", "diff"}

(* Who holds the read end of a pipe that openpipe made for diff's output.  *)
PipeReaders == {"wdiff"}

(* readpipe.  When pipe or fork fails openpipe returns 0 and fdopen (0)    *)
(* opens the standard input, unless that is closed.                        *)
LaunchInput ==
    /\ pc = "launch_input"
    /\ \/ /\ input_file' = "pipe"
          /\ Become("diff", "started", 0)
          /\ todo' = IF conf.binary /\ Differs THEN <<"text">> ELSE conf.script
          /\ readers' = PipeReaders
          /\ Goto("first_getc")
       \/ /\ Fault("fork")
          /\ \/ input_file' = "stdin" /\ Goto("first_getc")
             \/ exit(2) /\ UNCHANGED input_file
          /\ UNCHANGED <<child, todo, readers>>
    /\ UNCHANGED <<stable, interrupted, output_file, copy_mode, processed,
                   diff_pipe, writer, output>>

InputEnded == ~Live("diff") /\ diff_pipe = <<>>

(* Mutant: the look ahead does not wait for diff's first byte.             *)
NoFirstByte == TRUE

FirstByte == input_file = "pipe" => diff_pipe # <<>> \/ InputEnded

(* launch_input_program's look ahead blocks until diff prints or ends.     *)
FirstGetc ==
    /\ pc = "first_getc"
    /\ FirstByte
    /\ Goto("launch_output")
    /\ UNCHANGED <<files, quiet>>

(* launch_output_program.  The pipe ends are not close-on-exec: the pager  *)
(* inherits wdiff's read end of diff's pipe.                               *)
LaunchOutput ==
    /\ pc = "launch_output"
    /\ \/ /\ ~conf.paging
          /\ output_file' = "stdout" /\ Goto("init_strings")
          /\ UNCHANGED <<child, readers, writer>>
       \/ /\ conf.paging
          /\ output_file' = "pipe" /\ Goto("init_strings")
          /\ Become("pager", "started", 0)
          /\ readers' = readers \cup (IF input_file = "pipe" THEN {"pager"} ELSE {})
          /\ writer' = TRUE
       \/ /\ conf.paging /\ Fault("fork")
          /\ \/ output_file' = "fd0" /\ Goto("init_strings")
             \/ exit(2) /\ output_file' = "null"
          /\ UNCHANGED <<child, readers, writer>>
    /\ UNCHANGED <<stable, interrupted, input_file, copy_mode, processed,
                   todo, diff_pipe, output>>

InitializeStrings ==
    /\ pc = "init_strings"
    /\ \/ Goto("reformat")
       \/ Fault("term") /\ exit(2)
    /\ UNCHANGED <<files, quiet>>

-----------------------------------------------------------------------------
(* Output.  A chunk goes to the stdio buffer; when that is full it goes to *)
(* the pager's pipe, which blocks while the pipe is full, and raises       *)
(* SIGPIPE once the pager is gone.  Other destinations never block.        *)

Write ==
    \/ /\ Live("pager") /\ pager_pipe < PipeCap
       /\ pager_pipe' = pager_pipe + 1
       /\ UNCHANGED <<interrupted, dropped>>
    \/ /\ ~Live("pager")
       /\ interrupted' = TRUE /\ dropped' = TRUE
       /\ UNCHANGED pager_pipe

Emit ==
    IF output_file # "pipe" THEN UNCHANGED <<interrupted, output>>
    ELSE IF ~buffered
         THEN buffered' = TRUE /\ UNCHANGED <<interrupted, pager_pipe, dropped>>
         ELSE Write /\ UNCHANGED buffered

copying == <<conf, files, input_file, output_file, procs, signals>>

(* The check every copying and skipping function starts with.              *)
LongJump == interrupted /\ Goto("cleanup")

directive == processed[Len(processed)]

(* The head of reformat_diff_output's loop: read up to the next directive  *)
(* and count its words, or leave at end of file.                           *)
ReadDirective ==
    /\ pc = "reformat"
    /\ UNCHANGED <<conf, files, interrupted, input_file, output_file, copy_mode,
                   child, todo, readers, writer, output, signals>>
    /\ \/ LongJump /\ UNCHANGED <<processed, diff_pipe>>
       \/ /\ ~interrupted /\ input_file = "pipe" /\ diff_pipe # <<>>
          /\ diff_pipe' = Tail(diff_pipe)
          /\ IF Head(diff_pipe) \in Directive
             THEN Goto("common") /\ processed' = Append(processed, Head(diff_pipe))
             ELSE Goto("reformat") /\ UNCHANGED processed
       \/ /\ ~interrupted /\ input_file = "stdin"
          /\ Len(processed) < MaxDirectives
          /\ \E d \in Directive : processed' = Append(processed, d)
          /\ Goto("common") /\ UNCHANGED diff_pipe
       \/ /\ ~interrupted /\ (input_file = "stdin" \/ InputEnded)
          /\ Goto("reformat_fclose") /\ UNCHANGED <<processed, diff_pipe>>

(* Common words up to the place of the directive, possibly none.           *)
CopyCommon ==
    /\ pc = "common"
    /\ \/ LongJump /\ UNCHANGED <<interrupted, output>>
       \/ /\ Goto(IF directive = "a" THEN "insert" ELSE "delete")
          /\ (~interrupted /\ Emit) \/ UNCHANGED <<interrupted, output>>
    /\ UNCHANGED <<copying, copy_mode, processed>>

(* copy_whitespace, then start_of_delete or start_of_insert.               *)
StartEmphasis ==
    /\ pc \in {"delete", "insert"}
    /\ \/ LongJump /\ UNCHANGED <<interrupted, output, copy_mode>>
       \/ /\ ~interrupted /\ Emit
          /\ copy_mode' = IF pc = "delete" THEN "DELETED" ELSE "INSERTED"
          /\ Goto(IF pc = "delete" THEN "deleted" ELSE "inserted")
    /\ UNCHANGED <<copying, processed>>

(* Mutant: a change goes from deleted to inserted text, or on to common    *)
(* text, without its end marker.                                           *)
EndEmphasisForgotten ==
    /\ pc \in {"deleted", "inserted"} /\ ~interrupted /\ Emit
    /\ copy_mode' = IF directive = "c" THEN copy_mode ELSE "NORMAL"
    /\ Goto(IF pc = "deleted" /\ directive = "c" THEN "insert" ELSE "reformat")
    /\ UNCHANGED <<copying, processed>>

(* The emphasised words, then end_of_delete or end_of_insert.              *)
EndEmphasis ==
    /\ pc \in {"deleted", "inserted"}
    /\ \/ LongJump /\ UNCHANGED <<interrupted, output, copy_mode>>
       \/ /\ ~interrupted /\ Emit
          /\ copy_mode' = "NORMAL"
          /\ Goto(IF pc = "deleted" /\ directive = "c" THEN "insert" ELSE "reformat")
    /\ UNCHANGED <<copying, processed>>

(* The text after the last directive, at the end of reformat_diff_output.  *)
CopyRemainder ==
    /\ pc = "remainder"
    /\ \/ LongJump /\ UNCHANGED <<interrupted, output>>
       \/ /\ ~interrupted /\ Goto("cleanup")
          /\ Emit \/ UNCHANGED <<interrupted, output>>
    /\ UNCHANGED <<copying, copy_mode, processed>>

-----------------------------------------------------------------------------
(* Completing the children.                                                *)

(* wait: any child that has ended, blocking while there is one that has    *)
(* not; with no child it fails and the caller's status stays uninitialised.*)
Wait(st) ==
    \/ \E c \in Child : /\ child[c].state = "zombie"
                        /\ st = child[c].status
                        /\ Become(c, "reaped", st)
    \/ /\ \A c \in Child : child[c].state \in {"none", "reaped"}
       /\ UNCHANGED child

(* Mutant: wait is called with the read end still open.                    *)
ReadEndKept == readers

ReadEndClosed == readers \ {"wdiff"}

(* complete_input_program, called by reformat_diff_output and by main.     *)
FcloseInput ==
    /\ pc \in {"reformat_fclose", "cleanup_fclose"}
    /\ readers' = ReadEndClosed
    /\ Goto(IF pc = "reformat_fclose" THEN "reformat_wait" ELSE "cleanup_wait")
    /\ UNCHANGED <<stable, interrupted, input_file, output_file, copy_mode,
                   processed, child, todo, diff_pipe, writer, output>>

(* Mutant: diff's status is judged as the pager's is, only by its signal.  *)
AcceptedLeniently(st) == st # SIGNALED

Accepted(st) == st \in {0, 1}

CompleteInputProgram ==
    /\ pc \in {"reformat_wait", "cleanup_wait"}
    /\ \E st \in Status :
         /\ Wait(st)
         /\ IF ~Accepted(st) THEN exit(2) /\ UNCHANGED input_file
            ELSE IF pc = "reformat_wait"
                 THEN Goto("remainder") /\ input_file' = "null"
                 ELSE Goto("unlink") /\ UNCHANGED input_file
    /\ UNCHANGED <<stable, interrupted, output_file, copy_mode, processed,
                   todo, diff_pipe, readers, writer, output>>

(* main's cleaning up.                                                     *)
Cleanup ==
    /\ pc = "cleanup"
    /\ Goto(IF input_file # "null" THEN "cleanup_fclose" ELSE "unlink")
    /\ side' = "left"
    /\ UNCHANGED <<temp_name, disk, stuck, quiet>>

(* Mutant: cleaning up ends with the left file.                            *)
UnlinkedOne == TRUE

UnlinkedBoth == side = "right"

(* The result of unlink is ignored: a file that stays is not reported.     *)
UnlinkTemp ==
    /\ pc = "unlink"
    /\ LET file == {<<side, temp_name[side]>>}
       IN  \/ disk' = disk \ file /\ UNCHANGED stuck
           \/ Fault("unlink") /\ stuck' = stuck \cup (file \cap disk) /\ UNCHANGED disk
    /\ IF UnlinkedBoth THEN UNCHANGED side /\ Goto("end_emphasis")
                       ELSE side' = "right" /\ Goto("unlink")
    /\ UNCHANGED <<temp_name, quiet>>

(* Mutant: wdiff does not wait for the pager.                              *)
NothingLaunched == TRUE

NoOutputProgram == output_file = "stdout"

(* complete_output_program: end the pending emphasis, fclose (the buffer   *)
(* first, then the descriptor), wait.                                      *)
EndPending ==
    /\ pc = "end_emphasis"
    /\ IF output_file = "null"
       THEN Goto("report") /\ UNCHANGED <<interrupted, output, copy_mode>>
       ELSE /\ IF copy_mode # "NORMAL" THEN Emit
                                       ELSE UNCHANGED <<interrupted, output>>
            /\ copy_mode' = "NORMAL"
            /\ Goto(IF NoOutputProgram THEN "report" ELSE "fclose_output")
    /\ UNCHANGED <<copying, processed>>

FcloseOutput ==
    /\ pc = "fclose_output"
    /\ IF buffered THEN Write ELSE UNCHANGED <<interrupted, pager_pipe, dropped>>
    /\ buffered' = FALSE
    /\ writer' = FALSE
    /\ Goto("wait_output")
    /\ UNCHANGED <<stable, input_file, output_file, copy_mode, processed, child,
                   todo, diff_pipe, readers>>

CompleteOutputProgram ==
    /\ pc = "wait_output"
    /\ \E st \in Status :
         /\ Wait(st)
         /\ IF st = SIGNALED THEN exit(2) ELSE Goto("report")
    /\ UNCHANGED <<stable, interrupted, input_file, output_file, copy_mode,
                   processed, todo, diff_pipe, readers, writer, output>>

(* Mutant: the signal flag is not looked at again at the end.              *)
VerdictUninterrupted == IF processed # <<>> THEN 1 ELSE 0

Verdict == IF interrupted THEN 2 ELSE IF processed # <<>> THEN 1 ELSE 0

(* The end of main.                                                        *)
Report ==
    /\ pc = "report"
    /\ exit(Verdict)
    /\ UNCHANGED <<files, quiet>>

(* exit flushes what is still buffered, then every descriptor closes.      *)
Exit ==
    /\ pc = "exit"
    /\ IF buffered THEN Write ELSE UNCHANGED <<interrupted, pager_pipe, dropped>>
    /\ buffered' = FALSE
    /\ readers' = ReadEndClosed /\ writer' = FALSE
    /\ pc' = "exited"
    /\ UNCHANGED <<stable, exit_status, input_file, output_file, copy_mode,
                   processed, child, todo, diff_pipe>>

Wdiff ==
    \/ Start \/ OpenDiffInput \/ MakeRaw \/ UnlinkRaw \/ SetupSignals
    \/ OpenSide \/ MakeWords \/ SplitSide \/ LaunchInput \/ FirstGetc
    \/ LaunchOutput \/ InitializeStrings \/ ReadDirective \/ CopyCommon
    \/ StartEmphasis \/ EndEmphasis \/ CopyRemainder \/ FcloseInput
    \/ CompleteInputProgram \/ Cleanup \/ UnlinkTemp \/ EndPending
    \/ FcloseOutput \/ CompleteOutputProgram \/ Report \/ Exit

-----------------------------------------------------------------------------
(* The children and the signals.                                           *)

wdiff == <<conf, pc, files, interrupted, input_file, output_file, copy_mode,
           processed, writer, buffered, dropped, exit_status>>

(* diff opens the two temporary files by name, and fails without them.     *)
DiffOpens ==
    /\ child["diff"].state = "started"
    /\ \/ /\ \A s \in Side : <<s, "words">> \in disk
          /\ Become("diff", "running", 0)
       \/ /\ Fault("trouble") \/ \E s \in Side : <<s, "words">> \notin disk
          /\ Ends("diff", 2)
    /\ UNCHANGED <<wdiff, todo, diff_pipe, readers, pager_pipe, signals>>

(* With no reader left, write raises SIGPIPE in diff.                      *)
DiffWrites ==
    /\ child["diff"].state = "running" /\ todo # <<>>
    /\ \/ /\ readers # {} /\ Len(diff_pipe) < PipeCap
          /\ diff_pipe' = Append(diff_pipe, Head(todo))
          /\ todo' = Tail(todo)
          /\ UNCHANGED child
       \/ readers = {} /\ Ends("diff", SIGNALED) /\ UNCHANGED <<todo, diff_pipe>>
    /\ UNCHANGED <<wdiff, readers, pager_pipe, signals>>

DiffEnds ==
    /\ child["diff"].state = "running" /\ todo = <<>>
    /\ Ends("diff", IF Differs THEN 1 ELSE 0)
    /\ UNCHANGED <<wdiff, todo, diff_pipe, readers, pager_pipe, signals>>

DiffFails ==
    /\ child["diff"].state = "running" /\ Fault("trouble")
    /\ Ends("diff", 2)
    /\ UNCHANGED <<wdiff, todo, diff_pipe, readers, pager_pipe, signals>>

PagerStarts ==
    /\ child["pager"].state = "started"
    /\ \/ /\ Become("pager", "running", 0)
          /\ UNCHANGED readers
       \/ /\ Fault("exec_pager") /\ Ends("pager", 2)
          /\ readers' = readers \ {"pager"}
    /\ UNCHANGED <<wdiff, todo, diff_pipe, pager_pipe, signals>>

PagerReads ==
    /\ child["pager"].state = "running" /\ pager_pipe > 0
    /\ pager_pipe' = pager_pipe - 1
    /\ UNCHANGED <<wdiff, child, todo, diff_pipe, readers, signals>>

PagerQuits ==
    /\ child["pager"].state = "running"
    /\ conf.pager = "eof" => ~writer /\ pager_pipe = 0
    /\ Ends("pager", 0)
    /\ readers' = readers \ {"pager"}
    /\ UNCHANGED <<wdiff, todo, diff_pipe, pager_pipe, signals>>

(* SIGTERM to wdiff, or the terminal's SIGINT to the whole group: diff     *)
(* dies of it, a pager catches it.  Before setup_signals wdiff dies too.   *)
Signal ==
    /\ signals < MaxSignals /\ pc # "exited"
    /\ signals' = signals + 1
    /\ (Live("diff") /\ Ends("diff", SIGNALED)) \/ UNCHANGED child
    /\ IF BeforeSignals
       THEN pc' = "exited" /\ exit_status' = SIGNALED /\ UNCHANGED interrupted
       ELSE interrupted' = TRUE /\ UNCHANGED <<pc, exit_status>>
    /\ UNCHANGED <<conf, files, input_file, output_file, copy_mode, processed,
                   todo, diff_pipe, readers, writer, output>>

AllEnded == pc = "exited" /\ \A c \in Child : ~Live(c)

Terminated == AllEnded /\ UNCHANGED vars

Diff == DiffOpens \/ DiffWrites \/ DiffEnds \/ DiffFails
Pager == PagerStarts \/ PagerReads \/ PagerQuits
Next == Wdiff \/ Diff \/ Pager \/ Signal \/ Terminated

Spec == Init /\ [][Next]_vars

(* Every process runs; a user who may quit the pager does so at last.      *)
(* Neither a signal nor a failing diff can be counted on.                  *)
Fairness ==
    /\ WF_vars(Wdiff) /\ WF_vars(DiffOpens \/ DiffWrites \/ DiffEnds)
    /\ WF_vars(PagerStarts) /\ WF_vars(PagerReads) /\ WF_vars(PagerQuits)

FairSpec == Spec /\ Fairness

-----------------------------------------------------------------------------
(* Every variable has its type; no process but wdiff and the pager ever    *)
(* holds the read end of diff's pipe, which would keep SIGPIPE from diff.  *)
TypeOK ==
    /\ conf \in Confs
    /\ side \in Side
    /\ interrupted \in BOOLEAN
    /\ temp_name \in [Side -> {"null", "raw", "words"}]
    /\ disk \subseteq Side \X {"raw", "words"}
    /\ stuck \subseteq Side \X {"raw", "words"}
    /\ input_file \in {"null", "pipe", "stdin"}
    /\ output_file \in {"null", "stdout", "pipe", "fd0"}
    /\ copy_mode \in {"NORMAL", "DELETED", "INSERTED"}
    /\ processed \in Seq(Directive)
    /\ child \in [Child -> [state : ChildState, status : Status]]
    /\ todo \in Seq(Printed)
    /\ diff_pipe \in Seq(Printed)
    /\ readers \subseteq {"wdiff", "pager"}
    /\ writer \in BOOLEAN
    /\ pager_pipe \in 0..PipeCap
    /\ buffered \in BOOLEAN /\ dropped \in BOOLEAN
    /\ exit_status \in Status \cup {NotExited}
    /\ signals \in 0..MaxSignals

(* 0 and 1 are told only after every directive of diff was obeyed, whoever *)
(* was interrupted, quit early or was reaped by the wrong wait.  That diff *)
(* was launched, that it compared the files as text and that it did not    *)
(* fail is presumed: see DiffTroubleIsAnError.                             *)
SuccessIsComplete ==
    /\ exit_status \in {0, 1}
    /\ child["diff"].state # "none" /\ child["diff"].status # 2 /\ ~conf.binary
    => processed = conf.script

(* No temporary file is forgotten, however early a signal takes main to    *)
(* its cleaning up and whatever that fails to do: what main leaves behind  *)
(* is what unlink refused to remove.  (This it does not report.)           *)
CleanUpForgetsNoFile ==
    pc = "report" \/ exit_status \in {0, 1} => disk \subseteq stuck

(* diff is given the two files by name: they must still be there when it   *)
(* opens them, although wdiff unlinks them when it cleans up and the wait  *)
(* before that may have reaped the pager in place of diff.                 *)
DiffFindsItsFiles ==
    child["diff"].state = "started" => \A s \in Side : <<s, "words">> \in disk

(* "Let the user play at will inside the pager, until s/he exits": a run   *)
(* that succeeds has outlived both children and reaped them, whichever of  *)
(* the two waits got which.                                                *)
SuccessReapsChildren ==
    exit_status \in {0, 1} =>
        \A c \in Child : child[c].state \in {"none", "reaped"}

(* Text refused by a pager that was gone is never reported as success.     *)
LostOutputIsAnError == dropped => exit_status \notin {0, 1}

(* Common text is never printed while an emphasis is on, nor does main     *)
(* reach its end with one.                                                 *)
EmphasisClosed ==
    pc \in {"reformat", "common", "remainder", "report"} => copy_mode = "NORMAL"

(* "Intercept willingful requests for stopping": a signal, like the end of *)
(* the input, leads to the end of the run.                                 *)
Terminates == <>(pc = "exited")

(* The same of every run but those in which a pager that waits for the end *)
(* of its input is itself waited for first: after a signal, or when diff   *)
(* could not be launched and the wait meant for it can only be the pager's.*)
TerminatesUndisturbed ==
    <>(pc = "exited" \/ (conf.pager = "eof" /\ (signals > 0 \/ input_file = "stdin")))

(* "or a status of 2 for any error": a run whose diff failed says so.      *)
DiffTroubleIsAnError ==
    child["diff"].status = 2 => exit_status \notin {0, 1}

(* It does when diff is the only child that wait can return.               *)
DiffTroubleIsSeen == ~conf.paging => DiffTroubleIsAnError
=============================================================================
