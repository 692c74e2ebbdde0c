---------------------------- MODULE WdiffRun_proof ----------------------------
(***************************************************************************)
(* Proofs about WdiffRun for every bound, every set of faults and every    *)
(* kind of pager.                                                          *)
(***************************************************************************)
EXTENDS WdiffRun, SequenceTheorems, TLAPS

ChildType == [Child -> [state : ChildState, status : Status]]

(* The constants that are numbers.                                         *)
LEMMA Bounds == PipeCap \in Nat /\ PipeCap > 0 /\ MaxSignals \in Nat
BY BoundsAssumption DEF BoundsAssumption

(* Whatever diff is to print is a sequence.                                *)
LEMMA ScriptIsSeq ==
    ASSUME NEW script \in Scripts
    PROVE  script \in Seq(Directive) /\ script \in Seq(Printed)
BY DEF Scripts, Printed

(* Reading takes a chunk from diff's pipe, and writing adds one.           *)
LEMMA ReadType ==
    ASSUME processed \in Seq(Directive), diff_pipe \in Seq(Printed), ReadDirective
    PROVE  processed' \in Seq(Directive) /\ diff_pipe' \in Seq(Printed)
<1>1. processed' \in Seq(Directive)
  <2>1. CASE processed' = processed BY <2>1
  <2>2. ASSUME NEW d \in Directive, processed' = Append(processed, d)
        PROVE  processed' \in Seq(Directive)
    BY <2>2
  <2> QED BY <2>1, <2>2, Zenon DEF ReadDirective
<1>2. diff_pipe' \in Seq(Printed)
  <2>1. CASE diff_pipe' = diff_pipe BY <2>1
  <2>2. CASE diff_pipe # <<>> /\ diff_pipe' = Tail(diff_pipe) BY <2>2
  <2> QED BY <2>1, <2>2, Zenon DEF ReadDirective
<1> QED BY <1>1, <1>2

LEMMA DiffWritesType ==
    ASSUME todo \in Seq(Printed), diff_pipe \in Seq(Printed), DiffWrites
    PROVE  todo' \in Seq(Printed) /\ diff_pipe' \in Seq(Printed)
<1>1. CASE todo' = todo /\ diff_pipe' = diff_pipe BY <1>1
<1>2. CASE /\ todo # <<>> /\ todo' = Tail(todo)
           /\ diff_pipe' = Append(diff_pipe, Head(todo))
  BY <1>2
<1> QED BY <1>1, <1>2, Zenon DEF DiffWrites

(* A write to the pager's pipe stays within the capacity.                  *)
LEMMA WriteType ==
    ASSUME TypeOK, Write
    PROVE  pager_pipe' \in 0..PipeCap /\ interrupted' \in BOOLEAN /\ dropped' \in BOOLEAN
<1>1. pager_pipe' \in 0..PipeCap
  <2>1. pager_pipe \in 0..PipeCap BY DEF TypeOK
  <2> QED BY <2>1, Bounds DEF Write
<1>2. interrupted' \in BOOLEAN /\ dropped' \in BOOLEAN
  BY Zenon DEF TypeOK, Write
<1> QED BY <1>1, <1>2

(* So does printing a chunk.                                               *)
LEMMA EmitType ==
    ASSUME TypeOK, Emit
    PROVE  /\ pager_pipe' \in 0..PipeCap /\ interrupted' \in BOOLEAN
           /\ dropped' \in BOOLEAN /\ buffered' \in BOOLEAN
BY WriteType, Zenon DEF TypeOK, Emit, output

(* A child changes its state, and wait takes one that has ended.           *)
LEMMA BecomeType ==
    ASSUME child \in ChildType, NEW c \in Child, NEW s \in ChildState,
           NEW st \in Status, Become(c, s, st)
    PROVE  child' \in ChildType
BY DEF Become, ChildType

LEMMA EndsType ==
    ASSUME child \in ChildType, NEW c \in Child, NEW st \in Status, Ends(c, st)
    PROVE  child' \in ChildType
BY BecomeType DEF Ends, ChildState

LEMMA WaitType ==
    ASSUME child \in ChildType, NEW st \in Status, Wait(st)
    PROVE  child' \in ChildType
BY BecomeType DEF Wait, ChildState
(* Every variable keeps its type in every run.                             *)
THEOREM Typing == Spec => []TypeOK
<1> USE DEF files, procs, output, quiet, stable, copying, Goto, exit, LongJump, TypeOK
<1>1. Init => TypeOK
  <2> SUFFICES ASSUME Init PROVE TypeOK
    OBVIOUS
  <2>1. conf \in Confs BY DEF Init
  <2>2. child \in [Child -> [state : ChildState, status : Status]]
    BY DEF Init, ChildState, Status
  <2>3. pager_pipe \in 0..PipeCap /\ signals \in 0..MaxSignals BY Bounds DEF Init
  <2>4. side \in Side /\ temp_name \in [Side -> {"null", "raw", "words"}]
    BY DEF Init, Side
  <2>5. interrupted \in BOOLEAN /\ writer \in BOOLEAN /\ buffered \in BOOLEAN
        /\ dropped \in BOOLEAN /\ disk \subseteq Side \X {"raw", "words"}
        /\ stuck \subseteq Side \X {"raw", "words"}
        /\ readers \subseteq {"wdiff", "pager"}
    BY Zenon DEF Init
  <2>6. processed \in Seq(Directive) /\ todo \in Seq(Printed)
        /\ diff_pipe \in Seq(Printed) /\ exit_status \in Status \cup {NotExited}
    BY DEF Init
  <2>7. /\ input_file \in {"null", "pipe", "stdin"}
        /\ output_file \in {"null", "stdout", "pipe", "fd0"}
        /\ copy_mode \in {"NORMAL", "DELETED", "INSERTED"}
    BY Zenon DEF Init
  <2> QED BY <2>1, <2>2, <2>3, <2>4, <2>5, <2>6, <2>7
<1>2. TypeOK /\ [Next]_vars => TypeOK'
  <2> SUFFICES ASSUME TypeOK, [Next]_vars PROVE TypeOK'
    OBVIOUS
  <2>1. CASE Start BY <2>1 DEF Start
  <2>2. CASE OpenDiffInput BY <2>2 DEF OpenDiffInput, Status
  <2>3. CASE MakeRaw BY <2>3 DEF MakeRaw, Side, Status
  <2>4. CASE UnlinkRaw BY <2>4 DEF UnlinkRaw, Side, Status
  <2>5. CASE SetupSignals BY <2>5 DEF SetupSignals
  <2>6. CASE OpenSide BY <2>6 DEF OpenSide, Status
  <2>7. CASE MakeWords BY <2>7 DEF MakeWords, Side, Status
  <2>8. CASE SplitSide BY <2>8 DEF SplitSide, Side
  <2>9. CASE LaunchInput
    <3>1. conf.script \in Scripts BY DEF Confs
    <3>2. todo' \in Seq(Printed)
      <4>1. <<"text">> \in Seq(Printed) BY DEF Printed
      <4>2. todo' \in {<<"text">>, conf.script, todo} BY <2>9, Zenon DEF LaunchInput
      <4> QED BY <3>1, <4>1, <4>2, ScriptIsSeq
    <3>3. child' \in ChildType
      <4>1. Become("diff", "started", 0) \/ UNCHANGED child BY <2>9 DEF LaunchInput
      <4> QED BY <4>1, BecomeType DEF ChildType, ChildState, Child, Status
    <3>4. exit_status' \in Status \cup {NotExited} BY <2>9 DEF LaunchInput, Status
    <3>5. /\ input_file' \in {"null", "pipe", "stdin"}
          /\ readers' \subseteq {"wdiff", "pager"}
      BY <2>9, Zenon DEF LaunchInput, PipeReaders
    <3> QED BY <2>9, <3>2, <3>3, <3>4, <3>5, Zenon DEF LaunchInput, ChildType
  <2>10. CASE FirstGetc BY <2>10 DEF FirstGetc
  <2>11. CASE LaunchOutput
    <3>1. child' \in ChildType
      <4>1. Become("pager", "started", 0) \/ UNCHANGED child BY <2>11 DEF LaunchOutput
      <4> QED BY <4>1, BecomeType DEF ChildType, ChildState, Child, Status
    <3>2. readers' \subseteq {"wdiff", "pager"}
      <4>1. readers' \in {readers, readers \cup {"pager"}, readers \cup {}}
        BY <2>11, Zenon DEF LaunchOutput
      <4> QED BY <4>1
    <3>3. writer' \in BOOLEAN BY <2>11, Zenon DEF LaunchOutput
    <3>4. output_file' \in {"null", "stdout", "pipe", "fd0"} BY <2>11, Zenon DEF LaunchOutput
    <3>5. exit_status' \in Status \cup {NotExited} BY <2>11 DEF LaunchOutput, Status
    <3> QED BY <2>11, <3>1, <3>2, <3>3, <3>4, <3>5, Zenon DEF LaunchOutput, ChildType
  <2>12. CASE InitializeStrings BY <2>12 DEF InitializeStrings, Status
  <2>13. CASE ReadDirective
    <3>1. processed' \in Seq(Directive) /\ diff_pipe' \in Seq(Printed)
      BY <2>13, ReadType
    <3> QED BY <2>13, <3>1, ZenonT(30) DEF ReadDirective
  <2>14. CASE CopyCommon BY <2>14, EmitType DEF CopyCommon
  <2>15. CASE StartEmphasis BY <2>15, EmitType DEF StartEmphasis
  <2>16. CASE EndEmphasis BY <2>16, EmitType DEF EndEmphasis
  <2>17. CASE CopyRemainder BY <2>17, EmitType DEF CopyRemainder
  <2>18. CASE FcloseInput BY <2>18 DEF FcloseInput, ReadEndClosed
  <2>19. CASE CompleteInputProgram
    <3>1. child' \in ChildType BY <2>19, WaitType DEF CompleteInputProgram, ChildType
    <3>2. input_file' \in {"null", "pipe", "stdin"} BY <2>19, Zenon DEF CompleteInputProgram
    <3>3. exit_status' \in Status \cup {NotExited} BY <2>19 DEF CompleteInputProgram, Status
    <3> QED BY <2>19, <3>1, <3>2, <3>3, Zenon DEF CompleteInputProgram, ChildType
  <2>20. CASE Cleanup BY <2>20 DEF Cleanup, Side
  <2>21. CASE UnlinkTemp
    <3>1. /\ disk' \subseteq Side \X {"raw", "words"}
          /\ stuck' \subseteq Side \X {"raw", "words"}
      BY <2>21 DEF UnlinkTemp
    <3> QED BY <2>21, <3>1 DEF UnlinkTemp, UnlinkedBoth, Side
  <2>22. CASE EndPending BY <2>22, EmitType DEF EndPending, NoOutputProgram
  <2>23. CASE FcloseOutput
    <3>1. /\ pager_pipe' \in 0..PipeCap /\ interrupted' \in BOOLEAN
          /\ dropped' \in BOOLEAN
      BY <2>23, WriteType, Zenon DEF FcloseOutput
    <3>2. buffered' \in BOOLEAN /\ writer' \in BOOLEAN BY <2>23, Zenon DEF FcloseOutput
    <3>3. readers' \subseteq {"wdiff", "pager"} BY <2>23, Zenon DEF FcloseOutput, ReadEndClosed
    <3> QED BY <2>23, <3>1, <3>2, <3>3, Zenon DEF FcloseOutput
  <2>24. CASE CompleteOutputProgram
    <3>1. child' \in ChildType BY <2>24, WaitType DEF CompleteOutputProgram, ChildType
    <3>2. exit_status' \in Status \cup {NotExited} BY <2>24 DEF CompleteOutputProgram, Status
    <3> QED BY <2>24, <3>1, <3>2, Zenon DEF CompleteOutputProgram, ChildType
  <2>25. CASE Report BY <2>25 DEF Report, Verdict, Status
  <2>26. CASE Exit
    <3>1. /\ pager_pipe' \in 0..PipeCap /\ interrupted' \in BOOLEAN
          /\ dropped' \in BOOLEAN
      BY <2>26, WriteType, Zenon DEF Exit
    <3>2. buffered' \in BOOLEAN /\ writer' \in BOOLEAN BY <2>26, Zenon DEF Exit
    <3>3. readers' \subseteq {"wdiff", "pager"} BY <2>26, Zenon DEF Exit, ReadEndClosed
    <3> QED BY <2>26, <3>1, <3>2, <3>3, Zenon DEF Exit
  <2>27. CASE DiffOpens
    <3>1. Become("diff", "running", 0) \/ Ends("diff", 2) BY <2>27 DEF DiffOpens
    <3>2. child' \in ChildType
      BY <3>1, BecomeType, EndsType DEF ChildType, ChildState, Child, Status
    <3> QED BY <2>27, <3>2, ZenonT(30) DEF DiffOpens, wdiff, ChildType
  <2>28. CASE DiffWrites
    <3>1. child' \in ChildType
      <4>1. Ends("diff", SIGNALED) \/ UNCHANGED child BY <2>28 DEF DiffWrites
      <4> QED BY <4>1, EndsType DEF ChildType, Child, Status
    <3>2. todo' \in Seq(Printed) /\ diff_pipe' \in Seq(Printed)
      BY <2>28, DiffWritesType
    <3> QED BY <2>28, <3>1, <3>2, ZenonT(30) DEF DiffWrites, wdiff, ChildType
  <2>29. CASE DiffEnds
    <3>1. child' \in ChildType BY <2>29, EndsType DEF DiffEnds, ChildType, Child, Status
    <3> QED BY <2>29, <3>1, ZenonT(30) DEF DiffEnds, wdiff, ChildType
  <2>30. CASE DiffFails
    <3>1. child' \in ChildType BY <2>30, EndsType DEF DiffFails, ChildType, Child, Status
    <3> QED BY <2>30, <3>1, ZenonT(30) DEF DiffFails, wdiff, ChildType
  <2>31. CASE PagerStarts
    <3>1. Become("pager", "running", 0) \/ Ends("pager", 2) BY <2>31 DEF PagerStarts
    <3>2. child' \in ChildType
      BY <3>1, BecomeType, EndsType DEF ChildType, ChildState, Child, Status
    <3>3. readers' \subseteq {"wdiff", "pager"} BY <2>31, Zenon DEF PagerStarts
    <3> QED BY <2>31, <3>2, <3>3, ZenonT(30) DEF PagerStarts, wdiff, ChildType
  <2>32. CASE PagerReads
    <3>1. pager_pipe' \in 0..PipeCap BY <2>32, Bounds DEF PagerReads
    <3> QED BY <2>32, <3>1, ZenonT(30) DEF PagerReads, wdiff
  <2>33. CASE PagerQuits
    <3>1. child' \in ChildType BY <2>33, EndsType DEF PagerQuits, ChildType, Child, Status
    <3>2. readers' \subseteq {"wdiff", "pager"} BY <2>33, Zenon DEF PagerQuits
    <3> QED BY <2>33, <3>1, <3>2, ZenonT(30) DEF PagerQuits, wdiff, ChildType
  <2>34. CASE Signal
    <3>1. child' \in ChildType
      <4>1. Ends("diff", SIGNALED) \/ UNCHANGED child BY <2>34 DEF Signal
      <4> QED BY <4>1, EndsType DEF ChildType, Child, Status
    <3>2. signals' \in 0..MaxSignals BY <2>34, Bounds DEF Signal
    <3>3. interrupted' \in BOOLEAN BY <2>34, Zenon DEF Signal
    <3>4. exit_status' \in Status \cup {NotExited} BY <2>34 DEF Signal, Status
    <3> QED BY <2>34, <3>1, <3>2, <3>3, <3>4, Zenon DEF Signal, ChildType
  <2>35. CASE UNCHANGED vars BY <2>35 DEF vars
  <2>36. CASE Terminated BY <2>35, <2>36 DEF Terminated
  <2> QED
    BY <2>1, <2>2, <2>3, <2>4, <2>5, <2>6, <2>7, <2>8, <2>9, <2>10, <2>11,
       <2>12, <2>13, <2>14, <2>15, <2>16, <2>17, <2>18, <2>19, <2>20,
       <2>21, <2>22, <2>23, <2>24, <2>25, <2>26, <2>27, <2>28, <2>29,
       <2>30, <2>31, <2>32, <2>33, <2>34, <2>35, <2>36 DEF Next, Wdiff,
       Diff, Pager
<1> QED BY <1>1, <1>2, PTL DEF Spec
-----------------------------------------------------------------------------
(***************************************************************************)
(* Temporary files.  What the directory holds depends on how far main has  *)
(* come; together these say that a name is only dropped once its file is   *)
(* gone, which lets the cleaning up find every file and try to unlink it.  *)
(***************************************************************************)

Early == {"start", "open_diff", "split_mkraw", "split_unraw", "setup"}
Splitting == {"open", "mkraw", "unraw", "words"}
Finishing == {"end_emphasis", "fclose_output", "wait_output", "report"}

Words(s) == <<s, "words">> \in disk

(* Which word files exist while they are being made.                       *)
Making ==
    /\ pc \in Early => ~Words("left") /\ ~Words("right")
    /\ pc \in {"start", "open_diff", "setup"} => side = "left"
    /\ pc \in Splitting => ~Words(side)
    /\ pc = "split" => Words(side)
    /\ pc \in Splitting \cup {"split"} =>
         IF side = "left" THEN ~Words("right") ELSE Words("left")
    /\ pc \in {"launch_input", "first_getc"} => Words("left") /\ Words("right")

(* Until wdiff fails each file on disk has its name in temp_name, and a    *)
(* file that split_diff or a stream needs exists for one step only.        *)
Named ==
    exit_status = NotExited =>
        \A s \in Side : /\ Words(s) => temp_name[s] = "words"
                        /\ <<s, "raw">> \in disk =>
                              pc \in {"split_unraw", "unraw"} /\ side = s

Removing ==
    /\ pc \in {"cleanup_fclose", "cleanup_wait"} => side = "left"
    /\ pc = "unlink" /\ side = "right" /\ Words("left") =>
         <<"left", "words">> \in stuck
    /\ pc \in Finishing => disk \subseteq stuck
    /\ exit_status \in {0, 1} => disk \subseteq stuck
    /\ exit_status # NotExited <=> pc \in {"exit", "exited"}

(* diff that has not opened its files has printed nothing, and main waits  *)
(* for its first byte.                                                     *)
Starting ==
    /\ pc \in Early \cup Splitting \cup {"split", "launch_input"} =>
         child["diff"].state = "none"
    /\ child["diff"].state \in {"none", "started"} => diff_pipe = <<>>
    /\ child["diff"].state = "started" => pc = "first_getc" /\ input_file = "pipe"

FilesInv == Making /\ Named /\ Removing /\ Starting
(* What the directory holds at every point of main.                        *)
LEMMA FilesInvariant == Spec => []FilesInv
<1>1. Init => FilesInv
  BY DEF Init, Child, FilesInv, Making, Named, Removing, Starting, Words,
         Early, Splitting, Finishing, Side, NotExited
<1>2. TypeOK /\ FilesInv /\ [Next]_vars => FilesInv'
  <2> SUFFICES ASSUME TypeOK, FilesInv, [Next]_vars PROVE FilesInv'
    OBVIOUS
  <2> USE DEF files, procs, output, quiet, stable, copying, Goto, exit, LongJump,
            FilesInv, Making, Named, Removing, Starting, Words, Early, Splitting,
            Finishing, Side, NotExited, SIGNALED
  <2>0. /\ side \in Side /\ temp_name \in [Side -> {"null", "raw", "words"}]
        /\ child \in [Child -> [state : ChildState, status : Status]]
        /\ disk \subseteq Side \X {"raw", "words"}
        /\ stuck \subseteq Side \X {"raw", "words"}
    BY DEF TypeOK
  <2>1. CASE Start BY <2>1, <2>0 DEF Start
  <2>2. CASE OpenDiffInput BY <2>2, <2>0 DEF OpenDiffInput
  <2>3. CASE MakeRaw BY <2>3, <2>0 DEF MakeRaw
  <2>4. CASE UnlinkRaw
    <3>1. Making' BY <2>4, <2>0 DEF UnlinkRaw
    <3>2. Named' BY <2>4, <2>0 DEF UnlinkRaw
    <3>3. Removing' BY <2>4, <2>0 DEF UnlinkRaw
    <3>4. Starting' BY <2>4, <2>0 DEF UnlinkRaw
    <3> QED BY <3>1, <3>2, <3>3, <3>4
  <2>5. CASE SetupSignals
    <3>1. Making' BY <2>5, <2>0 DEF SetupSignals
    <3>2. Named' BY <2>5, <2>0 DEF SetupSignals
    <3>3. Removing' BY <2>5, <2>0 DEF SetupSignals
    <3>4. Starting' BY <2>5, <2>0 DEF SetupSignals
    <3> QED BY <3>1, <3>2, <3>3, <3>4
  <2>6. CASE OpenSide BY <2>6, <2>0 DEF OpenSide
  <2>7. CASE MakeWords BY <2>7, <2>0 DEF MakeWords
  <2>8. CASE SplitSide BY <2>8, <2>0 DEF SplitSide
  <2>9. CASE LaunchInput BY <2>9, <2>0 DEF LaunchInput, Become, Child, PipeReaders
  <2>10. CASE FirstGetc BY <2>10, <2>0 DEF FirstGetc, FirstByte, InputEnded, Live
  <2>11. CASE LaunchOutput BY <2>11, <2>0 DEF LaunchOutput, Become, Child
  <2>12. CASE InitializeStrings BY <2>12, <2>0 DEF InitializeStrings
  <2>13. CASE ReadDirective BY <2>13, <2>0 DEF ReadDirective
  <2>14. CASE CopyCommon BY <2>14, <2>0 DEF CopyCommon
  <2>15. CASE StartEmphasis BY <2>15, <2>0 DEF StartEmphasis
  <2>16. CASE EndEmphasis BY <2>16, <2>0 DEF EndEmphasis
  <2>17. CASE CopyRemainder BY <2>17, <2>0 DEF CopyRemainder
  <2>18. CASE FcloseInput BY <2>18, <2>0 DEF FcloseInput, ReadEndClosed
  <2>19. CASE CompleteInputProgram
    <3>1. Making' BY <2>19, <2>0 DEF CompleteInputProgram, Wait, Become, Child
    <3>2. Named' BY <2>19, <2>0 DEF CompleteInputProgram, Wait, Become, Child
    <3>3. Removing' BY <2>19, <2>0 DEF CompleteInputProgram, Wait, Become, Child
    <3>4. Starting' BY <2>19, <2>0 DEF CompleteInputProgram, Wait, Become, Child
    <3> QED BY <3>1, <3>2, <3>3, <3>4
  <2>20. CASE Cleanup BY <2>20, <2>0 DEF Cleanup
  <2>21. CASE UnlinkTemp
    <3>1. exit_status = NotExited /\ pc = "unlink" BY <2>21 DEF UnlinkTemp
    <3>2. disk \subseteq {<<"left", temp_name["left"]>>, <<"right", temp_name["right"]>>}
      BY <2>0, <3>1
    <3>3. /\ side = "left" => pc' = "unlink" /\ side' = "right"
          /\ side = "right" => pc' = "end_emphasis"
          /\ temp_name' = temp_name /\ exit_status' = exit_status
          /\ child' = child /\ diff_pipe' = diff_pipe
      BY <2>21, <2>0 DEF UnlinkTemp, UnlinkedBoth
    <3>4. /\ disk' \subseteq disk /\ stuck \subseteq stuck'
          /\ <<side, temp_name[side]>> \in disk' => <<side, temp_name[side]>> \in stuck'
      BY <2>21, <2>0 DEF UnlinkTemp
    <3>5. Making' BY <3>1, <3>3, <2>0
    <3>6. Named' BY <3>1, <3>3, <3>4, <2>0
    <3>7. Removing'
      <4>1. CASE side = "left" BY <4>1, <3>1, <3>2, <3>3, <3>4, <2>0
      <4>2. CASE side = "right"
        <5>1. disk' \subseteq stuck' BY <4>2, <3>1, <3>2, <3>3, <3>4, <2>0
        <5> QED BY <4>2, <5>1, <3>1, <3>3
      <4> QED BY <4>1, <4>2, <2>0
    <3>8. Starting' BY <3>1, <3>3, <2>0
    <3> QED BY <3>5, <3>6, <3>7, <3>8
  <2>22. CASE EndPending BY <2>22, <2>0 DEF EndPending, NoOutputProgram
  <2>23. CASE FcloseOutput BY <2>23, <2>0 DEF FcloseOutput
  <2>24. CASE CompleteOutputProgram BY <2>24, <2>0 DEF CompleteOutputProgram, Wait, Become, Child
  <2>25. CASE Report BY <2>25, <2>0 DEF Report, Verdict
  <2>26. CASE Exit BY <2>26, <2>0 DEF Exit
  <2>27. CASE DiffOpens BY <2>27, <2>0 DEF DiffOpens, Ends, Become, wdiff, Child
  <2>28. CASE DiffWrites BY <2>28, <2>0 DEF DiffWrites, Ends, Become, wdiff, Child
  <2>29. CASE DiffEnds BY <2>29, <2>0 DEF DiffEnds, Ends, Become, wdiff, Child
  <2>30. CASE DiffFails BY <2>30, <2>0 DEF DiffFails, Ends, Become, wdiff, Child
  <2>31. CASE PagerStarts BY <2>31, <2>0 DEF PagerStarts, Ends, Become, wdiff, Child
  <2>32. CASE PagerReads BY <2>32, <2>0 DEF PagerReads, wdiff
  <2>33. CASE PagerQuits BY <2>33, <2>0 DEF PagerQuits, Ends, Become, wdiff, Child
  <2>34. CASE Signal
    <3>1. Making' BY <2>34, <2>0 DEF Signal, Ends, Become, BeforeSignals, Live, Child
    <3>2. Named' BY <2>34, <2>0 DEF Signal, Ends, Become, BeforeSignals, Live, Child
    <3>3. Removing' BY <2>34, <2>0 DEF Signal, Ends, Become, BeforeSignals, Live, Child
    <3>4. Starting' BY <2>34, <2>0 DEF Signal, Ends, Become, BeforeSignals, Live, Child
    <3> QED BY <3>1, <3>2, <3>3, <3>4
  <2>35. CASE UNCHANGED vars BY <2>35 DEF vars
  <2>36. CASE Terminated BY <2>35, <2>36 DEF Terminated
  <2> QED
    BY <2>1, <2>2, <2>3, <2>4, <2>5, <2>6, <2>7, <2>8, <2>9, <2>10, <2>11,
       <2>12, <2>13, <2>14, <2>15, <2>16, <2>17, <2>18, <2>19, <2>20,
       <2>21, <2>22, <2>23, <2>24, <2>25, <2>26, <2>27, <2>28, <2>29,
       <2>30, <2>31, <2>32, <2>33, <2>34, <2>35, <2>36 DEF Next, Wdiff,
       Diff, Pager
<1> QED BY <1>1, <1>2, Typing, PTL DEF Spec

(* Whatever interrupts main, its clean-up forgets no temporary file: one   *)
(* that is left is one that unlink would not remove.                       *)
THEOREM TempFiles == Spec => []CleanUpForgetsNoFile
<1>1. FilesInv => CleanUpForgetsNoFile
  BY DEF CleanUpForgetsNoFile, FilesInv, Removing, Finishing
<1> QED BY <1>1, FilesInvariant, PTL

(* diff finds both word files when it opens them: the clean-up that would  *)
(* unlink them cannot begin before diff has printed or ended.              *)
THEOREM FilesInPlace == Spec => []DiffFindsItsFiles
<1>1. FilesInv => DiffFindsItsFiles
  BY DEF DiffFindsItsFiles, FilesInv, Making, Starting, Words, Side
<1> QED BY <1>1, FilesInvariant, PTL
-----------------------------------------------------------------------------
(***************************************************************************)
(* Emphasis.  It is on only between its two markers, from where a signal   *)
(* may take main straight to its cleaning up.                              *)
(***************************************************************************)

MayEmphasise == {"deleted", "inserted", "cleanup", "cleanup_fclose",
                 "cleanup_wait", "unlink", "end_emphasis", "exit", "exited"}

EmphasisInv ==
    /\ pc \in {"init_strings", "reformat", "common", "delete", "insert",
              "deleted", "inserted"} => output_file # "null"
    /\ pc \notin MayEmphasise \/ output_file = "null" => copy_mode = "NORMAL"
    /\ pc \in Early => output_file = "null"

(* No common text is printed while an emphasis is on, and main does not    *)
(* reach its end with one, whatever interrupts it.                         *)
THEOREM Emphasis == Spec => []EmphasisClosed
<1>1. Init => EmphasisInv
  BY DEF Init, EmphasisInv, MayEmphasise, Early
<1>2. EmphasisInv /\ [Next]_vars => EmphasisInv'
  <2> SUFFICES ASSUME EmphasisInv, [Next]_vars PROVE EmphasisInv'
    OBVIOUS
  <2> USE DEF files, procs, output, quiet, stable, copying, Goto, exit, LongJump,
            EmphasisInv, MayEmphasise, Early
  <2>1. CASE Start BY <2>1 DEF Start
  <2>2. CASE OpenDiffInput BY <2>2 DEF OpenDiffInput
  <2>3. CASE MakeRaw BY <2>3 DEF MakeRaw
  <2>4. CASE UnlinkRaw BY <2>4 DEF UnlinkRaw
  <2>5. CASE SetupSignals BY <2>5 DEF SetupSignals
  <2>6. CASE OpenSide BY <2>6 DEF OpenSide
  <2>7. CASE MakeWords BY <2>7 DEF MakeWords
  <2>8. CASE SplitSide BY <2>8 DEF SplitSide
  <2>9. CASE LaunchInput BY <2>9 DEF LaunchInput
  <2>10. CASE FirstGetc BY <2>10 DEF FirstGetc
  <2>11. CASE LaunchOutput BY <2>11 DEF LaunchOutput
  <2>12. CASE InitializeStrings BY <2>12 DEF InitializeStrings
  <2>13. CASE ReadDirective BY <2>13 DEF ReadDirective
  <2>14. CASE CopyCommon BY <2>14 DEF CopyCommon
  <2>15. CASE StartEmphasis BY <2>15 DEF StartEmphasis
  <2>16. CASE EndEmphasis BY <2>16 DEF EndEmphasis
  <2>17. CASE CopyRemainder BY <2>17 DEF CopyRemainder
  <2>18. CASE FcloseInput BY <2>18 DEF FcloseInput
  <2>19. CASE CompleteInputProgram BY <2>19 DEF CompleteInputProgram
  <2>20. CASE Cleanup BY <2>20 DEF Cleanup
  <2>21. CASE UnlinkTemp BY <2>21 DEF UnlinkTemp
  <2>22. CASE EndPending BY <2>22 DEF EndPending, NoOutputProgram
  <2>23. CASE FcloseOutput BY <2>23 DEF FcloseOutput
  <2>24. CASE CompleteOutputProgram BY <2>24 DEF CompleteOutputProgram
  <2>25. CASE Report BY <2>25 DEF Report
  <2>26. CASE Exit BY <2>26 DEF Exit
  <2>27. CASE DiffOpens BY <2>27 DEF DiffOpens, wdiff
  <2>28. CASE DiffWrites BY <2>28 DEF DiffWrites, wdiff
  <2>29. CASE DiffEnds BY <2>29 DEF DiffEnds, wdiff
  <2>30. CASE DiffFails BY <2>30 DEF DiffFails, wdiff
  <2>31. CASE PagerStarts BY <2>31 DEF PagerStarts, wdiff
  <2>32. CASE PagerReads BY <2>32 DEF PagerReads, wdiff
  <2>33. CASE PagerQuits BY <2>33 DEF PagerQuits, wdiff
  <2>34. CASE Signal BY <2>34 DEF Signal, BeforeSignals
  <2>35. CASE UNCHANGED vars BY <2>35 DEF vars
  <2>36. CASE Terminated BY <2>35, <2>36 DEF Terminated
  <2> QED
    BY <2>1, <2>2, <2>3, <2>4, <2>5, <2>6, <2>7, <2>8, <2>9, <2>10, <2>11,
       <2>12, <2>13, <2>14, <2>15, <2>16, <2>17, <2>18, <2>19, <2>20,
       <2>21, <2>22, <2>23, <2>24, <2>25, <2>26, <2>27, <2>28, <2>29,
       <2>30, <2>31, <2>32, <2>33, <2>34, <2>35, <2>36 DEF Next, Wdiff,
       Diff, Pager
<1>3. EmphasisInv => EmphasisClosed
  BY DEF EmphasisClosed, EmphasisInv, MayEmphasise
<1> QED BY <1>1, <1>2, <1>3, PTL DEF Spec

-----------------------------------------------------------------------------
(***************************************************************************)
(* What a run of wdiff that reports success has done: all output was       *)
(* taken, both children were reaped, every directive was obeyed.           *)
(***************************************************************************)
Started == Early \cup Splitting \cup {"split", "launch_input"}
Reading == {"first_getc", "launch_output", "init_strings", "reformat", "common",
            "delete", "deleted", "insert", "inserted"}
Reporting == exit_status # NotExited <=> pc \in {"exit", "exited"}

(***************************************************************************)
(* Lost output.  The SIGPIPE that tells of it sets the flag that nothing   *)
(* but setup_signals clears, and once main looks at the flag for the last  *)
(* time no output is left that could be refused.                           *)
(***************************************************************************)
LostInv ==
    /\ pc \in Started \cup {"first_getc", "launch_output"} => output_file = "null"
    /\ output_file # "pipe" => ~buffered /\ ~dropped
    /\ dropped => interrupted \/ exit_status # NotExited
    /\ pc \in {"wait_output", "report"} => ~buffered
    /\ exit_status \in {0, 1} => ~buffered /\ ~dropped
    /\ Reporting

(* Output that a pager has refused is not reported as success.             *)
THEOREM LostOutput == Spec => []LostOutputIsAnError
<1>1. Init => LostInv
  BY DEF Init, LostInv, Reporting, Started, Early, Splitting, NotExited
<1>2. LostInv /\ [Next]_vars => LostInv'
  <2> SUFFICES ASSUME LostInv, [Next]_vars PROVE LostInv'
    OBVIOUS
  <2> USE DEF files, procs, output, quiet, stable, copying, Goto, exit, LongJump,
            LostInv, Reporting, Started, Early, Splitting, NotExited, SIGNALED
  <2>1. CASE Start BY <2>1 DEF Start
  <2>2. CASE OpenDiffInput BY <2>2 DEF OpenDiffInput
  <2>3. CASE MakeRaw BY <2>3 DEF MakeRaw
  <2>4. CASE UnlinkRaw BY <2>4 DEF UnlinkRaw
  <2>5. CASE SetupSignals BY <2>5 DEF SetupSignals
  <2>6. CASE OpenSide BY <2>6 DEF OpenSide
  <2>7. CASE MakeWords BY <2>7 DEF MakeWords
  <2>8. CASE SplitSide BY <2>8 DEF SplitSide
  <2>9. CASE LaunchInput BY <2>9 DEF LaunchInput
  <2>10. CASE FirstGetc BY <2>10 DEF FirstGetc
  <2>11. CASE LaunchOutput BY <2>11 DEF LaunchOutput
  <2>12. CASE InitializeStrings BY <2>12 DEF InitializeStrings
  <2>13. CASE ReadDirective BY <2>13 DEF ReadDirective
  <2>14. CASE CopyCommon BY <2>14 DEF CopyCommon, Emit, Write
  <2>15. CASE StartEmphasis BY <2>15 DEF StartEmphasis, Emit, Write
  <2>16. CASE EndEmphasis BY <2>16 DEF EndEmphasis, Emit, Write
  <2>17. CASE CopyRemainder BY <2>17 DEF CopyRemainder, Emit, Write
  <2>18. CASE FcloseInput BY <2>18 DEF FcloseInput
  <2>19. CASE CompleteInputProgram BY <2>19 DEF CompleteInputProgram
  <2>20. CASE Cleanup BY <2>20 DEF Cleanup
  <2>21. CASE UnlinkTemp BY <2>21 DEF UnlinkTemp
  <2>22. CASE EndPending BY <2>22 DEF EndPending, NoOutputProgram, Emit, Write
  <2>23. CASE FcloseOutput BY <2>23 DEF FcloseOutput, Write
  <2>24. CASE CompleteOutputProgram BY <2>24 DEF CompleteOutputProgram
  <2>25. CASE Report BY <2>25 DEF Report, Verdict
  <2>26. CASE Exit BY <2>26 DEF Exit, Write
  <2>27. CASE DiffOpens BY <2>27 DEF DiffOpens, wdiff
  <2>28. CASE DiffWrites BY <2>28 DEF DiffWrites, wdiff
  <2>29. CASE DiffEnds BY <2>29 DEF DiffEnds, wdiff
  <2>30. CASE DiffFails BY <2>30 DEF DiffFails, wdiff
  <2>31. CASE PagerStarts BY <2>31 DEF PagerStarts, wdiff
  <2>32. CASE PagerReads BY <2>32 DEF PagerReads, wdiff
  <2>33. CASE PagerQuits BY <2>33 DEF PagerQuits, wdiff
  <2>34. CASE Signal BY <2>34 DEF Signal, BeforeSignals
  <2>35. CASE UNCHANGED vars BY <2>35 DEF vars
  <2>36. CASE Terminated BY <2>35, <2>36 DEF Terminated
  <2> QED
    BY <2>1, <2>2, <2>3, <2>4, <2>5, <2>6, <2>7, <2>8, <2>9, <2>10, <2>11,
       <2>12, <2>13, <2>14, <2>15, <2>16, <2>17, <2>18, <2>19, <2>20,
       <2>21, <2>22, <2>23, <2>24, <2>25, <2>26, <2>27, <2>28, <2>29,
       <2>30, <2>31, <2>32, <2>33, <2>34, <2>35, <2>36 DEF Next, Wdiff,
       Diff, Pager
<1>3. LostInv => LostOutputIsAnError
  BY DEF LostInv, LostOutputIsAnError
<1> QED BY <1>1, <1>2, <1>3, PTL DEF Spec

-----------------------------------------------------------------------------
(***************************************************************************)
(* The children.  There is a wait for each child that was launched, so it  *)
(* does not matter which of them a wait returns.                           *)
(***************************************************************************)
Idle(c) == child[c].state \in {"none", "reaped"}

BetweenWaits ==
    \/ pc \in {"remainder", "unlink", "end_emphasis", "fclose_output", "wait_output"}
    \/ pc = "cleanup" /\ input_file = "null"

ReapInv ==
    /\ pc \in Started => input_file = "null" /\ child["diff"].state = "none"
    /\ pc \in Started \cup {"first_getc", "launch_output"} => output_file = "null"
    /\ pc \in Reading =>
         input_file # "null"
    /\ pc = "remainder" => input_file = "null"
    /\ output_file # "pipe" => child["pager"].state = "none"
    /\ BetweenWaits => /\ Idle("diff") \/ Idle("pager")
                       /\ child["pager"].state = "none" => Idle("diff")
    /\ pc = "report" \/ exit_status \in {0, 1} => Idle("diff") /\ Idle("pager")
    /\ Reporting

(* Each wait takes one child, whichever it is.                             *)
LEMMA ReapNext == TypeOK /\ ReapInv /\ [Next]_vars => ReapInv'
<1> SUFFICES ASSUME TypeOK, ReapInv, [Next]_vars PROVE ReapInv'
  OBVIOUS
<1> USE DEF files, procs, output, quiet, stable, copying, Goto, exit, LongJump,
          ReapInv, BetweenWaits, Idle, Reporting, Reading, Started, Early, Splitting,
          NotExited, SIGNALED
<1>0. child \in [Child -> [state : ChildState, status : Status]]
  BY DEF TypeOK
<1>1. CASE Start BY <1>1, <1>0 DEF Start
<1>2. CASE OpenDiffInput BY <1>2, <1>0 DEF OpenDiffInput
<1>3. CASE MakeRaw BY <1>3, <1>0 DEF MakeRaw
<1>4. CASE UnlinkRaw BY <1>4, <1>0 DEF UnlinkRaw
<1>5. CASE SetupSignals BY <1>5, <1>0 DEF SetupSignals
<1>6. CASE OpenSide BY <1>6, <1>0 DEF OpenSide
<1>7. CASE MakeWords BY <1>7, <1>0 DEF MakeWords
<1>8. CASE SplitSide BY <1>8, <1>0 DEF SplitSide
<1>9. CASE LaunchInput BY <1>9, <1>0 DEF LaunchInput, Become, Child, PipeReaders
<1>10. CASE FirstGetc BY <1>10, <1>0 DEF FirstGetc
<1>11. CASE LaunchOutput BY <1>11, <1>0 DEF LaunchOutput, Become, Child
<1>12. CASE InitializeStrings BY <1>12, <1>0 DEF InitializeStrings
<1>13. CASE ReadDirective BY <1>13, <1>0 DEF ReadDirective
<1>14. CASE CopyCommon BY <1>14, <1>0 DEF CopyCommon
<1>15. CASE StartEmphasis BY <1>15, <1>0 DEF StartEmphasis
<1>16. CASE EndEmphasis BY <1>16, <1>0 DEF EndEmphasis
<1>17. CASE CopyRemainder BY <1>17, <1>0 DEF CopyRemainder
<1>18. CASE FcloseInput BY <1>18, <1>0 DEF FcloseInput
<1>19. CASE CompleteInputProgram BY <1>19, <1>0 DEF CompleteInputProgram, Wait, Become, Child, Accepted
<1>20. CASE Cleanup BY <1>20, <1>0 DEF Cleanup
<1>21. CASE UnlinkTemp BY <1>21, <1>0 DEF UnlinkTemp
<1>22. CASE EndPending BY <1>22, <1>0 DEF EndPending, NoOutputProgram
<1>23. CASE FcloseOutput BY <1>23, <1>0 DEF FcloseOutput
<1>24. CASE CompleteOutputProgram BY <1>24, <1>0 DEF CompleteOutputProgram, Wait, Become, Child
<1>25. CASE Report BY <1>25, <1>0 DEF Report, Verdict
<1>26. CASE Exit BY <1>26, <1>0 DEF Exit
<1>27. CASE DiffOpens BY <1>27, <1>0 DEF DiffOpens, Become, Ends, Child, wdiff
<1>28. CASE DiffWrites BY <1>28, <1>0 DEF DiffWrites, Become, Ends, Child, wdiff
<1>29. CASE DiffEnds BY <1>29, <1>0 DEF DiffEnds, Become, Ends, Child, wdiff
<1>30. CASE DiffFails BY <1>30, <1>0 DEF DiffFails, Become, Ends, Child, wdiff
<1>31. CASE PagerStarts BY <1>31, <1>0 DEF PagerStarts, Become, Ends, Child, wdiff
<1>32. CASE PagerReads BY <1>32, <1>0 DEF PagerReads, wdiff
<1>33. CASE PagerQuits BY <1>33, <1>0 DEF PagerQuits, Become, Ends, Child, wdiff
<1>34. CASE Signal BY <1>34, <1>0 DEF Signal, BeforeSignals, Become, Ends, Live, Child
<1>35. CASE UNCHANGED vars BY <1>35 DEF vars
<1>36. CASE Terminated BY <1>35, <1>36 DEF Terminated
<1> QED
  BY <1>1, <1>2, <1>3, <1>4, <1>5, <1>6, <1>7, <1>8, <1>9, <1>10, <1>11,
     <1>12, <1>13, <1>14, <1>15, <1>16, <1>17, <1>18, <1>19, <1>20,
     <1>21, <1>22, <1>23, <1>24, <1>25, <1>26, <1>27, <1>28, <1>29,
     <1>30, <1>31, <1>32, <1>33, <1>34, <1>35, <1>36 DEF Next, Wdiff,
     Diff, Pager

(* A run that reports success has reaped both of its children.             *)
THEOREM Reaping == Spec => []SuccessReapsChildren
<1>1. Init => ReapInv
  BY DEF Init, ReapInv, BetweenWaits, Idle, Child, Reporting, Reading, Started, Early, Splitting, NotExited
<1>2. TypeOK /\ ReapInv /\ [Next]_vars => ReapInv'
  BY ReapNext
<1>3. ReapInv => SuccessReapsChildren
  BY DEF ReapInv, SuccessReapsChildren, Idle, Child
<1> QED BY <1>1, <1>2, <1>3, Typing, PTL DEF Spec

-----------------------------------------------------------------------------
(***************************************************************************)
(* A diff that fails.  Without a pager it is the only child there is, so   *)
(* the wait that is meant for it returns its status.                       *)
(***************************************************************************)
Unreaped == pc \in Reading \cup {"reformat_fclose", "reformat_wait", "cleanup",
                                  "cleanup_fclose", "cleanup_wait"}

TroubleInv ==
    /\ child["diff"].state = "none" => child["diff"].status = 0
    /\ ~conf.paging => output_file # "pipe"
    /\ pc \in {"reformat_fclose", "reformat_wait", "cleanup_fclose", "cleanup_wait"} =>
         input_file # "null"
    /\ ~conf.paging /\ input_file # "null" /\ Unreaped => child["diff"].state # "reaped"
    /\ ~conf.paging /\ (BetweenWaits \/ pc = "report" \/ exit_status \in {0, 1}) =>
         child["diff"].status # 2

(* Without a pager a diff that failed is never reported as success.        *)
THEOREM Trouble == Spec => []DiffTroubleIsSeen
<1>1. Init => ReapInv /\ TroubleInv
  BY DEF Init, ReapInv, TroubleInv, Unreaped, BetweenWaits, Idle, Child, Reporting, Reading, Started,
         Early, Splitting, NotExited
<1>2. TypeOK /\ ReapInv /\ TroubleInv /\ [Next]_vars => TroubleInv'
  <2> SUFFICES ASSUME TypeOK, ReapInv, TroubleInv, [Next]_vars PROVE TroubleInv'
    OBVIOUS
  <2> USE DEF files, procs, output, quiet, stable, copying, Goto, exit, LongJump,
            TroubleInv, Unreaped, ReapInv, BetweenWaits, Idle, Reporting, Reading, Started,
            Early, Splitting, NotExited, SIGNALED
  <2>0. child \in [Child -> [state : ChildState, status : Status]]
    BY DEF TypeOK
  <2>1. CASE Start BY <2>1, <2>0 DEF Start
  <2>2. CASE OpenDiffInput BY <2>2, <2>0 DEF OpenDiffInput
  <2>3. CASE MakeRaw BY <2>3, <2>0 DEF MakeRaw
  <2>4. CASE UnlinkRaw BY <2>4, <2>0 DEF UnlinkRaw
  <2>5. CASE SetupSignals BY <2>5, <2>0 DEF SetupSignals
  <2>6. CASE OpenSide BY <2>6, <2>0 DEF OpenSide
  <2>7. CASE MakeWords BY <2>7, <2>0 DEF MakeWords
  <2>8. CASE SplitSide BY <2>8, <2>0 DEF SplitSide
  <2>9. CASE LaunchInput BY <2>9, <2>0 DEF LaunchInput, Become, Child, PipeReaders
  <2>10. CASE FirstGetc BY <2>10, <2>0 DEF FirstGetc
  <2>11. CASE LaunchOutput BY <2>11, <2>0 DEF LaunchOutput, Become, Child
  <2>12. CASE InitializeStrings BY <2>12, <2>0 DEF InitializeStrings
  <2>13. CASE ReadDirective BY <2>13, <2>0 DEF ReadDirective, InputEnded, Live, ChildState, Status, Child
  <2>14. CASE CopyCommon BY <2>14, <2>0 DEF CopyCommon, Emit, Write
  <2>15. CASE StartEmphasis BY <2>15, <2>0 DEF StartEmphasis, Emit, Write
  <2>16. CASE EndEmphasis BY <2>16, <2>0 DEF EndEmphasis, Emit, Write
  <2>17. CASE CopyRemainder BY <2>17, <2>0 DEF CopyRemainder, Emit, Write
  <2>18. CASE FcloseInput BY <2>18, <2>0 DEF FcloseInput, ReadEndClosed
  <2>19. CASE CompleteInputProgram
    <3>1. PICK st \in Status :
             Wait(st) /\ (pc' \in {"remainder", "unlink"} => st \in {0, 1})
      BY <2>19 DEF CompleteInputProgram, Accepted
    <3>2. child["diff"]'.state = "none" => child["diff"]'.status = 0
      BY <2>0, <3>1 DEF Wait, Become, Child
    <3>3. ~conf.paging /\ pc' \in {"remainder", "unlink"} => child["diff"]'.status # 2
      BY <2>19, <2>0, <3>1, <3>2 DEF CompleteInputProgram, Wait, Become, Child
    <3>4. /\ conf' = conf
          /\ output_file' = output_file
          /\ pc' \in {"exit", "remainder", "unlink"}
          /\ exit_status' # NotExited => exit_status' = 2
      BY <2>19 DEF CompleteInputProgram
    <3> QED BY <3>2, <3>3, <3>4
  <2>20. CASE Cleanup BY <2>20, <2>0 DEF Cleanup
  <2>21. CASE UnlinkTemp BY <2>21, <2>0 DEF UnlinkTemp
  <2>22. CASE EndPending BY <2>22, <2>0 DEF EndPending, NoOutputProgram, Emit, Write
  <2>23. CASE FcloseOutput BY <2>23, <2>0 DEF FcloseOutput, Write
  <2>24. CASE CompleteOutputProgram BY <2>24, <2>0 DEF CompleteOutputProgram, Wait, Become, Child
  <2>25. CASE Report BY <2>25, <2>0 DEF Report, Verdict
  <2>26. CASE Exit BY <2>26, <2>0 DEF Exit, ReadEndClosed, Write
  <2>27. CASE DiffOpens BY <2>27, <2>0 DEF DiffOpens, Become, Ends, Child, wdiff
  <2>28. CASE DiffWrites BY <2>28, <2>0 DEF DiffWrites, Become, Ends, Child, wdiff
  <2>29. CASE DiffEnds BY <2>29, <2>0 DEF DiffEnds, Become, Ends, Child, wdiff
  <2>30. CASE DiffFails BY <2>30, <2>0 DEF DiffFails, Become, Ends, Child, wdiff
  <2>31. CASE PagerStarts BY <2>31, <2>0 DEF PagerStarts, Become, Ends, Child, wdiff
  <2>32. CASE PagerReads BY <2>32, <2>0 DEF PagerReads, wdiff
  <2>33. CASE PagerQuits BY <2>33, <2>0 DEF PagerQuits, Become, Ends, Child, wdiff
  <2>34. CASE Signal BY <2>34, <2>0 DEF Signal, BeforeSignals, Become, Ends, Live, Child
  <2>35. CASE UNCHANGED vars BY <2>35 DEF vars
  <2>36. CASE Terminated BY <2>35, <2>36 DEF Terminated
  <2> QED
    BY <2>1, <2>2, <2>3, <2>4, <2>5, <2>6, <2>7, <2>8, <2>9, <2>10, <2>11,
       <2>12, <2>13, <2>14, <2>15, <2>16, <2>17, <2>18, <2>19, <2>20,
       <2>21, <2>22, <2>23, <2>24, <2>25, <2>26, <2>27, <2>28, <2>29,
       <2>30, <2>31, <2>32, <2>33, <2>34, <2>35, <2>36 DEF Next, Wdiff,
       Diff, Pager
<1>3. TroubleInv => DiffTroubleIsSeen
  BY DEF TroubleInv, DiffTroubleIsSeen, DiffTroubleIsAnError
<1> QED BY <1>1, <1>2, <1>3, Typing, ReapNext, PTL DEF Spec

-----------------------------------------------------------------------------
(***************************************************************************)
(* The directives: those obeyed, those in the pipe and those diff has not  *)
(* printed yet are its script, and wdiff stops reading, undisturbed, only  *)
(* when the last two are none.                                             *)
(***************************************************************************)
Read == {"reformat_fclose", "reformat_wait", "remainder", "cleanup", "cleanup_fclose",
         "cleanup_wait", "unlink", "end_emphasis", "fclose_output", "wait_output", "report"}

Unread == todo # <<>> \/ diff_pipe # <<>>
NothingToRead == child["diff"].state = "none" \/ child["diff"].status = 2 \/ ~Unread

ScriptInv ==
    /\ pc \in Started => child["diff"].state = "none" /\ processed = <<>>
    /\ child["diff"].state = "none" => todo = <<>> /\ diff_pipe = <<>>
    /\ child["diff"].state # "none" /\ ~conf.binary =>
         /\ todo \in Seq(Directive) /\ diff_pipe \in Seq(Directive)
         /\ (processed \o diff_pipe) \o todo = conf.script

ReadInv ==
    /\ pc \in Started => child["diff"].state = "none"
    /\ pc \in Reading =>
         IF input_file = "pipe" THEN "wdiff" \in readers ELSE child["diff"].state = "none"
    /\ child["diff"].state = "none" => ~Unread
    /\ child["diff"].state \in {"none", "started", "running"} => child["diff"].status = 0
    /\ child["diff"].state \in {"zombie", "reaped"} /\ child["diff"].status \in {0, 1} => todo = <<>>
    /\ child["diff"].status = SIGNALED => interrupted \/ "wdiff" \notin readers \/ exit_status # NotExited
    /\ pc \in Read => interrupted \/ NothingToRead
    /\ exit_status \in {0, 1} => NothingToRead
    /\ Reporting

-----------------------------------------------------------------------------
(* Moving a directive from one sequence to the end of the one before it    *)
(* leaves the two together as they were, and any third before them.        *)
LEMMA TakeOne ==
    \A p, d \in Seq(Directive) : d # <<>> =>
        /\ Head(d) \in Directive /\ Tail(d) \in Seq(Directive)
        /\ Append(p, Head(d)) \in Seq(Directive)
        /\ Append(p, Head(d)) \o Tail(d) = p \o d
<1> TAKE p, d \in Seq(Directive)
<1> HAVE d # <<>>
<1>1. Head(d) \in Directive /\ Tail(d) \in Seq(Directive) /\ d = <<Head(d)>> \o Tail(d)
  BY HeadTailProperties, ConcatProperties
<1>2. Append(p, Head(d)) = p \o <<Head(d)>>
  BY <1>1, AppendIsConcat
<1>3. (p \o <<Head(d)>>) \o Tail(d) = p \o (<<Head(d)>> \o Tail(d))
  BY <1>1, ConcatAssociative
<1> QED BY <1>1, <1>2, <1>3

LEMMA PutOne ==
    \A p, d, t \in Seq(Directive) : t # <<>> =>
        /\ Tail(t) \in Seq(Directive) /\ Append(d, Head(t)) \in Seq(Directive)
        /\ (p \o Append(d, Head(t))) \o Tail(t) = (p \o d) \o t
<1> TAKE p, d, t \in Seq(Directive)
<1> HAVE t # <<>>
<1>1. /\ Tail(t) \in Seq(Directive) /\ Append(d, Head(t)) \in Seq(Directive)
      /\ Append(d, Head(t)) \o Tail(t) = d \o t
  BY TakeOne, Zenon
<1>2. \A e, u \in Seq(Directive) : (p \o e) \o u = p \o (e \o u)
  BY ConcatAssociative, SMTT(15)
<1>3. (p \o Append(d, Head(t))) \o Tail(t) = p \o (Append(d, Head(t)) \o Tail(t))
  BY <1>1, <1>2, Zenon
<1> QED BY <1>1, <1>2, <1>3, ZenonT(30)
(* Three steps touch the directives: diff's launch, a step of its printing *)
(* and one of wdiff's reading.                                             *)
DirectivesKept ==
    /\ UNCHANGED <<conf, processed, diff_pipe, todo>>
    /\ pc' \in Started => pc \in Started
    /\ child'["diff"].state = "none" <=> child["diff"].state = "none"

LEMMA WhoTouches ==
    ASSUME TypeOK, [Next]_vars
    PROVE  DirectivesKept \/ LaunchInput \/ ReadDirective \/ DiffWrites
<1> USE DEF DirectivesKept, files, procs, output, quiet, stable, copying, Goto, exit, LongJump,
          Started, Early, Splitting
<1>0. child \in [Child -> [state : ChildState, status : Status]]
  BY DEF TypeOK
<1>1. CASE Start BY <1>1, <1>0 DEF Start
<1>2. CASE OpenDiffInput BY <1>2, <1>0 DEF OpenDiffInput
<1>3. CASE MakeRaw BY <1>3, <1>0 DEF MakeRaw
<1>4. CASE UnlinkRaw BY <1>4, <1>0 DEF UnlinkRaw
<1>5. CASE SetupSignals BY <1>5, <1>0 DEF SetupSignals
<1>6. CASE OpenSide BY <1>6, <1>0 DEF OpenSide
<1>7. CASE MakeWords BY <1>7, <1>0 DEF MakeWords
<1>8. CASE SplitSide BY <1>8, <1>0 DEF SplitSide
<1>9. CASE LaunchInput BY <1>9
<1>10. CASE FirstGetc BY <1>10, <1>0 DEF FirstGetc
<1>11. CASE LaunchOutput BY <1>11, <1>0 DEF LaunchOutput, Become, Child
<1>12. CASE InitializeStrings BY <1>12, <1>0 DEF InitializeStrings
<1>13. CASE ReadDirective BY <1>13
<1>14. CASE CopyCommon BY <1>14, <1>0 DEF CopyCommon
<1>15. CASE StartEmphasis BY <1>15, <1>0 DEF StartEmphasis
<1>16. CASE EndEmphasis BY <1>16, <1>0 DEF EndEmphasis
<1>17. CASE CopyRemainder BY <1>17, <1>0 DEF CopyRemainder
<1>18. CASE FcloseInput BY <1>18, <1>0 DEF FcloseInput, ReadEndClosed
<1>19. CASE CompleteInputProgram BY <1>19, <1>0 DEF CompleteInputProgram, Wait, Become, Child, Accepted
<1>20. CASE Cleanup BY <1>20, <1>0 DEF Cleanup
<1>21. CASE UnlinkTemp BY <1>21, <1>0 DEF UnlinkTemp
<1>22. CASE EndPending BY <1>22, <1>0 DEF EndPending
<1>23. CASE FcloseOutput BY <1>23, <1>0 DEF FcloseOutput
<1>24. CASE CompleteOutputProgram BY <1>24, <1>0 DEF CompleteOutputProgram, Wait, Become, Child
<1>25. CASE Report BY <1>25, <1>0 DEF Report, Verdict
<1>26. CASE Exit BY <1>26, <1>0 DEF Exit
<1>27. CASE DiffOpens BY <1>27, <1>0 DEF DiffOpens, Become, Ends, Child, wdiff
<1>28. CASE DiffWrites BY <1>28
<1>29. CASE DiffEnds BY <1>29, <1>0 DEF DiffEnds, Become, Ends, Child, wdiff
<1>30. CASE DiffFails BY <1>30, <1>0 DEF DiffFails, Become, Ends, Child, wdiff
<1>31. CASE PagerStarts BY <1>31, <1>0 DEF PagerStarts, Become, Ends, Child, wdiff
<1>32. CASE PagerReads BY <1>32, <1>0 DEF PagerReads, wdiff
<1>33. CASE PagerQuits BY <1>33, <1>0 DEF PagerQuits, Become, Ends, Child, wdiff
<1>34. CASE Signal BY <1>34, <1>0 DEF Signal, BeforeSignals, Become, Ends, Live, Child
<1>35. CASE UNCHANGED vars BY <1>35 DEF vars
<1>36. CASE Terminated BY <1>35, <1>36 DEF Terminated
<1> QED
  BY <1>1, <1>2, <1>3, <1>4, <1>5, <1>6, <1>7, <1>8, <1>9, <1>10, <1>11,
     <1>12, <1>13, <1>14, <1>15, <1>16, <1>17, <1>18, <1>19, <1>20,
     <1>21, <1>22, <1>23, <1>24, <1>25, <1>26, <1>27, <1>28, <1>29,
     <1>30, <1>31, <1>32, <1>33, <1>34, <1>35, <1>36 DEF Next, Wdiff,
     Diff, Pager

(* A step moves at most one directive towards those obeyed.                *)
LEMMA ScriptNext == TypeOK /\ ReadInv /\ ScriptInv /\ [Next]_vars => ScriptInv'
<1> SUFFICES ASSUME TypeOK, ReadInv, ScriptInv, [Next]_vars PROVE ScriptInv'
  OBVIOUS
<1>0. /\ processed \in Seq(Directive) /\ todo \in Seq(Printed) /\ diff_pipe \in Seq(Printed)
      /\ child \in [Child -> [state : ChildState, status : Status]]
      /\ conf.script \in Seq(Directive)
  BY ScriptIsSeq DEF TypeOK, Confs
<1>1. CASE DirectivesKept BY <1>1 DEF DirectivesKept, ScriptInv
<1>2. CASE LaunchInput
  <2>0. pc = "launch_input" /\ processed' = processed /\ diff_pipe' = diff_pipe /\ conf' = conf
    BY <1>2 DEF LaunchInput, stable
  <2>1. child["diff"].state = "none" /\ processed = <<>> /\ todo = <<>> /\ diff_pipe = <<>>
    BY <2>0 DEF ScriptInv, Started
  <2>2. CASE Become("diff", "started", 0) /\ todo' = IF conf.binary /\ Differs THEN <<"text">> ELSE conf.script
    <3>1. child'["diff"].state = "started" BY <1>0, <2>2 DEF Become, Child
    <3>2. pc' = "first_getc" \/ pc' = "exit" BY <1>2 DEF LaunchInput, Goto, exit
    <3>3. ~conf.binary => todo' = conf.script BY <2>2
    <3>4. (<<>> \o <<>>) \o conf.script = conf.script BY <1>0, ConcatEmptySeq
    <3> QED BY <1>0, <2>0, <2>1, <3>1, <3>2, <3>3, <3>4 DEF ScriptInv, Started, Early, Splitting
  <2>3. CASE child' = child /\ todo' = todo
    <3>1. pc' = "first_getc" \/ pc' = "exit" BY <1>2 DEF LaunchInput, Goto, exit
    <3> QED BY <2>0, <2>1, <2>3, <3>1 DEF ScriptInv, Started, Early, Splitting
  <2> QED BY <1>2, <2>2, <2>3, Zenon DEF LaunchInput
<1>3. CASE ReadDirective
  <2>0. /\ child' = child /\ todo' = todo /\ conf' = conf /\ pc = "reformat" /\ pc' \notin Started
    BY <1>3 DEF ReadDirective, Goto, LongJump, Started, Early, Splitting
  <2>1. CASE processed' = processed /\ diff_pipe' = diff_pipe
    BY <2>0, <2>1 DEF ScriptInv
  <2>2. CASE /\ diff_pipe # <<>> /\ diff_pipe' = Tail(diff_pipe)
             /\ processed' = IF Head(diff_pipe) \in Directive
                             THEN Append(processed, Head(diff_pipe)) ELSE processed
    <3>1. child["diff"].state # "none" BY <2>2 DEF ScriptInv
    <3>2. CASE conf.binary BY <2>0, <3>1, <3>2 DEF ScriptInv
    <3>3. CASE ~conf.binary
      <4>1. todo \in Seq(Directive) /\ diff_pipe \in Seq(Directive)
            /\ (processed \o diff_pipe) \o todo = conf.script
        BY <3>1, <3>3 DEF ScriptInv
      <4>2. /\ Head(diff_pipe) \in Directive /\ Tail(diff_pipe) \in Seq(Directive)
            /\ Append(processed, Head(diff_pipe)) \o Tail(diff_pipe) = processed \o diff_pipe
        BY <1>0, <2>2, <4>1, TakeOne, Zenon
      <4>3. /\ processed' = Append(processed, Head(diff_pipe)) /\ diff_pipe' = Tail(diff_pipe)
            /\ diff_pipe' \in Seq(Directive)
        BY <2>2, <4>2, Zenon
      <4>4. (processed' \o diff_pipe') \o todo = conf.script
        BY <4>1, <4>2, <4>3, Zenon
      <4> QED BY <2>0, <3>1, <4>1, <4>3, <4>4, Zenon DEF ScriptInv
    <3> QED BY <3>2, <3>3
  <2>3. CASE input_file = "stdin" /\ diff_pipe' = diff_pipe
    <3>1. child["diff"].state = "none"
      BY <2>0, <2>3 DEF ReadInv, Reading
    <3> QED BY <2>0, <2>3, <3>1 DEF ScriptInv
  <2> QED BY <1>3, <2>1, <2>2, <2>3, Zenon DEF ReadDirective
<1>4. CASE DiffWrites
  <2>0. /\ conf' = conf /\ processed' = processed /\ pc' = pc
        /\ child["diff"].state = "running" /\ todo # <<>>
    BY <1>4 DEF DiffWrites, wdiff
  <2>1. CASE /\ diff_pipe' = Append(diff_pipe, Head(todo)) /\ todo' = Tail(todo) /\ child' = child
    <3>1. CASE conf.binary BY <2>0, <2>1, <3>1 DEF ScriptInv
    <3>2. CASE ~conf.binary
      <4>1. todo \in Seq(Directive) /\ diff_pipe \in Seq(Directive)
            /\ (processed \o diff_pipe) \o todo = conf.script
        BY <2>0, <3>2 DEF ScriptInv
      <4>2. /\ Tail(todo) \in Seq(Directive) /\ Append(diff_pipe, Head(todo)) \in Seq(Directive)
            /\ (processed \o Append(diff_pipe, Head(todo))) \o Tail(todo)
                 = (processed \o diff_pipe) \o todo
        <5>1. processed \in Seq(Directive) /\ todo # <<>>
          BY <1>0, <2>0
        <5>2. diff_pipe \in Seq(Directive) /\ todo \in Seq(Directive)
          BY <4>1
        <5>3. \A t \in Seq(Directive) : t # <<>> =>
                 /\ Tail(t) \in Seq(Directive) /\ Append(diff_pipe, Head(t)) \in Seq(Directive)
                 /\ (processed \o Append(diff_pipe, Head(t))) \o Tail(t)
                      = (processed \o diff_pipe) \o t
          BY <5>1, <5>2, PutOne, Zenon
        <5> QED BY <5>1, <5>2, <5>3, Zenon
      <4>3. (processed \o diff_pipe') \o todo' = conf.script
        BY <2>1, <4>1, <4>2, Zenon
      <4>4. diff_pipe' \in Seq(Directive) /\ todo' \in Seq(Directive)
        BY <2>1, <4>2, Zenon
      <4> QED BY <2>0, <2>1, <4>3, <4>4, Zenon DEF ScriptInv
    <3> QED BY <3>1, <3>2
  <2>2. CASE Ends("diff", SIGNALED) /\ todo' = todo /\ diff_pipe' = diff_pipe
    <3>1. child'["diff"].state = "zombie" BY <1>0, <2>2 DEF Ends, Become, Child
    <3> QED BY <2>0, <2>2, <3>1 DEF ScriptInv, Started, Early, Splitting
  <2> QED BY <1>4, <2>1, <2>2, Zenon DEF DiffWrites
<1> QED BY <1>1, <1>2, <1>3, <1>4, WhoTouches, Zenon

(* Undisturbed, wdiff reads until diff has ended and the pipe is empty.    *)
LEMMA ReadNext == TypeOK /\ ReadInv /\ [Next]_vars => ReadInv'
<1> SUFFICES ASSUME TypeOK, ReadInv, [Next]_vars PROVE ReadInv'
  OBVIOUS
<1> USE DEF files, procs, output, quiet, stable, copying, Goto, exit, LongJump,
          ReadInv, NothingToRead, Unread, Reading, Read, Reporting, Started, Early,
          Splitting, NotExited, SIGNALED
<1>0. child \in [Child -> [state : ChildState, status : Status]]
  BY DEF TypeOK
<1>1. CASE Start BY <1>1, <1>0 DEF Start
<1>2. CASE OpenDiffInput BY <1>2, <1>0 DEF OpenDiffInput
<1>3. CASE MakeRaw BY <1>3, <1>0 DEF MakeRaw
<1>4. CASE UnlinkRaw BY <1>4, <1>0 DEF UnlinkRaw
<1>5. CASE SetupSignals BY <1>5, <1>0 DEF SetupSignals
<1>6. CASE OpenSide BY <1>6, <1>0 DEF OpenSide
<1>7. CASE MakeWords BY <1>7, <1>0 DEF MakeWords
<1>8. CASE SplitSide BY <1>8, <1>0 DEF SplitSide
<1>9. CASE LaunchInput BY <1>9, <1>0 DEF LaunchInput, Become, Child, PipeReaders
<1>10. CASE FirstGetc BY <1>10, <1>0 DEF FirstGetc
<1>11. CASE LaunchOutput BY <1>11, <1>0 DEF LaunchOutput, Become, Child
<1>12. CASE InitializeStrings BY <1>12, <1>0 DEF InitializeStrings
<1>13. CASE ReadDirective BY <1>13, <1>0 DEF ReadDirective, InputEnded, Live, ChildState, Status, Child
<1>14. CASE CopyCommon BY <1>14, <1>0 DEF CopyCommon, Emit, Write
<1>15. CASE StartEmphasis BY <1>15, <1>0 DEF StartEmphasis, Emit, Write
<1>16. CASE EndEmphasis BY <1>16, <1>0 DEF EndEmphasis, Emit, Write
<1>17. CASE CopyRemainder BY <1>17, <1>0 DEF CopyRemainder, Emit, Write
<1>18. CASE FcloseInput BY <1>18, <1>0 DEF FcloseInput, ReadEndClosed
<1>19. CASE CompleteInputProgram BY <1>19, <1>0 DEF CompleteInputProgram, Wait, Become, Child, Accepted
<1>20. CASE Cleanup BY <1>20, <1>0 DEF Cleanup
<1>21. CASE UnlinkTemp BY <1>21, <1>0 DEF UnlinkTemp
<1>22. CASE EndPending BY <1>22, <1>0 DEF EndPending, NoOutputProgram, Emit, Write
<1>23. CASE FcloseOutput BY <1>23, <1>0 DEF FcloseOutput, Write
<1>24. CASE CompleteOutputProgram BY <1>24, <1>0 DEF CompleteOutputProgram, Wait, Become, Child
<1>25. CASE Report BY <1>25, <1>0 DEF Report, Verdict
<1>26. CASE Exit BY <1>26, <1>0 DEF Exit, ReadEndClosed, Write
<1>27. CASE DiffOpens BY <1>27, <1>0 DEF DiffOpens, Become, Ends, Child, wdiff
<1>28. CASE DiffWrites BY <1>28, <1>0 DEF DiffWrites, Become, Ends, Child, wdiff
<1>29. CASE DiffEnds BY <1>29, <1>0 DEF DiffEnds, Become, Ends, Child, wdiff
<1>30. CASE DiffFails BY <1>30, <1>0 DEF DiffFails, Become, Ends, Child, wdiff
<1>31. CASE PagerStarts BY <1>31, <1>0 DEF PagerStarts, Become, Ends, Child, wdiff
<1>32. CASE PagerReads BY <1>32, <1>0 DEF PagerReads, wdiff
<1>33. CASE PagerQuits BY <1>33, <1>0 DEF PagerQuits, Become, Ends, Child, wdiff
<1>34. CASE Signal BY <1>34, <1>0 DEF Signal, BeforeSignals, Become, Ends, Live, Child
<1>35. CASE UNCHANGED vars BY <1>35 DEF vars
<1>36. CASE Terminated BY <1>35, <1>36 DEF Terminated
<1> QED
  BY <1>1, <1>2, <1>3, <1>4, <1>5, <1>6, <1>7, <1>8, <1>9, <1>10, <1>11,
     <1>12, <1>13, <1>14, <1>15, <1>16, <1>17, <1>18, <1>19, <1>20,
     <1>21, <1>22, <1>23, <1>24, <1>25, <1>26, <1>27, <1>28, <1>29,
     <1>30, <1>31, <1>32, <1>33, <1>34, <1>35, <1>36 DEF Next, Wdiff,
     Diff, Pager

(* A run that reports success has obeyed every directive of diff.          *)
THEOREM Completeness == Spec => []SuccessIsComplete
<1>1. Init => ScriptInv /\ ReadInv
  BY DEF Init, ScriptInv, ReadInv, NothingToRead, Unread, Child, Started, Early, Splitting,
         Reading, Read, Reporting, NotExited, SIGNALED
<1>2. TypeOK /\ ScriptInv /\ ReadInv /\ [Next]_vars => ScriptInv' /\ ReadInv'
  BY ScriptNext, ReadNext
<1>3. TypeOK /\ ScriptInv /\ ReadInv => SuccessIsComplete
  <2> SUFFICES ASSUME TypeOK, ScriptInv, ReadInv, exit_status \in {0, 1},
                      child["diff"].state # "none", child["diff"].status # 2, ~conf.binary
               PROVE  processed = conf.script
    BY DEF SuccessIsComplete
  <2>1. todo = <<>> /\ diff_pipe = <<>>
    BY DEF ReadInv, NothingToRead, Unread
  <2>2. (processed \o diff_pipe) \o todo = conf.script
    BY DEF ScriptInv
  <2>3. processed \in Seq(Directive)
    BY DEF TypeOK
  <2> QED BY <2>1, <2>2, <2>3, ConcatEmptySeq
<1> QED BY <1>1, <1>2, <1>3, Typing, PTL DEF Spec
=============================================================================
