------------------------- MODULE WdiffReformat_proof -------------------------
(***************************************************************************)
(* Proofs about WdiffReformat for inputs of every length, every valid      *)
(* script and all options.                                                 *)
(***************************************************************************)
EXTENDS WdiffReformat, FiniteSetTheorems, TLAPS

(* The numbers of a directive line.                                        *)
HunkType == [letter : Letters, left : Int \X Int, right : Int \X Int]

LEMMA HunksAreTyped ==
    ASSUME NEW a \in Nat, NEW b \in Nat
    PROVE  Hunks(a, b) \subseteq HunkType
BY DEF Hunks, Hunk, HunkType, Letters

LEMMA ScriptsAreTyped ==
    ASSUME NEW a \in Nat, NEW b \in Nat, NEW sc \in Scripts(a, b)
    PROVE  sc \in Seq(HunkType) /\ IsScript(sc, [left |-> a, right |-> b])
<1>1. IsScript(sc, [left |-> a, right |-> b]) BY DEF Scripts
<1>2. \E n \in Nat : sc \in [1..n -> HunkType]
  <2>1. PICK n \in 0..((a + b + 2) \div 3) :
               sc \in [1..n -> {h \in Hunks(a, b) : WellFormed(h)}]
    BY DEF Scripts
  <2>2. n \in Nat BY <2>1
  <2>3. sc \in [1..n -> HunkType] BY <2>1, HunksAreTyped
  <2> QED BY <2>2, <2>3
<1> QED BY <1>1, <1>2

(* The number of words in a text.                                          *)
LEMMA WordsInType ==
    ASSUME NEW t \in Texts
    PROVE  WordsIn(t) \in 0..MaxWords
<1> USE OptionsAssumption DEF OptionsAssumption
<1>1. PICK n \in 0..(2 * MaxWords + 1) : t \in [1..n -> Items]
  BY DEF Texts
<1>2. IsFiniteSet(1..n) BY <1>1, FS_Interval
<1>3. {i \in DOMAIN t : t[i] = "word"} \subseteq 1..n BY <1>1
<1>4. IsFiniteSet({i \in DOMAIN t : t[i] = "word"}) BY <1>2, <1>3, FS_Subset
<1>5. WordsIn(t) \in Nat BY <1>4, FS_CardinalityType DEF WordsIn
<1>6. WordsIn(t) <= MaxWords BY DEF Texts, WordsIn
<1> QED BY <1>5, <1>6

-----------------------------------------------------------------------------
(***************************************************************************)
(* Statistics.  The words before the place that the directives have        *)
(* reached and that they do not name are common, and a valid script has as *)
(* many of them on the left as on the right.                               *)
(***************************************************************************)

Uncounted(s) == Accounted(script, obeyed, s) - isolated[s] - changed[s]

CountsType ==
    /\ script \in Seq(HunkType)
    /\ total \in [Side -> Nat]
    /\ obeyed \in 0..Len(script)
    /\ isolated \in [Side -> Int] /\ changed \in [Side -> Int]

(* The loop is left, other than by a signal, only when all is obeyed.      *)
Finished ==
    /\ pc = "remainder" => obeyed = Len(script)
    /\ pc \in {"cleanup", "report"} => interrupted \/ obeyed = Len(script)
    /\ exit_status \in {0, 1} => obeyed = Len(script)

CountsInv ==
    /\ CountsType
    /\ IsScript(script, total)
    /\ Uncounted("left") = Uncounted("right") /\ Uncounted("left") >= 0
    /\ Finished

LEMMA CountsInit == Init => CountsInv
<1> SUFFICES ASSUME Init PROVE CountsInv
  OBVIOUS
<1> USE OptionsAssumption DEF OptionsAssumption
<1>1. \A s \in Side : total[s] \in 0..MaxWords
  BY WordsInType DEF Init
<1>2. total = [left |-> total["left"], right |-> total["right"]]
  BY DEF Init, Side
<1>3. script \in Scripts(total["left"], total["right"])
  BY <1>1 DEF Init, ScriptsOf, Side
<1>4. script \in Seq(HunkType) /\ IsScript(script, total)
  BY <1>1, <1>2, <1>3, ScriptsAreTyped DEF Side
<1>5. CountsType
  BY <1>1, <1>4 DEF Init, CountsType, Side
<1>6. Uncounted("left") = 0 /\ Uncounted("right") = 0
  BY DEF Init, Uncounted, Accounted, Side
<1>7. Finished BY DEF Init, Finished
<1> QED BY <1>4, <1>5, <1>6, <1>7 DEF CountsInv

(* What a directive adds to the counts of one side.                        *)
LEMMA CountSide ==
    ASSUME NEW h, NEW s \in Side, NEW accounted \in Int, Count(h),
           FirstWord(h, s) \in Int, LastWord(h, s) \in Int,
           isolated \in [Side -> Int], changed \in [Side -> Int]
    PROVE  LastWord(h, s) - isolated'[s] - changed'[s]
             = (accounted - isolated[s] - changed[s]) + FirstWord(h, s) - accounted - 1
<1>1. isolated[s] \in Int /\ changed[s] \in Int OBVIOUS
<1>2. CASE h.letter = "c"
  <2>1. /\ isolated'[s] = isolated[s] + 0
        /\ changed'[s] = changed[s] + (LastWord(h, s) - FirstWord(h, s) + 1)
    BY <1>2 DEF Count
  <2> QED BY <1>1, <2>1
<1>3. CASE h.letter # "c"
  <2>1. /\ isolated'[s] = isolated[s] + (LastWord(h, s) - FirstWord(h, s) + 1)
        /\ changed'[s] = changed[s] + 0
    BY <1>3 DEF Count
  <2> QED BY <1>1, <2>1
<1> QED BY <1>2, <1>3

(* One directive: what it counts is what it names.                         *)
LEMMA CountsStep ==
    ASSUME CountsInv, obeyed < Len(script), obeyed' = obeyed + 1,
           UNCHANGED <<script, total>>, Count(script[obeyed'])
    PROVE  /\ CountsType'
           /\ Uncounted("left")' = Uncounted("right")'
           /\ Uncounted("left")' >= 0
<1>a. PICK h : h = script[obeyed + 1] OBVIOUS
<1>0. obeyed \in Nat /\ Len(script) \in Nat BY DEF CountsInv, CountsType
<1>1. h \in HunkType /\ obeyed + 1 \in DOMAIN script
  BY <1>a, <1>0 DEF CountsInv, CountsType
<1>2. \A s \in Side : LastWord(h, s) \in Int /\ FirstWord(h, s) \in Int
  BY <1>1 DEF LastWord, FirstWord, HunkType, Side
<1>3. \A s \in Side : Accounted(script, obeyed, s) \in Int
  <2>1. CASE obeyed = 0 BY <2>1 DEF Accounted
  <2>2. CASE obeyed # 0
    <3>1. script[obeyed] \in HunkType BY <1>0, <2>2 DEF CountsInv, CountsType
    <3> QED BY <2>2, <3>1 DEF Accounted, LastWord, HunkType, Side
  <2> QED BY <2>1, <2>2
<1>4. \A s \in Side :
         Uncounted(s)' = Uncounted(s) + FirstWord(h, s) - Accounted(script, obeyed, s) - 1
  <2> SUFFICES ASSUME NEW s \in Side
               PROVE  Uncounted(s)' = Uncounted(s) + FirstWord(h, s)
                                        - Accounted(script, obeyed, s) - 1
    OBVIOUS
  <2>1. Accounted(script, obeyed, s)' = LastWord(h, s)
    BY <1>a, <1>0 DEF Accounted
  <2>2. Uncounted(s)' = LastWord(h, s) - isolated'[s] - changed'[s]
    BY <2>1 DEF Uncounted
  <2>3. /\ LastWord(h, s) \in Int /\ FirstWord(h, s) \in Int
        /\ Accounted(script, obeyed, s) \in Int
        /\ isolated \in [Side -> Int] /\ changed \in [Side -> Int]
        /\ Count(h)
    BY <1>a, <1>2, <1>3 DEF CountsInv, CountsType
  <2>4. Uncounted(s)' = (Accounted(script, obeyed, s) - isolated[s] - changed[s])
                          + FirstWord(h, s) - Accounted(script, obeyed, s) - 1
    BY <2>2, <2>3, CountSide
  <2> QED BY <2>4 DEF Uncounted
<1>5. \A s \in Side : Gap(script, obeyed + 1, s) = FirstWord(h, s) - Accounted(script, obeyed, s) - 1
  BY <1>a, <1>0 DEF Gap
<1>6. /\ Gap(script, obeyed + 1, "left") = Gap(script, obeyed + 1, "right")
      /\ Gap(script, obeyed + 1, "left") >= 0
  BY <1>0, <1>1, <1>2, <1>3, <1>5 DEF CountsInv, IsScript, Side
<1>7. CountsType'
  BY <1>a, <1>0, <1>2 DEF CountsInv, CountsType, Count
<1>8. \A s \in Side : Uncounted(s) \in Int
  BY <1>3 DEF Uncounted, CountsInv, CountsType
<1> QED BY <1>2, <1>3, <1>4, <1>5, <1>6, <1>7, <1>8 DEF CountsInv, Side

(* A step that leaves the counts alone has only to keep the control.       *)
LEMMA CountsFrame ==
    ASSUME CountsInv, UNCHANGED <<script, total, obeyed, isolated, changed>>,
           Finished'
    PROVE  CountsInv'
BY DEF CountsInv, CountsType, IsScript, Uncounted, Accounted, Gap

LEMMA FinishedFrame ==
    ASSUME CountsInv, UNCHANGED <<script, obeyed, exit_status>>,
           \/ pc' = pc /\ (interrupted' \/ UNCHANGED interrupted)
           \/ interrupted' /\ pc' = "cleanup"
    PROVE  Finished'
BY DEF CountsInv, Finished

(* Only ReadDirective counts.                                              *)
LEMMA CountsNext ==
    ASSUME CountsInv, [Next]_vars
    PROVE  CountsInv'
<1> USE DEF inputs, readers, counts, control, LongJump
<1>1. CASE ReadDirective
  <2>1. CASE interrupted
    <3>1. /\ UNCHANGED <<script, total, obeyed, isolated, changed, exit_status>>
          /\ interrupted' /\ pc' = "cleanup"
      BY <1>1, <2>1 DEF ReadDirective
    <3> QED BY <3>1, CountsFrame, FinishedFrame
  <2>2. CASE ~interrupted /\ obeyed < Len(script)
    <3>1. /\ obeyed' = obeyed + 1 /\ Count(script[obeyed'])
          /\ UNCHANGED <<script, total, pc, interrupted, exit_status>>
      BY <1>1, <2>2 DEF ReadDirective
    <3>2. Finished'
      BY <3>1, <2>2 DEF CountsInv, Finished, CountsType
    <3>3. IsScript(script, total)'
      BY <3>1 DEF CountsInv, IsScript, Accounted, Gap
    <3> QED BY <3>1, <3>2, <3>3, <2>2, CountsStep DEF CountsInv
  <2>3. CASE ~interrupted /\ ~(obeyed < Len(script))
    <3>1. /\ UNCHANGED <<script, total, obeyed, isolated, changed, exit_status>>
          /\ pc' = "remainder"
      BY <1>1, <2>3 DEF ReadDirective
    <3>2. obeyed = Len(script) BY <2>3 DEF CountsInv, CountsType
    <3>3. Finished' BY <3>1, <3>2 DEF Finished
    <3> QED BY <3>1, <3>3, CountsFrame
  <2> QED BY <2>1, <2>2, <2>3
<1>2. CASE CopyUntilOrdinal
  <2>1. /\ UNCHANGED <<script, total, obeyed, isolated, changed, exit_status>>
        /\ \/ pc' = pc /\ (interrupted' \/ UNCHANGED interrupted)
           \/ interrupted' /\ pc' = "cleanup"
    BY <1>2, Zenon DEF CopyUntilOrdinal
  <2> QED BY <2>1, CountsFrame, FinishedFrame
<1>3. CASE SkipUntilOrdinal
  <2>1. /\ UNCHANGED <<script, total, obeyed, isolated, changed, exit_status>>
        /\ \/ pc' = pc /\ (interrupted' \/ UNCHANGED interrupted)
           \/ interrupted' /\ pc' = "cleanup"
    BY <1>3, Zenon DEF SkipUntilOrdinal
  <2> QED BY <2>1, CountsFrame, FinishedFrame
<1>4. CASE CopyWhitespace
  <2>1. /\ UNCHANGED <<script, total, obeyed, isolated, changed, exit_status>>
        /\ \/ pc' = pc /\ (interrupted' \/ UNCHANGED interrupted)
           \/ interrupted' /\ pc' = "cleanup"
    BY <1>4, Zenon DEF CopyWhitespace
  <2> QED BY <2>1, CountsFrame, FinishedFrame
<1>5. CASE CopyWord
  <2>1. /\ UNCHANGED <<script, total, obeyed, isolated, changed, exit_status>>
        /\ \/ pc' = pc /\ (interrupted' \/ UNCHANGED interrupted)
           \/ interrupted' /\ pc' = "cleanup"
    BY <1>5, Zenon DEF CopyWord
  <2> QED BY <2>1, CountsFrame, FinishedFrame
<1>6. CASE StartEmphasis
  <2>1. /\ UNCHANGED <<script, total, obeyed, isolated, changed, exit_status>>
        /\ \/ pc' = pc /\ (interrupted' \/ UNCHANGED interrupted)
           \/ interrupted' /\ pc' = "cleanup"
    BY <1>6, Zenon DEF StartEmphasis
  <2> QED BY <2>1, CountsFrame, FinishedFrame
<1>7. CASE EndEmphasis
  <2>1. /\ UNCHANGED <<script, total, obeyed, isolated, changed, exit_status>>
        /\ \/ pc' = pc /\ (interrupted' \/ UNCHANGED interrupted)
           \/ interrupted' /\ pc' = "cleanup"
    BY <1>7, Zenon DEF EndEmphasis
  <2> QED BY <2>1, CountsFrame, FinishedFrame
<1>8. CASE PutSeparator
  <2>1. /\ UNCHANGED <<script, total, obeyed, isolated, changed, exit_status>>
        /\ \/ pc' = pc /\ (interrupted' \/ UNCHANGED interrupted)
           \/ interrupted' /\ pc' = "cleanup"
    BY <1>8, Zenon DEF PutSeparator
  <2> QED BY <2>1, CountsFrame, FinishedFrame
<1>9. CASE Interrupt
  <2>1. /\ UNCHANGED <<script, total, obeyed, isolated, changed, exit_status>>
        /\ \/ pc' = pc /\ (interrupted' \/ UNCHANGED interrupted)
           \/ interrupted' /\ pc' = "cleanup"
    BY <1>9, Zenon DEF Interrupt
  <2> QED BY <2>1, CountsFrame, FinishedFrame
<1>10. CASE Shrink
  <2>1. /\ UNCHANGED <<script, total, obeyed, isolated, changed, exit_status>>
        /\ \/ pc' = pc /\ (interrupted' \/ UNCHANGED interrupted)
           \/ interrupted' /\ pc' = "cleanup"
    BY <1>10, Zenon DEF Shrink
  <2> QED BY <2>1, CountsFrame, FinishedFrame
<1>11. CASE Return
  <2>1. UNCHANGED <<script, total, obeyed, isolated, changed>>
    BY <1>11 DEF Return
  <2>2. Finished' BY <1>11 DEF Return, CountsInv, Finished
  <2> QED BY <2>1, <2>2, CountsFrame
<1>12. CASE CompleteOutput
  <2>1. UNCHANGED <<script, total, obeyed, isolated, changed>>
    BY <1>12 DEF CompleteOutput
  <2>2. Finished' BY <1>12 DEF CompleteOutput, CountsInv, Finished
  <2> QED BY <2>1, <2>2, CountsFrame
<1>13. CASE Report
  <2>1. UNCHANGED <<script, total, obeyed, isolated, changed>>
    BY <1>13 DEF Report
  <2>2. Finished' BY <1>13 DEF Report, Status, CountsInv, Finished
  <2> QED BY <2>1, <2>2, CountsFrame
<1>14. CASE UNCHANGED vars \/ Terminated
  <2>1. UNCHANGED <<script, total, obeyed, isolated, changed, exit_status, pc, interrupted>>
    BY <1>14 DEF vars, Terminated
  <2> QED BY <2>1, CountsFrame, FinishedFrame
<1> QED
  BY <1>1, <1>2, <1>3, <1>4, <1>5, <1>6, <1>7, <1>8, <1>9,
     <1>10, <1>11, <1>12, <1>13, <1>14 DEF Next, Reformat

(* The statistics report the same number of common words for both files.   *)
THEOREM Statistics == Spec => []StatisticsAgree
<1>1. CountsInv /\ [Next]_vars => CountsInv'
  BY CountsNext
<1>2. CountsInv => StatisticsAgree
  <2> SUFFICES ASSUME CountsInv, Succeeded
               PROVE  Common("left") = Common("right") /\ Common("left") >= 0
    BY DEF StatisticsAgree
  <2> DEFINE acc(s) == Accounted(script, Len(script), s)
  <2>1. obeyed = Len(script) /\ Len(script) \in Nat
    BY DEF CountsInv, Finished, Succeeded, CountsType
  <2>2. /\ total["left"] - acc("left") = total["right"] - acc("right")
        /\ total["left"] >= acc("left")
    BY DEF CountsInv, IsScript
  <2>3. \A s \in Side : /\ acc(s) \in Int /\ total[s] \in Int
                        /\ isolated[s] \in Int /\ changed[s] \in Int
    <3>1. \A s \in Side : acc(s) \in Int
      <4>1. CASE Len(script) = 0 BY <4>1 DEF Accounted
      <4>2. CASE Len(script) # 0
        <5>1. script[Len(script)] \in HunkType BY <2>1, <4>2 DEF CountsInv, CountsType
        <5> QED BY <4>2, <5>1 DEF Accounted, LastWord, HunkType, Side
      <4> QED BY <4>1, <4>2
    <3> QED BY <3>1 DEF CountsInv, CountsType
  <2>4. /\ acc("left") - isolated["left"] - changed["left"]
             = acc("right") - isolated["right"] - changed["right"]
        /\ acc("left") - isolated["left"] - changed["left"] >= 0
    BY <2>1 DEF CountsInv, Uncounted
  <2> HIDE DEF acc
  <2> QED BY <2>2, <2>3, <2>4 DEF Common, Side
<1> QED BY <1>1, <1>2, CountsInit, PTL DEF Spec
-----------------------------------------------------------------------------
(***************************************************************************)
(* Exit status.  A directive of a valid script names a word of one side at *)
(* least, so the counts are zero exactly as long as none has been obeyed.  *)
(***************************************************************************)

StatusInv ==
    /\ isolated \in [Side -> Nat] /\ changed \in [Side -> Nat]
    /\ Different <=> obeyed > 0
    /\ exit_status # -1 => pc # "reformat"
    /\ exit_status = 0 => ~Different
    /\ exit_status = 1 => Different

LEMMA StatusInit == Init => StatusInv
BY DEF Init, StatusInv, Different, Side

(* The words of one side of a valid directive.                             *)
LEMMA HunkSize ==
    ASSUME NEW h \in HunkType, WellFormed(h)
    PROVE  /\ \A s \in Side : LastWord(h, s) - FirstWord(h, s) + 1 \in Nat
           /\ \E s \in Side : LastWord(h, s) - FirstWord(h, s) + 1 > 0
<1>1. /\ h.left[1] \in Int /\ h.left[2] \in Int /\ h.left[1] <= h.left[2]
      /\ h.right[1] \in Int /\ h.right[2] \in Int /\ h.right[1] <= h.right[2]
  BY DEF HunkType, WellFormed, Side
<1>2. /\ h["left"] = h.left /\ h["right"] = h.right
      /\ LastWord(h, "left") = h.left[2] /\ LastWord(h, "right") = h.right[2]
  BY DEF LastWord
<1>3. h.letter \in {"a", "d", "c"} BY DEF HunkType, Letters
<1>4. CASE h.letter = "a"
  <2>1. FirstWord(h, "left") = h.left[1] + 1 /\ FirstWord(h, "right") = h.right[1]
    BY <1>4 DEF FirstWord
  <2> QED BY <1>1, <1>2, <2>1 DEF Side
<1>5. CASE h.letter = "d"
  <2>1. FirstWord(h, "left") = h.left[1] /\ FirstWord(h, "right") = h.right[1] + 1
    BY <1>5 DEF FirstWord
  <2> QED BY <1>1, <1>2, <2>1 DEF Side
<1>6. CASE h.letter = "c"
  <2>1. FirstWord(h, "left") = h.left[1] /\ FirstWord(h, "right") = h.right[1]
    BY <1>6 DEF FirstWord
  <2> QED BY <1>1, <1>2, <2>1 DEF Side
<1> QED BY <1>3, <1>4, <1>5, <1>6

(* Counts never go down, and one of them goes up with every directive.     *)
LEMMA CountGrows ==
    ASSUME NEW h \in HunkType, WellFormed(h), Count(h),
           isolated \in [Side -> Nat], changed \in [Side -> Nat]
    PROVE  isolated' \in [Side -> Nat] /\ changed' \in [Side -> Nat] /\ Different'
<1>1. PICK n \in [Side -> Nat] :
             /\ n = [s \in Side |-> LastWord(h, s) - FirstWord(h, s) + 1]
             /\ \E s \in Side : n[s] > 0
  <2> DEFINE size == [s \in Side |-> LastWord(h, s) - FirstWord(h, s) + 1]
  <2>1. size \in [Side -> Nat] BY HunkSize
  <2>2. \E s \in Side : size[s] > 0
    <3>1. PICK s \in Side : LastWord(h, s) - FirstWord(h, s) + 1 > 0
      BY HunkSize
    <3> QED BY <3>1
  <2> QED BY <2>1, <2>2
<1>2. CASE h.letter = "c"
  <2>1. /\ isolated' = [s \in Side |-> isolated[s] + 0]
        /\ changed' = [s \in Side |-> changed[s] + n[s]]
    BY <1>1, <1>2 DEF Count
  <2> QED BY <1>1, <2>1 DEF Different
<1>3. CASE h.letter # "c"
  <2>1. /\ isolated' = [s \in Side |-> isolated[s] + n[s]]
        /\ changed' = [s \in Side |-> changed[s] + 0]
    BY <1>1, <1>3 DEF Count
  <2> QED BY <1>1, <2>1 DEF Different
<1> QED BY <1>2, <1>3

LEMMA StatusFrame ==
    ASSUME StatusInv, UNCHANGED <<obeyed, isolated, changed, exit_status>>,
           pc' \in {pc, "remainder", "cleanup", "report", "exited"}
    PROVE  StatusInv'
BY DEF StatusInv, Different

LEMMA StatusNext ==
    ASSUME CountsInv, StatusInv, [Next]_vars
    PROVE  StatusInv'
<1>1. CASE ReadDirective
  <2>0. pc = "reformat" BY <1>1 DEF ReadDirective
  <2>1. CASE ~interrupted /\ obeyed < Len(script)
    <3>1. PICK h : h = script[obeyed + 1] OBVIOUS
    <3>2. obeyed' = obeyed + 1 /\ Count(h) /\ pc' = pc /\ exit_status' = exit_status
      BY <1>1, <2>1, <3>1 DEF ReadDirective, LongJump
    <3>3. obeyed \in Nat /\ obeyed + 1 \in DOMAIN script /\ h \in HunkType
      BY <2>1, <3>1 DEF CountsInv, CountsType
    <3>4. WellFormed(h) BY <3>1, <3>3 DEF CountsInv, IsScript
    <3>5. isolated' \in [Side -> Nat] /\ changed' \in [Side -> Nat] /\ Different'
      BY <3>2, <3>3, <3>4, CountGrows DEF StatusInv
    <3>6. exit_status = -1 BY <2>0 DEF StatusInv
    <3>7. obeyed' > 0 BY <3>2, <3>3
    <3> QED BY <3>2, <3>5, <3>6, <3>7 DEF StatusInv
  <2>2. CASE ~(~interrupted /\ obeyed < Len(script))
    <3>1. UNCHANGED <<obeyed, isolated, changed, exit_status>>
      BY <1>1, <2>2 DEF ReadDirective, LongJump, counts
    <3>2. pc' \in {"remainder", "cleanup"} BY <1>1, <2>2 DEF ReadDirective, LongJump
    <3> QED BY <3>1, <3>2, StatusFrame
  <2> QED BY <2>1, <2>2
<1>2. CASE Report
  <2>1. UNCHANGED <<obeyed, isolated, changed>> /\ pc' = "exited"
    BY <1>2 DEF Report, counts
  <2>2. exit_status' = IF interrupted THEN 2 ELSE IF Different THEN 1 ELSE 0
    BY <1>2 DEF Report, Status
  <2>3. Different' = Different BY <2>1 DEF Different
  <2> QED BY <2>1, <2>2, <2>3 DEF StatusInv
<1>3. CASE Next /\ ~ReadDirective /\ ~Report
  <2>1. UNCHANGED <<obeyed, isolated, changed, exit_status>>
    BY <1>3 DEF Next, Reformat, CopyUntilOrdinal, SkipUntilOrdinal, CopyWhitespace,
                CopyWord, StartEmphasis, EndEmphasis, PutSeparator, Return,
                CompleteOutput, Interrupt, Shrink, Terminated, control, counts, vars
  <2>2. pc' \in {pc, "remainder", "cleanup", "report", "exited"}
    BY <1>3 DEF Next, Reformat, CopyUntilOrdinal, SkipUntilOrdinal, CopyWhitespace,
                CopyWord, StartEmphasis, EndEmphasis, PutSeparator, Return,
                CompleteOutput, Interrupt, Shrink, Terminated, LongJump, vars
  <2> QED BY <2>1, <2>2, StatusFrame
<1>4. CASE UNCHANGED vars
  BY <1>4, StatusFrame DEF vars, counts
<1> QED BY <1>1, <1>2, <1>3, <1>4

(* The exit status says that there is a difference exactly when diff's     *)
(* script says so, main's test of four counts in its last lines.           *)
THEOREM ExitStatus == Spec => []StatusTellsScript
<1>1. Init => CountsInv /\ StatusInv BY CountsInit, StatusInit
<1>2. CountsInv /\ StatusInv /\ [Next]_vars => (CountsInv /\ StatusInv)'
  BY CountsNext, StatusNext
<1>3. CountsInv /\ StatusInv => StatusTellsScript
  <2> SUFFICES ASSUME CountsInv, StatusInv PROVE StatusTellsScript
    OBVIOUS
  <2>1. exit_status \in {0, 1} => obeyed = Len(script)
    BY DEF CountsInv, Finished
  <2>2. Len(script) = 0 <=> script = <<>>
    BY DEF CountsInv, CountsType
  <2>3. Len(script) \in Nat BY DEF CountsInv, CountsType
  <2> QED BY <2>1, <2>2, <2>3 DEF StatusInv, StatusTellsScript
<1> QED BY <1>1, <1>2, <1>3, PTL DEF Spec

-----------------------------------------------------------------------------
(***************************************************************************)
(* What WdiffReformat writes: its types, and that no line ends, nor does   *)
(* the run, while an emphasis is on.                                       *)
(***************************************************************************)
Modes == {"NORMAL", "DELETED", "INSERTED"}
Emphases == {"DELETED", "INSERTED"}

Written == [kind : Items \cup Markers \cup {"separator", "newline"},
            from : Side \cup {"term", "user", "wdiff"}, at : Nat,
            mode : Modes, look : {"plain", "underlined", "bold"}]

-----------------------------------------------------------------------------
(***************************************************************************)
(* Whether an emphasis is on, of an output out and behind its last item.   *)
(***************************************************************************)
Marks(out, i, from) == {j \in DOMAIN out : j < i /\ out[j].from = from}
OnIn(out, i, from) ==
    Marks(out, i, from) # {} /\ out[Max(Marks(out, i, from))].kind \in Starts
OnAfter(out, from) == OnIn(out, Len(out) + 1, from)

(* Of the marks there is a last one.                                       *)
Ends(out) ==
    \A i \in 1..(Len(out) + 1), from \in {"term", "user"} :
        Marks(out, i, from) # {} =>
            \E x \in Marks(out, i, from) : \A y \in Marks(out, i, from) : x >= y

LEMMA MaxIs ==
    ASSUME NEW S \in SUBSET Nat, NEW x \in S, \A y \in S : x >= y
    PROVE  Max(S) = x
<1>1. \A z \in S : (\A y \in S : z >= y) => z = x OBVIOUS
<1> QED BY <1>1 DEF Max

(* One more item: what was on before stays, and the item decides for its   *)
(* own kind of emphasis.                                                   *)
Appended(out, o, new) ==
    /\ new \in Seq(Written) /\ Ends(new)
    /\ Len(new) = Len(out) + 1 /\ new[Len(out) + 1] = o
    /\ \A i \in 1..Len(out) : new[i] = out[i]
    /\ \A from \in {"term", "user"} :
         /\ \A i \in 1..(Len(out) + 1) : OnIn(new, i, from) <=> OnIn(out, i, from)
         /\ OnAfter(new, from) <=>
              IF o.from = from THEN o.kind \in Starts ELSE OnAfter(out, from)

LEMMA OneMore ==
    ASSUME NEW out \in Seq(Written), Ends(out), NEW o \in Written,
           NEW new, new = out \o <<o>>
    PROVE  Appended(out, o, new)
<1>1. /\ new \in Seq(Written) /\ Len(new) = Len(out) + 1 /\ new[Len(out) + 1] = o
      /\ \A i \in 1..Len(out) : new[i] = out[i]
  OBVIOUS
<1> DEFINE n == Len(out)
<1>2. n \in Nat /\ DOMAIN out = 1..n /\ DOMAIN new = 1..(n + 1) BY <1>1
<1>3. ASSUME NEW from, NEW i \in 1..(n + 1)
      PROVE  Marks(new, i, from) = Marks(out, i, from)
  BY <1>1, <1>2, <1>3 DEF Marks
<1>4. ASSUME NEW from
      PROVE  Marks(new, n + 2, from) =
               Marks(out, n + 1, from) \cup (IF o.from = from THEN {n + 1} ELSE {})
  BY <1>1, <1>2 DEF Marks
<1>5. ASSUME NEW from, NEW i \in 1..(n + 1)
      PROVE  Marks(out, i, from) \subseteq 1..n
  BY <1>2 DEF Marks
<1>6. ASSUME NEW from \in {"term", "user"}, NEW i \in 1..(n + 1), Marks(out, i, from) # {}
      PROVE  Max(Marks(out, i, from)) \in 1..n
  <2>1. PICK x \in Marks(out, i, from) : \A y \in Marks(out, i, from) : x >= y
    BY <1>6 DEF Ends
  <2>2. Marks(out, i, from) \in SUBSET Nat BY <1>2 DEF Marks
  <2>3. Max(Marks(out, i, from)) = x BY <2>1, <2>2, MaxIs
  <2> QED BY <2>1, <2>3, <1>5
<1>7. ASSUME NEW from \in {"term", "user"}, o.from = from
      PROVE  /\ n + 1 \in Marks(new, n + 2, from)
             /\ \A y \in Marks(new, n + 2, from) : n + 1 >= y
             /\ Max(Marks(new, n + 2, from)) = n + 1
  <2>1. n + 1 \in Marks(new, n + 2, from) /\ \A y \in Marks(new, n + 2, from) : n + 1 >= y
    BY <1>2, <1>4, <1>5, <1>7
  <2>2. Marks(new, n + 2, from) \in SUBSET Nat BY <1>2 DEF Marks
  <2> QED BY <2>1, <2>2, MaxIs
<1>8. Ends(new)
  <2> SUFFICES ASSUME NEW i \in 1..(n + 2), NEW from \in {"term", "user"},
                      Marks(new, i, from) # {}
               PROVE  \E x \in Marks(new, i, from) : \A y \in Marks(new, i, from) : x >= y
    BY <1>1, <1>2 DEF Ends
  <2>1. CASE i \in 1..(n + 1) BY <2>1, <1>3 DEF Ends
  <2>2. CASE i = n + 2 /\ o.from = from BY <2>2, <1>7
  <2>3. CASE i = n + 2 /\ o.from # from
    <3>1. n + 1 \in 1..(Len(out) + 1) BY <1>2
    <3> HIDE DEF n
    <3>2. Marks(new, n + 2, from) = Marks(out, n + 1, from)
      <4>1. PICK a : a = Marks(out, n + 1, from) OBVIOUS
      <4>2. a \cup {} = a OBVIOUS
      <4> QED BY <1>4, <2>3, <4>1, <4>2
    <3> QED BY <2>3, <3>1, <3>2 DEF Ends
  <2> QED BY <2>1, <2>2, <2>3, <1>2
<1>9. ASSUME NEW from \in {"term", "user"}, NEW i \in 1..(n + 1)
      PROVE  OnIn(new, i, from) <=> OnIn(out, i, from)
  BY <1>1, <1>2, <1>3, <1>6 DEF OnIn
<1>10. ASSUME NEW from \in {"term", "user"}
       PROVE  OnAfter(new, from) <=>
                IF o.from = from THEN o.kind \in Starts ELSE OnAfter(out, from)
  <2>0. OnAfter(new, from) <=> OnIn(new, n + 2, from) BY <1>1, <1>2 DEF OnAfter
  <2>1. CASE o.from = from
    BY <2>0, <2>1, <1>1, <1>7 DEF OnIn
  <2>2. CASE o.from # from
    <3>1. Marks(new, n + 2, from) = Marks(out, n + 1, from) BY <2>2, <1>4
    <3> QED BY <2>0, <2>2, <3>1, <1>1, <1>2, <1>6 DEF OnIn, OnAfter
  <2> QED BY <2>1, <2>2
<1> QED BY <1>1, <1>8, <1>9, <1>10 DEF Appended

-----------------------------------------------------------------------------
(***************************************************************************)
(* What may be written next.                                               *)
(***************************************************************************)

(* LinesEndPlain, of an output out.                                        *)
PlainAt(out, i) ==
    /\ Closable("term") => ~OnIn(out, i, "term")
    /\ Closable("user") /\ options.no_wrapping => ~OnIn(out, i, "user")
Tidy(out) ==
    /\ out \in Seq(Written) /\ Ends(out)
    /\ \A i \in DOMAIN out : out[i].kind = "newline" => PlainAt(out, i)

(* An emphasis that is on is that of the mode.                             *)
Held(out, mode) ==
    \A from \in {"term", "user"} :
        Closable(from) /\ OnAfter(out, from) => mode # "NORMAL" /\ Start(mode) \in Strings(from)

(* And it is on where the mode has a marker for it.                        *)
Firm(out, mode) ==
    mode # "NORMAL" =>
        \A from \in {"term", "user"} : Start(mode) \in Strings(from) => OnAfter(out, from)

(* What was written stays, and what was on where it was.                   *)
Same(out, new) ==
    /\ Len(out) <= Len(new)
    /\ \A i \in 1..Len(out) : new[i] = out[i]
    /\ \A i \in 1..(Len(out) + 1), from \in {"term", "user"} :
         OnIn(new, i, from) <=> OnIn(out, i, from)

(* Nothing of the files is written, or the item o alone.                   *)
Mute(o) == o.from \notin Side /\ o.kind # "word"
Silent(out, new) ==
    Same(out, new) /\ \A i \in (Len(out) + 1)..Len(new) : Mute(new[i])
SaysAt(out, new, o, i) ==
    new[i] = o /\ \A j \in (Len(out) + 1)..Len(new) : j # i => Mute(new[j])
Says(out, new, o) ==
    Same(out, new) /\ \E i \in (Len(out) + 1)..Len(new) : SaysAt(out, new, o, i)

LEMMA SameTwice ==
    ASSUME NEW out, Tidy(out), NEW mid, Tidy(mid), NEW new, Tidy(new),
           Same(out, mid), Same(mid, new)
    PROVE  Same(out, new)
<1>1. Len(out) \in Nat /\ Len(mid) \in Nat /\ Len(new) \in Nat
  BY DEF Tidy
<1>2. Len(out) <= Len(mid) /\ Len(mid) <= Len(new) BY DEF Same
<1>3. Len(out) <= Len(new) BY <1>1, <1>2
<1>4. ASSUME NEW i \in 1..Len(out) PROVE new[i] = out[i]
  <2>1. i \in 1..Len(mid) BY <1>1, <1>2
  <2> QED BY <2>1 DEF Same
<1>5. ASSUME NEW i \in 1..(Len(out) + 1), NEW from \in {"term", "user"}
      PROVE  OnIn(new, i, from) <=> OnIn(out, i, from)
  <2>1. i \in 1..(Len(mid) + 1) BY <1>1, <1>2
  <2> QED BY <2>1 DEF Same
<1> QED BY <1>3, <1>4, <1>5 DEF Same

LEMMA SilentTwice ==
    ASSUME NEW out, Tidy(out), NEW mid, Tidy(mid), NEW new, Tidy(new),
           Silent(out, mid), Silent(mid, new)
    PROVE  Silent(out, new)
<1>1. Len(out) \in Nat /\ Len(mid) \in Nat /\ Len(new) \in Nat
  BY DEF Tidy
<1>2. Same(out, new) BY SameTwice DEF Silent
<1>3. ASSUME NEW i \in (Len(out) + 1)..Len(new) PROVE Mute(new[i])
  <2>1. i \in 1..Len(mid) \/ i \in (Len(mid) + 1)..Len(new) BY <1>1
  <2>2. CASE i \in 1..Len(mid)
    <3>1. i \in (Len(out) + 1)..Len(mid) /\ new[i] = mid[i] BY <1>1, <2>2 DEF Silent, Same
    <3> QED BY <3>1 DEF Silent
  <2>3. CASE i \in (Len(mid) + 1)..Len(new) BY <2>3 DEF Silent
  <2> QED BY <2>1, <2>2, <2>3
<1> QED BY <1>2, <1>3 DEF Silent

LEMMA SaidBetween ==
    ASSUME NEW out, Tidy(out), NEW mid, Tidy(mid), NEW o, NEW said, Tidy(said),
           Len(said) = Len(mid) + 1, said[Len(mid) + 1] = o, NEW new, Tidy(new),
           Silent(out, mid), Same(mid, said), Silent(said, new)
    PROVE  Says(out, new, o)
<1> DEFINE n == Len(mid) + 1
<1>1. Len(out) \in Nat /\ Len(mid) \in Nat /\ Len(new) \in Nat /\ Len(said) = n
  BY DEF Tidy
<1>2. Same(out, said) BY SameTwice DEF Silent
<1>3. Same(out, new) BY <1>2, SameTwice DEF Silent
<1>4. Len(out) <= Len(mid) /\ n <= Len(new) BY DEF Silent, Same
<1>5. n \in (Len(out) + 1)..Len(new) /\ n \in 1..Len(said) BY <1>1, <1>4
<1>6. new[n] = o BY <1>5 DEF Silent, Same
<1>7. ASSUME NEW j \in (Len(out) + 1)..Len(new), j # n PROVE Mute(new[j])
  <2>1. j \in 1..Len(mid) \/ j \in (Len(said) + 1)..Len(new) BY <1>1, <1>7
  <2>2. CASE j \in 1..Len(mid)
    <3>1. j \in (Len(out) + 1)..Len(mid) /\ j \in 1..Len(said) BY <1>1, <2>2
    <3>2. new[j] = mid[j] BY <2>2, <3>1 DEF Silent, Same
    <3> QED BY <3>1, <3>2 DEF Silent
  <2>3. CASE j \in (Len(said) + 1)..Len(new) BY <2>3 DEF Silent
  <2> QED BY <2>1, <2>2, <2>3
<1> HIDE DEF n
<1>8. SaysAt(out, new, o, n) BY <1>6, <1>7 DEF SaysAt
<1> QED BY <1>3, <1>5, <1>8 DEF Says

(* An item, if it is written.                                              *)
Perhaps(out, cond, o, new) ==
    /\ Tidy(new)
    /\ Same(out, new)
    /\ Len(new) = Len(out) + (IF cond THEN 1 ELSE 0)
    /\ cond => new[Len(out) + 1] = o
    /\ \A from \in {"term", "user"} :
         OnAfter(new, from) <=>
           IF cond /\ o.from = from THEN o.kind \in Starts ELSE OnAfter(out, from)

LEMMA PerhapsWritten ==
    ASSUME NEW out, Tidy(out), NEW o \in Written, NEW cond \in BOOLEAN,
           cond /\ o.kind = "newline" => PlainAt(out, Len(out) + 1),
           NEW new, new = out \o When(cond, <<o>>)
    PROVE  Perhaps(out, cond, o, new)
<1>1. CASE ~cond
  <2>1. new = out BY <1>1 DEF When, Tidy
  <2>2. Len(out) \in Nat BY DEF Tidy
  <2>3. Len(out) <= Len(out) /\ Len(out) = Len(out) + 0 BY <2>2
  <2>4. Same(out, out) BY <2>3 DEF Same
  <2> QED BY <1>1, <2>1, <2>3, <2>4 DEF Perhaps
<1>2. CASE cond
  <2>0. out \in Seq(Written) /\ Ends(out) /\ new = out \o <<o>> BY <1>2 DEF When, Tidy
  <2>1. Appended(out, o, new) BY <2>0, OneMore
  <2>2. \A i \in 1..(Len(out) + 1) : PlainAt(new, i) <=> PlainAt(out, i)
    BY <2>1 DEF PlainAt, Appended
  <2>3. ASSUME NEW i \in DOMAIN new, new[i].kind = "newline"
        PROVE  PlainAt(new, i)
    <3>1. Len(out) \in Nat /\ DOMAIN out = 1..Len(out) /\ DOMAIN new = 1..(Len(out) + 1)
      BY <2>0, <2>1 DEF Appended
    <3>2. CASE i \in 1..Len(out)
      <4>1. PlainAt(out, i) BY <3>1, <3>2, <2>1, <2>3 DEF Tidy, Appended
      <4> QED BY <3>1, <3>2, <4>1, <2>2
    <3>3. CASE i = Len(out) + 1
      <4>1. PlainAt(out, i) BY <3>3, <2>1, <2>3, <1>2 DEF Appended
      <4> QED BY <3>1, <3>3, <4>1, <2>2
    <3> QED BY <3>1, <3>2, <3>3
  <2>4. Len(out) \in Nat BY <2>0
  <2>5. Same(out, new) /\ Len(new) = Len(out) + 1 /\ new[Len(out) + 1] = o
    BY <2>1, <2>4 DEF Appended, Same
  <2>6. Tidy(new) BY <2>1, <2>3 DEF Tidy, Appended
  <2> QED BY <1>2, <2>1, <2>5, <2>6 DEF Appended, Perhaps
<1> QED BY <1>1, <1>2

LEMMA OtherIsWritten ==
    ASSUME copy_mode \in Modes, NEW kind \in Markers \cup {"separator", "newline"},
           NEW from \in {"term", "user", "wdiff"}
    PROVE  /\ Other(kind, from) \in Written
           /\ Other(kind, from).kind = kind /\ Other(kind, from).from = from
BY DEF Other, Written

LEMMA CharIsWritten ==
    ASSUME copy_mode \in Modes, NEW s \in Side, text[s] \in Seq(Items), NEW i \in DOMAIN text[s]
    PROVE  /\ Char(s, i) \in Written
           /\ Char(s, i).kind = text[s][i] /\ Char(s, i).from \notin {"term", "user"}
<1>1. i \in Nat /\ text[s][i] \in Items OBVIOUS
<1>2. Look(text[s][i]) \in {"plain", "underlined", "bold"} BY DEF Look
<1> QED BY <1>1, <1>2 DEF Char, Written, Side

LEMMA StartsAndEnds ==
    ASSUME NEW mode \in Emphases
    PROVE  /\ Start(mode) \in Markers /\ Start(mode) \in Starts
           /\ End(mode) \in Markers /\ End(mode) \notin Starts
BY DEF Emphases, Start, End, Markers, Starts

(* Both marks of one kind.                                                 *)
Decided(out, m, new) ==
    /\ Tidy(new) /\ Silent(out, new)
    /\ \A from \in {"term", "user"} :
         OnAfter(new, from) <=> IF m \in Strings(from) THEN m \in Starts ELSE OnAfter(out, from)

LEMMA ThreeParts ==
    ASSUME NEW a \in Seq(Written), NEW b \in Seq(Written), NEW c \in Seq(Written)
    PROVE  a \o (b \o c) = (a \o b) \o c
OBVIOUS

LEMMA MarksAreWritten ==
    ASSUME copy_mode \in Modes, NEW m \in Markers
    PROVE  TermMark(m) \in Seq(Written) /\ UserMark(m) \in Seq(Written)
<1>1. Other(m, "term") \in Written /\ Other(m, "user") \in Written
  BY OtherIsWritten
<1> QED BY <1>1 DEF TermMark, UserMark, When

Marked(out, m, from, new) ==
    /\ Tidy(new) /\ Silent(out, new)
    /\ \A f \in {"term", "user"} :
         OnAfter(new, f) <=>
           IF m \in Strings(from) /\ f = from THEN m \in Starts ELSE OnAfter(out, f)

LEMMA OneMark ==
    ASSUME copy_mode \in Modes, NEW out, Tidy(out), NEW m \in Markers,
           NEW from \in {"term", "user"}, NEW new,
           from = "term" => new = out \o TermMark(m),
           from = "user" => new = out \o UserMark(m)
    PROVE  Marked(out, m, from, new)
<1> DEFINE cond == m \in Strings(from)
           o == Other(m, from)
<1>1. o \in Written /\ o.kind = m /\ o.from = from BY OtherIsWritten
<1>2. new = out \o When(cond, <<o>>) BY DEF TermMark, UserMark, Strings
<1>3. cond \in BOOLEAN /\ ~(cond /\ o.kind = "newline") BY <1>1 DEF Markers
<1> HIDE DEF cond, o
<1>4. Perhaps(out, cond, o, new)
  BY <1>1, <1>2, <1>3, PerhapsWritten
<1>5. Mute(o) BY <1>1 DEF Mute, Markers, Side
<1>6. Silent(out, new)
  <2>1. Len(out) \in Nat BY DEF Tidy
  <2>2. ASSUME NEW i \in (Len(out) + 1)..Len(new) PROVE Mute(new[i])
    BY <1>4, <1>5, <2>1 DEF Perhaps
  <2> QED BY <1>4, <2>2 DEF Perhaps, Silent
<1> QED BY <1>1, <1>4, <1>6 DEF cond, Perhaps, Marked

LEMMA BothMarks ==
    ASSUME copy_mode \in Modes, NEW out, Tidy(out), NEW m \in Markers, NEW new,
           new = out \o StartMarks(m) \/ new = out \o EndMarks(m)
    PROVE  Decided(out, m, new)
<1>0. out \in Seq(Written) /\ TermMark(m) \in Seq(Written) /\ UserMark(m) \in Seq(Written)
  BY MarksAreWritten DEF Tidy
<1>1. CASE new = out \o StartMarks(m)
  <2> DEFINE mid == out \o TermMark(m)
  <2>1. new = mid \o UserMark(m) BY <1>0, <1>1, ThreeParts DEF StartMarks
  <2>2. Marked(out, m, "term", mid)
    BY OneMark
  <2> HIDE DEF mid
  <2>3. Tidy(mid) BY <2>2 DEF Marked
  <2>4. Marked(mid, m, "user", new) BY <2>1, <2>3, OneMark
  <2>5. Silent(out, new) BY <2>2, <2>4, SilentTwice DEF Marked
  <2> QED BY <2>2, <2>4, <2>5 DEF Decided, Marked
<1>2. CASE new = out \o EndMarks(m)
  <2> DEFINE mid == out \o UserMark(m)
  <2>1. new = mid \o TermMark(m) BY <1>0, <1>2, ThreeParts DEF EndMarks
  <2>2. Marked(out, m, "user", mid)
    BY OneMark
  <2> HIDE DEF mid
  <2>3. Tidy(mid) BY <2>2 DEF Marked
  <2>4. Marked(mid, m, "term", new) BY <2>1, <2>3, OneMark
  <2>5. Silent(out, new) BY <2>2, <2>4, SilentTwice DEF Marked
  <2> QED BY <2>2, <2>4, <2>5 DEF Decided, Marked
<1> QED BY <1>1, <1>2

(* Starting and ending an emphasis.                                        *)
LEMMA Started ==
    ASSUME copy_mode \in Modes, NEW out, Tidy(out), Held(out, "NORMAL"),
           NEW mode \in Emphases, NEW new, new = out \o StartMarks(Start(mode))
    PROVE  Tidy(new) /\ Held(new, mode) /\ Firm(new, mode) /\ Silent(out, new)
<1>1. Decided(out, Start(mode), new) BY StartsAndEnds, BothMarks
<1>2. Firm(new, mode) BY <1>1, StartsAndEnds DEF Decided, Firm
<1> QED BY <1>1, <1>2, StartsAndEnds DEF Decided, Held, Emphases

LEMMA Ended ==
    ASSUME copy_mode \in Modes, NEW out, Tidy(out), NEW mode \in Emphases,
           Held(out, mode) \/ Held(out, "NORMAL"), NEW new, new = out \o EndMarks(End(mode))
    PROVE  Tidy(new) /\ Held(new, "NORMAL") /\ Silent(out, new)
<1>1. Decided(out, End(mode), new) BY StartsAndEnds, BothMarks
<1>2. \A from \in {"term", "user"} : Closable(from) => ~OnAfter(new, from)
  BY <1>1, StartsAndEnds DEF Decided, Held, Closable, Emphases
<1> QED BY <1>1, <1>2 DEF Decided, Held

(* An item that is no mark.                                                *)
LEMMA NoMark ==
    ASSUME NEW out, Tidy(out), NEW o \in Written, o.from \notin {"term", "user"},
           o.kind = "newline" => PlainAt(out, Len(out) + 1),
           NEW new, new = out \o <<o>>, NEW mode, Held(out, mode)
    PROVE  /\ Tidy(new) /\ Held(new, mode)
           /\ Same(out, new) /\ Len(new) = Len(out) + 1 /\ new[Len(out) + 1] = o
           /\ Firm(out, mode) => Firm(new, mode)
<1>1. new = out \o When(TRUE, <<o>>) BY DEF When
<1>2. Perhaps(out, TRUE, o, new) BY <1>1, PerhapsWritten
<1>3. /\ Tidy(new) /\ Same(out, new) /\ Len(new) = Len(out) + 1 /\ new[Len(out) + 1] = o
      /\ \A from \in {"term", "user"} : OnAfter(new, from) <=> OnAfter(out, from)
  BY <1>2 DEF Perhaps
<1> QED BY <1>3 DEF Held, Firm

LEMMA PlainWhenNormal ==
    ASSUME NEW out, Held(out, "NORMAL")
    PROVE  PlainAt(out, Len(out) + 1)
BY DEF Held, PlainAt, OnAfter

(* A line end inside an emphasis.                                          *)
Grouped(a, b, c) == a \o (b \o c) = (a \o b) \o c
Parted(o, a, b, c, d, e) ==
    o \o (a \o b \o c \o d \o e) = ((((o \o a) \o b) \o c) \o d) \o e

LEMMA FiveParts ==
    ASSUME NEW o \in Seq(Written), NEW a \in Seq(Written), NEW b \in Seq(Written),
           NEW c \in Seq(Written), NEW d \in Seq(Written), NEW e \in Seq(Written)
    PROVE  Parted(o, a, b, c, d, e)
<1>1. \A x, y \in Seq(Written) : x \o y \in Seq(Written) OBVIOUS
<1>2. \A x, y, z \in Seq(Written) : Grouped(x, y, z) BY ThreeParts DEF Grouped
<1>3. a \o b \in Seq(Written) BY <1>1, Zenon
<1>4. a \o b \o c \in Seq(Written) BY <1>1, <1>3, Zenon
<1>5. a \o b \o c \o d \in Seq(Written) BY <1>1, <1>4, Zenon
<1>6. Grouped(o, a, b) BY <1>2, Zenon
<1>7. Grouped(o, a \o b, c) BY <1>2, <1>3, Zenon
<1>8. Grouped(o, a \o b \o c, d) BY <1>2, <1>4, Zenon
<1>9. Grouped(o, a \o b \o c \o d, e) BY <1>2, <1>5, Zenon
<1> QED BY <1>6, <1>7, <1>8, <1>9, Zenon DEF Grouped, Parted

LEMMA NewlineIsPlain ==
    ASSUME copy_mode \in Emphases, NEW out, Tidy(out), Held(out, copy_mode),
           NEW s \in Side, text[s] \in Seq(Items), NEW i \in DOMAIN text[s],
           NEW new, new = out \o Newline(s, i)
    PROVE  /\ Tidy(new) /\ Held(new, copy_mode) /\ Says(out, new, Char(s, i))
           /\ Firm(out, copy_mode) => Firm(new, copy_mode)
<1> DEFINE st == Start(copy_mode)  en == End(copy_mode)
           a == When(options.no_wrapping, UserMark(en))
           b == TermMark(en)
           c == <<Char(s, i)>>
           d == TermMark(st)
           e == When(options.no_wrapping, UserMark(st))
           o1 == out \o a  o2 == o1 \o b  o3 == o2 \o c  o4 == o3 \o d
<1>0. copy_mode \in Modes /\ out \in Seq(Written) BY DEF Emphases, Modes, Tidy
<1>1. st \in Markers /\ st \in Starts /\ en \in Markers /\ en \notin Starts
  BY StartsAndEnds
<1>2. Char(s, i) \in Written /\ Char(s, i).from \notin {"term", "user"}
  BY <1>0, CharIsWritten
<1>3. a \in Seq(Written) /\ b \in Seq(Written) /\ c \in Seq(Written)
      /\ d \in Seq(Written) /\ e \in Seq(Written)
  BY <1>0, <1>1, <1>2, MarksAreWritten DEF When
<1>4. new = o4 \o e
  <2>1. Newline(s, i) = a \o b \o c \o d \o e BY DEF Newline
  <2> HIDE DEF a, b, c, d, e
  <2>2. Parted(out, a, b, c, d, e) BY <1>0, <1>3, FiveParts
  <2> QED BY <2>1, <2>2 DEF Parted
<1>5. Tidy(o1) /\ Silent(out, o1) /\ \A f \in {"term", "user"} :
        OnAfter(o1, f) <=> IF options.no_wrapping /\ en \in Strings("user") /\ f = "user"
                           THEN FALSE ELSE OnAfter(out, f)
  <2>1. CASE options.no_wrapping
    <3>1. o1 = out \o UserMark(en) BY <2>1 DEF When
    <3>2. Marked(out, en, "user", o1) BY <1>0, <1>1, <3>1, OneMark
    <3> QED BY <1>1, <2>1, <3>2 DEF Marked
  <2>2. CASE ~options.no_wrapping
    <3>1. o1 = out BY <1>0, <2>2 DEF When
    <3>2. Len(out) \in Nat /\ Silent(out, out) BY <1>0 DEF Silent, Same
    <3> QED BY <2>2, <3>1, <3>2
  <2> QED BY <2>1, <2>2
<1> HIDE DEF o1
<1>6. Marked(o1, en, "term", o2) BY <1>0, <1>1, <1>5, OneMark
<1>7. Tidy(o2) /\ PlainAt(o2, Len(o2) + 1)
  BY <1>1, <1>5, <1>6 DEF Marked, PlainAt, Held, Closable, OnAfter, Emphases
<1>8. /\ Tidy(o3) /\ Same(o2, o3) /\ Len(o3) = Len(o2) + 1 /\ o3[Len(o2) + 1] = Char(s, i)
      /\ \A f \in {"term", "user"} : OnAfter(o3, f) <=> OnAfter(o2, f)
  <2>1. o3 = o2 \o When(TRUE, <<Char(s, i)>>) BY DEF When
  <2>2. Perhaps(o2, TRUE, Char(s, i), o3) BY <1>2, <1>7, <2>1, PerhapsWritten
  <2> QED BY <1>2, <2>2 DEF Perhaps
<1> HIDE DEF o2, o3
<1>9. Marked(o3, st, "term", o4) BY <1>0, <1>1, <1>8, OneMark
<1> HIDE DEF o4
<1>10. Tidy(new) /\ Silent(o4, new) /\ \A f \in {"term", "user"} :
         OnAfter(new, f) <=> IF options.no_wrapping /\ st \in Strings("user") /\ f = "user"
                             THEN TRUE ELSE OnAfter(o4, f)
  <2>0. Tidy(o4) BY <1>9 DEF Marked
  <2>1. CASE options.no_wrapping
    <3>1. new = o4 \o UserMark(st) BY <1>4, <2>1 DEF When
    <3>2. Marked(o4, st, "user", new) BY <1>0, <1>1, <2>0, <3>1, OneMark
    <3> QED BY <1>1, <2>1, <3>2 DEF Marked
  <2>2. CASE ~options.no_wrapping
    <3>1. new = o4 BY <1>4, <2>0, <2>2 DEF When, Tidy
    <3>2. Len(o4) \in Nat /\ Silent(o4, o4) BY <2>0 DEF Silent, Same, Tidy
    <3> QED BY <2>0, <2>2, <3>1, <3>2
  <2> QED BY <2>1, <2>2
<1>11. \A f \in {"term", "user"} : Closable(f) /\ OnAfter(new, f) => st \in Strings(f)
  BY <1>1, <1>5, <1>6, <1>8, <1>9, <1>10 DEF Marked, Held
<1>12. Says(out, new, Char(s, i))
  <2>1. Silent(out, o2) BY <1>5, <1>6, <1>7, SilentTwice DEF Marked
  <2>2. Silent(o3, new) BY <1>8, <1>9, <1>10, SilentTwice DEF Marked
  <2> QED BY <1>7, <1>8, <1>10, <2>1, <2>2, SaidBetween
<1>13. ASSUME Firm(out, copy_mode) PROVE Firm(new, copy_mode)
  <2>1. ASSUME NEW f \in {"term", "user"}, st \in Strings(f) PROVE OnAfter(new, f)
    <3>1. CASE f = "term" BY <1>1, <1>9, <1>10, <2>1, <3>1 DEF Marked
    <3>2. CASE f = "user"
      <4>1. OnAfter(out, f) BY <1>13, <2>1 DEF Firm, Emphases
      <4> QED BY <1>5, <1>6, <1>8, <1>9, <1>10, <2>1, <3>2, <4>1 DEF Marked
    <3> QED BY <3>1, <3>2
  <2> QED BY <2>1 DEF Firm
<1> QED BY <1>10, <1>11, <1>12, <1>13 DEF Held, Emphases

-----------------------------------------------------------------------------
(***************************************************************************)
(* The calls of a directive.                                               *)
(***************************************************************************)
Loud == {"start", "end", "separator"}

CallSet == [fn : {"copy_whitespace", "copy_word"}, side : Side]
             \cup [fn : {"copy_until_ordinal", "skip_until_ordinal"}, side : Side, ordinal : Int]
             \cup [fn : {"start", "end"}, mode : Emphases]
             \cup {separator}

(* The first call about an emphasis ends that of the mode.                 *)
ClosesAt(c, mode, n) ==
    /\ c[n] = end_of(mode)
    /\ \A k \in 1..(n - 1) : c[k].fn \notin Loud
Closes(c, mode) == \E n \in DOMAIN c : ClosesAt(c, mode, n)

(* An emphasis that is started is ended, and before any other begins.      *)
MatchedAt(c, i, n) ==
    /\ n > i /\ c[n] = end_of(c[i].mode)
    /\ \A k \in (i + 1)..(n - 1) : c[k].fn \notin Loud
Matched(c) == \A i \in DOMAIN c : c[i].fn = "start" => \E n \in DOMAIN c : MatchedAt(c, i, n)

LEMMA CallKinds ==
    /\ \A c \in CallSet : c.fn \in {"start", "end"} => c.mode \in Emphases /\ c = [fn |-> c.fn, mode |-> c.mode]
    /\ \A c \in CallSet : c.fn \notin Loud => c.side \in Side
    /\ \A c \in CallSet : c.fn \in {"copy_whitespace", "copy_word", "copy_until_ordinal",
                                   "skip_until_ordinal", "start", "end", "separator"}
    /\ \A c \in CallSet : c.fn \in {"copy_until_ordinal", "skip_until_ordinal"} => c.ordinal \in Int
BY DEF CallSet, Loud, separator

LEMMA CallsAreTyped ==
    ASSUME NEW s \in Side, NEW n \in Int, NEW mode \in Emphases
    PROVE  /\ copy_whitespace(s) \in CallSet /\ copy_word(s) \in CallSet
           /\ copy_until_ordinal(s, n) \in CallSet /\ skip_until_ordinal(s, n) \in CallSet
           /\ start_of(mode) \in CallSet /\ end_of(mode) \in CallSet /\ separator \in CallSet
BY DEF CallSet, copy_whitespace, copy_word, copy_until_ordinal, skip_until_ordinal, start_of, end_of

LEMMA MatchedTogether ==
    ASSUME NEW a \in Seq(CallSet), NEW b \in Seq(CallSet), Matched(a), Matched(b)
    PROVE  a \o b \in Seq(CallSet) /\ Matched(a \o b)
<1> DEFINE c == a \o b
<1>1. /\ Len(a) \in Nat /\ Len(b) \in Nat /\ DOMAIN a = 1..Len(a) /\ DOMAIN b = 1..Len(b)
      /\ c \in Seq(CallSet) /\ DOMAIN c = 1..(Len(a) + Len(b))
      /\ \A i \in 1..Len(a) : c[i] = a[i]
      /\ \A i \in 1..Len(b) : c[Len(a) + i] = b[i]
  OBVIOUS
<1> HIDE DEF c
<1>2. ASSUME NEW i \in DOMAIN c, c[i].fn = "start"
      PROVE  \E n \in DOMAIN c : MatchedAt(c, i, n)
  <2>1. CASE i \in 1..Len(a)
    <3>1. PICK n \in 1..Len(a) : MatchedAt(a, i, n) BY <1>1, <1>2, <2>1 DEF Matched
    <3>2. c[i] = a[i] /\ c[n] = a[n] BY <1>1, <2>1
    <3>3. ASSUME NEW k \in (i + 1)..(n - 1) PROVE c[k].fn \notin Loud
      <4>1. k \in 1..Len(a) BY <1>1, <2>1
      <4> QED BY <1>1, <3>1, <4>1 DEF MatchedAt
    <3>4. MatchedAt(c, i, n) BY <3>1, <3>2, <3>3 DEF MatchedAt
    <3>5. n \in DOMAIN c BY <1>1
    <3> QED BY <3>4, <3>5
  <2>2. CASE i \notin 1..Len(a)
    <3>1. PICK j \in 1..Len(b) : i = Len(a) + j
      <4>1. i - Len(a) \in 1..Len(b) BY <1>1, <2>2
      <4> QED BY <1>1, <4>1
    <3>2. c[i] = b[j] BY <1>1, <3>1
    <3>3. PICK n \in 1..Len(b) : MatchedAt(b, j, n) BY <1>1, <1>2, <3>2 DEF Matched
    <3>4. c[Len(a) + n] = b[n] BY <1>1
    <3>5. ASSUME NEW k \in (i + 1)..(Len(a) + n - 1)
          PROVE  c[k].fn \notin Loud
      <4>1. k - Len(a) \in (j + 1)..(n - 1) /\ k - Len(a) \in 1..Len(b) BY <1>1, <3>1
      <4>2. c[Len(a) + (k - Len(a))] = b[k - Len(a)] BY <1>1, <4>1
      <4>3. Len(a) + (k - Len(a)) = k BY <1>1, <4>1
      <4> QED BY <3>3, <4>1, <4>2, <4>3 DEF MatchedAt
    <3>6. MatchedAt(c, i, Len(a) + n) BY <1>1, <3>1, <3>2, <3>3, <3>4, <3>5 DEF MatchedAt
    <3> QED BY <1>1, <3>6
  <2> QED BY <2>1, <2>2
<1> QED BY <1>1, <1>2 DEF Matched, c

LEMMA NoStart ==
    ASSUME NEW c, \A i \in DOMAIN c : c[i].fn # "start"
    PROVE  Matched(c)
BY DEF Matched

LEMMA EmphasisIsMatched ==
    ASSUME NEW s \in Side, NEW mode \in Emphases, NEW n \in Int
    PROVE  Emphasised(s, mode, n) \in Seq(CallSet) /\ Matched(Emphasised(s, mode, n))
<1> DEFINE c == Emphasised(s, mode, n)
<1>1. /\ c \in Seq(CallSet) /\ DOMAIN c = 1..5
      /\ c[1] = copy_whitespace(s) /\ c[2] = start_of(mode) /\ c[3] = copy_word(s)
      /\ c[4] = copy_until_ordinal(s, n) /\ c[5] = end_of(mode)
  BY CallsAreTyped DEF Emphasised
<1> HIDE DEF c
<1>2. \A i \in 1..5 : c[i].fn = "start" => i = 2
  <2>1. /\ c[1].fn # "start" /\ c[3].fn # "start" /\ c[4].fn # "start" /\ c[5].fn # "start"
    BY <1>1 DEF copy_whitespace, copy_word, copy_until_ordinal, end_of
  <2>2. \A i \in 1..5 : i \in {1, 2, 3, 4, 5} OBVIOUS
  <2> QED BY <2>1, <2>2
<1>3. \A k \in (2 + 1)..(5 - 1) : c[k].fn \notin Loud
  <2>1. c[3].fn \notin Loud /\ c[4].fn \notin Loud
    BY <1>1 DEF copy_word, copy_until_ordinal, Loud
  <2>2. \A k \in (2 + 1)..(5 - 1) : k \in {3, 4} OBVIOUS
  <2> QED BY <2>1, <2>2
<1>4. c[5] = end_of(c[2].mode) BY <1>1 DEF start_of
<1>5. MatchedAt(c, 2, 5) BY <1>3, <1>4 DEF MatchedAt
<1>6. Matched(c) BY <1>1, <1>2, <1>5 DEF Matched
<1> QED BY <1>1, <1>6 DEF c

LEMMA OneCallIsMatched ==
    ASSUME NEW s \in Side, NEW n \in Int, NEW cond,
           NEW c \in {copy_until_ordinal(s, n), skip_until_ordinal(s, n), copy_whitespace(s), separator}
    PROVE  When(cond, <<c>>) \in Seq(CallSet) /\ Matched(When(cond, <<c>>))
<1>1. c \in CallSet /\ c.fn # "start"
  BY CallsAreTyped DEF copy_until_ordinal, skip_until_ordinal, copy_whitespace,
     separator, CallSet
<1> QED BY <1>1, NoStart DEF When

LEMMA EmphasisPerhaps ==
    ASSUME NEW s \in Side, NEW mode \in Emphases, NEW n \in Int, NEW cond
    PROVE  /\ When(cond, Emphasised(s, mode, n)) \in Seq(CallSet)
           /\ Matched(When(cond, Emphasised(s, mode, n)))
BY EmphasisIsMatched, NoStart DEF When

LEMMA PartsAreMatched ==
    ASSUME NEW h \in HunkType
    PROVE  /\ Resync(h) \in Seq(CallSet) /\ Matched(Resync(h))
           /\ Separate \in Seq(CallSet) /\ Matched(Separate)
           /\ ShowDeleted(h) \in Seq(CallSet) /\ Matched(ShowDeleted(h))
           /\ ShowInserted(h) \in Seq(CallSet) /\ Matched(ShowInserted(h))
<1>1. /\ FirstWord(h, "left") - 1 \in Int /\ FirstWord(h, "right") - 1 \in Int
      /\ LastWord(h, "left") \in Int /\ LastWord(h, "right") \in Int
  BY DEF FirstWord, LastWord, HunkType
<1>2. "left" \in Side /\ "right" \in Side /\ "DELETED" \in Emphases /\ "INSERTED" \in Emphases
  BY DEF Side, Emphases
<1> DEFINE f == FirstWord(h, "left") - 1
           g == FirstWord(h, "right") - 1
           a == When(~inhibited("left"),
                     IF ~inhibited("common") /\ inhibited("right")
                     THEN <<copy_until_ordinal("left", f)>>
                     ELSE <<skip_until_ordinal("left", f)>>)
           b == When(~inhibited("right"),
                     IF inhibited("common") THEN <<skip_until_ordinal("right", g)>>
                                            ELSE <<copy_until_ordinal("right", g)>>)
           c == When(~inhibited("common") /\ Side \subseteq options.inhibit,
                     <<copy_until_ordinal("right", g)>>)
<1>3. a \in Seq(CallSet) /\ Matched(a)
  <2>1. CASE ~inhibited("common") /\ inhibited("right")
    <3>1. a = When(~inhibited("left"), <<copy_until_ordinal("left", f)>>) BY <2>1
    <3> QED BY <1>1, <1>2, <3>1, OneCallIsMatched
  <2>2. CASE ~(~inhibited("common") /\ inhibited("right"))
    <3>1. a = When(~inhibited("left"), <<skip_until_ordinal("left", f)>>) BY <2>2
    <3> QED BY <1>1, <1>2, <3>1, OneCallIsMatched
  <2> QED BY <2>1, <2>2
<1>4. b \in Seq(CallSet) /\ Matched(b)
  <2>1. CASE inhibited("common")
    <3>1. b = When(~inhibited("right"), <<skip_until_ordinal("right", g)>>) BY <2>1
    <3> QED BY <1>1, <1>2, <3>1, OneCallIsMatched
  <2>2. CASE ~inhibited("common")
    <3>1. b = When(~inhibited("right"), <<copy_until_ordinal("right", g)>>) BY <2>2
    <3> QED BY <1>1, <1>2, <3>1, OneCallIsMatched
  <2> QED BY <2>1, <2>2
<1>5. c \in Seq(CallSet) /\ Matched(c) BY <1>1, <1>2, OneCallIsMatched
<1>6. Resync(h) = a \o b \o c BY DEF Resync
<1> HIDE DEF a, b, c
<1>7. Resync(h) \in Seq(CallSet) /\ Matched(Resync(h))
  <2>1. a \o b \in Seq(CallSet) /\ Matched(a \o b) BY <1>3, <1>4, MatchedTogether
  <2> QED BY <1>5, <1>6, <2>1, MatchedTogether
<1>8. Separate \in Seq(CallSet) /\ Matched(Separate)
  BY <1>2, 0 \in Int, OneCallIsMatched DEF Separate
<1>9. ShowDeleted(h) \in Seq(CallSet) /\ Matched(ShowDeleted(h))
  BY <1>1, <1>2, EmphasisPerhaps DEF ShowDeleted
<1>10. ShowInserted(h) \in Seq(CallSet) /\ Matched(ShowInserted(h))
  <2> DEFINE skip == When(~inhibited("common") /\ inhibited("left"),
                          <<skip_until_ordinal("right", LastWord(h, "right"))>>)
             show == Emphasised("right", "INSERTED", LastWord(h, "right"))
  <2>1. skip \in Seq(CallSet) /\ Matched(skip) BY <1>1, <1>2, OneCallIsMatched
  <2>2. show \in Seq(CallSet) /\ Matched(show) BY <1>1, <1>2, EmphasisIsMatched
  <2>3. ShowInserted(h) \in {skip, show, <<>>} BY DEF ShowInserted, When
  <2>4. <<>> \in Seq(CallSet) /\ Matched(<<>>) BY NoStart
  <2> QED BY <2>1, <2>2, <2>3, <2>4
<1> QED BY <1>7, <1>8, <1>9, <1>10

LEMMA ObeyIsMatched ==
    ASSUME NEW h \in HunkType
    PROVE  Obey(h) \in Seq(CallSet) /\ Matched(Obey(h))
<1> DEFINE ab == Resync(h) \o Separate
           abc == ab \o ShowDeleted(h)
<1>1. ab \in Seq(CallSet) /\ Matched(ab) BY PartsAreMatched, MatchedTogether
<1>2. abc \in Seq(CallSet) /\ Matched(abc) BY <1>1, PartsAreMatched, MatchedTogether
<1>3. Obey(h) = abc \o ShowInserted(h) BY DEF Obey
<1> QED BY <1>2, <1>3, PartsAreMatched, MatchedTogether

LEMMA RestIsMatched ==
    ASSUME \A s \in Side : total[s] \in Int
    PROVE  CopyRest \in Seq(CallSet) /\ Matched(CopyRest)
<1> DEFINE s == IF ~inhibited("left") /\ inhibited("right") THEN "left" ELSE "right"
           copy == <<copy_until_ordinal(s, total[s]), copy_whitespace(s)>>
           sep == When(~(Side \subseteq options.inhibit), <<separator>>)
<1>1. s \in Side BY DEF Side
<1>2. sep \in Seq(CallSet) /\ Matched(sep) BY <1>1, OneCallIsMatched
<1>3. copy \in Seq(CallSet) /\ Matched(copy)
  <2> HIDE DEF s
  <2>1. copy_until_ordinal(s, total[s]) \in CallSet /\ copy_whitespace(s) \in CallSet
    BY <1>1, "DELETED" \in Emphases, CallsAreTyped DEF Emphases
  <2>2. copy_until_ordinal(s, total[s]).fn # "start" /\ copy_whitespace(s).fn # "start"
    BY DEF copy_until_ordinal, copy_whitespace
  <2> QED BY <2>1, <2>2, NoStart
<1>4. CopyRest = copy \/ CopyRest = sep BY DEF CopyRest
<1> QED BY <1>2, <1>3, <1>4

(* The calls behind the first, and what they close.                        *)
LEMMA TailCalls ==
    ASSUME NEW c \in Seq(CallSet), Matched(c), c # <<>>
    PROVE  /\ Head(c) \in CallSet /\ Tail(c) \in Seq(CallSet) /\ Matched(Tail(c))
           /\ Head(c).fn = "start" => Closes(Tail(c), Head(c).mode)
           /\ \A mode : Closes(c, mode) /\ Head(c).fn \notin Loud => Closes(Tail(c), mode)
           /\ \A mode : Closes(c, mode) /\ Head(c).fn \in Loud => Head(c) = end_of(mode)
<1> DEFINE t == Tail(c)
<1>1. /\ Len(c) \in Nat /\ Len(c) >= 1 /\ DOMAIN c = 1..Len(c)
      /\ Head(c) = c[1] /\ c[1] \in CallSet
      /\ t \in Seq(CallSet) /\ Len(t) = Len(c) - 1 /\ DOMAIN t = 1..(Len(c) - 1)
      /\ \A i \in 1..(Len(c) - 1) : t[i] = c[i + 1]
  OBVIOUS
<1> HIDE DEF t
<1>2. ASSUME NEW i \in 1..Len(c), NEW n \in 1..Len(c), MatchedAt(c, i, n), i > 1
      PROVE  MatchedAt(t, i - 1, n - 1)
  <2>1. n > i BY <1>2 DEF MatchedAt
  <2>2. i - 1 \in 1..(Len(c) - 1) /\ n - 1 \in 1..(Len(c) - 1) BY <1>1, <1>2, <2>1
  <2>3. t[i - 1] = c[i] /\ t[n - 1] = c[n] BY <1>1, <2>2
  <2>4. ASSUME NEW k \in ((i - 1) + 1)..((n - 1) - 1) PROVE t[k].fn \notin Loud
    <3>1. k \in 1..(Len(c) - 1) /\ k + 1 \in (i + 1)..(n - 1) BY <1>1, <1>2
    <3> QED BY <1>1, <1>2, <3>1 DEF MatchedAt
  <2> QED BY <1>2, <2>1, <2>3, <2>4 DEF MatchedAt
<1>3. Matched(t)
  <2> SUFFICES ASSUME NEW i \in DOMAIN t, t[i].fn = "start"
               PROVE  \E n \in DOMAIN t : MatchedAt(t, i, n)
    BY DEF Matched
  <2>1. i + 1 \in 1..Len(c) /\ c[i + 1].fn = "start" BY <1>1
  <2>2. PICK n \in 1..Len(c) : MatchedAt(c, i + 1, n) BY <1>1, <2>1 DEF Matched
  <2>3. n > i + 1 BY <2>2 DEF MatchedAt
  <2>4. n - 1 \in DOMAIN t /\ i + 1 > 1 /\ (i + 1) - 1 = i BY <1>1, <2>1, <2>3
  <2>5. MatchedAt(t, (i + 1) - 1, n - 1) BY <1>2, <2>1, <2>2, <2>4
  <2> QED BY <2>4, <2>5
<1>4. ASSUME c[1].fn = "start" PROVE Closes(t, c[1].mode)
  <2>1. PICK n \in 1..Len(c) : MatchedAt(c, 1, n) BY <1>1, <1>4 DEF Matched
  <2>2. n > 1 BY <2>1 DEF MatchedAt
  <2>3. n - 1 \in 1..(Len(c) - 1) BY <1>1, <2>2
  <2>4. t[n - 1] = c[n] BY <1>1, <2>3
  <2>5. ASSUME NEW k \in 1..((n - 1) - 1) PROVE t[k].fn \notin Loud
    <3>1. k \in 1..(Len(c) - 1) /\ k + 1 \in (1 + 1)..(n - 1) BY <1>1, <2>3
    <3> QED BY <1>1, <2>1, <3>1 DEF MatchedAt
  <2>6. ClosesAt(t, c[1].mode, n - 1) BY <2>1, <2>4, <2>5 DEF ClosesAt, MatchedAt
  <2> QED BY <1>1, <2>3, <2>6 DEF Closes
<1>5. ASSUME NEW mode, Closes(c, mode), c[1].fn \notin Loud
      PROVE  Closes(t, mode)
  <2>1. PICK n \in 1..Len(c) : ClosesAt(c, mode, n) BY <1>1, <1>5 DEF Closes
  <2>2. n # 1 BY <1>5, <2>1 DEF ClosesAt, end_of, Loud
  <2>3. n - 1 \in 1..(Len(c) - 1) BY <1>1, <2>2
  <2>4. t[n - 1] = c[n] BY <1>1, <2>3
  <2>5. ASSUME NEW k \in 1..((n - 1) - 1) PROVE t[k].fn \notin Loud
    <3>1. k \in 1..(Len(c) - 1) /\ k + 1 \in 1..(n - 1) BY <1>1, <2>3
    <3> QED BY <1>1, <2>1, <3>1 DEF ClosesAt
  <2>6. ClosesAt(t, mode, n - 1) BY <2>1, <2>4, <2>5 DEF ClosesAt
  <2> QED BY <1>1, <2>3, <2>6 DEF Closes
<1>6. ASSUME NEW mode, Closes(c, mode), c[1].fn \in Loud
      PROVE  c[1] = end_of(mode)
  <2>1. PICK n \in 1..Len(c) : ClosesAt(c, mode, n) BY <1>1, <1>6 DEF Closes
  <2>2. n = 1
    <3>1. CASE n > 1
      <4>1. 1 \in 1..(n - 1) BY <3>1
      <4> QED BY <1>6, <2>1, <4>1 DEF ClosesAt
    <3> QED BY <3>1
  <2> QED BY <2>1, <2>2 DEF ClosesAt
<1> QED BY <1>1, <1>3, <1>4, <1>5, <1>6 DEF t

(* Calls put before others.                                                *)
LEMMA QuietBefore ==
    ASSUME NEW a \in Seq(CallSet), NEW b \in Seq(CallSet), Matched(b),
           \A i \in DOMAIN a : a[i].fn \notin Loud
    PROVE  /\ a \o b \in Seq(CallSet) /\ Matched(a \o b)
           /\ \A mode : Closes(b, mode) => Closes(a \o b, mode)
<1> DEFINE c == a \o b
<1>1. Matched(a) BY NoStart DEF Loud
<1>2. c \in Seq(CallSet) /\ Matched(c) BY <1>1, MatchedTogether
<1>3. /\ Len(a) \in Nat /\ Len(b) \in Nat /\ DOMAIN a = 1..Len(a) /\ DOMAIN b = 1..Len(b)
      /\ DOMAIN c = 1..(Len(a) + Len(b))
      /\ \A i \in 1..Len(a) : c[i] = a[i]
      /\ \A i \in 1..Len(b) : c[Len(a) + i] = b[i]
  OBVIOUS
<1> HIDE DEF c
<1>4. ASSUME NEW mode, Closes(b, mode) PROVE Closes(c, mode)
  <2>1. PICK n \in 1..Len(b) : ClosesAt(b, mode, n) BY <1>3, <1>4 DEF Closes
  <2>2. ASSUME NEW k \in 1..(Len(a) + n - 1) PROVE c[k].fn \notin Loud
    <3>1. CASE k \in 1..Len(a) BY <1>3, <3>1
    <3>2. CASE k \notin 1..Len(a)
      <4>1. k - Len(a) \in 1..(n - 1) /\ k - Len(a) \in 1..Len(b) BY <1>3, <3>2
      <4>2. c[Len(a) + (k - Len(a))] = b[k - Len(a)] BY <1>3, <4>1
      <4>3. Len(a) + (k - Len(a)) = k BY <1>3
      <4> QED BY <2>1, <4>1, <4>2, <4>3 DEF ClosesAt
    <3> QED BY <3>1, <3>2
  <2>3. c[Len(a) + n] = b[n] /\ Len(a) + n \in DOMAIN c BY <1>3
  <2>4. ClosesAt(c, mode, Len(a) + n) BY <2>1, <2>2, <2>3 DEF ClosesAt
  <2> QED BY <2>3, <2>4 DEF Closes
<1> QED BY <1>2, <1>4 DEF c

-----------------------------------------------------------------------------
(***************************************************************************)
(* The texts: two blanks are not next to each other, so that the white     *)
(* space copied between two words is at most one item.                     *)
(***************************************************************************)
Alternating(t) ==
    t \in Seq(Items) /\ \A i \in 1..(Len(t) - 1) : (t[i] = "word") # (t[i + 1] = "word")

TextInv ==
    \A s \in Side : Alternating(text[s]) /\ next[s] \in 1..(Len(text[s]) + 1)

LEMMA NextWordIs ==
    ASSUME TextInv, NEW s \in Side
    PROVE  /\ NextWord(s) \in 1..(Len(text[s]) + 1)
           /\ \/ NextWord(s) = next[s]
              \/ NextWord(s) = next[s] + 1 /\ next[s] \in DOMAIN text[s]
<1> DEFINE t == text[s]
           n == next[s]
           S == {i \in DOMAIN t : i >= n /\ t[i] = "word"} \cup {Len(t) + 1}
<1>1. t \in Seq(Items) /\ Len(t) \in Nat /\ DOMAIN t = 1..Len(t) /\ n \in 1..(Len(t) + 1)
      /\ \A i \in 1..(Len(t) - 1) : (t[i] = "word") # (t[i + 1] = "word")
  BY DEF TextInv, Alternating
<1>2. NextWord(s) = Min(S) BY DEF NextWord
<1>3. \A x, y \in S : (\A z \in S : x <= z) /\ (\A z \in S : y <= z) => x = y
  BY <1>1
<1>4. ASSUME NEW x \in S, \A z \in S : x <= z PROVE NextWord(s) = x
  BY <1>2, <1>3, <1>4 DEF Min
<1> HIDE DEF S
<1>5. CASE n = Len(t) + 1
  <2>1. Len(t) + 1 \in S /\ \A z \in S : Len(t) + 1 <= z BY <1>1, <1>5 DEF S
  <2> QED BY <1>1, <1>4, <1>5, <2>1
<1>6. CASE n \in 1..Len(t) /\ t[n] = "word"
  <2>1. n \in S /\ \A z \in S : n <= z BY <1>1, <1>6 DEF S
  <2> QED BY <1>1, <1>4, <1>6, <2>1
<1>7. CASE n \in 1..Len(t) /\ t[n] # "word"
  <2>1. n + 1 \in S
    <3>1. CASE n = Len(t) BY <1>1, <3>1 DEF S
    <3>2. CASE n # Len(t)
      <4>1. n \in 1..(Len(t) - 1) BY <1>1, <1>7, <3>2
      <4>2. t[n + 1] = "word" BY <1>1, <1>7, <4>1
      <4> QED BY <1>1, <4>1, <4>2 DEF S
    <3> QED BY <3>1, <3>2
  <2>2. \A z \in S : n + 1 <= z
    <3> SUFFICES ASSUME NEW z \in S PROVE n + 1 <= z OBVIOUS
    <3>1. z \in Nat /\ z >= n BY <1>1 DEF S
    <3>2. z # n BY <1>1, <1>7 DEF S
    <3> QED BY <1>1, <3>1, <3>2
  <2> QED BY <1>1, <1>4, <1>7, <2>1, <2>2
<1> QED BY <1>1, <1>5, <1>6, <1>7

(* Sequences of sequences of length 0 and 1, put together.                 *)
LEMMA FlattenNone ==
    ASSUME NEW s \in Side, NEW n \in Nat
    PROVE  FlattenSeq([k \in 1..0 |-> Blank(s, n + k - 1)]) = <<>>
<1>1. [k \in 1..0 |-> Blank(s, n + k - 1)] = <<>> OBVIOUS
<1> QED BY <1>1 DEF FlattenSeq

LEMMA FlattenOne ==
    ASSUME NEW s \in Side, NEW n \in Nat
    PROVE  FlattenSeq([k \in 1..1 |-> Blank(s, n + k - 1)]) = Blank(s, n)
<1> DEFINE x == Blank(s, n)
           seqs == [k \in 1..1 |-> Blank(s, n + k - 1)]
<1>1. seqs = <<x>>
  <2>1. \A k \in 1..1 : k = 1 /\ n + k - 1 = n OBVIOUS
  <2>2. seqs = [k \in 1..1 |-> x] BY <2>1
  <2> QED BY <2>2
<1>2. FlattenSeq(<<x>>) = x
  BY DEF FlattenSeq
<1> QED BY <1>1, <1>2

-----------------------------------------------------------------------------
(***************************************************************************)
(* The inductive invariant.  An emphasis that has been started is the next *)
(* thing to be ended, so none is on where another is started or where a    *)
(* separator line is written, and none is left once a directive is obeyed. *)
(***************************************************************************)
Reading == {"reformat", "remainder"}

ModeInv ==
    /\ copy_mode \in Modes
    /\ Useless => copy_mode = "NORMAL"
    /\ pc \in {"report", "exited"} => copy_mode = "NORMAL"

CallsInv ==
    /\ pc \in Reading \cup {"cleanup", "report", "exited"}
    /\ calls \in Seq(CallSet) /\ Matched(calls)
    /\ pc \in Reading /\ copy_mode # "NORMAL" => Closes(calls, copy_mode)
    /\ pc \notin Reading => calls = <<>>

OutputInv == Tidy(output) /\ Held(output, copy_mode)

LineInv == ModeInv /\ CallsInv /\ TextInv /\ OutputInv

LEMMA NoCalls == Matched(<<>>) /\ <<>> \in Seq(CallSet) /\ \A mode : ~Closes(<<>>, mode)
BY NoStart DEF Closes

LEMMA NothingWritten ==
    ASSUME NEW mode
    PROVE  Tidy(<<>>) /\ Held(<<>>, mode)
<1>1. \A i, from : Marks(<<>>, i, from) = {} BY DEF Marks
<1>2. <<>> \in Seq(Written) /\ DOMAIN <<>> = {} OBVIOUS
<1> QED BY <1>1, <1>2 DEF Tidy, Held, Ends, OnAfter, OnIn

LEMMA TextsAlternate ==
    ASSUME NEW t \in Texts
    PROVE  Alternating(t)
<1>1. PICK n \in 0..(2 * MaxWords + 1) : t \in [1..n -> Items] BY DEF Texts
<1>2. n \in Nat BY <1>1, OptionsAssumption DEF OptionsAssumption
<1>3. t \in Seq(Items) BY <1>1, <1>2
<1> QED BY <1>3 DEF Texts, Alternating

LEMMA LineInit == Init => LineInv
<1> SUFFICES ASSUME Init PROVE LineInv OBVIOUS
<1>1. ModeInv BY DEF Init, ModeInv, Modes
<1>2. CallsInv BY NoCalls DEF Init, CallsInv, Reading
<1>3. OutputInv BY NothingWritten DEF Init, OutputInv
<1>4. TextInv
  <2> SUFFICES ASSUME NEW s \in Side
               PROVE  Alternating(text[s]) /\ next[s] \in 1..(Len(text[s]) + 1)
    BY DEF TextInv
  <2>1. text[s] \in Texts /\ next[s] = 1 BY DEF Init
  <2>2. Alternating(text[s]) BY <2>1, TextsAlternate
  <2>3. Len(text[s]) \in Nat BY <2>2 DEF Alternating
  <2> QED BY <2>1, <2>2, <2>3
<1> QED BY <1>1, <1>2, <1>3, <1>4 DEF LineInv

(* What the properties of the output say of the next state.                *)
LEMMA OutputFrame ==
    ASSUME UNCHANGED options, Tidy(output'), Held(output', copy_mode')
    PROVE  OutputInv'
BY DEF OutputInv, Tidy, Held, PlainAt, Closable, Strings, UserStrings, Defaults

LEMMA TextFrame ==
    ASSUME TextInv, UNCHANGED <<text, next>>
    PROVE  TextInv'
BY DEF TextInv

(* A call that is about no emphasis: it is done, or calls others, or a     *)
(* signal stops everything.                                                *)
LEMMA QuietCall ==
    ASSUME ModeInv, CallsInv, UNCHANGED <<options, copy_mode>>,
           calls # <<>>, Head(calls).fn \notin Loud,
           \/ pc' = pc /\ calls' = Tail(calls)
           \/ pc' = pc /\ calls' = calls
           \/ pc' = pc /\ \E a \in Seq(CallSet) : /\ \A i \in DOMAIN a : a[i].fn \notin Loud
                                                  /\ calls' = a \o Tail(calls)
           \/ pc' = "cleanup" /\ calls' = <<>>
    PROVE  ModeInv' /\ CallsInv'
<1>0. /\ Tail(calls) \in Seq(CallSet) /\ Matched(Tail(calls))
      /\ \A mode : Closes(calls, mode) => Closes(Tail(calls), mode)
  BY TailCalls DEF CallsInv
<1>1. pc \in Reading BY DEF CallsInv
<1>2. ModeInv' BY <1>1 DEF ModeInv, Useless, inhibited, Reading
<1>3. CASE pc' = pc /\ calls' = Tail(calls)
  BY <1>0, <1>1, <1>2, <1>3 DEF CallsInv
<1>4. CASE pc' = pc /\ calls' = calls
  BY <1>1, <1>2, <1>4 DEF CallsInv
<1>5. CASE pc' = pc /\ \E a \in Seq(CallSet) : /\ \A i \in DOMAIN a : a[i].fn \notin Loud
                                               /\ calls' = a \o Tail(calls)
  <2>1. PICK a \in Seq(CallSet) : /\ \A i \in DOMAIN a : a[i].fn \notin Loud
                                  /\ calls' = a \o Tail(calls)
    BY <1>5
  <2>2. /\ calls' \in Seq(CallSet) /\ Matched(calls')
        /\ \A mode : Closes(Tail(calls), mode) => Closes(calls', mode)
    BY <1>0, <2>1, QuietBefore
  <2> QED BY <1>0, <1>1, <1>2, <1>5, <2>2 DEF CallsInv
<1>6. CASE pc' = "cleanup" /\ calls' = <<>>
  BY <1>2, <1>6, NoCalls DEF CallsInv, Reading
<1> QED BY <1>3, <1>4, <1>5, <1>6

(* White space and words are copied.                                       *)
LEMMA BlankIsCopied ==
    ASSUME copy_mode \in Modes, NEW out, Tidy(out), Held(out, copy_mode),
           NEW s \in Side, text[s] \in Seq(Items), NEW i \in DOMAIN text[s],
           NEW new, new = out \o Blank(s, i)
    PROVE  /\ Tidy(new) /\ Held(new, copy_mode) /\ Says(out, new, Char(s, i))
           /\ Firm(out, copy_mode) => Firm(new, copy_mode)
<1>1. /\ Char(s, i) \in Written
      /\ Char(s, i).kind = text[s][i] /\ Char(s, i).from \notin {"term", "user"}
  BY CharIsWritten
<1>2. CASE text[s][i] = "newline" /\ copy_mode # "NORMAL"
  <2>1. copy_mode \in Emphases BY <1>2 DEF Modes, Emphases
  <2>2. new = out \o Newline(s, i) BY <1>2 DEF Blank
  <2> QED BY <2>1, <2>2, NewlineIsPlain
<1>3. CASE ~(text[s][i] = "newline" /\ copy_mode # "NORMAL")
  <2>1. new = out \o <<Char(s, i)>> BY <1>3 DEF Blank
  <2>2. Char(s, i).kind = "newline" => PlainAt(out, Len(out) + 1)
    BY <1>1, <1>3, PlainWhenNormal
  <2>3. /\ Tidy(new) /\ Held(new, copy_mode)
        /\ Firm(out, copy_mode) => Firm(new, copy_mode)
        /\ Same(out, new) /\ Len(new) = Len(out) + 1 /\ new[Len(out) + 1] = Char(s, i)
    BY <1>1, <2>1, <2>2, NoMark
  <2>4. Silent(out, out) /\ Silent(new, new)
    BY <2>3 DEF Silent, Same, Tidy
  <2>5. Says(out, new, Char(s, i)) BY <2>3, <2>4, SaidBetween
  <2> QED BY <2>3, <2>5
<1> QED BY <1>2, <1>3

LEMMA WordIsCopied ==
    ASSUME copy_mode \in Modes, NEW out, Tidy(out), Held(out, copy_mode),
           NEW s \in Side, text[s] \in Seq(Items), NEW i \in DOMAIN text[s], text[s][i] = "word",
           NEW new, new = out \o <<Char(s, i)>>
    PROVE  /\ Tidy(new) /\ Held(new, copy_mode)
           /\ Says(out, new, Char(s, i))
           /\ Len(new) = Len(out) + 1 /\ new[Len(out) + 1] = Char(s, i)
           /\ Firm(out, copy_mode) => Firm(new, copy_mode)
<1>1. /\ Char(s, i) \in Written
      /\ Char(s, i).kind # "newline" /\ Char(s, i).from \notin {"term", "user"}
  BY CharIsWritten
<1> DEFINE o == Char(s, i)
<1>2. o.kind = "newline" => PlainAt(out, Len(out) + 1) BY <1>1
<1>3. o \in Written /\ o.from \notin {"term", "user"} /\ new = out \o <<o>> BY <1>1
<1> HIDE DEF o
<1>4. /\ Tidy(new) /\ Held(new, copy_mode)
      /\ Same(out, new) /\ Len(new) = Len(out) + 1 /\ new[Len(out) + 1] = o
      /\ Firm(out, copy_mode) => Firm(new, copy_mode)
  BY <1>2, <1>3, NoMark
<1>5. Silent(out, out) /\ Silent(new, new) BY <1>4 DEF Silent, Same, Tidy
<1>6. Says(out, new, o) BY <1>4, <1>5, SaidBetween
<1> QED BY <1>4, <1>6 DEF o

-----------------------------------------------------------------------------
(* The actions.                                                            *)

LEMMA ReadDirectiveKeepsLines ==
    ASSUME LineInv, CountsInv, ReadDirective
    PROVE  LineInv'
<1> USE DEF inputs, readers, counts
<1>1. /\ UNCHANGED <<options, text, next, copy_mode, output>>
      /\ pc = "reformat" /\ calls = <<>>
  BY DEF ReadDirective
<1>2. copy_mode = "NORMAL" BY <1>1, NoCalls DEF LineInv, CallsInv, Reading
<1>3. TextInv' /\ OutputInv' BY <1>1, TextFrame, OutputFrame DEF LineInv, OutputInv
<1>4. CASE interrupted
  <2>1. pc' = "cleanup" /\ calls' = <<>> BY <1>4 DEF ReadDirective, LongJump
  <2> QED BY <1>1, <1>2, <1>3, <2>1, NoCalls DEF LineInv, ModeInv, CallsInv, Reading, Modes
<1>5. CASE ~interrupted
  <2>1. pc' \in Reading /\ calls' \in Seq(CallSet) /\ Matched(calls')
    <3>1. CASE obeyed < Len(script)
      <4>1. /\ obeyed' = obeyed + 1 /\ calls' = Obey(script[obeyed']) /\ pc' = pc
        BY <1>5, <3>1 DEF ReadDirective, LongJump
      <4>2. script[obeyed'] \in HunkType
        BY <3>1, <4>1 DEF CountsInv, CountsType
      <4> QED BY <1>1, <4>1, <4>2, ObeyIsMatched DEF Reading
    <3>2. CASE ~(obeyed < Len(script))
      <4>1. calls' = CopyRest /\ pc' = "remainder"
        BY <1>5, <3>2 DEF ReadDirective, LongJump
      <4>2. \A s \in Side : total[s] \in Int BY DEF CountsInv, CountsType
      <4> QED BY <4>1, <4>2, RestIsMatched DEF Reading
    <3> QED BY <3>1, <3>2
  <2>2. ModeInv' /\ CallsInv'
    BY <1>1, <1>2, <2>1 DEF ModeInv, CallsInv, Reading, Modes
  <2> QED BY <1>3, <2>2 DEF LineInv
<1> QED BY <1>4, <1>5

LEMMA CopyUntilOrdinalKeepsLines ==
    ASSUME LineInv, CopyUntilOrdinal
    PROVE  LineInv'
<1> USE DEF inputs, readers, counts, control
<1> DEFINE s == Head(calls).side
           a == <<copy_whitespace(s), copy_word(s), Head(calls)>>
<1>1. /\ UNCHANGED <<options, text, next, copy_mode, output, pc>>
      /\ calls # <<>> /\ Head(calls).fn = "copy_until_ordinal"
      /\ calls' = a \o Tail(calls) \/ calls' = <<>> \o Tail(calls)
  BY DEF CopyUntilOrdinal, Called, Then
<1>2. Head(calls) \in CallSet /\ Tail(calls) \in Seq(CallSet)
  BY <1>1, TailCalls DEF LineInv, CallsInv
<1>3. s \in Side BY <1>1, <1>2, CallKinds DEF Loud
<1>4. a \in Seq(CallSet) /\ \A i \in DOMAIN a : a[i].fn \notin Loud
  <2>1. copy_whitespace(s) \in CallSet /\ copy_word(s) \in CallSet
    BY <1>3, "DELETED" \in Emphases, 0 \in Int, CallsAreTyped DEF Emphases
  <2>2. copy_whitespace(s).fn \notin Loud /\ copy_word(s).fn \notin Loud /\ Head(calls).fn \notin Loud
    BY <1>1 DEF copy_whitespace, copy_word, Loud
  <2> HIDE DEF s
  <2> QED BY <1>2, <2>1, <2>2
<1> HIDE DEF a
<1>5. ModeInv' /\ CallsInv'
  <2>1. CASE calls' = a \o Tail(calls)
    BY <1>1, <1>4, <2>1, QuietCall DEF LineInv, Loud
  <2>2. CASE calls' = <<>> \o Tail(calls)
    <3>1. calls' = Tail(calls) BY <1>2, <2>2
    <3> QED BY <1>1, <3>1, QuietCall DEF LineInv, Loud
  <2> QED BY <1>1, <2>1, <2>2
<1>6. TextInv' /\ OutputInv' BY <1>1, TextFrame, OutputFrame DEF LineInv, OutputInv
<1> QED BY <1>5, <1>6 DEF LineInv

LEMMA SkipUntilOrdinalKeepsLines ==
    ASSUME LineInv, SkipUntilOrdinal
    PROVE  LineInv'
<1> USE DEF inputs, readers, counts, control
<1> DEFINE s == Head(calls).side
<1>1. /\ UNCHANGED <<options, text, copy_mode, output>>
      /\ calls # <<>> /\ Head(calls).fn = "skip_until_ordinal"
  BY DEF SkipUntilOrdinal, Called
<1>2. Head(calls) \in CallSet /\ Tail(calls) \in Seq(CallSet)
  BY <1>1, TailCalls DEF LineInv, CallsInv
<1>3. s \in Side BY <1>1, <1>2, CallKinds DEF Loud
<1>4. OutputInv' BY <1>1, OutputFrame DEF LineInv, OutputInv
<1>5. \/ pc' = pc /\ calls' = <<>> \o Tail(calls) /\ next' = next
      \/ pc' = "cleanup" /\ calls' = <<>> /\ next' = next
      \/ pc' = pc /\ calls' = calls
         /\ next' = [next EXCEPT ![s] = Min({NextWord(s) + 1, Len(text[s]) + 1})]
  BY DEF SkipUntilOrdinal, Then, LongJump
<1>6. <<>> \o Tail(calls) = Tail(calls) BY <1>2
<1>7. ModeInv' /\ CallsInv'
  BY <1>1, <1>5, <1>6, QuietCall DEF LineInv, Loud
<1>8. TextInv'
  <2>1. CASE next' = next BY <1>1, <2>1, TextFrame DEF LineInv
  <2>2. CASE next' = [next EXCEPT ![s] = Min({NextWord(s) + 1, Len(text[s]) + 1})]
    <3> DEFINE x == NextWord(s) + 1
               y == Len(text[s]) + 1
    <3>1. NextWord(s) \in 1..y /\ y - 1 \in Nat
      BY <1>3, NextWordIs DEF LineInv, TextInv, Alternating
    <3>2. Min({x, y}) \in {x, y} /\ Min({x, y}) <= y
      <4>1. x \in Int /\ y \in Int BY <3>1
      <4> HIDE DEF x, y
      <4>2. \E m \in {x, y} : \A z \in {x, y} : m <= z BY <4>1
      <4> QED BY <4>2 DEF Min
    <3>3. Min({x, y}) \in 1..y BY <3>1, <3>2
    <3> QED BY <1>1, <2>2, <3>3 DEF LineInv, TextInv
  <2> QED BY <1>5, <2>1, <2>2
<1> QED BY <1>4, <1>7, <1>8 DEF LineInv

LEMMA CopyWhitespaceKeepsLines ==
    ASSUME LineInv, CopyWhitespace
    PROVE  LineInv'
<1> USE DEF inputs, readers, counts, control
<1> DEFINE s == Head(calls).side
<1>1. /\ UNCHANGED <<options, text, copy_mode>>
      /\ calls # <<>> /\ Head(calls).fn = "copy_whitespace"
  BY DEF CopyWhitespace, Called
<1>2. Head(calls) \in CallSet /\ Tail(calls) \in Seq(CallSet)
  BY <1>1, TailCalls DEF LineInv, CallsInv
<1>3. s \in Side BY <1>1, <1>2, CallKinds DEF Loud
<1>4. \/ pc' = "cleanup" /\ calls' = <<>> /\ next' = next /\ output' = output
      \/ /\ pc' = pc /\ calls' = <<>> \o Tail(calls)
         /\ next' = [next EXCEPT ![s] = NextWord(s)]
         /\ output' = output \o
              FlattenSeq([k \in 1..(NextWord(s) - next[s]) |-> Blank(s, next[s] + k - 1)])
  BY DEF CopyWhitespace, Then, LongJump
<1>5. <<>> \o Tail(calls) = Tail(calls) BY <1>2
<1>6. ModeInv' /\ CallsInv'
  BY <1>1, <1>4, <1>5, QuietCall DEF LineInv, Loud
<1>7. CASE next' = next /\ output' = output
  BY <1>1, <1>6, <1>7, TextFrame, OutputFrame DEF LineInv, OutputInv
<1>8. CASE /\ next' = [next EXCEPT ![s] = NextWord(s)]
           /\ output' = output \o
                FlattenSeq([k \in 1..(NextWord(s) - next[s]) |-> Blank(s, next[s] + k - 1)])
  <2>0. /\ text[s] \in Seq(Items) /\ next[s] \in Nat
        /\ copy_mode \in Modes /\ Tidy(output) /\ Held(output, copy_mode)
        /\ output \in Seq(Written)
    BY <1>3 DEF LineInv, TextInv, Alternating, ModeInv, OutputInv, Tidy
  <2>1. TextInv'
    BY <1>1, <1>3, <1>8, NextWordIs DEF LineInv, TextInv
  <2>2. Tidy(output') /\ Held(output', copy_mode)
    <3>1. CASE NextWord(s) = next[s]
      <4>1. NextWord(s) - next[s] = 0 BY <2>0, <3>1
      <4>2. FlattenSeq([k \in 1..0 |-> Blank(s, next[s] + k - 1)]) = <<>>
        BY <1>3, <2>0, FlattenNone
      <4>3. output' = output \o <<>> BY <1>8, <4>1, <4>2
      <4>4. output' = output BY <2>0, <4>3
      <4> QED BY <2>0, <4>4
    <3>2. CASE NextWord(s) = next[s] + 1 /\ next[s] \in DOMAIN text[s]
      <4>1. NextWord(s) - next[s] = 1 BY <2>0, <3>2
      <4>2. output' = output \o Blank(s, next[s]) BY <1>3, <1>8, <2>0, <4>1, FlattenOne
      <4> QED BY <1>3, <2>0, <3>2, <4>2, BlankIsCopied
    <3> QED BY <1>3, <3>1, <3>2, NextWordIs DEF LineInv
  <2>3. OutputInv' BY <1>1, <2>2, OutputFrame
  <2> QED BY <1>6, <2>1, <2>3 DEF LineInv
<1> QED BY <1>4, <1>7, <1>8

LEMMA CopyWordKeepsLines ==
    ASSUME LineInv, CopyWord
    PROVE  LineInv'
<1> USE DEF inputs, readers, counts, control
<1> DEFINE s == Head(calls).side
<1>1. /\ UNCHANGED <<options, text, copy_mode>>
      /\ calls # <<>> /\ Head(calls).fn = "copy_word"
  BY DEF CopyWord, Called
<1>2. Head(calls) \in CallSet /\ Tail(calls) \in Seq(CallSet)
  BY <1>1, TailCalls DEF LineInv, CallsInv
<1>3. s \in Side BY <1>1, <1>2, CallKinds DEF Loud
<1>4. \/ pc' = "cleanup" /\ calls' = <<>> /\ next' = next /\ output' = output
      \/ /\ pc' = pc /\ calls' = <<>> \o Tail(calls)
         /\ next' = [next EXCEPT ![s] = next[s] + IF AtWord(s) THEN 1 ELSE 0]
         /\ output' = output \o When(AtWord(s), <<Char(s, next[s])>>)
  BY DEF CopyWord, Then, LongJump
<1>5. <<>> \o Tail(calls) = Tail(calls) BY <1>2
<1>6. ModeInv' /\ CallsInv'
  BY <1>1, <1>4, <1>5, QuietCall DEF LineInv, Loud
<1>7. CASE next' = next /\ output' = output
  BY <1>1, <1>6, <1>7, TextFrame, OutputFrame DEF LineInv, OutputInv
<1>8. CASE /\ next' = [next EXCEPT ![s] = next[s] + IF AtWord(s) THEN 1 ELSE 0]
           /\ output' = output \o When(AtWord(s), <<Char(s, next[s])>>)
  <2>0. /\ text[s] \in Seq(Items) /\ next[s] \in 1..(Len(text[s]) + 1)
        /\ copy_mode \in Modes /\ Tidy(output) /\ Held(output, copy_mode)
        /\ output \in Seq(Written)
    BY <1>3 DEF LineInv, TextInv, Alternating, ModeInv, OutputInv, Tidy
  <2>1. next[s] + (IF AtWord(s) THEN 1 ELSE 0) \in 1..(Len(text[s]) + 1)
    BY <2>0 DEF AtWord
  <2>2. TextInv' BY <1>1, <1>8, <2>1 DEF LineInv, TextInv
  <2>3. Tidy(output') /\ Held(output', copy_mode)
    <3>1. CASE AtWord(s)
      <4>1. next[s] \in DOMAIN text[s] /\ text[s][next[s]] = "word" BY <3>1 DEF AtWord
      <4>2. output' = output \o <<Char(s, next[s])>> BY <1>8, <3>1 DEF When
      <4> QED BY <1>3, <2>0, <4>1, <4>2, WordIsCopied
    <3>2. CASE ~AtWord(s)
      <4>1. output' = output BY <1>8, <2>0, <3>2 DEF When
      <4> QED BY <2>0, <4>1
    <3> QED BY <3>1, <3>2
  <2>4. OutputInv' BY <1>1, <2>3, OutputFrame
  <2> QED BY <1>6, <2>2, <2>4 DEF LineInv
<1> QED BY <1>4, <1>7, <1>8

(* Where an emphasis starts none is on, and the next to be ended is it.    *)
LEMMA StartEmphasisKeepsLines ==
    ASSUME LineInv, StartEmphasis
    PROVE  LineInv'
<1> USE DEF inputs, readers, counts, control
<1> DEFINE mode == Head(calls).mode
<1>1. /\ UNCHANGED <<options, text, next, pc>>
      /\ calls # <<>> /\ Head(calls).fn = "start" /\ calls' = <<>> \o Tail(calls)
  BY DEF StartEmphasis, Called, Then
<1>2. /\ Head(calls) \in CallSet /\ Tail(calls) \in Seq(CallSet) /\ Matched(Tail(calls))
      /\ Closes(Tail(calls), mode)
      /\ \A m : Closes(calls, m) => Head(calls) = end_of(m)
  BY <1>1, TailCalls DEF LineInv, CallsInv, Loud
<1>3. mode \in Emphases BY <1>1, <1>2, CallKinds
<1>4. calls' = Tail(calls) BY <1>1, <1>2
<1>5. pc \in Reading BY <1>1 DEF LineInv, CallsInv
<1>6. copy_mode = "NORMAL"
  <2>1. \A m : Head(calls) # end_of(m) BY <1>1 DEF end_of
  <2> QED BY <1>2, <1>5, <2>1 DEF LineInv, CallsInv
<1>7. TextInv' BY <1>1, TextFrame DEF LineInv
<1>8. CASE Useless
  <2>1. UNCHANGED <<copy_mode, output>> BY <1>8 DEF StartEmphasis
  <2>2. OutputInv' BY <1>1, <2>1, OutputFrame DEF LineInv, OutputInv
  <2>3. ModeInv' /\ CallsInv'
    BY <1>1, <1>2, <1>4, <1>5, <1>6, <2>1 DEF LineInv, ModeInv, CallsInv, Modes
  <2> QED BY <1>7, <2>2, <2>3 DEF LineInv
<1>9. CASE ~Useless
  <2>1. copy_mode' = mode /\ output' = output \o StartMarks(Start(mode))
    BY <1>9 DEF StartEmphasis
  <2>2. copy_mode \in Modes /\ Tidy(output) /\ Held(output, "NORMAL")
    BY <1>6 DEF LineInv, ModeInv, OutputInv
  <2>3. Tidy(output') /\ Held(output', copy_mode') BY <1>3, <2>1, <2>2, Started
  <2>4. OutputInv' BY <1>1, <2>3, OutputFrame
  <2>5. ~Useless' BY <1>1, <1>9 DEF Useless, inhibited
  <2>6. ModeInv'
    BY <1>1, <1>3, <1>5, <2>1, <2>5 DEF ModeInv, Reading, Emphases, Modes
  <2>7. CallsInv' BY <1>1, <1>2, <1>4, <1>5, <2>1 DEF CallsInv
  <2> QED BY <1>7, <2>4, <2>6, <2>7 DEF LineInv
<1> QED BY <1>8, <1>9

(* What EndOf does, by EndEmphasis and at the end.                         *)
LEMMA EndOfKeepsOutput ==
    ASSUME LineInv, NEW mode \in Emphases, copy_mode \in {mode, "NORMAL"}, EndOf(mode),
           UNCHANGED options
    PROVE  OutputInv' /\ copy_mode' = "NORMAL"
<1>1. copy_mode \in Modes /\ Tidy(output) /\ Held(output, copy_mode)
  BY DEF LineInv, ModeInv, OutputInv
<1>2. CASE Useless
  <2>1. UNCHANGED <<copy_mode, output>> /\ copy_mode = "NORMAL"
    BY <1>2 DEF EndOf, LineInv, ModeInv
  <2> QED BY <1>1, <2>1, OutputFrame
<1>3. CASE ~Useless
  <2>1. output' = output \o EndMarks(End(mode)) /\ copy_mode' = "NORMAL"
    BY <1>3 DEF EndOf
  <2>2. Held(output, mode) \/ Held(output, "NORMAL") BY <1>1
  <2>3. Tidy(output') /\ Held(output', copy_mode') BY <1>1, <2>1, <2>2, Ended
  <2> QED BY <2>1, <2>3, OutputFrame
<1> QED BY <1>2, <1>3

LEMMA EndEmphasisKeepsLines ==
    ASSUME LineInv, EndEmphasis
    PROVE  LineInv'
<1> USE DEF inputs, readers, counts, control
<1> DEFINE mode == Head(calls).mode
<1>1. /\ UNCHANGED <<options, text, next, pc>>
      /\ calls # <<>> /\ Head(calls).fn = "end" /\ calls' = <<>> \o Tail(calls)
      /\ EndOf(mode)
  BY DEF EndEmphasis, Called, Then
<1>2. /\ Head(calls) \in CallSet /\ Tail(calls) \in Seq(CallSet) /\ Matched(Tail(calls))
      /\ \A m : Closes(calls, m) => Head(calls) = end_of(m)
  BY <1>1, TailCalls DEF LineInv, CallsInv, Loud
<1>3. mode \in Emphases BY <1>1, <1>2, CallKinds
<1>4. calls' = Tail(calls) BY <1>1, <1>2
<1>5. pc \in Reading BY <1>1 DEF LineInv, CallsInv
<1>6. copy_mode \in {mode, "NORMAL"}
  <2>1. CASE copy_mode # "NORMAL"
    <3>1. Head(calls) = end_of(copy_mode) BY <1>2, <1>5, <2>1 DEF LineInv, CallsInv
    <3> QED BY <3>1 DEF end_of
  <2> QED BY <2>1
<1> HIDE DEF mode
<1>7. OutputInv' /\ copy_mode' = "NORMAL" BY <1>1, <1>3, <1>6, EndOfKeepsOutput
<1>8. TextInv' BY <1>1, TextFrame DEF LineInv
<1>9. ModeInv' /\ CallsInv'
  BY <1>1, <1>2, <1>4, <1>5, <1>7 DEF ModeInv, CallsInv, Modes
<1> QED BY <1>7, <1>8, <1>9 DEF LineInv

(* No separator line is written while an emphasis is on.                   *)
LEMMA PutSeparatorKeepsLines ==
    ASSUME LineInv, PutSeparator
    PROVE  LineInv'
<1> USE DEF inputs, readers, counts, control
<1> DEFINE nl == Other("newline", "wdiff")
           sep == Other("separator", "wdiff")
<1>1. /\ UNCHANGED <<options, text, next, pc, copy_mode>>
      /\ calls # <<>> /\ Head(calls).fn = "separator" /\ calls' = <<>> \o Tail(calls)
      /\ output' = output \o <<nl, sep, nl>>
  BY DEF PutSeparator, Called, Then
<1>2. /\ Tail(calls) \in Seq(CallSet) /\ Matched(Tail(calls))
      /\ \A m : Closes(calls, m) => Head(calls) = end_of(m)
  BY <1>1, TailCalls DEF LineInv, CallsInv, Loud
<1>3. calls' = Tail(calls) BY <1>1, <1>2
<1>4. copy_mode = "NORMAL"
  <2>1. \A m : Head(calls) # end_of(m) BY <1>1 DEF end_of
  <2>2. pc \in Reading BY <1>1 DEF LineInv, CallsInv
  <2> QED BY <1>2, <2>1, <2>2 DEF LineInv, CallsInv
<1>5. ModeInv' /\ CallsInv' /\ TextInv'
  BY <1>1, <1>2, <1>3, <1>4, TextFrame DEF LineInv, ModeInv, CallsInv, Useless, inhibited
<1>6. /\ nl \in Written /\ sep \in Written
      /\ nl.from \notin {"term", "user"} /\ sep.from \notin {"term", "user"}
      /\ sep.kind # "newline"
  BY OtherIsWritten DEF LineInv, ModeInv
<1>7. Tidy(output) /\ Held(output, "NORMAL") BY <1>4 DEF LineInv, OutputInv
<1> DEFINE o1 == output \o <<nl>>
           o2 == o1 \o <<sep>>
<1>8. output' = o2 \o <<nl>>
  <2>1. output \in Seq(Written) BY <1>7 DEF Tidy
  <2> HIDE DEF nl, sep
  <2> QED BY <1>1, <1>6, <2>1
<1> HIDE DEF nl, sep
<1>9. Tidy(o1) /\ Held(o1, "NORMAL") BY <1>6, <1>7, PlainWhenNormal, NoMark
<1> HIDE DEF o1
<1>10. Tidy(o2) /\ Held(o2, "NORMAL") BY <1>6, <1>9, PlainWhenNormal, NoMark
<1> HIDE DEF o2
<1>11. Tidy(output') /\ Held(output', "NORMAL") BY <1>6, <1>8, <1>10, PlainWhenNormal, NoMark
<1>12. OutputInv' BY <1>1, <1>4, <1>11, OutputFrame
<1> QED BY <1>5, <1>12 DEF LineInv

LEMMA CompleteOutputKeepsLines ==
    ASSUME LineInv, CompleteOutput
    PROVE  LineInv'
<1> USE DEF inputs, readers, counts, control
<1>1. /\ UNCHANGED <<options, text, next, calls>> /\ pc = "cleanup" /\ pc' = "report"
  BY DEF CompleteOutput
<1>2. OutputInv' /\ copy_mode' = "NORMAL"
  <2>1. CASE copy_mode = "NORMAL"
    <3>1. UNCHANGED <<copy_mode, output>> BY <2>1 DEF CompleteOutput, PendingEnded
    <3> QED BY <1>1, <2>1, <3>1, OutputFrame DEF LineInv, OutputInv
  <2>2. CASE copy_mode # "NORMAL"
    <3>1. EndOf(copy_mode) BY <2>2 DEF CompleteOutput, PendingEnded
    <3>2. copy_mode \in Emphases BY <2>2 DEF LineInv, ModeInv, Modes, Emphases
    <3> QED BY <1>1, <3>1, <3>2, EndOfKeepsOutput
  <2> QED BY <2>1, <2>2
<1>3. ModeInv' /\ CallsInv' /\ TextInv'
  BY <1>1, <1>2, TextFrame DEF LineInv, ModeInv, CallsInv, Modes, Reading
<1> QED BY <1>2, <1>3 DEF LineInv

(* A shorter text alternates, and the reader is not behind its end.        *)
LEMMA ShrinkKeepsLines ==
    ASSUME LineInv, Shrink
    PROVE  LineInv'
<1> USE DEF readers, counts
<1>1. UNCHANGED <<options, next, calls, pc, copy_mode, output>> BY DEF Shrink
<1>2. PICK s \in Side, n \in 0..(2 * MaxWords) :
             /\ next[s] - 1 <= n /\ n < Len(text[s])
             /\ text' = [text EXCEPT ![s] = SubSeq(text[s], 1, n)]
  BY DEF Shrink
<1>3. TextInv'
  <2> SUFFICES ASSUME NEW r \in Side
               PROVE  Alternating(text'[r]) /\ next[r] \in 1..(Len(text'[r]) + 1)
    BY <1>1 DEF TextInv
  <2>1. Alternating(text[r]) /\ next[r] \in 1..(Len(text[r]) + 1) BY DEF LineInv, TextInv
  <2>2. CASE text'[r] = text[r] BY <2>1, <2>2
  <2>3. CASE r = s /\ text'[r] = SubSeq(text[r], 1, n)
    <3> DEFINE t == text[r]
               u == SubSeq(t, 1, n)
    <3>1. n \in Nat /\ t \in Seq(Items) /\ n < Len(t) /\ Len(t) \in Nat
      BY <1>2, <2>1, <2>3, OptionsAssumption DEF Alternating, OptionsAssumption
    <3>2. u \in Seq(Items) /\ Len(u) = n
      BY <3>1
    <3>6. ASSUME NEW i \in 1..n PROVE u[i] = t[i]
      BY <3>1
    <3>3. ASSUME NEW i \in 1..(n - 1) PROVE (u[i] = "word") # (u[i + 1] = "word")
      <4>1. i \in 1..n /\ i + 1 \in 1..n /\ i \in 1..(Len(t) - 1) BY <3>1
      <4>2. u[i] = t[i] /\ u[i + 1] = t[i + 1] BY <3>6, <4>1
      <4> HIDE DEF t, u
      <4> QED BY <2>1, <4>1, <4>2 DEF Alternating, t
    <3>4. Alternating(u)
      <4> HIDE DEF t, u
      <4> QED BY <3>2, <3>3 DEF Alternating
    <3>5. next[r] \in 1..(n + 1) BY <1>2, <2>1, <2>3, <3>1
    <3> QED BY <2>3, <3>2, <3>4, <3>5
  <2> QED BY <1>2, <2>2, <2>3
<1>4. ModeInv' /\ CallsInv' BY <1>1 DEF LineInv, ModeInv, CallsInv, Useless, inhibited
<1>5. OutputInv' BY <1>1, OutputFrame DEF LineInv, OutputInv
<1> QED BY <1>3, <1>4, <1>5 DEF LineInv

LEMMA OthersKeepLines ==
    ASSUME LineInv, Return \/ Report \/ Interrupt \/ Terminated \/ UNCHANGED vars
    PROVE  LineInv'
<1> USE DEF inputs, readers, counts, control
<1>1. UNCHANGED <<options, text, next, calls, copy_mode, output>>
  BY DEF Return, Report, Interrupt, Terminated, vars
<1>2. \/ pc' = pc
      \/ pc = "remainder" /\ calls = <<>> /\ pc' = "cleanup"
      \/ pc = "report" /\ pc' = "exited"
  BY DEF Return, Report, Interrupt, Terminated, vars
<1>3. ModeInv' /\ CallsInv'
  BY <1>1, <1>2, NoCalls DEF LineInv, ModeInv, CallsInv, Useless, inhibited, Reading
<1>4. TextInv' /\ OutputInv' BY <1>1, TextFrame, OutputFrame DEF LineInv, OutputInv
<1> QED BY <1>3, <1>4 DEF LineInv

LEMMA LineNext ==
    ASSUME LineInv, CountsInv, [Next]_vars
    PROVE  LineInv'
BY ReadDirectiveKeepsLines, CopyUntilOrdinalKeepsLines, SkipUntilOrdinalKeepsLines,
   CopyWhitespaceKeepsLines, CopyWordKeepsLines, StartEmphasisKeepsLines,
   EndEmphasisKeepsLines, PutSeparatorKeepsLines, CompleteOutputKeepsLines,
   ShrinkKeepsLines, OthersKeepLines
   DEF Next, Reformat

(* Whatever the text, the script, the options and the markers, and         *)
(* wherever a signal comes: no line of the output ends while an emphasis   *)
(* is on, nor does the run.                                                *)
THEOREM Lines == Spec => []LinesEndPlain
<1>1. Init => LineInv /\ CountsInv BY LineInit, CountsInit
<1>2. LineInv /\ CountsInv /\ [Next]_vars => (LineInv /\ CountsInv)'
  BY LineNext, CountsNext
<1>3. LineInv => LinesEndPlain
  <2> SUFFICES ASSUME LineInv PROVE LinesEndPlain OBVIOUS
  <2>1. \A i, from : On(i, from) <=> OnIn(output, i, from) BY DEF On, OnIn, Marks
  <2>2. \A i \in DOMAIN output : output[i].kind = "newline" => PlainAt(output, i)
    BY DEF LineInv, OutputInv, Tidy
  <2>3. pc = "exited" => copy_mode = "NORMAL" BY DEF LineInv, ModeInv
  <2>4. pc = "exited" => \A from \in {"user", "term"} :
                            Closable(from) => ~OnIn(output, Len(output) + 1, from)
    BY <2>3 DEF LineInv, OutputInv, Held, OnAfter
  <2> QED BY <2>1, <2>2, <2>4 DEF LinesEndPlain, PlainAt
<1> QED BY <1>1, <1>2, <1>3, PTL DEF Spec

-----------------------------------------------------------------------------
(***************************************************************************)
(* Types.                                                                  *)
(***************************************************************************)

(* What LineInv, CountsInv and StatusInv do not say.                       *)
RestType ==
    /\ options \in Options
    /\ \A s \in Side : total[s] \in 0..MaxWords
    /\ position \in [Side -> Nat]
    /\ next \in [Side -> Nat \ {0}]
    /\ interrupted \in BOOLEAN
    /\ exit_status \in {-1, 0, 1, 2}

LEMMA RestInit == Init => RestType
<1> SUFFICES ASSUME Init PROVE RestType OBVIOUS
<1>1. \A s \in Side : total[s] \in 0..MaxWords BY WordsInType DEF Init
<1>2. position \in [Side -> Nat] /\ next \in [Side -> Nat \ {0}] BY DEF Init
<1>3. options \in Options /\ interrupted \in BOOLEAN /\ exit_status = -1 BY DEF Init
<1> QED BY <1>1, <1>2, <1>3 DEF RestType

LEMMA RestNext ==
    ASSUME LineInv, LineInv', RestType, [Next]_vars
    PROVE  RestType'
<1> USE DEF inputs, readers, counts, control, LongJump
<1>1. UNCHANGED <<options, total>>
  BY DEF Next, Reformat, ReadDirective, CopyUntilOrdinal, SkipUntilOrdinal, CopyWhitespace,
         CopyWord, StartEmphasis, EndEmphasis, PutSeparator, Return, CompleteOutput, Report,
         Interrupt, Shrink, Terminated, vars
<1>2. interrupted' \in BOOLEAN
  BY DEF RestType, Next, Reformat, ReadDirective, CopyUntilOrdinal, SkipUntilOrdinal,
         CopyWhitespace, CopyWord, StartEmphasis, EndEmphasis, PutSeparator, Return,
         CompleteOutput, Report, Interrupt, Shrink, Terminated, vars
<1>3. exit_status' \in {-1, 0, 1, 2}
  BY DEF RestType, Status, Next, Reformat, ReadDirective, CopyUntilOrdinal, SkipUntilOrdinal,
         CopyWhitespace, CopyWord, StartEmphasis, EndEmphasis, PutSeparator, Return,
         CompleteOutput, Report, Interrupt, Shrink, Terminated, vars
<1>4. \/ UNCHANGED position
      \/ \E s : position' = [position EXCEPT ![s] = position[s] + 1]
  <2>1. CASE CopyWord
    BY <2>1 DEF CopyWord, Counted
  <2>2. CASE SkipUntilOrdinal
    BY <2>2 DEF SkipUntilOrdinal, Counted
  <2>3. CASE [Next]_vars /\ ~CopyWord /\ ~SkipUntilOrdinal
    BY <2>3 DEF Next, Reformat, ReadDirective, CopyUntilOrdinal,
         CopyWhitespace, StartEmphasis, EndEmphasis, PutSeparator, Return,
         CompleteOutput, Report, Interrupt, Shrink, Terminated, vars
  <2> QED BY <2>1, <2>2, <2>3
<1>5. \/ UNCHANGED next
      \/ \E s, n : next' = [next EXCEPT ![s] = n]
  <2>1. CASE CopyWord
    BY <2>1 DEF CopyWord
  <2>2. CASE SkipUntilOrdinal
    BY <2>2 DEF SkipUntilOrdinal
  <2>3. CASE CopyWhitespace
    BY <2>3 DEF CopyWhitespace
  <2>4. CASE [Next]_vars /\ ~CopyWord /\ ~SkipUntilOrdinal /\ ~CopyWhitespace
    BY <2>4 DEF Next, Reformat, ReadDirective, CopyUntilOrdinal,
         StartEmphasis, EndEmphasis, PutSeparator, Return,
         CompleteOutput, Report, Interrupt, Shrink, Terminated, vars
  <2> QED BY <2>1, <2>2, <2>3, <2>4
<1>6. position' \in [Side -> Nat] BY <1>4 DEF RestType
<1>7. next' \in [Side -> Nat \ {0}]
  <2>1. \A s \in Side : next'[s] \in Nat \ {0}
    <3> SUFFICES ASSUME NEW s \in Side PROVE next'[s] \in Nat \ {0} OBVIOUS
    <3>1. next'[s] \in 1..(Len(text'[s]) + 1) /\ text'[s] \in Seq(Items)
      BY DEF LineInv, TextInv, Alternating
    <3>2. Len(text'[s]) \in Nat BY <3>1
    <3> QED BY <3>1, <3>2
  <2>2. next' = [s \in Side |-> next'[s]] BY <1>5 DEF RestType
  <2> QED BY <2>1, <2>2
<1> QED BY <1>1, <1>2, <1>3, <1>6, <1>7 DEF RestType

(* Every variable has its type, for inputs and options of every size.      *)
THEOREM Types == Spec => []TypeOK
<1> DEFINE All == LineInv /\ CountsInv /\ StatusInv /\ RestType
<1>1. Init => All BY LineInit, CountsInit, StatusInit, RestInit
<1>2. All /\ [Next]_vars => All'
  <2> SUFFICES ASSUME All, [Next]_vars PROVE All' OBVIOUS
  <2>1. LineInv' BY LineNext
  <2>2. CountsInv' BY CountsNext
  <2>3. StatusInv' BY StatusNext
  <2>4. RestType' BY <2>1, RestNext
  <2> QED BY <2>1, <2>2, <2>3, <2>4
<1>3. All => TypeOK
  <2> SUFFICES ASSUME All PROVE TypeOK OBVIOUS
  <2>1. obeyed \in 0..Len(script) BY DEF CountsInv, CountsType
  <2>2. \A i \in DOMAIN calls :
          calls[i].fn \in {"copy_until_ordinal", "skip_until_ordinal", "copy_whitespace",
                          "copy_word", "start", "end", "separator"}
    BY CallKinds DEF LineInv, CallsInv
  <2>3. \A s \in Side : text[s] \in Seq(Items) /\ total[s] \in 0..MaxWords
    BY DEF LineInv, TextInv, Alternating, RestType
  <2>4. output \in Seq(Written) BY DEF LineInv, OutputInv, Tidy
  <2>5. copy_mode \in Modes /\ pc \in Reading \cup {"cleanup", "report", "exited"}
    BY DEF LineInv, ModeInv, CallsInv
  <2>6. isolated \in [Side -> Nat] /\ changed \in [Side -> Nat] BY DEF StatusInv
  <2> QED BY <2>1, <2>2, <2>3, <2>4, <2>5, <2>6
          DEF TypeOK, RestType, Written, Modes, Reading
<1> QED BY <1>1, <1>2, <1>3, PTL DEF Spec

-----------------------------------------------------------------------------
(***************************************************************************)
(* What is printed is what the script says of the files: a word is         *)
(* emphasised exactly when a directive names it, and text whose words are  *)
(* all shown is shown whole.                                               *)
(*                                                                         *)
(* The two readers are advanced by calls that name ordinals, and an        *)
(* ordinal is counted up at the end of a file as well.  So the invariant   *)
(* follows each reader through all the calls that are still to be made:    *)
(* where it will be, whether it will be at a word, and in which mode.      *)
(***************************************************************************)
(***************************************************************************)
(* Words and their ordinals.                                               *)
(***************************************************************************)
WordsTo(t, i) == {k \in 1..i : t[k] = "word"}

LEMMA OrdinalIs ==
    ASSUME NEW s \in Side, NEW i \in Nat
    PROVE  /\ IsFiniteSet(WordsTo(text[s], i))
           /\ Ordinal(s, i) = Cardinality(WordsTo(text[s], i)) /\ Ordinal(s, i) \in Nat
<1>1. IsFiniteSet(1..i) BY FS_Interval
<1>2. WordsTo(text[s], i) \in SUBSET (1..i) BY DEF WordsTo
<1>3. IsFiniteSet(WordsTo(text[s], i)) BY <1>1, <1>2, FS_Subset
<1>4. Ordinal(s, i) = Cardinality(WordsTo(text[s], i)) BY DEF Ordinal, WordsTo
<1> QED BY <1>3, <1>4, FS_CardinalityType

LEMMA OrdinalNext ==
    ASSUME NEW s \in Side, NEW i \in Nat \ {0}
    PROVE  Ordinal(s, i) = Ordinal(s, i - 1) + (IF text[s][i] = "word" THEN 1 ELSE 0)
<1> DEFINE a == WordsTo(text[s], i - 1)
           b == WordsTo(text[s], i)
<1>1. IsFiniteSet(a) /\ Ordinal(s, i - 1) = Cardinality(a) /\ Ordinal(s, i - 1) \in Nat
  BY OrdinalIs
<1>2. Ordinal(s, i) = Cardinality(b) BY OrdinalIs
<1>3. CASE text[s][i] = "word"
  <2>1. b = a \cup {i} /\ i \notin a BY <1>3 DEF WordsTo
  <2> HIDE DEF a, b
  <2>2. Cardinality(b) = Cardinality(a) + 1 BY <1>1, <2>1, FS_AddElement
  <2> QED BY <1>1, <1>2, <1>3, <2>2
<1>4. CASE text[s][i] # "word"
  <2>1. b = a
    <3>1. \A k \in 1..i : k = i \/ k \in 1..(i - 1) OBVIOUS
    <3>2. 1..(i - 1) \subseteq 1..i OBVIOUS
    <3> QED BY <1>4, <3>1, <3>2 DEF WordsTo
  <2> QED BY <1>1, <1>2, <1>4, <2>1
<1> QED BY <1>3, <1>4

LEMMA OrdinalGrows ==
    ASSUME NEW s \in Side, NEW i \in Nat, NEW j \in Nat, i <= j
    PROVE  Ordinal(s, i) <= Ordinal(s, j)
<1>1. WordsTo(text[s], i) \in SUBSET WordsTo(text[s], j) BY DEF WordsTo
<1> QED BY <1>1, OrdinalIs, FS_Subset

LEMMA OrdinalOfAll ==
    ASSUME NEW s \in Side, text[s] \in Seq(Items)
    PROVE  Ordinal(s, Len(text[s])) = WordsIn(text[s])
<1>1. DOMAIN text[s] = 1..Len(text[s]) OBVIOUS
<1> QED BY <1>1 DEF Ordinal, WordsIn

(* A text that loses its end has no more words, the others where they were.*)
LEMMA Shortened ==
    ASSUME NEW s \in Side, NEW t, t \in Seq(Items), Len(t) <= Len(text[s]),
           text[s] \in Seq(Items), \A i \in 1..Len(t) : t[i] = text[s][i]
    PROVE  /\ WordsIn(t) <= WordsIn(text[s])
           /\ \A i \in 0..Len(t) : WordsTo(t, i) = WordsTo(text[s], i)
<1>1. Len(t) \in Nat /\ Len(text[s]) \in Nat /\ DOMAIN t = 1..Len(t) OBVIOUS
<1>2. ASSUME NEW i \in 0..Len(t) PROVE WordsTo(t, i) = WordsTo(text[s], i)
  <2>1. \A k \in 1..i : k \in 1..Len(t) BY <1>1
  <2> QED BY <2>1 DEF WordsTo
<1>3. Len(t) \in 0..Len(t) BY <1>1
<1>4. WordsTo(t, Len(t)) = WordsTo(text[s], Len(t)) BY <1>2, <1>3
<1>5. WordsIn(t) = Ordinal(s, Len(t))
  <2>1. WordsIn(t) = Cardinality(WordsTo(t, Len(t))) BY <1>1 DEF WordsIn, WordsTo
  <2> QED BY <1>1, <1>4, <2>1, OrdinalIs
<1>6. Ordinal(s, Len(t)) <= Ordinal(s, Len(text[s])) BY <1>1, OrdinalGrows
<1> QED BY <1>2, <1>5, <1>6, OrdinalOfAll

-----------------------------------------------------------------------------
(***************************************************************************)
(* What the directives name.                                               *)
(***************************************************************************)
Named(s, o, n) == \E k \in 1..n : o \in FirstWord(script[k], s)..LastWord(script[k], s)

(* The range that is empty is printed as one line.                         *)
Shaped(h) ==
    /\ h.letter = "a" => h["left"][1] = h["left"][2]
    /\ h.letter = "d" => h["right"][1] = h["right"][2]

(* Directives are in order: none names a word behind those of the last.    *)
BehindInv ==
    /\ \A n \in DOMAIN script : Shaped(script[n])
    /\ \A s \in Side :
         /\ Accounted(script, obeyed, s) \in Nat
         /\ \A k \in 1..obeyed : LastWord(script[k], s) <= Accounted(script, obeyed, s)

LEMMA ScriptsAreShaped ==
    ASSUME NEW a \in Nat, NEW b \in Nat, NEW sc \in Scripts(a, b), NEW n \in DOMAIN sc
    PROVE  Shaped(sc[n])
<1>1. \A h \in Hunks(a, b) : Shaped(h) BY DEF Hunks, Hunk, Shaped
<1>2. PICK m \in 0..((a + b + 2) \div 3) :
             sc \in [1..m -> {h \in Hunks(a, b) : WellFormed(h)}]
  BY DEF Scripts
<1> QED BY <1>1, <1>2

LEMMA BehindInit == Init => BehindInv
<1> SUFFICES ASSUME Init PROVE BehindInv OBVIOUS
<1> USE OptionsAssumption DEF OptionsAssumption
<1>1. \A s \in Side : total[s] \in Nat
  BY WordsInType DEF Init
<1>2. script \in Scripts(total["left"], total["right"])
  BY <1>1, WordsInType DEF Init, ScriptsOf, Side
<1>3. \A n \in DOMAIN script : Shaped(script[n])
  BY <1>1, <1>2, ScriptsAreShaped DEF Side
<1>4. \A s \in Side : Accounted(script, obeyed, s) = 0 BY DEF Init, Accounted
<1>5. 1..obeyed = {} BY DEF Init
<1> QED BY <1>3, <1>4, <1>5 DEF BehindInv

(* A directive: what it names begins behind all that was accounted for.    *)
LEMMA NextHunk ==
    ASSUME CountsInv, BehindInv, NEW n, n = obeyed + 1, n \in DOMAIN script,
           NEW s \in Side
    PROVE  /\ script[n] \in HunkType /\ WellFormed(script[n]) /\ Shaped(script[n])
           /\ n \in Nat \ {0} /\ n - 1 = obeyed
           /\ Accounted(script, n - 1, s) \in Nat
           /\ Accounted(script, n, s) = LastWord(script[n], s)
           /\ FirstWord(script[n], s) \in Int /\ LastWord(script[n], s) \in Int
           /\ Accounted(script, n - 1, s) < FirstWord(script[n], s)
           /\ FirstWord(script[n], s) <= LastWord(script[n], s) + 1
<1>1. n \in Nat \ {0} /\ n - 1 = obeyed /\ script[n] \in HunkType
  BY DEF CountsInv, CountsType
<1>2. WellFormed(script[n]) /\ Shaped(script[n])
  BY DEF CountsInv, IsScript, BehindInv
<1>3. Accounted(script, n - 1, s) \in Nat BY <1>1 DEF BehindInv
<1>4. Accounted(script, n, s) = LastWord(script[n], s) BY <1>1 DEF Accounted
<1>5. FirstWord(script[n], s) \in Int /\ LastWord(script[n], s) \in Int
  BY <1>1 DEF FirstWord, LastWord, HunkType, Side
<1>6. Gap(script, n, s) >= 0
  <2>1. Gap(script, n, "left") = Gap(script, n, "right")
        /\ Gap(script, n, "left") >= (IF n = 1 THEN 0 ELSE 1)
    BY DEF CountsInv, IsScript
  <2>2. Gap(script, n, s) >= (IF n = 1 THEN 0 ELSE 1) BY <2>1 DEF Side
  <2>3. Gap(script, n, s) \in Int BY <1>3, <1>5 DEF Gap
  <2> QED BY <2>2, <2>3
<1>7. Accounted(script, n - 1, s) < FirstWord(script[n], s)
  BY <1>3, <1>5, <1>6 DEF Gap
<1>8. FirstWord(script[n], s) <= LastWord(script[n], s) + 1
  <2> DEFINE h == script[n]
  <2>1. h[s][1] \in Int /\ h[s][2] \in Int /\ h[s][1] <= h[s][2]
    BY <1>1, <1>2 DEF HunkType, WellFormed, Side
  <2> QED BY <2>1 DEF FirstWord, LastWord
<1> QED BY <1>1, <1>2, <1>3, <1>4, <1>5, <1>7, <1>8

LEMMA BehindNext ==
    ASSUME CountsInv, BehindInv, [Next]_vars
    PROVE  BehindInv'
<1>1. UNCHANGED script
  BY DEF Next, Reformat, ReadDirective, CopyUntilOrdinal, SkipUntilOrdinal, CopyWhitespace,
         CopyWord, StartEmphasis, EndEmphasis, PutSeparator, Return, CompleteOutput, Report,
         Interrupt, Shrink, Terminated, vars, inputs, control
<1>2. CASE UNCHANGED obeyed BY <1>1, <1>2 DEF BehindInv, Accounted, Shaped
<1>3. CASE obeyed' # obeyed
  <2>1. ReadDirective
    BY <1>3 DEF Next, Reformat, CopyUntilOrdinal, SkipUntilOrdinal, CopyWhitespace,
           CopyWord, StartEmphasis, EndEmphasis, PutSeparator, Return, CompleteOutput, Report,
           Interrupt, Shrink, Terminated, vars, inputs, control
  <2>2. obeyed' = obeyed + 1 /\ obeyed < Len(script)
    BY <1>3, <2>1 DEF ReadDirective
  <2> DEFINE n == obeyed + 1
  <2>3. n \in DOMAIN script BY <2>2 DEF CountsInv, CountsType
  <2>4. ASSUME NEW s \in Side
        PROVE  /\ Accounted(script, n, s) \in Nat
               /\ \A k \in 1..n : LastWord(script[k], s) <= Accounted(script, n, s)
    <3>1. /\ n \in Nat \ {0} /\ n - 1 = obeyed
          /\ Accounted(script, n - 1, s) \in Nat
          /\ Accounted(script, n, s) = LastWord(script[n], s)
          /\ FirstWord(script[n], s) \in Int /\ LastWord(script[n], s) \in Int
          /\ Accounted(script, n - 1, s) < FirstWord(script[n], s)
          /\ FirstWord(script[n], s) <= LastWord(script[n], s) + 1
      BY <2>3, NextHunk
    <3>2. /\ Accounted(script, n - 1, s) <= Accounted(script, n, s)
          /\ Accounted(script, n, s) \in Nat
      BY <3>1
    <3>3. ASSUME NEW k \in 1..n PROVE LastWord(script[k], s) <= Accounted(script, n, s)
      <4>1. CASE k = n BY <3>1, <4>1
      <4>2. CASE k # n
        <5>1. k \in 1..obeyed BY <3>1, <4>2
        <5>2. LastWord(script[k], s) <= Accounted(script, n - 1, s) BY <3>1, <5>1 DEF BehindInv
        <5>3. script[k] \in HunkType BY <5>1 DEF CountsInv, CountsType
        <5>4. LastWord(script[k], s) \in Int BY <5>3 DEF LastWord, HunkType, Side
        <5> QED BY <3>1, <3>2, <5>2, <5>4
      <4> QED BY <4>1, <4>2
    <3> QED BY <3>2, <3>3
  <2>5. \A m \in DOMAIN script : Shaped(script[m]) BY DEF BehindInv
  <2> HIDE DEF n
  <2>6. obeyed' = n BY <2>2 DEF n
  <2> QED BY <1>1, <2>4, <2>5, <2>6 DEF BehindInv, Accounted, Shaped
<1> QED BY <1>2, <1>3

(* Which words behind those accounted for a new directive names.           *)
LEMMA NamedByNext ==
    ASSUME CountsInv, BehindInv, NEW n, n = obeyed + 1, n \in DOMAIN script,
           NEW s \in Side, NEW o \in Int
    PROVE  /\ o <= Accounted(script, n - 1, s) => (Named(s, o, n) <=> Named(s, o, n - 1))
           /\ o > Accounted(script, n - 1, s) =>
                (Named(s, o, n) <=> o \in FirstWord(script[n], s)..LastWord(script[n], s))
           /\ o > Accounted(script, n - 1, s) => ~Named(s, o, n - 1)
<1>1. /\ n \in Nat \ {0} /\ n - 1 = obeyed
      /\ Accounted(script, n - 1, s) \in Nat
      /\ FirstWord(script[n], s) \in Int /\ LastWord(script[n], s) \in Int
      /\ Accounted(script, n - 1, s) < FirstWord(script[n], s)
  BY NextHunk
<1>2. \A k \in 1..n : k = n \/ k \in 1..(n - 1) BY <1>1
<1>3. (\A k \in 1..(n - 1) : k \in 1..n) /\ n \in 1..n BY <1>1
<1>4. ASSUME o > Accounted(script, n - 1, s) PROVE ~Named(s, o, n - 1)
  <2> SUFFICES ASSUME NEW k \in 1..(n - 1), o \in FirstWord(script[k], s)..LastWord(script[k], s)
               PROVE  FALSE
    BY DEF Named
  <2>1. k \in 1..obeyed /\ script[k] \in HunkType BY <1>1 DEF CountsInv, CountsType
  <2>2. LastWord(script[k], s) \in Int BY <2>1 DEF LastWord, HunkType, Side
  <2>3. LastWord(script[k], s) <= Accounted(script, n - 1, s) BY <1>1, <2>1 DEF BehindInv
  <2> QED BY <1>1, <1>4, <2>2, <2>3
<1>5. ASSUME o <= Accounted(script, n - 1, s)
      PROVE  ~(o \in FirstWord(script[n], s)..LastWord(script[n], s))
  BY <1>1, <1>5
<1> QED BY <1>2, <1>3, <1>4, <1>5 DEF Named

LEMMA NamedBehind ==
    ASSUME CountsInv, BehindInv, NEW s \in Side, NEW o \in Int,
           o > Accounted(script, obeyed, s)
    PROVE  ~Named(s, o, obeyed)
<1> SUFFICES ASSUME NEW k \in 1..obeyed, o \in FirstWord(script[k], s)..LastWord(script[k], s)
             PROVE  FALSE
  BY DEF Named
<1>1. script[k] \in HunkType BY DEF CountsInv, CountsType
<1>2. LastWord(script[k], s) \in Int BY <1>1 DEF LastWord, HunkType, Side
<1>3. LastWord(script[k], s) <= Accounted(script, obeyed, s) BY DEF BehindInv
<1>4. Accounted(script, obeyed, s) \in Nat BY DEF BehindInv
<1> QED BY <1>2, <1>3, <1>4

-----------------------------------------------------------------------------
(***************************************************************************)
(* What the calls will do to the reader of side s, when n directives have  *)
(* been read.  Text that is to be shown whole is not skipped, and a word   *)
(* is copied only where one may be, in the mode that it deserves.          *)
(***************************************************************************)
Whole(s) == ~inhibited("common") /\ ~inhibited(Source) /\ s = Source

Truthful(s, n, o, mode) == (mode # "NORMAL") <=> Named(s, o, n)

Place == [pos : Int, ready : BOOLEAN, mode : Modes]

Reads(c, s) ==
    c.fn \in {"copy_whitespace", "copy_word", "copy_until_ordinal", "skip_until_ordinal"}
      /\ c.side = s

ModeAfter(c, mode) ==
    IF c.fn = "start" THEN c.mode ELSE IF c.fn = "end" THEN "NORMAL" ELSE mode

ReadsOn(s, n, c, p, q) ==
    \/ c.fn = "copy_whitespace" /\ q.pos = p.pos /\ q.ready
    \/ /\ c.fn = "copy_word" /\ p.ready /\ Truthful(s, n, p.pos + 1, p.mode)
       /\ q.pos = p.pos + 1 /\ ~q.ready
    \/ /\ c.fn = "copy_until_ordinal" /\ p.pos <= c.ordinal
       /\ \A o \in (p.pos + 1)..c.ordinal : Truthful(s, n, o, p.mode)
       /\ q.pos = c.ordinal /\ ~q.ready
    \/ /\ c.fn = "skip_until_ordinal" /\ ~Whole(s) /\ p.pos <= c.ordinal
       /\ q.pos = c.ordinal /\ ~q.ready

Step(s, n, c, p, q) ==
    /\ q.mode = ModeAfter(c, p.mode)
    /\ Reads(c, s) => ReadsOn(s, n, c, p, q)
    /\ ~Reads(c, s) => q.pos = p.pos /\ q.ready = p.ready

Trace(s, n, cs, f) == \A i \in 1..Len(cs) : Step(s, n, cs[i], f[i - 1], f[i])

Leads(s, n, cs, p, q) ==
    \E f \in [0..Len(cs) -> Place] : f[0] = p /\ f[Len(cs)] = q /\ Trace(s, n, cs, f)

LEMMA LeadsNowhere ==
    ASSUME NEW s, NEW n, NEW p \in Place
    PROVE  Leads(s, n, <<>>, p, p)
<1> DEFINE f == [i \in 0..Len(<<>>) |-> p]
<1>1. f \in [0..Len(<<>>) -> Place] /\ f[0] = p /\ f[Len(<<>>)] = p OBVIOUS
<1>2. Trace(s, n, <<>>, f) BY DEF Trace
<1> QED BY <1>1, <1>2 DEF Leads

LEMMA LedNowhere ==
    ASSUME NEW s, NEW n, NEW p, NEW q, Leads(s, n, <<>>, p, q)
    PROVE  q = p
BY DEF Leads

LEMMA LeadsByOne ==
    ASSUME NEW s, NEW n, NEW c, NEW p \in Place, NEW q \in Place, Step(s, n, c, p, q)
    PROVE  Leads(s, n, <<c>>, p, q)
<1> DEFINE f == [i \in 0..1 |-> IF i = 0 THEN p ELSE q]
<1>1. Len(<<c>>) = 1 /\ <<c>>[1] = c OBVIOUS
<1>2. f \in [0..1 -> Place] /\ f[0] = p /\ f[1] = q OBVIOUS
<1>3. Trace(s, n, <<c>>, f)
  <2> SUFFICES ASSUME NEW i \in 1..1 PROVE Step(s, n, <<c>>[i], f[i - 1], f[i])
    BY <1>1 DEF Trace
  <2>1. i = 1 /\ i - 1 = 0 OBVIOUS
  <2> QED BY <1>1, <1>2, <2>1
<1> HIDE DEF f
<1> QED BY <1>1, <1>2, <1>3 DEF Leads

LEMMA LeadsOn ==
    ASSUME NEW s, NEW n, NEW a \in Seq(CallSet), NEW b \in Seq(CallSet),
           NEW p, NEW r, NEW q, Leads(s, n, a, p, r), Leads(s, n, b, r, q)
    PROVE  Leads(s, n, a \o b, p, q)
<1>1. PICK f \in [0..Len(a) -> Place] : f[0] = p /\ f[Len(a)] = r /\ Trace(s, n, a, f)
  BY DEF Leads
<1>2. PICK g \in [0..Len(b) -> Place] : g[0] = r /\ g[Len(b)] = q /\ Trace(s, n, b, g)
  BY DEF Leads
<1> DEFINE c == a \o b
           h == [i \in 0..(Len(a) + Len(b)) |-> IF i <= Len(a) THEN f[i] ELSE g[i - Len(a)]]
<1>3. /\ Len(a) \in Nat /\ Len(b) \in Nat /\ Len(c) = Len(a) + Len(b)
      /\ \A i \in 1..Len(a) : c[i] = a[i]
      /\ \A i \in 1..Len(b) : c[Len(a) + i] = b[i]
  OBVIOUS
<1> HIDE DEF c
<1>4. ASSUME NEW i \in 0..(Len(a) + Len(b)) PROVE h[i] \in Place
  <2>1. CASE i <= Len(a)
    <3>1. i \in 0..Len(a) /\ h[i] = f[i] BY <1>3, <2>1
    <3> QED BY <3>1
  <2>2. CASE ~(i <= Len(a))
    <3>1. i - Len(a) \in 0..Len(b) /\ h[i] = g[i - Len(a)] BY <1>3, <2>2
    <3> QED BY <3>1
  <2> QED BY <2>1, <2>2
<1>5. \A i \in 0..Len(a) : h[i] = f[i] BY <1>3
<1>6. ASSUME NEW i \in 0..Len(b) PROVE h[Len(a) + i] = g[i]
  <2>1. Len(a) + i \in 0..(Len(a) + Len(b)) /\ (Len(a) + i) - Len(a) = i BY <1>3
  <2>2. CASE i = 0
    <3>1. Len(a) + i = Len(a) /\ Len(a) \in 0..Len(a) BY <1>3, <2>2
    <3> QED BY <1>1, <1>2, <1>5, <2>2, <3>1
  <2>3. CASE i # 0
    <3>1. ~(Len(a) + i <= Len(a)) BY <1>3, <2>3
    <3> QED BY <2>1, <3>1
  <2> QED BY <2>2, <2>3
<1>7. h \in [0..Len(c) -> Place] BY <1>3, <1>4
<1> HIDE DEF h
<1>8. h[0] = p BY <1>1, <1>3, <1>5
<1>9. h[Len(c)] = q BY <1>2, <1>3, <1>6
<1>10. ASSUME NEW i \in 1..Len(c) PROVE Step(s, n, c[i], h[i - 1], h[i])
  <2>1. CASE i \in 1..Len(a)
    <3>1. i - 1 \in 0..Len(a) /\ i \in 0..Len(a) BY <1>3, <2>1
    <3>2. Step(s, n, a[i], f[i - 1], f[i]) BY <1>1, <2>1 DEF Trace
    <3> QED BY <1>3, <1>5, <2>1, <3>1, <3>2
  <2>2. CASE i \notin 1..Len(a)
    <3> DEFINE j == i - Len(a)
    <3>1. j \in 1..Len(b) /\ j - 1 \in 0..Len(b) /\ j \in 0..Len(b) BY <1>3, <2>2
    <3>2. Len(a) + j = i /\ Len(a) + (j - 1) = i - 1 BY <1>3
    <3> HIDE DEF j
    <3>3. Step(s, n, b[j], g[j - 1], g[j]) BY <1>2, <3>1 DEF Trace
    <3>4. c[i] = b[j] /\ h[i] = g[j] /\ h[i - 1] = g[j - 1] BY <1>3, <1>6, <3>1, <3>2
    <3> QED BY <3>3, <3>4
  <2> QED BY <2>1, <2>2
<1> QED BY <1>7, <1>8, <1>9, <1>10 DEF Leads, Trace, c

LEMMA LedByHead ==
    ASSUME NEW s, NEW n, NEW c \in Seq(CallSet), c # <<>>, NEW p, NEW q,
           Leads(s, n, c, p, q)
    PROVE  \E r \in Place : Step(s, n, Head(c), p, r) /\ Leads(s, n, Tail(c), r, q)
<1>1. PICK f \in [0..Len(c) -> Place] : f[0] = p /\ f[Len(c)] = q /\ Trace(s, n, c, f)
  BY DEF Leads
<1> DEFINE t == Tail(c)
           g == [i \in 0..(Len(c) - 1) |-> f[i + 1]]
<1>2. /\ Len(c) \in Nat \ {0} /\ Head(c) = c[1] /\ Len(t) = Len(c) - 1
      /\ \A i \in 1..(Len(c) - 1) : t[i] = c[i + 1]
  OBVIOUS
<1> HIDE DEF t
<1>3. g \in [0..Len(t) -> Place]
  <2>1. \A i \in 0..(Len(c) - 1) : i + 1 \in 0..Len(c) BY <1>2
  <2> QED BY <1>2, <2>1
<1>4. g[0] = f[1] /\ g[Len(t)] = q
  <2>1. 0 \in 0..(Len(c) - 1) /\ Len(t) \in 0..(Len(c) - 1) /\ Len(t) + 1 = Len(c) BY <1>2
  <2> QED BY <1>1, <2>1
<1>5. ASSUME NEW i \in 1..Len(t) PROVE Step(s, n, t[i], g[i - 1], g[i])
  <2>1. i + 1 \in 1..Len(c) /\ (i + 1) - 1 = i /\ t[i] = c[i + 1] BY <1>2
  <2>2. g[i - 1] = f[i] /\ g[i] = f[i + 1] BY <1>2
  <2>3. Step(s, n, c[i + 1], f[(i + 1) - 1], f[i + 1]) BY <1>1, <2>1 DEF Trace
  <2> QED BY <2>1, <2>2, <2>3
<1>6. Step(s, n, c[1], f[0], f[1]) /\ f[1] \in Place
  <2>1. 1 \in 1..Len(c) /\ 1 \in 0..Len(c) /\ 1 - 1 = 0 BY <1>2
  <2>2. Step(s, n, c[1], f[1 - 1], f[1]) BY <1>1, <2>1 DEF Trace
  <2> QED BY <2>1, <2>2
<1> HIDE DEF g
<1>7. Leads(s, n, t, f[1], q) BY <1>3, <1>4, <1>5 DEF Leads, Trace
<1> QED BY <1>1, <1>2, <1>6, <1>7 DEF t

-----------------------------------------------------------------------------
(* The calls that obey a directive.                                        *)

At(pos, ready, mode) == [pos |-> pos, ready |-> ready, mode |-> mode]

LEMMA AtIsPlace ==
    ASSUME NEW pos \in Int, NEW ready \in BOOLEAN, NEW mode \in Modes
    PROVE  /\ At(pos, ready, mode) \in Place
           /\ At(pos, ready, mode).pos = pos /\ At(pos, ready, mode).ready = ready
           /\ At(pos, ready, mode).mode = mode
BY DEF At, Place

(* A call about the other side.                                            *)
LEMMA LeadsPast ==
    ASSUME NEW s, NEW n, NEW p \in Place, NEW cond, NEW c,
           ~Reads(c, s), c.fn \notin {"start", "end"}
    PROVE  Leads(s, n, When(cond, <<c>>), p, p)
<1>1. Step(s, n, c, p, p) BY DEF Step, ModeAfter
<1> QED BY <1>1, LeadsByOne, LeadsNowhere DEF When

LEMMA CopyLeads ==
    ASSUME NEW s, NEW n, NEW p \in Place, NEW o \in Int, p.pos <= o,
           \A x \in (p.pos + 1)..o : Truthful(s, n, x, p.mode)
    PROVE  Leads(s, n, <<copy_until_ordinal(s, o)>>, p, At(o, FALSE, p.mode))
<1> DEFINE c == copy_until_ordinal(s, o)
           q == At(o, FALSE, p.mode)
<1>1. q \in Place /\ q.pos = o /\ ~q.ready /\ q.mode = p.mode BY DEF At, Place
<1>2. c.fn = "copy_until_ordinal" /\ c.side = s /\ c.ordinal = o BY DEF copy_until_ordinal
<1> HIDE DEF c, q
<1>3. Step(s, n, c, p, q) BY <1>1, <1>2 DEF Step, ModeAfter, Reads, ReadsOn
<1>4. Leads(s, n, <<c>>, p, q) BY <1>1, <1>3, LeadsByOne
<1> QED BY <1>4 DEF c, q

LEMMA SkipLeads ==
    ASSUME NEW s, NEW n, NEW p \in Place, NEW o \in Int, p.pos <= o, ~Whole(s)
    PROVE  Leads(s, n, <<skip_until_ordinal(s, o)>>, p, At(o, FALSE, p.mode))
<1> DEFINE c == skip_until_ordinal(s, o)
           q == At(o, FALSE, p.mode)
<1>1. q \in Place /\ q.pos = o /\ ~q.ready /\ q.mode = p.mode BY DEF At, Place
<1>2. c.fn = "skip_until_ordinal" /\ c.side = s /\ c.ordinal = o BY DEF skip_until_ordinal
<1> HIDE DEF c, q
<1>3. Step(s, n, c, p, q) BY <1>1, <1>2 DEF Step, ModeAfter, Reads, ReadsOn
<1>4. Leads(s, n, <<c>>, p, q) BY <1>1, <1>3, LeadsByOne
<1> QED BY <1>4 DEF c, q

LEMMA LeadsByFive ==
    ASSUME NEW s, NEW n, NEW c1, NEW c2, NEW c3, NEW c4, NEW c5,
           NEW p0 \in Place, NEW p1 \in Place, NEW p2 \in Place,
           NEW p3 \in Place, NEW p4 \in Place, NEW p5 \in Place,
           Step(s, n, c1, p0, p1), Step(s, n, c2, p1, p2), Step(s, n, c3, p2, p3),
           Step(s, n, c4, p3, p4), Step(s, n, c5, p4, p5)
    PROVE  Leads(s, n, <<c1, c2, c3, c4, c5>>, p0, p5)
<1> DEFINE c == <<c1, c2, c3, c4, c5>>
           f == [i \in 0..5 |-> IF i = 0 THEN p0 ELSE IF i = 1 THEN p1 ELSE IF i = 2 THEN p2
                                ELSE IF i = 3 THEN p3 ELSE IF i = 4 THEN p4 ELSE p5]
<1>1. /\ Len(c) = 5 /\ c[1] = c1 /\ c[2] = c2 /\ c[3] = c3 /\ c[4] = c4 /\ c[5] = c5
  OBVIOUS
<1>2. /\ f \in [0..5 -> Place] /\ f[0] = p0 /\ f[1] = p1 /\ f[2] = p2
      /\ f[3] = p3 /\ f[4] = p4 /\ f[5] = p5
  OBVIOUS
<1> HIDE DEF c, f
<1>3. ASSUME NEW i \in 1..5 PROVE Step(s, n, c[i], f[i - 1], f[i])
  <2>1. i \in {1, 2, 3, 4, 5} OBVIOUS
  <2>2. 1 - 1 = 0 /\ 2 - 1 = 1 /\ 3 - 1 = 2 /\ 4 - 1 = 3 /\ 5 - 1 = 4 OBVIOUS
  <2> QED BY <1>1, <1>2, <2>1, <2>2
<1>4. Leads(s, n, c, p0, p5) BY <1>1, <1>2, <1>3 DEF Leads, Trace
<1> QED BY <1>4 DEF c

LEMMA LeadsByThree ==
    ASSUME NEW s, NEW n, NEW c1, NEW c2, NEW c3,
           NEW p0 \in Place, NEW p1 \in Place, NEW p2 \in Place, NEW p3 \in Place,
           Step(s, n, c1, p0, p1), Step(s, n, c2, p1, p2), Step(s, n, c3, p2, p3)
    PROVE  Leads(s, n, <<c1, c2, c3>>, p0, p3)
<1> DEFINE c == <<c1, c2, c3>>
           f == [i \in 0..3 |-> IF i = 0 THEN p0 ELSE IF i = 1 THEN p1
                                ELSE IF i = 2 THEN p2 ELSE p3]
<1>1. Len(c) = 3 /\ c[1] = c1 /\ c[2] = c2 /\ c[3] = c3 OBVIOUS
<1>2. f \in [0..3 -> Place] /\ f[0] = p0 /\ f[1] = p1 /\ f[2] = p2 /\ f[3] = p3
  OBVIOUS
<1> HIDE DEF c, f
<1>3. ASSUME NEW i \in 1..3 PROVE Step(s, n, c[i], f[i - 1], f[i])
  <2>1. i \in {1, 2, 3} OBVIOUS
  <2>2. 1 - 1 = 0 /\ 2 - 1 = 1 /\ 3 - 1 = 2 OBVIOUS
  <2> QED BY <1>1, <1>2, <2>1, <2>2
<1>4. Leads(s, n, c, p0, p3) BY <1>1, <1>2, <1>3 DEF Leads, Trace
<1> QED BY <1>4 DEF c

(* Words that directives name are emphasised.                              *)
LEMMA EmphasisedHere ==
    ASSUME NEW s \in Side, NEW n, NEW mode \in Emphases, NEW last \in Int, NEW p \in Place,
           p.pos + 1 <= last, \A o \in (p.pos + 1)..last : Named(s, o, n)
    PROVE  Leads(s, n, Emphasised(s, mode, last), p, At(last, FALSE, "NORMAL"))
<1>0. /\ p.pos \in Int /\ p.pos + 1 \in Int /\ p.mode \in Modes
      /\ mode \in Modes /\ "NORMAL" \in Modes /\ mode # "NORMAL"
  BY DEF Place, Modes, Emphases
<1> DEFINE c1 == copy_whitespace(s)
           c2 == start_of(mode)
           c3 == copy_word(s)
           c4 == copy_until_ordinal(s, last)
           c5 == end_of(mode)
           p1 == At(p.pos, TRUE, p.mode)
           p2 == At(p.pos, TRUE, mode)
           p3 == At(p.pos + 1, FALSE, mode)
           p4 == At(last, FALSE, mode)
           p5 == At(last, FALSE, "NORMAL")
<1>a. p1 \in Place /\ p1.pos = p.pos /\ p1.ready /\ p1.mode = p.mode
  BY <1>0 DEF At, Place
<1>b. p2 \in Place /\ p2.pos = p.pos /\ p2.ready /\ p2.mode = mode
  BY <1>0 DEF At, Place
<1>c. p3 \in Place /\ p3.pos = p.pos + 1 /\ ~p3.ready /\ p3.mode = mode
  BY <1>0 DEF At, Place
<1>d. p4 \in Place /\ p4.pos = last /\ p4.ready = FALSE /\ p4.mode = mode
  BY <1>0 DEF At, Place
<1>e. p5 \in Place /\ p5.pos = last /\ p5.ready = FALSE /\ p5.mode = "NORMAL"
  BY <1>0 DEF At, Place
<1>3. /\ c1.fn = "copy_whitespace" /\ c1.side = s
      /\ c2.fn = "start" /\ c2.mode = mode
      /\ c3.fn = "copy_word" /\ c3.side = s
      /\ c4.fn = "copy_until_ordinal" /\ c4.side = s /\ c4.ordinal = last
      /\ c5.fn = "end"
  BY DEF copy_whitespace, start_of, copy_word, copy_until_ordinal, end_of
<1>4. Emphasised(s, mode, last) = <<c1, c2, c3, c4, c5>> BY DEF Emphasised
<1> HIDE DEF c1, c2, c3, c4, c5, p1, p2, p3, p4, p5
<1>5. ASSUME NEW o \in (p.pos + 1)..last PROVE Truthful(s, n, o, mode)
  BY <1>0 DEF Truthful
<1>6. p.pos + 1 \in (p.pos + 1)..last BY <1>0
<1>7. \A o \in ((p.pos + 1) + 1)..last : o \in (p.pos + 1)..last BY <1>0
<1>8. Step(s, n, c1, p, p1) BY <1>a, <1>3 DEF Step, ModeAfter, Reads, ReadsOn
<1>9. Step(s, n, c2, p1, p2) BY <1>a, <1>b, <1>3 DEF Step, ModeAfter, Reads
<1>10. Step(s, n, c3, p2, p3)
  <2>1. Truthful(s, n, p2.pos + 1, p2.mode) BY <1>b, <1>5, <1>6
  <2> QED BY <1>b, <1>c, <1>3, <2>1 DEF Step, ModeAfter, Reads, ReadsOn
<1>11. Step(s, n, c4, p3, p4)
  <2>1. ASSUME NEW o \in (p3.pos + 1)..last PROVE Truthful(s, n, o, p3.mode)
    <3>1. o \in (p.pos + 1)..last BY <1>c, <1>7
    <3>2. Truthful(s, n, o, mode) BY <1>5, <3>1
    <3> QED BY <1>c, <3>2
  <2>2. p3.pos <= c4.ordinal /\ p4.pos = c4.ordinal BY <1>c, <1>d, <1>3
  <2>3. ReadsOn(s, n, c4, p3, p4) BY <1>d, <1>3, <2>1, <2>2 DEF ReadsOn
  <2> QED BY <1>c, <1>d, <1>3, <2>3 DEF Step, ModeAfter, Reads
<1>12. Step(s, n, c5, p4, p5) BY <1>d, <1>e, <1>3 DEF Step, ModeAfter, Reads
<1>13. Leads(s, n, <<c1, c2, c3, c4, c5>>, p, p5)
  BY <1>a, <1>b, <1>c, <1>d, <1>e, <1>8, <1>9, <1>10, <1>11, <1>12, LeadsByFive
<1> QED BY <1>4, <1>13 DEF p5

(* Words of the other side.                                                *)
LEMMA EmphasisedThere ==
    ASSUME NEW s \in Side, NEW n, NEW mode \in Emphases, NEW last \in Int, NEW p \in Place,
           NEW r \in Side, r # s
    PROVE  Leads(s, n, Emphasised(r, mode, last), p, At(p.pos, p.ready, "NORMAL"))
<1>0. /\ p.pos \in Int /\ p.ready \in BOOLEAN /\ p.mode \in Modes
      /\ mode \in Modes /\ "NORMAL" \in Modes
  BY DEF Place, Modes, Emphases
<1> DEFINE c1 == copy_whitespace(r)
           c2 == start_of(mode)
           c3 == copy_word(r)
           c4 == copy_until_ordinal(r, last)
           c5 == end_of(mode)
           p2 == At(p.pos, p.ready, mode)
           p5 == At(p.pos, p.ready, "NORMAL")
<1>1. /\ p2 \in Place /\ p2.pos = p.pos /\ p2.ready = p.ready /\ p2.mode = mode
      /\ p5 \in Place /\ p5.pos = p.pos /\ p5.ready = p.ready /\ p5.mode = "NORMAL"
  BY <1>0 DEF At, Place
<1>3. /\ c1.fn = "copy_whitespace" /\ c1.side = r
      /\ c2.fn = "start" /\ c2.mode = mode
      /\ c3.fn = "copy_word" /\ c3.side = r
      /\ c4.fn = "copy_until_ordinal" /\ c4.side = r
      /\ c5.fn = "end"
  BY DEF copy_whitespace, start_of, copy_word, copy_until_ordinal, end_of
<1>4. Emphasised(r, mode, last) = <<c1, c2, c3, c4, c5>> BY DEF Emphasised
<1> HIDE DEF c1, c2, c3, c4, c5, p2, p5
<1>5. Step(s, n, c1, p, p) BY <1>3 DEF Step, ModeAfter, Reads
<1>6. Step(s, n, c2, p, p2) BY <1>1, <1>3 DEF Step, ModeAfter, Reads
<1>7. Step(s, n, c3, p2, p2) /\ Step(s, n, c4, p2, p2)
  BY <1>3 DEF Step, ModeAfter, Reads
<1>8. Step(s, n, c5, p2, p5) BY <1>1, <1>3 DEF Step, ModeAfter, Reads
<1>9. Leads(s, n, <<c1, c2, c3, c4, c5>>, p, p5)
  BY <1>1, <1>5, <1>6, <1>7, <1>8, LeadsByFive
<1> QED BY <1>4, <1>9 DEF p5

(* The side is read in step with the directives: what they account for.    *)
Active(s) ==
    IF s = "left" THEN ~inhibited("left")
    ELSE ~inhibited("right") \/ (~inhibited("common") /\ inhibited("left"))

LEMMA ActiveIs ==
    /\ Active("left") <=> ~inhibited("left")
    /\ Active("right") <=> ~inhibited("right") \/ (~inhibited("common") /\ inhibited("left"))
    /\ Side \subseteq options.inhibit <=> inhibited("left") /\ inhibited("right")
    /\ Whole("left") => ~inhibited("common") /\ ~inhibited("left") /\ inhibited("right")
    /\ Whole("right") => ~inhibited("common") /\ ~inhibited("right")
BY DEF Active, Side, inhibited, Whole, Source

(* Words before those of the directive are common.                         *)
LEMMA ResyncLeads ==
    ASSUME CountsInv, BehindInv, NEW n, n = obeyed + 1, n \in DOMAIN script,
           NEW s \in Side, NEW p \in Place, p.mode = "NORMAL",
           Active(s) => p.pos = Accounted(script, n - 1, s)
    PROVE  \E r \in Place :
              /\ Leads(s, n, Resync(script[n]), p, r) /\ r.mode = "NORMAL"
              /\ Active(s) => r.pos = FirstWord(script[n], s) - 1
              /\ ~Active(s) => r.pos = p.pos
<1> DEFINE h == script[n]
           f == FirstWord(h, "left") - 1
           g == FirstWord(h, "right") - 1
           x == FirstWord(h, s) - 1
           a == When(~inhibited("left"),
                     IF ~inhibited("common") /\ inhibited("right")
                     THEN <<copy_until_ordinal("left", f)>>
                     ELSE <<skip_until_ordinal("left", f)>>)
           b == When(~inhibited("right"),
                     IF inhibited("common") THEN <<skip_until_ordinal("right", g)>>
                                            ELSE <<copy_until_ordinal("right", g)>>)
           c == When(~inhibited("common") /\ Side \subseteq options.inhibit,
                     <<copy_until_ordinal("right", g)>>)
           r == At(x, FALSE, "NORMAL")
<1>1. Resync(h) = a \o b \o c BY DEF Resync
<1>2. "left" \in Side /\ "right" \in Side /\ "left" # "right" BY DEF Side
<1>3. f \in Int /\ g \in Int /\ x \in Int BY <1>2, NextHunk
<1>4. r \in Place /\ r.pos = x /\ r.mode = "NORMAL" BY <1>3 DEF r, At, Place, Modes
<1>5. /\ Accounted(script, n - 1, s) \in Nat /\ Accounted(script, n - 1, s) <= x
      /\ FirstWord(h, s) = x + 1
  BY <1>3, NextHunk
<1>6. /\ \A o \in Int : copy_until_ordinal("left", o) \in CallSet
                        /\ skip_until_ordinal("left", o) \in CallSet
      /\ \A o \in Int : copy_until_ordinal("right", o) \in CallSet
                        /\ skip_until_ordinal("right", o) \in CallSet
  BY <1>2, "DELETED" \in Emphases, CallsAreTyped DEF Emphases
<1>7. a \in Seq(CallSet) /\ b \in Seq(CallSet) /\ c \in Seq(CallSet)
  BY <1>3, <1>6 DEF When
<1>8. ASSUME Active(s)
      PROVE  /\ Leads(s, n, <<copy_until_ordinal(s, x)>>, p, r)
             /\ ~Whole(s) => Leads(s, n, <<skip_until_ordinal(s, x)>>, p, r)
  <2>1. p.pos = Accounted(script, n - 1, s) /\ p.pos <= x BY <1>5, <1>8
  <2>2. ASSUME NEW o \in (p.pos + 1)..x PROVE Truthful(s, n, o, p.mode)
    <3>1. o \in Int /\ o > Accounted(script, n - 1, s) /\ o < FirstWord(h, s)
      BY <1>3, <1>5, <2>1
    <3>2. LastWord(h, s) \in Int /\ FirstWord(h, s) \in Int BY NextHunk
    <3>3. ~(o \in FirstWord(h, s)..LastWord(h, s)) BY <3>1, <3>2
    <3>4. ~Named(s, o, n) BY <3>1, <3>3, NamedByNext
    <3> QED BY <3>4 DEF Truthful
  <2> HIDE DEF x
  <2> QED BY <1>3, <2>1, <2>2, CopyLeads, SkipLeads
<1> HIDE DEF r, h
<1>9. CASE s = "left"
  <2>1. \A o : ~Reads(copy_until_ordinal("right", o), s) /\ ~Reads(skip_until_ordinal("right", o), s)
    BY <1>2, <1>9 DEF Reads, copy_until_ordinal, skip_until_ordinal
  <2>2. \A o : copy_until_ordinal("right", o).fn \notin {"start", "end"}
               /\ skip_until_ordinal("right", o).fn \notin {"start", "end"}
    BY DEF copy_until_ordinal, skip_until_ordinal
  <2>3. ASSUME NEW q \in Place PROVE Leads(s, n, b \o c, q, q)
    <3>1. b = When(~inhibited("right"), <<skip_until_ordinal("right", g)>>)
          \/ b = When(~inhibited("right"), <<copy_until_ordinal("right", g)>>)
      OBVIOUS
    <3>2. Leads(s, n, b, q, q) BY <2>1, <2>2, <3>1, LeadsPast
    <3>3. Leads(s, n, c, q, q) BY <2>1, <2>2, LeadsPast
    <3> HIDE DEF b, c
    <3> QED BY <1>7, <3>2, <3>3, LeadsOn
  <2>4. a \o b \o c = a \o (b \o c)
    <3> HIDE DEF a, b, c
    <3> QED BY <1>7
  <2>5. CASE inhibited("left")
    <3>1. a = <<>> BY <2>5 DEF When
    <3>2. Leads(s, n, a, p, p) BY <3>1, LeadsNowhere
    <3> HIDE DEF a, b, c
    <3>3. Leads(s, n, a \o (b \o c), p, p)
      <4>1. b \o c \in Seq(CallSet) BY <1>7
      <4> QED BY <1>7, <2>3, <3>2, <4>1, LeadsOn
    <3>4. ~Active(s) BY <1>9, <2>5, ActiveIs
    <3> QED BY <1>1, <2>4, <3>3, <3>4 DEF h
  <2>6. CASE ~inhibited("left")
    <3>1. Active(s) /\ f = x BY <1>9, <2>6, ActiveIs
    <3>2. Leads(s, n, a, p, r)
      <4>1. CASE ~inhibited("common") /\ inhibited("right")
        <5>1. a = <<copy_until_ordinal(s, x)>> BY <1>9, <2>6, <4>1 DEF When
        <5> QED BY <1>8, <3>1, <5>1
      <4>2. CASE ~(~inhibited("common") /\ inhibited("right"))
        <5>1. a = <<skip_until_ordinal(s, x)>> BY <1>9, <2>6, <4>2 DEF When
        <5>2. ~Whole(s) BY <1>9, <4>2, ActiveIs
        <5> QED BY <1>8, <3>1, <5>1, <5>2
      <4> QED BY <4>1, <4>2
    <3> HIDE DEF a, b, c
    <3>3. Leads(s, n, a \o (b \o c), p, r)
      <4>1. b \o c \in Seq(CallSet) BY <1>7
      <4> QED BY <1>4, <1>7, <2>3, <3>2, <4>1, LeadsOn
    <3> QED BY <1>1, <1>4, <2>4, <3>1, <3>3 DEF h
  <2> QED BY <2>5, <2>6
<1>10. CASE s = "right"
  <2>1. Leads(s, n, a, p, p)
    <3>1. \A o : ~Reads(copy_until_ordinal("left", o), s) /\ ~Reads(skip_until_ordinal("left", o), s)
      BY <1>2, <1>10 DEF Reads, copy_until_ordinal, skip_until_ordinal
    <3>2. \A o : copy_until_ordinal("left", o).fn \notin {"start", "end"}
                 /\ skip_until_ordinal("left", o).fn \notin {"start", "end"}
      BY DEF copy_until_ordinal, skip_until_ordinal
    <3>3. a = When(~inhibited("left"), <<skip_until_ordinal("left", f)>>)
          \/ a = When(~inhibited("left"), <<copy_until_ordinal("left", f)>>)
      OBVIOUS
    <3> QED BY <3>1, <3>2, <3>3, LeadsPast
  <2>2. CASE ~inhibited("right")
    <3>1. Active(s) /\ g = x /\ c = <<>> BY <1>10, <2>2, ActiveIs DEF When
    <3>2. Leads(s, n, b, p, r)
      <4>1. CASE ~inhibited("common")
        <5>1. b = <<copy_until_ordinal(s, x)>> BY <1>10, <2>2, <4>1 DEF When
        <5> QED BY <1>8, <3>1, <5>1
      <4>2. CASE inhibited("common")
        <5>1. b = <<skip_until_ordinal(s, x)>> BY <1>10, <2>2, <4>2 DEF When
        <5>2. ~Whole(s) BY <1>10, <4>2, ActiveIs
        <5> QED BY <1>8, <3>1, <5>1, <5>2
      <4> QED BY <4>1, <4>2
    <3>3. a \o b \o c = a \o b
      <4> HIDE DEF a, b, c
      <4> QED BY <1>7, <3>1
    <3> HIDE DEF a, b, c
    <3>4. Leads(s, n, a \o b, p, r) BY <1>7, <2>1, <3>2, LeadsOn
    <3> QED BY <1>1, <1>4, <3>1, <3>3, <3>4 DEF h
  <2>3. CASE inhibited("right")
    <3>1. b = <<>> BY <2>3 DEF When
    <3>2. a \o b \o c = a \o c
      <4> HIDE DEF a, b, c
      <4> QED BY <1>7, <3>1
    <3>3. CASE ~inhibited("common") /\ inhibited("left")
      <4>1. Active(s) /\ c = <<copy_until_ordinal(s, x)>>
        BY <1>10, <2>3, <3>3, ActiveIs DEF When
      <4>2. Leads(s, n, c, p, r) BY <1>8, <4>1
      <4> HIDE DEF a, b, c
      <4>3. Leads(s, n, a \o c, p, r) BY <1>7, <2>1, <4>2, LeadsOn
      <4> QED BY <1>1, <1>4, <3>2, <4>1, <4>3 DEF h
    <3>4. CASE ~(~inhibited("common") /\ inhibited("left"))
      <4>1. ~Active(s) /\ c = <<>> BY <1>10, <2>3, <3>4, ActiveIs DEF When
      <4>2. Leads(s, n, c, p, p) BY <4>1, LeadsNowhere
      <4> HIDE DEF a, b, c
      <4>3. Leads(s, n, a \o c, p, p) BY <1>7, <2>1, <4>2, LeadsOn
      <4> QED BY <1>1, <3>2, <4>1, <4>3 DEF h
    <3> QED BY <3>3, <3>4
  <2> QED BY <2>2, <2>3
<1> QED BY <1>9, <1>10 DEF Side

(* The directive's own words, on the left and on the right.                *)
LEMMA DeletedLeads ==
    ASSUME CountsInv, BehindInv, NEW n, n = obeyed + 1, n \in DOMAIN script,
           NEW s \in Side, NEW p \in Place, p.mode = "NORMAL",
           Active(s) => p.pos = FirstWord(script[n], s) - 1
    PROVE  \E r \in Place :
              /\ Leads(s, n, ShowDeleted(script[n]), p, r) /\ r.mode = "NORMAL"
              /\ Active(s) /\ s = "left" => r.pos = LastWord(script[n], s)
              /\ ~Active(s) \/ s = "right" => r.pos = p.pos
<1> DEFINE h == script[n]
           cond == h.letter \in {"d", "c"} /\ ~inhibited("left")
           last == LastWord(h, "left")
           show == Emphasised("left", "DELETED", last)
<1>1. ShowDeleted(h) = IF cond THEN show ELSE <<>> BY DEF ShowDeleted, When
<1>2. "left" \in Side /\ "right" \in Side /\ "DELETED" \in Emphases BY DEF Side, Emphases
<1>3. last \in Int BY <1>2, NextHunk
<1>4. p.pos \in Int /\ p.ready \in BOOLEAN /\ "NORMAL" \in Modes BY DEF Place, Modes
<1>5. CASE ~cond
  <2>1. Leads(s, n, ShowDeleted(h), p, p) BY <1>1, <1>5, LeadsNowhere
  <2>2. ASSUME Active(s), s = "left" PROVE p.pos = LastWord(h, s)
    <3>1. h \in HunkType /\ WellFormed(h) /\ Shaped(h) /\ FirstWord(h, s) \in Int
      BY NextHunk
    <3>2. h.letter = "a" BY <1>5, <2>2, <3>1, ActiveIs DEF HunkType, Letters
    <3>3. h["left"][1] = h["left"][2] /\ h["left"][1] \in Int BY <3>1, <3>2 DEF Shaped, HunkType
    <3>4. FirstWord(h, s) = h["left"][1] + 1 /\ LastWord(h, s) = h["left"][2]
      BY <2>2, <3>2 DEF FirstWord, LastWord
    <3>5. p.pos = FirstWord(h, s) - 1 BY <2>2
    <3> QED BY <3>3, <3>4, <3>5
  <2> QED BY <2>1, <2>2
<1>6. CASE cond /\ s = "left"
  <2> DEFINE r == At(last, FALSE, "NORMAL")
  <2>0. r \in Place /\ r.pos = last /\ r.mode = "NORMAL" BY <1>3 DEF At, Place, Modes
  <2> HIDE DEF r
  <2>1. Active(s) BY <1>6, ActiveIs
  <2>2. /\ h \in HunkType /\ WellFormed(h) /\ n \in Nat \ {0}
        /\ Accounted(script, n - 1, s) \in Nat
        /\ Accounted(script, n - 1, s) < FirstWord(h, s)
        /\ FirstWord(h, s) \in Int
    BY NextHunk
  <2>3. FirstWord(h, s) <= last
    <3>1. h["left"][1] <= h["left"][2] BY <2>2 DEF WellFormed, Side
    <3>2. FirstWord(h, s) = h["left"][1] /\ last = h["left"][2]
      BY <1>6 DEF FirstWord, LastWord
    <3> QED BY <3>1, <3>2
  <2>4. p.pos + 1 = FirstWord(h, s) BY <1>4, <2>1, <2>2
  <2>5. ASSUME NEW o \in (p.pos + 1)..last PROVE Named(s, o, n)
    <3>1. o \in FirstWord(h, s)..LastWord(h, s) BY <1>6, <2>4
    <3>2. n \in 1..n BY <2>2
    <3> QED BY <3>1, <3>2 DEF Named
  <2> HIDE DEF last
  <2>6. Leads(s, n, Emphasised(s, "DELETED", last), p, At(last, FALSE, "NORMAL"))
    <3>1. p.pos + 1 <= last BY <2>3, <2>4
    <3> QED BY <1>2, <1>3, <2>5, <3>1, EmphasisedHere
  <2>7. Leads(s, n, ShowDeleted(h), p, r) BY <1>1, <1>6, <2>6 DEF r
  <2> QED BY <1>6, <2>0, <2>1, <2>7 DEF last
<1>7. CASE cond /\ s = "right"
  <2> DEFINE r == At(p.pos, p.ready, "NORMAL")
  <2>0. r \in Place /\ r.pos = p.pos /\ r.mode = "NORMAL" BY <1>4 DEF At, Place
  <2> HIDE DEF r, last
  <2>1. Leads(s, n, Emphasised("left", "DELETED", last), p, At(p.pos, p.ready, "NORMAL"))
    BY <1>2, <1>3, <1>7, EmphasisedThere
  <2>2. Leads(s, n, ShowDeleted(h), p, r) BY <1>1, <1>7, <2>1 DEF r
  <2> QED BY <1>7, <2>0, <2>2
<1> QED BY <1>5, <1>6, <1>7 DEF Side

LEMMA InsertedLeads ==
    ASSUME CountsInv, BehindInv, NEW n, n = obeyed + 1, n \in DOMAIN script,
           NEW s \in Side, NEW p \in Place, p.mode = "NORMAL",
           Active(s) /\ s = "right" => p.pos = FirstWord(script[n], s) - 1
    PROVE  \E r \in Place :
              /\ Leads(s, n, ShowInserted(script[n]), p, r) /\ r.mode = "NORMAL"
              /\ Active(s) /\ s = "right" => r.pos = LastWord(script[n], s)
              /\ ~Active(s) \/ s = "left" => r.pos = p.pos
<1> DEFINE h == script[n]
           cond == h.letter \in {"a", "c"}
           last == LastWord(h, "right")
           skip == When(~inhibited("common") /\ inhibited("left"),
                        <<skip_until_ordinal("right", last)>>)
           show == Emphasised("right", "INSERTED", last)
<1>1. ShowInserted(h) = IF cond THEN IF inhibited("right") THEN skip ELSE show ELSE <<>>
  BY DEF ShowInserted, When
<1>2. "left" \in Side /\ "right" \in Side /\ "INSERTED" \in Emphases BY DEF Side, Emphases
<1>3. last \in Int BY <1>2, NextHunk
<1>4. p.pos \in Int /\ p.ready \in BOOLEAN /\ "NORMAL" \in Modes BY DEF Place, Modes
<1>a. /\ h \in HunkType /\ WellFormed(h) /\ Shaped(h) /\ n \in Nat \ {0}
      /\ FirstWord(h, s) \in Int
  BY NextHunk
<1>b. ASSUME cond, s = "right" PROVE FirstWord(h, s) <= last
  <2>1. h["right"][1] <= h["right"][2] BY <1>a DEF WellFormed, Side
  <2>2. FirstWord(h, s) = h["right"][1] /\ last = h["right"][2]
    BY <1>b DEF FirstWord, LastWord
  <2> QED BY <2>1, <2>2
<1>5. CASE ~cond
  <2>1. Leads(s, n, ShowInserted(h), p, p) BY <1>1, <1>5, LeadsNowhere
  <2>2. ASSUME Active(s), s = "right" PROVE p.pos = LastWord(h, s)
    <3>2. h.letter = "d" BY <1>5, <1>a DEF HunkType, Letters
    <3>3. h["right"][1] = h["right"][2] /\ h["right"][1] \in Int
      BY <1>a, <3>2 DEF Shaped, HunkType
    <3>4. FirstWord(h, s) = h["right"][1] + 1 /\ LastWord(h, s) = h["right"][2]
      BY <2>2, <3>2 DEF FirstWord, LastWord
    <3>5. p.pos = FirstWord(h, s) - 1 BY <2>2
    <3> QED BY <3>3, <3>4, <3>5
  <2> QED BY <2>1, <2>2
<1>6. CASE cond /\ inhibited("right")
  <2>1. CASE ~(~inhibited("common") /\ inhibited("left"))
    <3>1. ShowInserted(h) = <<>> BY <1>1, <1>6, <2>1 DEF When
    <3>2. Leads(s, n, ShowInserted(h), p, p) BY <3>1, LeadsNowhere
    <3>3. s = "right" => ~Active(s) BY <1>6, <2>1, ActiveIs
    <3> QED BY <3>2, <3>3
  <2>2. CASE ~inhibited("common") /\ inhibited("left") /\ s = "right"
    <3> DEFINE r == At(last, FALSE, "NORMAL")
    <3>0. r \in Place /\ r.pos = last /\ r.mode = "NORMAL" BY <1>3 DEF At, Place, Modes
    <3> HIDE DEF r
    <3>1. ShowInserted(h) = <<skip_until_ordinal(s, last)>> BY <1>1, <1>6, <2>2 DEF When
    <3>2. Active(s) /\ ~Whole(s) BY <1>6, <2>2, ActiveIs
    <3>3. p.pos <= last
      <4>1. p.pos = FirstWord(h, s) - 1 /\ FirstWord(h, s) <= last BY <1>6, <1>b, <2>2, <3>2
      <4> QED BY <1>3, <1>a, <4>1
    <3> HIDE DEF last
    <3>4. Leads(s, n, ShowInserted(h), p, r) BY <1>3, <3>1, <3>2, <3>3, SkipLeads DEF r
    <3> QED BY <2>2, <3>0, <3>2, <3>4 DEF last
  <2>3. CASE ~inhibited("common") /\ inhibited("left") /\ s = "left"
    <3>1. /\ ~Reads(skip_until_ordinal("right", last), s)
          /\ skip_until_ordinal("right", last).fn \notin {"start", "end"}
      BY <2>3 DEF Reads, skip_until_ordinal
    <3>2. Leads(s, n, skip, p, p) BY <3>1, LeadsPast
    <3>3. Leads(s, n, ShowInserted(h), p, p) BY <1>1, <1>6, <3>2
    <3> QED BY <2>3, <3>3
  <2> QED BY <2>1, <2>2, <2>3 DEF Side
<1>7. CASE cond /\ ~inhibited("right") /\ s = "right"
  <2> DEFINE r == At(last, FALSE, "NORMAL")
  <2>0. r \in Place /\ r.pos = last /\ r.mode = "NORMAL" BY <1>3 DEF At, Place, Modes
  <2> HIDE DEF r
  <2>1. Active(s) BY <1>7, ActiveIs
  <2>3. FirstWord(h, s) <= last BY <1>7, <1>b
  <2>4. p.pos + 1 = FirstWord(h, s) BY <1>4, <1>7, <1>a, <2>1
  <2>5. ASSUME NEW o \in (p.pos + 1)..last PROVE Named(s, o, n)
    <3>1. o \in FirstWord(h, s)..LastWord(h, s) BY <1>7, <2>4
    <3>2. n \in 1..n BY <1>a
    <3> QED BY <3>1, <3>2 DEF Named
  <2> HIDE DEF last
  <2>6. Leads(s, n, Emphasised(s, "INSERTED", last), p, At(last, FALSE, "NORMAL"))
    <3>1. p.pos + 1 <= last BY <2>3, <2>4
    <3> QED BY <1>2, <1>3, <2>5, <3>1, EmphasisedHere
  <2>7. Leads(s, n, ShowInserted(h), p, r) BY <1>1, <1>7, <2>6 DEF r
  <2> QED BY <1>7, <2>0, <2>1, <2>7 DEF last
<1>8. CASE cond /\ ~inhibited("right") /\ s = "left"
  <2> DEFINE r == At(p.pos, p.ready, "NORMAL")
  <2>0. r \in Place /\ r.pos = p.pos /\ r.mode = "NORMAL" BY <1>4 DEF At, Place
  <2> HIDE DEF r, last
  <2>1. Leads(s, n, Emphasised("right", "INSERTED", last), p, At(p.pos, p.ready, "NORMAL"))
    BY <1>2, <1>3, <1>8, EmphasisedThere
  <2>2. Leads(s, n, ShowInserted(h), p, r) BY <1>1, <1>8, <2>1 DEF r
  <2> QED BY <1>8, <2>0, <2>2
<1> QED BY <1>5, <1>6, <1>7, <1>8 DEF Side

LEMMA ObeyLeads ==
    ASSUME CountsInv, BehindInv, NEW n, n = obeyed + 1, n \in DOMAIN script,
           NEW s \in Side, NEW p \in Place, p.mode = "NORMAL",
           p.pos <= Accounted(script, n - 1, s),
           Active(s) => p.pos = Accounted(script, n - 1, s)
    PROVE  \E q \in Place :
              /\ Leads(s, n, Obey(script[n]), p, q) /\ q.mode = "NORMAL"
              /\ q.pos <= Accounted(script, n, s)
              /\ Active(s) => q.pos = Accounted(script, n, s)
<1> DEFINE h == script[n]
           a == Resync(h)
           b == Separate
           c == ShowDeleted(h)
           d == ShowInserted(h)
<1>1. /\ h \in HunkType /\ Accounted(script, n - 1, s) \in Nat
      /\ Accounted(script, n, s) = LastWord(h, s)
      /\ FirstWord(h, s) \in Int /\ LastWord(h, s) \in Int
      /\ Accounted(script, n - 1, s) <= LastWord(h, s)
  BY NextHunk
<1>2. /\ a \in Seq(CallSet) /\ b \in Seq(CallSet) /\ c \in Seq(CallSet) /\ d \in Seq(CallSet)
  BY <1>1, PartsAreMatched
<1>3. Obey(h) = ((a \o b) \o c) \o d BY DEF Obey
<1>4. PICK p1 \in Place : /\ Leads(s, n, a, p, p1) /\ p1.mode = "NORMAL"
                          /\ Active(s) => p1.pos = FirstWord(h, s) - 1
                          /\ ~Active(s) => p1.pos = p.pos
  BY ResyncLeads
<1>5. Leads(s, n, b, p1, p1)
  <2>1. ~Reads(separator, s) /\ separator.fn \notin {"start", "end"} BY DEF Reads, separator
  <2> QED BY <2>1, LeadsPast DEF Separate
<1>6. PICK p2 \in Place : /\ Leads(s, n, c, p1, p2) /\ p2.mode = "NORMAL"
                          /\ Active(s) /\ s = "left" => p2.pos = LastWord(h, s)
                          /\ ~Active(s) \/ s = "right" => p2.pos = p1.pos
  BY <1>4, DeletedLeads
<1>7. PICK q \in Place : /\ Leads(s, n, d, p2, q) /\ q.mode = "NORMAL"
                         /\ Active(s) /\ s = "right" => q.pos = LastWord(h, s)
                         /\ ~Active(s) \/ s = "left" => q.pos = p2.pos
  <2>1. Active(s) /\ s = "right" => p2.pos = FirstWord(h, s) - 1 BY <1>4, <1>6
  <2> QED BY <1>6, <2>1, InsertedLeads
<1>8. Active(s) => q.pos = LastWord(h, s) BY <1>6, <1>7 DEF Side
<1>9. ~Active(s) => q.pos = p.pos BY <1>4, <1>6, <1>7
<1>10. p.pos \in Int /\ q.pos \in Int BY DEF Place
<1> DEFINE ab == a \o b
           abc == ab \o c
<1>11. ab \in Seq(CallSet) /\ abc \in Seq(CallSet)
  <2> HIDE DEF a, b, c, d
  <2>1. ab \in Seq(CallSet) BY <1>2
  <2> HIDE DEF ab
  <2> QED BY <1>2, <2>1
<1> HIDE DEF a, b, c, d, h
<1>12. Leads(s, n, ab, p, p1) BY <1>2, <1>4, <1>5, LeadsOn
<1> HIDE DEF ab
<1>15. Leads(s, n, abc, p, p2) BY <1>2, <1>6, <1>11, <1>12, LeadsOn
<1> HIDE DEF abc
<1>16. Leads(s, n, abc \o d, p, q) BY <1>2, <1>7, <1>11, <1>15, LeadsOn
<1>13. Leads(s, n, Obey(h), p, q) BY <1>3, <1>16 DEF abc, ab
<1>14. q.pos <= LastWord(h, s) BY <1>1, <1>8, <1>9, <1>10
<1> QED BY <1>1, <1>7, <1>8, <1>13, <1>14 DEF h

LEMMA TwoCalls ==
    ASSUME NEW S, NEW a \in S, NEW b \in S
    PROVE  <<a, b>> = <<a>> \o <<b>> /\ <<a>> \in Seq(S) /\ <<b>> \in Seq(S)
<1>1. /\ <<a, b>> \in Seq(S) /\ <<a>> \in Seq(S) /\ <<b>> \in Seq(S)
      /\ Len(<<a, b>>) = 2 /\ Len(<<a>>) = 1 /\ Len(<<b>>) = 1
  OBVIOUS
<1>2. <<a, b>>[1] = a /\ <<a, b>>[2] = b /\ <<a>>[1] = a /\ <<b>>[1] = b OBVIOUS
<1> DEFINE c == <<a, b>>
           d == <<a>> \o <<b>>
<1>3. d \in Seq(S) /\ Len(d) = 2 /\ d[1] = a /\ d[2] = b BY <1>1, <1>2
<1>4. ASSUME NEW i \in 1..2 PROVE c[i] = d[i]
  <2>1. i = 1 \/ i = 2 OBVIOUS
  <2> QED BY <1>2, <1>3, <2>1
<1> HIDE DEF c, d
<1>5. c \in Seq(S) /\ Len(c) = 2 BY <1>1 DEF c
<1>6. c = d BY <1>3, <1>4, <1>5
<1> QED BY <1>1, <1>6 DEF c, d

(* The words behind the last directive are common as well.                 *)
LEMMA RestLeads ==
    ASSUME CountsInv, BehindInv, obeyed = Len(script),
           NEW s \in Side, NEW p \in Place, p.mode = "NORMAL",
           Active(s) => p.pos = Accounted(script, obeyed, s)
    PROVE  \E q \in Place :
              /\ Leads(s, obeyed, CopyRest, p, q) /\ q.mode = "NORMAL"
              /\ Whole(s) => q.pos = total[s] /\ q.ready
<1> DEFINE t == IF ~inhibited("left") /\ inhibited("right") THEN "left" ELSE "right"
           sep == When(~(Side \subseteq options.inhibit), <<separator>>)
           c1 == copy_until_ordinal(t, total[t])
           c2 == copy_whitespace(t)
<1>1. t \in Side /\ total[t] \in Int /\ total[s] \in Int BY DEF CountsInv, CountsType, Side
<1>2. c1 \in CallSet /\ c2 \in CallSet
  <2> HIDE DEF t
  <2> QED BY <1>1, "DELETED" \in Emphases, CallsAreTyped DEF Emphases
<1>3. CASE inhibited("common")
  <2>1. CopyRest = sep BY <1>3 DEF CopyRest
  <2>2. ~Reads(separator, s) /\ separator.fn \notin {"start", "end"} BY DEF Reads, separator
  <2>3. Leads(s, obeyed, CopyRest, p, p) BY <2>1, <2>2, LeadsPast
  <2>4. ~Whole(s) BY <1>3 DEF Whole
  <2> QED BY <2>3, <2>4
<1>4. CASE ~inhibited("common") /\ s = t
  <2>1. Active(s) BY <1>4, ActiveIs DEF Side
  <2>2. /\ p.pos = Accounted(script, obeyed, s) /\ Accounted(script, obeyed, s) \in Nat
    BY <2>1 DEF BehindInv
  <2>3. p.pos <= total[s]
    <3>1. /\ total["left"] - Accounted(script, obeyed, "left")
               = total["right"] - Accounted(script, obeyed, "right")
          /\ total["left"] >= Accounted(script, obeyed, "left")
      BY DEF CountsInv, IsScript
    <3>2. /\ Accounted(script, obeyed, "left") \in Nat /\ total["left"] \in Int
          /\ Accounted(script, obeyed, "right") \in Nat /\ total["right"] \in Int
      BY DEF BehindInv, CountsInv, CountsType, Side
    <3>3. total["right"] >= Accounted(script, obeyed, "right") BY <3>1, <3>2
    <3> QED BY <2>2, <3>1, <3>3 DEF Side
  <2>4. ASSUME NEW o \in (p.pos + 1)..total[s] PROVE Truthful(s, obeyed, o, p.mode)
    <3>1. o \in Int /\ o > Accounted(script, obeyed, s) BY <1>1, <2>2
    <3>2. ~Named(s, o, obeyed) BY <3>1, NamedBehind
    <3> QED BY <3>2 DEF Truthful
  <2> DEFINE p1 == At(total[s], FALSE, p.mode)
             q == At(total[s], TRUE, "NORMAL")
  <2>5. /\ p1 \in Place /\ p1.pos = total[s] /\ p1.mode = "NORMAL"
        /\ q \in Place /\ q.pos = total[s] /\ q.ready /\ q.mode = "NORMAL"
    BY <1>1 DEF At, Place, Modes
  <2>6. Leads(s, obeyed, <<copy_until_ordinal(s, total[s])>>, p, p1)
    BY <1>1, <2>3, <2>4, CopyLeads
  <2> HIDE DEF t, p1, q
  <2>7. Leads(s, obeyed, <<c1>>, p, p1) BY <1>4, <2>6
  <2>8. Leads(s, obeyed, <<c2>>, p1, q)
    <3>1. c2.fn = "copy_whitespace" /\ c2.side = s BY <1>4 DEF copy_whitespace
    <3> HIDE DEF c2
    <3>2. Step(s, obeyed, c2, p1, q) BY <2>5, <3>1 DEF Step, ModeAfter, Reads, ReadsOn
    <3> QED BY <2>5, <3>2, LeadsByOne
  <2>9. CopyRest = <<c1, c2>> BY <1>4 DEF CopyRest, t
  <2> HIDE DEF c1, c2
  <2>10. <<c1, c2>> = <<c1>> \o <<c2>> /\ <<c1>> \in Seq(CallSet) /\ <<c2>> \in Seq(CallSet)
    BY <1>2, TwoCalls
  <2>11. Leads(s, obeyed, CopyRest, p, q) BY <2>7, <2>8, <2>9, <2>10, LeadsOn
  <2> QED BY <2>5, <2>11
<1>5. CASE ~inhibited("common") /\ s # t
  <2>1. ~Whole(s) BY <1>5 DEF Whole, Source
  <2>2. CopyRest = <<c1, c2>> BY <1>5 DEF CopyRest
  <2>3. /\ ~Reads(c1, s) /\ c1.fn \notin {"start", "end"}
        /\ ~Reads(c2, s) /\ c2.fn \notin {"start", "end"}
    <3> HIDE DEF t
    <3> QED BY <1>5 DEF Reads, copy_until_ordinal, copy_whitespace
  <2> HIDE DEF c1, c2
  <2>4. Step(s, obeyed, c1, p, p) /\ Step(s, obeyed, c2, p, p)
    BY <2>3 DEF Step, ModeAfter
  <2>5. Leads(s, obeyed, <<c1>>, p, p) /\ Leads(s, obeyed, <<c2>>, p, p)
    BY <2>4, LeadsByOne
  <2>6. <<c1, c2>> = <<c1>> \o <<c2>> /\ <<c1>> \in Seq(CallSet) /\ <<c2>> \in Seq(CallSet)
    BY <1>2, TwoCalls
  <2>7. Leads(s, obeyed, CopyRest, p, p) BY <2>2, <2>5, <2>6, LeadsOn
  <2> QED BY <2>1, <2>7
<1> QED BY <1>3, <1>4, <1>5

-----------------------------------------------------------------------------
(***************************************************************************)
(* Where the readers are.  In front of a word, or at the end, white space  *)
(* has been read; and the calls left lead each reader to where the last    *)
(* directive ends, and at last to the end of the text.                     *)
(***************************************************************************)
AtEnd(s) == next[s] = Len(text[s]) + 1
Ready(s) == AtWord(s) \/ AtEnd(s)

Here(s, p) == p.pos = position[s] /\ p.mode = copy_mode /\ (p.ready => Ready(s))

There(s, q) ==
    /\ q.mode = "NORMAL"
    /\ pc = "reformat" =>
         /\ q.pos <= Accounted(script, obeyed, s)
         /\ Active(s) => q.pos = Accounted(script, obeyed, s)
    /\ pc = "remainder" /\ Whole(s) => q.pos = total[s] /\ q.ready

Planned(s) ==
    \E p, q \in Place : Here(s, p) /\ There(s, q) /\ Leads(s, obeyed, calls, p, q)

PlanInv == ~Useless /\ pc \in Reading => \A s \in Side : Planned(s)

(* The ordinal is that of the words read, until the text ends too early.   *)
ReadInv ==
    ~Useless =>
        \A s \in Side :
            /\ Ordinal(s, next[s] - 1) <= position[s]
            /\ next[s] <= Len(text[s]) => Ordinal(s, next[s] - 1) = position[s]
            /\ WordsIn(text[s]) <= total[s]

FirmInv == Firm(output, copy_mode)

LEMMA LeadsFrame ==
    ASSUME UNCHANGED <<options, script>>, NEW s, NEW n, NEW c, NEW p, NEW q
    PROVE  /\ Leads(s, n, c, p, q)' <=> Leads(s, n, c, p, q)
           /\ Whole(s)' <=> Whole(s)
           /\ Active(s)' <=> Active(s)
<1>1. /\ \A x : inhibited(x)' <=> inhibited(x)
      /\ Useless' <=> Useless
  BY DEF inhibited, Useless
<1>2. (Whole(s)' <=> Whole(s)) /\ (Active(s)' <=> Active(s))
  BY DEF Whole, Source, inhibited, Active
<1>3. \A o, mode : Truthful(s, n, o, mode)' <=> Truthful(s, n, o, mode)
  BY DEF Truthful, Named
<1>4. ASSUME NEW d, NEW x, NEW y PROVE Step(s, n, d, x, y)' <=> Step(s, n, d, x, y)
  BY <1>2, <1>3 DEF Step, ReadsOn, Reads, ModeAfter
<1>5. Leads(s, n, c, p, q)' <=> Leads(s, n, c, p, q) BY <1>4 DEF Leads, Trace
<1> QED BY <1>2, <1>5

(* The next state is planned as well.                                      *)
LEMMA PlannedNext ==
    ASSUME UNCHANGED <<options, script, total>>, NEW s \in Side,
           NEW p \in Place, NEW q \in Place, Here(s, p)', There(s, q)',
           NEW n, n = obeyed', NEW c, c = calls', Leads(s, n, c, p, q)
    PROVE  Planned(s)'
<1>1. Leads(s, n, c, p, q)' BY LeadsFrame
<1>2. Leads(s, obeyed, calls, p, q)' BY <1>1
<1> QED BY <1>2 DEF Planned

LEMMA ThereFrame ==
    ASSUME UNCHANGED <<options, script, total, obeyed, pc>>, NEW s, NEW q, There(s, q)
    PROVE  There(s, q)'
<1>1. Accounted(script, obeyed, s)' = Accounted(script, obeyed, s) BY DEF Accounted
<1>2. (Whole(s)' <=> Whole(s)) /\ (Active(s)' <=> Active(s)) BY LeadsFrame
<1> QED BY <1>1, <1>2 DEF There

LEMMA CallDone ==
    ASSUME UNCHANGED <<options, script, total, obeyed, pc>>, NEW s \in Side, Planned(s),
           calls \in Seq(CallSet), calls # <<>>, calls' = Tail(calls),
           \A p, r \in Place :
              Here(s, p) /\ Step(s, obeyed, Head(calls), p, r) => Here(s, r)'
    PROVE  Planned(s)'
<1>1. PICK p \in Place, q \in Place :
             Here(s, p) /\ There(s, q) /\ Leads(s, obeyed, calls, p, q)
  BY DEF Planned
<1>2. PICK r \in Place : Step(s, obeyed, Head(calls), p, r) /\ Leads(s, obeyed, Tail(calls), r, q)
  BY <1>1, LedByHead
<1>3. Here(s, r)' BY <1>1, <1>2
<1>4. There(s, q)' BY <1>1, ThereFrame
<1>5. PICK n, c : n = obeyed' /\ c = calls' OBVIOUS
<1>6. Leads(s, n, c, r, q) BY <1>2, <1>5
<1> QED BY <1>3, <1>4, <1>5, <1>6, PlannedNext

LEMMA NothingDone ==
    ASSUME UNCHANGED <<options, script, total, obeyed, pc, calls, position, copy_mode>>,
           NEW s \in Side, Planned(s), Ready(s) => Ready(s)'
    PROVE  Planned(s)'
<1>1. PICK p \in Place, q \in Place :
             Here(s, p) /\ There(s, q) /\ Leads(s, obeyed, calls, p, q)
  BY DEF Planned
<1>2. Here(s, p)' BY <1>1 DEF Here
<1>3. There(s, q)' BY <1>1, ThereFrame
<1>4. PICK n, c : n = obeyed' /\ c = calls' OBVIOUS
<1>5. Leads(s, n, c, p, q) BY <1>1, <1>4
<1> QED BY <1>2, <1>3, <1>4, <1>5, PlannedNext

(* Calls are put before those that are left.                               *)
LEMMA CallReplaced ==
    ASSUME UNCHANGED <<options, script, total, obeyed, pc>>, NEW s \in Side, Planned(s),
           calls \in Seq(CallSet), calls # <<>>, NEW a \in Seq(CallSet),
           calls' = a \o Tail(calls),
           \A p, r \in Place :
              Here(s, p) /\ Step(s, obeyed, Head(calls), p, r) =>
                \E x \in Place : Here(s, x)' /\ Leads(s, obeyed, a, x, r)
    PROVE  Planned(s)'
<1>1. PICK p \in Place, q \in Place :
             Here(s, p) /\ There(s, q) /\ Leads(s, obeyed, calls, p, q)
  BY DEF Planned
<1>2. PICK r \in Place : Step(s, obeyed, Head(calls), p, r) /\ Leads(s, obeyed, Tail(calls), r, q)
  BY <1>1, LedByHead
<1>3. PICK x \in Place : Here(s, x)' /\ Leads(s, obeyed, a, x, r) BY <1>1, <1>2
<1>4. There(s, q)' BY <1>1, ThereFrame
<1>5. PICK n, c : n = obeyed' /\ c = calls' OBVIOUS
<1>6. Tail(calls) \in Seq(CallSet) OBVIOUS
<1>7. Leads(s, n, c, x, q) BY <1>2, <1>3, <1>5, <1>6, LeadsOn
<1> QED BY <1>3, <1>4, <1>5, <1>7, PlannedNext

(* Nothing has been read.                                                  *)
LEMMA CountingInit ==
    ASSUME Init, NEW s \in Side
    PROVE  /\ Ordinal(s, next[s] - 1) = position[s] /\ position[s] \in Nat
           /\ WordsIn(text[s]) = total[s] /\ WordsIn(text[s]) \in Nat
<1>1. next[s] - 1 = 0 /\ position[s] = 0 /\ total[s] = WordsIn(text[s]) BY DEF Init
<1>2. text[s] \in Texts BY DEF Init
<1>3. WordsTo(text[s], 0) = {} BY DEF WordsTo
<1>4. Ordinal(s, 0) = 0 BY <1>3, OrdinalIs, FS_EmptySet
<1>5. WordsIn(text[s]) \in Nat BY <1>2, WordsInType, OptionsAssumption DEF OptionsAssumption
<1> QED BY <1>1, <1>4, <1>5

LEMMA PlanInit == Init => PlanInv /\ ReadInv /\ FirmInv
<1> SUFFICES ASSUME Init PROVE PlanInv /\ ReadInv /\ FirmInv OBVIOUS
<1>1. FirmInv BY DEF Init, FirmInv, Firm
<1>2. ASSUME NEW s \in Side PROVE Planned(s)
  <2> DEFINE p == At(0, FALSE, "NORMAL")
  <2>1. p \in Place /\ p.pos = 0 /\ ~p.ready /\ p.mode = "NORMAL"
    BY DEF At, Place, Modes
  <2> HIDE DEF p
  <2>2. Here(s, p) BY <2>1 DEF Here, Init
  <2>3. There(s, p) BY <2>1 DEF There, Init, Accounted
  <2>4. calls = <<>> BY DEF Init
  <2>5. Leads(s, obeyed, calls, p, p) BY <2>1, <2>4, LeadsNowhere
  <2> QED BY <2>1, <2>2, <2>3, <2>5 DEF Planned
<1>3. ASSUME NEW s \in Side
      PROVE  /\ Ordinal(s, next[s] - 1) = position[s]
             /\ WordsIn(text[s]) <= total[s] /\ position[s] \in Nat
  BY CountingInit
<1>4. PlanInv BY <1>2 DEF PlanInv
<1>5. ReadInv BY <1>3 DEF ReadInv
<1> QED BY <1>1, <1>4, <1>5

-----------------------------------------------------------------------------
(* The actions keep to the plan.                                           *)

(* White space ends in front of a word or at the end.                      *)
LEMMA NextWordIsReady ==
    ASSUME TextInv, NEW s \in Side
    PROVE  /\ NextWord(s) \in 1..(Len(text[s]) + 1)
           /\ \/ NextWord(s) \in DOMAIN text[s] /\ text[s][NextWord(s)] = "word"
              \/ NextWord(s) = Len(text[s]) + 1
           /\ \/ NextWord(s) = next[s]
              \/ /\ NextWord(s) = next[s] + 1
                 /\ next[s] \in DOMAIN text[s] /\ text[s][next[s]] # "word"
<1> DEFINE t == text[s]
           n == next[s]
           S == {i \in DOMAIN t : i >= n /\ t[i] = "word"} \cup {Len(t) + 1}
<1>1. t \in Seq(Items) /\ Len(t) \in Nat /\ DOMAIN t = 1..Len(t) /\ n \in 1..(Len(t) + 1)
  BY DEF TextInv, Alternating
<1>2. NextWord(s) = Min(S) BY DEF NextWord
<1>3. \A x, y \in S : (\A z \in S : x <= z) /\ (\A z \in S : y <= z) => x = y
  BY <1>1
<1>4. ASSUME NEW x \in S, \A z \in S : x <= z PROVE NextWord(s) = x
  BY <1>2, <1>3, <1>4 DEF Min
<1>5. /\ NextWord(s) \in 1..(Len(t) + 1)
      /\ NextWord(s) = n \/ (NextWord(s) = n + 1 /\ n \in DOMAIN t)
  BY NextWordIs
<1> HIDE DEF S
<1>6. CASE n \in DOMAIN t /\ t[n] = "word"
  <2>1. n \in S /\ \A z \in S : n <= z BY <1>1, <1>6 DEF S
  <2>2. NextWord(s) = n BY <1>4, <2>1
  <2> QED BY <1>5, <1>6, <2>2
<1>7. CASE n = Len(t) + 1
  <2>1. NextWord(s) = n BY <1>1, <1>5, <1>7
  <2> QED BY <1>5, <1>7, <2>1
<1>8. CASE n \in DOMAIN t /\ t[n] # "word"
  <2>1. \A z \in S : z \in Nat /\ n + 1 <= z
    <3> SUFFICES ASSUME NEW z \in S PROVE z \in Nat /\ n + 1 <= z OBVIOUS
    <3>1. z \in Nat /\ z >= n BY <1>1 DEF S
    <3>2. z # n BY <1>1, <1>8 DEF S
    <3> QED BY <1>1, <3>1, <3>2
  <2>2. n + 1 \in S
    <3>1. CASE n = Len(t) BY <1>1, <3>1 DEF S
    <3>2. CASE n # Len(t)
      <4>1. n \in 1..(Len(t) - 1) BY <1>1, <1>8, <3>2
      <4>2. t[n + 1] = "word" BY <1>8, <4>1 DEF TextInv, Alternating
      <4>3. n + 1 \in DOMAIN t BY <1>1, <4>1
      <4> QED BY <1>1, <4>2, <4>3 DEF S
    <3> QED BY <3>1, <3>2
  <2>3. NextWord(s) = n + 1 BY <1>4, <2>1, <2>2
  <2>4. n + 1 = Len(t) + 1 \/ (t[n + 1] = "word" /\ n + 1 \in DOMAIN t) BY <2>2 DEF S
  <2> QED BY <1>5, <1>8, <2>3, <2>4
<1> QED BY <1>1, <1>6, <1>7, <1>8

(* What all steps leave alone, and the reader's own types.                 *)
LEMMA InputsStay ==
    ASSUME [Next]_vars
    PROVE  UNCHANGED <<options, script, total>>
BY DEF Next, Reformat, ReadDirective, CopyUntilOrdinal, SkipUntilOrdinal, CopyWhitespace,
       CopyWord, StartEmphasis, EndEmphasis, PutSeparator, Return, CompleteOutput, Report,
       Interrupt, Shrink, Terminated, vars, inputs, control

LEMMA WholeIsActive ==
    ASSUME NEW s \in Side, Whole(s)
    PROVE  Active(s) /\ ~Useless
BY ActiveIs DEF Whole, Source, Side, Useless

LEMMA ReadDirectivePlans ==
    ASSUME CountsInv, BehindInv, LineInv, PlanInv, ReadDirective
    PROVE  PlanInv'
<1> USE DEF inputs, readers
<1>1. /\ UNCHANGED <<options, text, script, total, next, position, copy_mode>>
      /\ pc = "reformat" /\ calls = <<>>
  BY DEF ReadDirective
<1> SUFFICES ASSUME ~Useless', pc' \in Reading, NEW s \in Side PROVE Planned(s)'
  BY DEF PlanInv
<1>2. ~Useless BY <1>1 DEF Useless, inhibited
<1>3. PICK p \in Place, q \in Place :
             Here(s, p) /\ There(s, q) /\ Leads(s, obeyed, calls, p, q)
  BY <1>1, <1>2 DEF PlanInv, Planned, Reading
<1>4. q = p BY <1>1, <1>3, LedNowhere
<1>5. /\ p.mode = "NORMAL" /\ p.pos <= Accounted(script, obeyed, s)
      /\ Active(s) => p.pos = Accounted(script, obeyed, s)
  BY <1>1, <1>3, <1>4 DEF There
<1>6. Here(s, p)' BY <1>1, <1>3 DEF Here, Ready, AtWord, AtEnd
<1>7. ~interrupted BY DEF ReadDirective, LongJump, Reading
<1>8. (Whole(s)' <=> Whole(s)) /\ (Active(s)' <=> Active(s)) BY <1>1, LeadsFrame
<1>9. CASE obeyed < Len(script)
  <2>1. obeyed' = obeyed + 1 /\ calls' = Obey(script[obeyed']) /\ pc' = pc
    BY <1>7, <1>9 DEF ReadDirective, LongJump
  <2>2. PICK n : n = obeyed + 1 OBVIOUS
  <2>3. n \in DOMAIN script /\ n - 1 = obeyed BY <1>9, <2>2 DEF CountsInv, CountsType
  <2>4. PICK r \in Place :
               /\ Leads(s, n, Obey(script[n]), p, r) /\ r.mode = "NORMAL"
               /\ r.pos <= Accounted(script, n, s)
               /\ Active(s) => r.pos = Accounted(script, n, s)
    BY <1>5, <2>2, <2>3, ObeyLeads
  <2>5. Accounted(script, obeyed, s)' = Accounted(script, n, s)
    BY <1>1, <2>1, <2>2 DEF Accounted
  <2>6. There(s, r)' BY <1>1, <1>8, <2>1, <2>4, <2>5 DEF There
  <2>7. PICK c : c = calls' OBVIOUS
  <2>8. c = Obey(script[n]) /\ n = obeyed'
    <3>1. PICK h : h = script[n] OBVIOUS
    <3>2. (Obey(h))' = Obey(h)
      BY <1>1 DEF Obey, Resync, Separate, ShowDeleted, ShowInserted, inhibited, Emphasised,
                  FirstWord, LastWord
    <3> QED BY <1>1, <2>1, <2>2, <2>7, <3>1, <3>2
  <2>9. Leads(s, n, c, p, r) BY <2>4, <2>8
  <2> QED BY <1>1, <1>6, <2>6, <2>7, <2>8, <2>9, PlannedNext
<1>10. CASE ~(obeyed < Len(script))
  <2>1. obeyed' = obeyed /\ calls' = CopyRest /\ pc' = "remainder"
    BY <1>7, <1>10 DEF ReadDirective, LongJump, counts
  <2>2. obeyed = Len(script) BY <1>10 DEF CountsInv, CountsType
  <2>3. PICK r \in Place :
               /\ Leads(s, obeyed, CopyRest, p, r) /\ r.mode = "NORMAL"
               /\ Whole(s) => r.pos = total[s] /\ r.ready
    BY <1>5, <2>2, RestLeads
  <2>4. There(s, r)' BY <1>1, <1>8, <2>1, <2>3 DEF There
  <2>5. PICK n, c : n = obeyed' /\ c = calls' OBVIOUS
  <2>6. Leads(s, n, c, p, r) BY <2>1, <2>3, <2>5
  <2> QED BY <1>1, <1>6, <2>4, <2>5, <2>6, PlannedNext
<1> QED BY <1>9, <1>10

LEMMA CopyUntilOrdinalPlans ==
    ASSUME LineInv, PlanInv, RestType, CopyUntilOrdinal
    PROVE  PlanInv'
<1> USE DEF inputs, readers, counts, control
<1> DEFINE c == Head(calls)
           t == c.side
<1>1. /\ UNCHANGED <<options, text, script, total, obeyed, pc, next, position, copy_mode>>
      /\ calls # <<>> /\ c.fn = "copy_until_ordinal"
      /\ calls' = (IF position[t] < c.ordinal
                   THEN <<copy_whitespace(t), copy_word(t), c>> ELSE <<>>) \o Tail(calls)
  BY DEF CopyUntilOrdinal, Called, Then
<1>2. c \in CallSet /\ calls \in Seq(CallSet) /\ Tail(calls) \in Seq(CallSet)
  BY <1>1, TailCalls DEF LineInv, CallsInv
<1>3. t \in Side /\ c.ordinal \in Int BY <1>1, <1>2, CallKinds DEF Loud
<1>4. copy_whitespace(t) \in CallSet /\ copy_word(t) \in CallSet
  BY <1>3, "DELETED" \in Emphases, CallsAreTyped DEF Emphases
<1>5. \A s \in Side : position[s] \in Nat BY DEF RestType
<1> SUFFICES ASSUME ~Useless', pc' \in Reading, NEW s \in Side PROVE Planned(s)'
  BY DEF PlanInv
<1>6. Planned(s) BY <1>1 DEF PlanInv, Useless, inhibited
<1>7. ASSUME NEW p \in Place, Here(s, p) PROVE Here(s, p)'
  BY <1>1, <1>7 DEF Here, Ready, AtWord, AtEnd
<1> HIDE DEF c, t
<1>8. CASE ~(position[t] < c.ordinal)
  <2>1. calls' = Tail(calls) BY <1>1, <1>2, <1>8
  <2>2. ASSUME NEW p \in Place, NEW r \in Place, Here(s, p), Step(s, obeyed, c, p, r)
        PROVE  Here(s, r)'
    <3>1. Here(s, r)
      <4>1. r.mode = p.mode BY <1>1, <2>2 DEF Step, ModeAfter
      <4>2. CASE s = t
        <5>1. p.pos <= c.ordinal /\ r.pos = c.ordinal /\ ~r.ready
          BY <1>1, <2>2, <4>2 DEF Step, Reads, ReadsOn, t
        <5>2. p.pos = position[s] BY <2>2 DEF Here
        <5>3. r.pos = p.pos BY <1>3, <1>5, <1>8, <4>2, <5>1, <5>2
        <5> QED BY <2>2, <4>1, <5>1, <5>3 DEF Here
      <4>3. CASE s # t
        <5>1. r.pos = p.pos /\ r.ready = p.ready BY <1>1, <2>2, <4>3 DEF Step, Reads, t
        <5> QED BY <2>2, <4>1, <5>1 DEF Here
      <4> QED BY <4>2, <4>3
    <3> QED BY <1>7, <3>1
  <2> QED BY <1>1, <1>2, <1>6, <2>1, <2>2, CallDone DEF c
<1>9. CASE position[t] < c.ordinal
  <2> DEFINE c1 == copy_whitespace(t)
             c2 == copy_word(t)
             a == <<c1, c2, c>>
  <2>1. calls' = a \o Tail(calls) BY <1>1, <1>9
  <2>2. a \in Seq(CallSet) BY <1>2, <1>4
  <2>3. /\ c1.fn = "copy_whitespace" /\ c1.side = t /\ c2.fn = "copy_word" /\ c2.side = t
    BY DEF copy_whitespace, copy_word
  <2>4. c1 \in CallSet /\ c2 \in CallSet /\ c \in CallSet BY <1>2, <1>4
  <2> HIDE DEF c1, c2
  <2>5. ASSUME NEW p \in Place, NEW r \in Place, Here(s, p), Step(s, obeyed, c, p, r)
        PROVE  Leads(s, obeyed, a, p, r)
    <3>1. p.pos \in Int /\ p.mode \in Modes BY DEF Place
    <3>2. CASE s = t
      <4> DEFINE x == At(p.pos, TRUE, p.mode)
                 y == At(p.pos + 1, FALSE, p.mode)
      <4>1. /\ x \in Place /\ x.pos = p.pos /\ x.ready /\ x.mode = p.mode
            /\ y \in Place /\ y.pos = p.pos + 1 /\ ~y.ready /\ y.mode = p.mode
        BY <3>1 DEF At, Place
      <4> HIDE DEF x, y
      <4>2. /\ p.pos <= c.ordinal /\ r.pos = c.ordinal /\ ~r.ready /\ r.mode = p.mode
            /\ \A o \in (p.pos + 1)..c.ordinal : Truthful(s, obeyed, o, p.mode)
        BY <1>1, <2>5, <3>2 DEF Step, Reads, ReadsOn, ModeAfter, t
      <4>3. p.pos = position[s] BY <2>5 DEF Here
      <4>4. p.pos + 1 <= c.ordinal /\ p.pos + 1 \in (p.pos + 1)..c.ordinal
        BY <1>3, <1>5, <1>9, <3>1, <3>2, <4>3
      <4>5. \A o \in ((p.pos + 1) + 1)..c.ordinal : o \in (p.pos + 1)..c.ordinal BY <3>1, <1>3
      <4>6. Step(s, obeyed, c1, p, x) BY <2>3, <3>2, <4>1 DEF Step, Reads, ReadsOn, ModeAfter
      <4>7. Step(s, obeyed, c2, x, y)
        <5>1. Truthful(s, obeyed, x.pos + 1, x.mode) BY <4>1, <4>2, <4>4
        <5>2. y.pos = x.pos + 1 /\ y.mode = x.mode BY <4>1
        <5>3. ReadsOn(s, obeyed, c2, x, y) BY <2>3, <4>1, <5>1, <5>2 DEF ReadsOn
        <5>4. Reads(c2, s) BY <2>3, <3>2 DEF Reads
        <5> QED BY <2>3, <5>2, <5>3, <5>4 DEF Step, ModeAfter
      <4>8. Step(s, obeyed, c, y, r)
        <5>1. ASSUME NEW o \in (y.pos + 1)..c.ordinal PROVE Truthful(s, obeyed, o, y.mode)
          <6>1. o \in (p.pos + 1)..c.ordinal BY <4>1, <4>5
          <6>2. Truthful(s, obeyed, o, p.mode) BY <4>2, <6>1
          <6> QED BY <4>1, <6>2
        <5>2. y.pos <= c.ordinal /\ r.mode = y.mode BY <4>1, <4>2, <4>4
        <5>3. ReadsOn(s, obeyed, c, y, r) BY <1>1, <4>2, <5>1, <5>2 DEF ReadsOn
        <5>4. Reads(c, s) BY <1>1, <3>2 DEF Reads, t
        <5> QED BY <1>1, <5>2, <5>3, <5>4 DEF Step, ModeAfter
      <4> QED BY <2>4, <4>1, <4>6, <4>7, <4>8, LeadsByThree
    <3>3. CASE s # t
      <4>1. Step(s, obeyed, c1, p, p) /\ Step(s, obeyed, c2, p, p)
        BY <2>3, <3>3 DEF Step, Reads, ModeAfter
      <4> QED BY <2>4, <2>5, <4>1, LeadsByThree
    <3> QED BY <3>2, <3>3
  <2>6. ASSUME NEW p \in Place, NEW r \in Place, Here(s, p), Step(s, obeyed, c, p, r)
        PROVE  \E x \in Place : Here(s, x)' /\ Leads(s, obeyed, a, x, r)
    BY <1>7, <2>5, <2>6
  <2> HIDE DEF a
  <2> QED BY <1>1, <1>2, <1>6, <2>1, <2>2, <2>6, CallReplaced DEF c
<1> QED BY <1>8, <1>9

LEMMA HeadFirst ==
    ASSUME NEW S, NEW c \in Seq(S), c # <<>>
    PROVE  c = <<Head(c)>> \o Tail(c) /\ <<Head(c)>> \in Seq(S) /\ Tail(c) \in Seq(S)
OBVIOUS

LEMMA SkipUntilOrdinalPlans ==
    ASSUME LineInv, PlanInv, RestType, SkipUntilOrdinal
    PROVE  PlanInv'
<1> USE DEF inputs, readers, counts, control
<1> DEFINE c == Head(calls)
           t == c.side
<1>1. /\ UNCHANGED <<options, text, script, total, obeyed, copy_mode>>
      /\ calls # <<>> /\ c.fn = "skip_until_ordinal"
  BY DEF SkipUntilOrdinal, Called
<1>2. c \in CallSet /\ calls \in Seq(CallSet) /\ Tail(calls) \in Seq(CallSet)
  BY <1>1, TailCalls DEF LineInv, CallsInv
<1>3. t \in Side /\ c.ordinal \in Int BY <1>1, <1>2, CallKinds DEF Loud
<1>4. position \in [Side -> Nat] /\ next \in [Side -> Nat \ {0}] BY DEF RestType
<1> SUFFICES ASSUME ~Useless', pc' \in Reading, NEW s \in Side PROVE Planned(s)'
  BY DEF PlanInv
<1>5. ~interrupted \/ position[t] >= c.ordinal
  BY DEF SkipUntilOrdinal, LongJump, Reading
<1>6. pc' = pc BY <1>5 DEF SkipUntilOrdinal, LongJump
<1>7. Planned(s) BY <1>1, <1>6 DEF PlanInv, Useless, inhibited
<1>8. CASE position[t] >= c.ordinal
  <2>1. calls' = <<>> \o Tail(calls) /\ UNCHANGED <<next, position>>
    BY <1>8 DEF SkipUntilOrdinal, Then
  <2>2. calls' = Tail(calls) BY <1>2, <2>1
  <2>3. ASSUME NEW p \in Place, NEW r \in Place, Here(s, p), Step(s, obeyed, c, p, r)
        PROVE  Here(s, r)'
    <3> HIDE DEF c
    <3>1. r.mode = p.mode BY <1>1, <2>3 DEF Step, ModeAfter
    <3>2. Here(s, r)
      <4>1. CASE s = t
        <5>1. p.pos <= c.ordinal /\ r.pos = c.ordinal /\ ~r.ready
          BY <1>1, <2>3, <4>1 DEF Step, Reads, ReadsOn
        <5>2. p.pos = position[s] BY <2>3 DEF Here
        <5>3. r.pos = p.pos BY <1>3, <1>4, <1>8, <4>1, <5>1, <5>2
        <5> QED BY <2>3, <3>1, <5>1, <5>3 DEF Here
      <4>2. CASE s # t
        <5>1. r.pos = p.pos /\ r.ready = p.ready BY <1>1, <2>3, <4>2 DEF Step, Reads
        <5> QED BY <2>3, <3>1, <5>1 DEF Here
      <4> QED BY <4>1, <4>2
    <3>3. UNCHANGED <<text, next, position, copy_mode>> BY <1>1, <2>1
    <3>4. Ready(s)' <=> Ready(s) BY <3>3 DEF Ready, AtWord, AtEnd
    <3> QED BY <3>2, <3>3, <3>4 DEF Here
  <2> QED BY <1>1, <1>2, <1>6, <1>7, <2>2, <2>3, CallDone
<1>9. CASE ~(position[t] >= c.ordinal)
  <2>1. /\ UNCHANGED calls
        /\ position' = [position EXCEPT ![t] = position[t] + 1]
        /\ next' = [next EXCEPT ![t] = Min({NextWord(t) + 1, Len(text[t]) + 1})]
    <3>1. /\ UNCHANGED calls
          /\ position' = [position EXCEPT ![t] = position[t] + IF Counted(t) THEN 1 ELSE 0]
          /\ next' = [next EXCEPT ![t] = Min({NextWord(t) + 1, Len(text[t]) + 1})]
      BY <1>5, <1>9 DEF SkipUntilOrdinal, LongJump
    <3>2. (IF Counted(t) THEN 1 ELSE 0) = 1 BY DEF Counted
    <3> QED BY <3>1, <3>2
  <2> DEFINE a == <<c>>
  <2>2. calls' = a \o Tail(calls) /\ a \in Seq(CallSet) BY <1>1, <1>2, <2>1, HeadFirst
  <2>3. ASSUME NEW p \in Place, NEW r \in Place, Here(s, p), Step(s, obeyed, c, p, r)
        PROVE  \E x \in Place : Here(s, x)' /\ Leads(s, obeyed, a, x, r)
    <3> HIDE DEF c
    <3>1. r.mode = p.mode BY <1>1, <2>3 DEF Step, ModeAfter
    <3>2. CASE s = t
      <4> DEFINE x == At(p.pos + 1, FALSE, p.mode)
      <4>1. x \in Place /\ x.pos = p.pos + 1 /\ ~x.ready /\ x.mode = p.mode
        BY DEF At, Place
      <4> HIDE DEF x
      <4>2. /\ p.pos <= c.ordinal /\ r.pos = c.ordinal /\ ~r.ready /\ ~Whole(s)
        BY <1>1, <2>3, <3>2 DEF Step, Reads, ReadsOn
      <4>3. p.pos = position[s] /\ p.mode = copy_mode BY <2>3 DEF Here
      <4>4. x.pos <= c.ordinal BY <1>3, <1>4, <1>9, <3>2, <4>1, <4>3
      <4>5. ReadsOn(s, obeyed, c, x, r) BY <1>1, <4>2, <4>4 DEF ReadsOn
      <4>6. Step(s, obeyed, c, x, r)
        BY <1>1, <3>1, <3>2, <4>1, <4>5 DEF Step, Reads, ModeAfter
      <4>7. position'[s] = position[s] + 1 BY <1>3, <1>4, <2>1, <3>2
      <4>8. Here(s, x)' BY <1>1, <4>1, <4>3, <4>7 DEF Here
      <4>9. Leads(s, obeyed, a, x, r) BY <4>1, <4>6, LeadsByOne
      <4> QED BY <4>1, <4>8, <4>9
    <3>3. CASE s # t
      <4>1. position'[s] = position[s] /\ next'[s] = next[s] BY <1>3, <1>4, <2>1, <3>3
      <4>2. Here(s, p)' BY <1>1, <2>3, <4>1 DEF Here, Ready, AtWord, AtEnd
      <4>3. Leads(s, obeyed, a, p, r) BY <2>3, LeadsByOne
      <4> QED BY <4>2, <4>3
    <3> QED BY <3>2, <3>3
  <2> HIDE DEF a, c
  <2> QED BY <1>1, <1>2, <1>6, <1>7, <2>2, <2>3, CallReplaced DEF c
<1> QED BY <1>8, <1>9

LEMMA CopyWhitespacePlans ==
    ASSUME LineInv, PlanInv, RestType, CopyWhitespace
    PROVE  PlanInv'
<1> USE DEF inputs, readers, counts, control
<1> DEFINE c == Head(calls)
           t == c.side
<1>1. /\ UNCHANGED <<options, text, script, total, obeyed, position, copy_mode>>
      /\ calls # <<>> /\ c.fn = "copy_whitespace"
  BY DEF CopyWhitespace, Called
<1>2. c \in CallSet /\ calls \in Seq(CallSet) /\ Tail(calls) \in Seq(CallSet)
  BY <1>1, TailCalls DEF LineInv, CallsInv
<1>3. t \in Side BY <1>1, <1>2, CallKinds DEF Loud
<1>4. next \in [Side -> Nat \ {0}] BY DEF RestType
<1> SUFFICES ASSUME ~Useless', pc' \in Reading, NEW s \in Side PROVE Planned(s)'
  BY DEF PlanInv
<1>5. /\ pc' = pc /\ calls' = <<>> \o Tail(calls)
      /\ next' = [next EXCEPT ![t] = NextWord(t)]
  BY DEF CopyWhitespace, LongJump, Reading, Then
<1>6. Planned(s) BY <1>1, <1>5 DEF PlanInv, Useless, inhibited
<1>7. calls' = Tail(calls) BY <1>2, <1>5
<1>8. ASSUME NEW p \in Place, NEW r \in Place, Here(s, p), Step(s, obeyed, c, p, r)
      PROVE  Here(s, r)'
  <2> HIDE DEF c
  <2>1. r.mode = p.mode BY <1>1, <1>8 DEF Step, ModeAfter
  <2>2. p.pos = position[s] /\ p.mode = copy_mode /\ (p.ready => Ready(s)) BY <1>8 DEF Here
  <2>3. CASE s = t
    <3>1. r.pos = p.pos BY <1>1, <1>8, <2>3 DEF Step, Reads, ReadsOn
    <3>2. next'[s] = NextWord(s) BY <1>3, <1>4, <1>5, <2>3
    <3>3. Ready(s)' BY <1>1, <3>2, NextWordIsReady DEF LineInv, Ready, AtWord, AtEnd
    <3> QED BY <1>1, <2>1, <2>2, <3>1, <3>3 DEF Here
  <2>4. CASE s # t
    <3>1. r.pos = p.pos /\ r.ready = p.ready BY <1>1, <1>8, <2>4 DEF Step, Reads
    <3>2. next'[s] = next[s] BY <1>3, <1>4, <1>5, <2>4
    <3>3. Ready(s)' <=> Ready(s) BY <1>1, <3>2 DEF Ready, AtWord, AtEnd
    <3> QED BY <1>1, <2>1, <2>2, <3>1, <3>3 DEF Here
  <2> QED BY <2>3, <2>4
<1> QED BY <1>1, <1>2, <1>5, <1>6, <1>7, <1>8, CallDone

LEMMA CopyWordPlans ==
    ASSUME LineInv, PlanInv, RestType, CopyWord
    PROVE  PlanInv'
<1> USE DEF inputs, readers, counts, control
<1> DEFINE c == Head(calls)
           t == c.side
<1>1. /\ UNCHANGED <<options, text, script, total, obeyed, copy_mode>>
      /\ calls # <<>> /\ c.fn = "copy_word"
  BY DEF CopyWord, Called
<1>2. c \in CallSet /\ calls \in Seq(CallSet) /\ Tail(calls) \in Seq(CallSet)
  BY <1>1, TailCalls DEF LineInv, CallsInv
<1>3. t \in Side BY <1>1, <1>2, CallKinds DEF Loud
<1>4. position \in [Side -> Nat] /\ next \in [Side -> Nat \ {0}] BY DEF RestType
<1> SUFFICES ASSUME ~Useless', pc' \in Reading, NEW s \in Side PROVE Planned(s)'
  BY DEF PlanInv
<1>5. /\ pc' = pc /\ calls' = <<>> \o Tail(calls)
      /\ next' = [next EXCEPT ![t] = next[t] + IF AtWord(t) THEN 1 ELSE 0]
      /\ position' = [position EXCEPT ![t] = position[t] + 1]
  BY DEF CopyWord, LongJump, Reading, Then, Counted
<1>6. Planned(s) BY <1>1, <1>5 DEF PlanInv, Useless, inhibited
<1>7. calls' = Tail(calls) BY <1>2, <1>5
<1>8. ASSUME NEW p \in Place, NEW r \in Place, Here(s, p), Step(s, obeyed, c, p, r)
      PROVE  Here(s, r)'
  <2> HIDE DEF c
  <2>1. r.mode = p.mode BY <1>1, <1>8 DEF Step, ModeAfter
  <2>2. p.pos = position[s] /\ p.mode = copy_mode /\ (p.ready => Ready(s)) BY <1>8 DEF Here
  <2>3. CASE s = t
    <3>1. r.pos = p.pos + 1 /\ ~r.ready BY <1>1, <1>8, <2>3 DEF Step, Reads, ReadsOn
    <3>2. position'[s] = position[s] + 1 BY <1>3, <1>4, <1>5, <2>3
    <3> QED BY <1>1, <2>1, <2>2, <3>1, <3>2 DEF Here
  <2>4. CASE s # t
    <3>1. r.pos = p.pos /\ r.ready = p.ready BY <1>1, <1>8, <2>4 DEF Step, Reads
    <3>2. next'[s] = next[s] /\ position'[s] = position[s] BY <1>3, <1>4, <1>5, <2>4
    <3>3. Ready(s)' <=> Ready(s) BY <1>1, <3>2 DEF Ready, AtWord, AtEnd
    <3> QED BY <1>1, <2>1, <2>2, <3>1, <3>2, <3>3 DEF Here
  <2> QED BY <2>3, <2>4
<1> QED BY <1>1, <1>2, <1>5, <1>6, <1>7, <1>8, CallDone

LEMMA LoudCallsPlan ==
    ASSUME LineInv, PlanInv, StartEmphasis \/ EndEmphasis \/ PutSeparator
    PROVE  PlanInv'
<1> USE DEF inputs, readers, counts, control
<1> DEFINE c == Head(calls)
<1>1. /\ UNCHANGED <<options, text, script, total, obeyed, pc, next, position>>
      /\ calls # <<>> /\ c.fn \in Loud /\ calls' = <<>> \o Tail(calls)
  BY DEF StartEmphasis, EndEmphasis, PutSeparator, Called, Then, Loud
<1>2. c \in CallSet /\ calls \in Seq(CallSet) /\ Tail(calls) \in Seq(CallSet)
  BY <1>1, TailCalls DEF LineInv, CallsInv
<1> SUFFICES ASSUME ~Useless', pc' \in Reading, NEW s \in Side PROVE Planned(s)'
  BY DEF PlanInv
<1>3. ~Useless BY <1>1 DEF Useless, inhibited
<1>4. Planned(s) BY <1>1, <1>3 DEF PlanInv
<1>5. calls' = Tail(calls) BY <1>1, <1>2
<1>6. copy_mode' = ModeAfter(c, copy_mode)
  BY <1>3 DEF StartEmphasis, EndEmphasis, PutSeparator, EndOf, Called, ModeAfter
<1>7. ASSUME NEW p \in Place, NEW r \in Place, Here(s, p), Step(s, obeyed, c, p, r)
      PROVE  Here(s, r)'
  <2> HIDE DEF c
  <2>1. ~Reads(c, s) BY <1>1 DEF Reads, Loud
  <2>2. r.mode = ModeAfter(c, p.mode) /\ r.pos = p.pos /\ r.ready = p.ready
    BY <1>7, <2>1 DEF Step
  <2> QED BY <1>1, <1>6, <1>7, <2>2 DEF Here, Ready, AtWord, AtEnd
<1> QED BY <1>1, <1>2, <1>4, <1>5, <1>7, CallDone

(* A reader that was in front of a word or at the end still is.            *)
LEMMA ShrinkPlans ==
    ASSUME LineInv, PlanInv, Shrink
    PROVE  PlanInv'
<1>1. /\ UNCHANGED <<options, script, total, obeyed, pc, calls, position, copy_mode>>
      /\ UNCHANGED next
  BY DEF Shrink, readers
<1> SUFFICES ASSUME ~Useless', pc' \in Reading, NEW s \in Side PROVE Planned(s)'
  BY DEF PlanInv
<1>2. Planned(s) BY <1>1 DEF PlanInv, Useless, inhibited
<1>3. PICK t \in Side, n \in 0..(2 * MaxWords) :
             /\ next[t] - 1 <= n /\ n < Len(text[t])
             /\ text' = [text EXCEPT ![t] = SubSeq(text[t], 1, n)]
  BY DEF Shrink
<1>4. text[s] \in Seq(Items) /\ next[s] \in 1..(Len(text[s]) + 1)
  BY DEF LineInv, TextInv, Alternating
<1>5. ASSUME Ready(s) PROVE Ready(s)'
  <2>1. CASE text'[s] = text[s]
    BY <1>1, <1>5, <2>1 DEF Ready, AtWord, AtEnd
  <2>2. CASE s = t /\ text'[s] = SubSeq(text[s], 1, n)
    <3> DEFINE u == SubSeq(text[s], 1, n)
    <3>1. n \in Nat /\ n < Len(text[s]) /\ Len(text[s]) \in Nat
      BY <1>3, <1>4, <2>2, OptionsAssumption DEF OptionsAssumption
    <3>2. u \in Seq(Items) /\ Len(u) = n /\ DOMAIN u = 1..n BY <1>4, <3>1
    <3>3. \A i \in 1..n : u[i] = text[s][i] BY <1>4, <3>1
    <3> HIDE DEF u
    <3>4. next[s] <= n + 1 BY <1>3, <1>4, <2>2, <3>1
    <3>5. CASE next[s] = n + 1 BY <1>1, <2>2, <3>2, <3>5 DEF Ready, AtEnd, u
    <3>6. CASE next[s] # n + 1
      <4>1. next[s] \in 1..n /\ ~AtEnd(s) BY <1>4, <3>1, <3>4, <3>6 DEF AtEnd
      <4>2. u[next[s]] = "word" BY <1>5, <3>3, <4>1 DEF Ready, AtWord
      <4> QED BY <1>1, <2>2, <3>2, <4>1, <4>2 DEF Ready, AtWord, u
    <3> QED BY <3>5, <3>6
  <2> QED BY <1>3, <1>4, <2>1, <2>2
<1> QED BY <1>1, <1>2, <1>5, NothingDone

LEMMA OthersPlan ==
    ASSUME PlanInv, Return \/ CompleteOutput \/ Report \/ Interrupt \/ Terminated \/ UNCHANGED vars
    PROVE  PlanInv'
<1> USE DEF inputs, readers, counts, control
<1> SUFFICES ASSUME ~Useless', pc' \in Reading, NEW s \in Side PROVE Planned(s)'
  BY DEF PlanInv
<1>1. /\ UNCHANGED <<options, script, total, obeyed, pc, calls, position, copy_mode>>
      /\ UNCHANGED <<next, text>>
  BY DEF Return, CompleteOutput, Report, Interrupt, Terminated, vars, Reading
<1>2. Planned(s) BY <1>1 DEF PlanInv, Useless, inhibited
<1>3. Ready(s) => Ready(s)' BY <1>1 DEF Ready, AtWord, AtEnd
<1> QED BY <1>1, <1>2, <1>3, NothingDone

LEMMA PlanNext ==
    ASSUME CountsInv, BehindInv, LineInv, RestType, PlanInv, [Next]_vars
    PROVE  PlanInv'
BY ReadDirectivePlans, CopyUntilOrdinalPlans, SkipUntilOrdinalPlans, CopyWhitespacePlans,
   CopyWordPlans, LoudCallsPlan, ShrinkPlans, OthersPlan
   DEF Next, Reformat

-----------------------------------------------------------------------------
(* The actions keep count of the words.                                    *)

LEMMA MinOfTwo ==
    ASSUME NEW a \in Int, NEW b \in Int
    PROVE  Min({a, b}) = IF a <= b THEN a ELSE b
<1>1. \A x, y \in {a, b} : (\A z \in {a, b} : x <= z) /\ (\A z \in {a, b} : y <= z) => x = y
  OBVIOUS
<1>2. \E x \in {a, b} : (\A z \in {a, b} : x <= z) /\ x = IF a <= b THEN a ELSE b
  OBVIOUS
<1> QED BY <1>1, <1>2 DEF Min

(* White space has no ordinal.                                             *)
LEMMA OrdinalOfBlank ==
    ASSUME TextInv, NEW s \in Side
    PROVE  Ordinal(s, NextWord(s) - 1) = Ordinal(s, next[s] - 1)
<1>1. /\ next[s] \in Nat \ {0}
      /\ \/ NextWord(s) = next[s]
         \/ NextWord(s) = next[s] + 1 /\ text[s][next[s]] # "word"
  BY NextWordIsReady DEF TextInv
<1>2. CASE NextWord(s) = next[s] BY <1>2
<1>3. CASE NextWord(s) = next[s] + 1 /\ text[s][next[s]] # "word"
  <2>1. NextWord(s) - 1 = next[s] /\ next[s] - 1 \in Nat BY <1>1, <1>3
  <2>2. Ordinal(s, next[s]) = Ordinal(s, next[s] - 1) + 0 BY <1>1, <1>3, OrdinalNext
  <2>3. Ordinal(s, next[s] - 1) \in Nat BY <2>1, OrdinalIs
  <2> QED BY <2>1, <2>2, <2>3
<1> QED BY <1>1, <1>2, <1>3

Counting(s) ==
    /\ Ordinal(s, next[s] - 1) <= position[s]
    /\ next[s] <= Len(text[s]) => Ordinal(s, next[s] - 1) = position[s]
    /\ WordsIn(text[s]) <= total[s]

LEMMA CountingFrame ==
    ASSUME NEW s \in Side, Counting(s), text'[s] = text[s], total'[s] = total[s],
           next'[s] = next[s], position'[s] = position[s]
    PROVE  Counting(s)'
BY DEF Counting, Ordinal, WordsIn

LEMMA CountingNext ==
    ASSUME NEW s \in Side, Counting(s), text'[s] = text[s], total'[s] = total[s],
           NEW n, n = next'[s], NEW p, p = position'[s],
           Ordinal(s, n - 1) <= p, n <= Len(text[s]) => Ordinal(s, n - 1) = p
    PROVE  Counting(s)'
<1>1. Ordinal(s, n - 1)' = Ordinal(s, n - 1) BY DEF Ordinal
<1>2. WordsIn(text[s])' = WordsIn(text[s]) BY DEF WordsIn
<1> QED BY <1>1, <1>2 DEF Counting

LEMMA CopyWhitespaceCounts ==
    ASSUME LineInv, RestType, NEW s \in Side, Counting(s), CopyWhitespace
    PROVE  Counting(s)'
<1> USE DEF inputs, control
<1> DEFINE t == Head(calls).side
<1>1. UNCHANGED <<text, total, position>> BY DEF CopyWhitespace
<1>2. next' = next \/ next' = [next EXCEPT ![t] = NextWord(t)] BY DEF CopyWhitespace
<1> HIDE DEF t
<1>3. next \in [Side -> Nat \ {0}] BY DEF RestType
<1>4. next'[s] = next[s] \/ next'[s] = NextWord(s) BY <1>2, <1>3
<1>5. CASE next'[s] = next[s] BY <1>1, <1>5, CountingFrame
<1>6. CASE next'[s] = NextWord(s)
  <2>1. PICK n : n = next'[s] OBVIOUS
  <2>2. Ordinal(s, n - 1) = Ordinal(s, next[s] - 1)
    BY <1>6, <2>1, OrdinalOfBlank DEF LineInv
  <2>3. n <= Len(text[s]) => next[s] <= Len(text[s])
    <3>1. n = next[s] \/ n = next[s] + 1 BY <1>6, <2>1, NextWordIsReady DEF LineInv
    <3>2. next[s] \in Nat /\ Len(text[s]) \in Nat
      BY DEF LineInv, TextInv, Alternating
    <3> QED BY <3>1, <3>2
  <2>4. Ordinal(s, n - 1) <= position[s] BY <2>2 DEF Counting
  <2>5. n <= Len(text[s]) => Ordinal(s, n - 1) = position[s] BY <2>2, <2>3 DEF Counting
  <2>6. PICK p : p = position'[s] OBVIOUS
  <2>7. p = position[s] BY <1>1, <2>6
  <2> QED BY <1>1, <2>1, <2>4, <2>5, <2>6, <2>7, CountingNext
<1> QED BY <1>4, <1>5, <1>6

(* A word that is to be copied is there, or the text has ended.            *)
LEMMA CopyWordReady ==
    ASSUME LineInv, PlanInv, ~Useless, CopyWord
    PROVE  LET s == Head(calls).side
           IN  /\ s \in Side /\ Ready(s) /\ calls # <<>>
               /\ Truthful(s, obeyed, position[s] + 1, copy_mode)
<1> DEFINE c == Head(calls)
           s == c.side
<1>1. calls # <<>> /\ c.fn = "copy_word" BY DEF CopyWord, Called
<1>2. c \in CallSet /\ calls \in Seq(CallSet) BY <1>1, TailCalls DEF LineInv, CallsInv
<1>3. s \in Side BY <1>1, <1>2, CallKinds DEF Loud
<1>4. pc \in Reading BY <1>1 DEF LineInv, CallsInv
<1>5. Planned(s) BY <1>3, <1>4 DEF PlanInv
<1> HIDE DEF c
<1>6. PICK p \in Place, q \in Place : Here(s, p) /\ Leads(s, obeyed, calls, p, q)
  BY <1>5 DEF Planned
<1>7. PICK r \in Place : Step(s, obeyed, c, p, r)
  BY <1>1, <1>2, <1>6, LedByHead DEF c
<1>8. p.ready /\ Truthful(s, obeyed, p.pos + 1, p.mode)
  BY <1>1, <1>7 DEF Step, Reads, ReadsOn
<1> QED BY <1>1, <1>3, <1>6, <1>8 DEF Here, c

LEMMA CopyWordCounts ==
    ASSUME LineInv, RestType, NEW s \in Side, Counting(s), CopyWord,
           NEW t \in Side, t = Head(calls).side, Ready(t)
    PROVE  Counting(s)'
<1> USE DEF inputs, readers, control
<1>1. UNCHANGED <<text, total>> BY DEF CopyWord
<1>2. \/ next' = next /\ position' = position
      \/ /\ next' = [next EXCEPT ![t] = next[t] + IF AtWord(t) THEN 1 ELSE 0]
         /\ position' = [position EXCEPT ![t] = position[t] + 1]
  BY DEF CopyWord, Counted
<1>3. next \in [Side -> Nat \ {0}] /\ position \in [Side -> Nat] BY DEF RestType
<1>4. CASE s # t \/ (next' = next /\ position' = position)
  <2>1. next'[s] = next[s] /\ position'[s] = position[s] BY <1>2, <1>3, <1>4
  <2> QED BY <1>1, <2>1, CountingFrame
<1>5. CASE s = t /\ ~(next' = next /\ position' = position)
  <2>1. PICK n, p : n = next'[s] /\ p = position'[s] OBVIOUS
  <2>2. /\ n = next[s] + (IF AtWord(s) THEN 1 ELSE 0) /\ p = position[s] + 1
        /\ next[s] \in Nat \ {0} /\ position[s] \in Nat
    BY <1>2, <1>3, <1>5, <2>1
  <2>3. Len(text[s]) \in Nat /\ DOMAIN text[s] = 1..Len(text[s])
    BY DEF LineInv, TextInv, Alternating
  <2>4. Ordinal(s, n - 1) <= p /\ (n <= Len(text[s]) => Ordinal(s, n - 1) = p)
    <3>1. CASE AtWord(s)
      <4>1. n - 1 = next[s] /\ next[s] <= Len(text[s]) /\ text[s][next[s]] = "word"
        BY <2>2, <2>3, <3>1 DEF AtWord
      <4>2. Ordinal(s, next[s] - 1) = position[s] BY <4>1 DEF Counting
      <4>3. Ordinal(s, next[s]) = Ordinal(s, next[s] - 1) + 1 BY <2>2, <4>1, OrdinalNext
      <4> QED BY <2>2, <4>1, <4>2, <4>3
    <3>2. CASE ~AtWord(s)
      <4>1. n = Len(text[s]) + 1 /\ n = next[s]
        BY <1>5, <2>2, <3>2 DEF Ready, AtEnd
      <4>2. Ordinal(s, n - 1) <= position[s] BY <4>1 DEF Counting
      <4>3. n - 1 \in Nat BY <2>2, <4>1
      <4>4. Ordinal(s, n - 1) \in Nat BY <4>3, OrdinalIs
      <4> QED BY <2>2, <2>3, <4>1, <4>2, <4>4
    <3> QED BY <3>1, <3>2
  <2> QED BY <1>1, <2>1, <2>4, CountingNext
<1> QED BY <1>4, <1>5

LEMMA SkipCounts ==
    ASSUME LineInv, RestType, NEW s \in Side, Counting(s), SkipUntilOrdinal
    PROVE  Counting(s)'
<1> USE DEF inputs, readers, control
<1> DEFINE t == Head(calls).side
<1>1. UNCHANGED <<text, total>> BY DEF SkipUntilOrdinal
<1>2. \/ next' = next /\ position' = position
      \/ /\ next' = [next EXCEPT ![t] = Min({NextWord(t) + 1, Len(text[t]) + 1})]
         /\ position' = [position EXCEPT ![t] = position[t] + 1]
  BY DEF SkipUntilOrdinal, Counted
<1> HIDE DEF t
<1>3. next \in [Side -> Nat \ {0}] /\ position \in [Side -> Nat] BY DEF RestType
<1>4. CASE s # t \/ (next' = next /\ position' = position)
  <2>1. next'[s] = next[s] /\ position'[s] = position[s] BY <1>2, <1>3, <1>4
  <2> QED BY <1>1, <2>1, CountingFrame
<1>5. CASE s = t /\ ~(next' = next /\ position' = position)
  <2>1. PICK n, p, w : n = next'[s] /\ p = position'[s] /\ w = NextWord(s) OBVIOUS
  <2>2. /\ n = Min({w + 1, Len(text[s]) + 1}) /\ p = position[s] + 1
        /\ next[s] \in Nat \ {0} /\ position[s] \in Nat
    BY <1>2, <1>3, <1>5, <2>1
  <2>3. Len(text[s]) \in Nat BY DEF LineInv, TextInv, Alternating
  <2>4. /\ w \in 1..(Len(text[s]) + 1) /\ next[s] <= w
        /\ w # Len(text[s]) + 1 => text[s][w] = "word"
    BY <2>1, <2>2, NextWordIsReady DEF LineInv
  <2>5. Ordinal(s, w - 1) = Ordinal(s, next[s] - 1) BY <2>1, OrdinalOfBlank DEF LineInv
  <2>6. Ordinal(s, n - 1) <= p /\ (n <= Len(text[s]) => Ordinal(s, n - 1) = p)
    <3>1. CASE w # Len(text[s]) + 1
      <4>1. w + 1 <= Len(text[s]) + 1 /\ next[s] <= Len(text[s]) /\ w \in Nat \ {0}
        BY <2>2, <2>3, <2>4, <3>1
      <4>2. n = w + 1 BY <2>2, <2>3, <4>1, MinOfTwo
      <4>3. Ordinal(s, next[s] - 1) = position[s] BY <4>1 DEF Counting
      <4>4. Ordinal(s, w) = Ordinal(s, w - 1) + 1 BY <2>4, <3>1, <4>1, OrdinalNext
      <4>5. n - 1 = w BY <4>1, <4>2
      <4> QED BY <2>2, <2>5, <4>3, <4>4, <4>5
    <3>2. CASE w = Len(text[s]) + 1
      <4>1. n = Len(text[s]) + 1 BY <2>2, <2>3, <3>2, MinOfTwo
      <4>2. n - 1 = w - 1 /\ n - 1 \in Nat BY <2>3, <3>2, <4>1
      <4>3. Ordinal(s, n - 1) <= position[s] BY <2>5, <4>2 DEF Counting
      <4>4. Ordinal(s, n - 1) \in Nat BY <4>2, OrdinalIs
      <4>5. p = position[s] + 1 /\ position[s] \in Nat BY <2>2
      <4>6. ~(n <= Len(text[s])) BY <2>3, <4>1
      <4>7. Ordinal(s, n - 1) <= p BY <4>3, <4>4, <4>5
      <4> QED BY <4>6, <4>7
    <3> QED BY <3>1, <3>2
  <2> QED BY <1>1, <2>1, <2>6, CountingNext
<1> QED BY <1>4, <1>5

(* What is left of a text that loses its end.                              *)
LEMMA ShrinkLeaves ==
    ASSUME LineInv, Shrink, NEW s \in Side
    PROVE  /\ UNCHANGED <<options, script, total, obeyed, pc, calls, position, next,
                          copy_mode, output, interrupted, exit_status>>
           /\ text'[s] \in Seq(Items) /\ Len(text'[s]) <= Len(text[s])
           /\ next[s] \in 1..(Len(text'[s]) + 1)
           /\ \A i \in 1..Len(text'[s]) : text'[s][i] = text[s][i]
           /\ pc \in Reading
<1>1. /\ UNCHANGED <<options, script, total, obeyed, pc, calls, position, next,
                     copy_mode, output, interrupted, exit_status>>
      /\ pc \in Reading
  BY DEF Shrink, readers, Reading
<1>2. PICK t \in Side, n \in 0..(2 * MaxWords) :
             /\ next[t] - 1 <= n /\ n < Len(text[t])
             /\ text' = [text EXCEPT ![t] = SubSeq(text[t], 1, n)]
  BY DEF Shrink
<1>3. text[s] \in Seq(Items) /\ next[s] \in 1..(Len(text[s]) + 1) /\ Len(text[s]) \in Nat
  BY DEF LineInv, TextInv, Alternating
<1>4. CASE text'[s] = text[s] BY <1>1, <1>3, <1>4
<1>5. CASE s = t /\ text'[s] = SubSeq(text[s], 1, n)
  <2> DEFINE u == SubSeq(text[s], 1, n)
  <2>1. n \in Nat /\ n < Len(text[s])
    BY <1>2, <1>3, <1>5, OptionsAssumption DEF OptionsAssumption
  <2>2. u \in Seq(Items) /\ Len(u) = n /\ \A i \in 1..n : u[i] = text[s][i]
    BY <1>3, <2>1
  <2>3. next[s] \in 1..(n + 1) BY <1>2, <1>3, <1>5, <2>1
  <2>4. text'[s] = u /\ Len(u) <= Len(text[s]) BY <1>3, <1>5, <2>1, <2>2
  <2> HIDE DEF u
  <2> QED BY <1>1, <2>2, <2>3, <2>4
<1> QED BY <1>2, <1>4, <1>5

(* The ordinals of what has been read stay.                                *)
LEMMA ShrinkKeepsOrdinals ==
    ASSUME LineInv, Shrink, NEW s \in Side, NEW i \in 0..(next[s] - 1)
    PROVE  /\ Ordinal(s, i)' = Ordinal(s, i)
           /\ WordsIn(text'[s]) <= WordsIn(text[s])
<1>1. PICK t : t = text'[s] OBVIOUS
<1>2. /\ t \in Seq(Items) /\ Len(t) <= Len(text[s]) /\ next[s] \in 1..(Len(t) + 1)
      /\ \A k \in 1..Len(t) : t[k] = text[s][k]
  BY <1>1, ShrinkLeaves
<1>3. text[s] \in Seq(Items) BY DEF LineInv, TextInv, Alternating
<1>4. /\ WordsIn(t) <= WordsIn(text[s])
      /\ \A k \in 0..Len(t) : WordsTo(t, k) = WordsTo(text[s], k)
  BY <1>2, <1>3, Shortened
<1>5. i \in 0..Len(t) /\ i \in Nat BY <1>2
<1>6. Ordinal(s, i)' = Cardinality(WordsTo(t, i)) BY <1>1 DEF Ordinal, WordsTo
<1>7. Ordinal(s, i) = Cardinality(WordsTo(text[s], i)) BY <1>5, OrdinalIs
<1>8. Ordinal(s, i)' = Ordinal(s, i) BY <1>4, <1>5, <1>6, <1>7
<1> QED BY <1>1, <1>4, <1>8

LEMMA ShrinkCounts ==
    ASSUME LineInv, NEW s \in Side, Counting(s), Shrink, RestType, CountsInv
    PROVE  Counting(s)'
<1>1. UNCHANGED <<total, next, position>> /\ Len(text'[s]) <= Len(text[s])
      /\ text'[s] \in Seq(Items)
  BY ShrinkLeaves
<1>2. PICK i : i = next[s] - 1 OBVIOUS
<1>3. next[s] \in 1..(Len(text[s]) + 1) /\ text[s] \in Seq(Items)
  BY DEF LineInv, TextInv, Alternating
<1>4. i \in 0..(next[s] - 1) BY <1>2, <1>3
<1>5. Ordinal(s, i)' = Ordinal(s, i) /\ WordsIn(text'[s]) <= WordsIn(text[s])
  BY <1>4, ShrinkKeepsOrdinals
<1>6. next'[s] - 1 = i BY <1>1, <1>2
<1>a. Ordinal(s, next[s] - 1)' = Ordinal(s, next[s] - 1) BY <1>2, <1>5, <1>6
<1>7. (Ordinal(s, next[s] - 1) <= position[s])' BY <1>1, <1>a DEF Counting
<1>8. (next[s] <= Len(text[s]) => Ordinal(s, next[s] - 1) = position[s])'
  <2>1. next[s] <= Len(text'[s]) => next[s] <= Len(text[s])
    <3>1. Len(text'[s]) \in Nat /\ Len(text[s]) \in Nat BY <1>1, <1>3
    <3> QED BY <1>1, <1>3, <3>1
  <2> QED BY <1>1, <1>a, <2>1 DEF Counting
<1>9. (WordsIn(text[s]) <= total[s])'
  <2>1. WordsIn(text[s]) = Ordinal(s, Len(text[s])) /\ Len(text[s]) \in Nat
    BY <1>3, OrdinalOfAll
  <2>2. WordsIn(text[s]) \in Nat BY <2>1, OrdinalIs
  <2>3. WordsIn(text'[s]) \in Nat
    <3>1. DOMAIN text'[s] = 1..Len(text'[s]) /\ Len(text'[s]) \in Nat BY <1>1
    <3>2. PICK t : t = text'[s] OBVIOUS
    <3>3. {k \in DOMAIN t : t[k] = "word"} \in SUBSET (1..Len(t)) BY <3>1, <3>2
    <3>4. IsFiniteSet(1..Len(t)) BY <3>1, <3>2, FS_Interval
    <3>5. IsFiniteSet({k \in DOMAIN t : t[k] = "word"}) BY <3>3, <3>4, FS_Subset
    <3> QED BY <3>2, <3>5, FS_CardinalityType DEF WordsIn
  <2>4. WordsIn(text[s]) <= total[s] /\ total[s] \in Nat
    BY DEF Counting, CountsInv, CountsType
  <2>5. WordsIn(text'[s]) <= total[s] BY <1>5, <2>2, <2>3, <2>4
  <2>6. WordsIn(text[s])' = WordsIn(text'[s]) BY DEF WordsIn
  <2> QED BY <1>1, <2>5, <2>6
<1> QED BY <1>7, <1>8, <1>9 DEF Counting

LEMMA ReadNext ==
    ASSUME LineInv, RestType, CountsInv, PlanInv, ReadInv, [Next]_vars
    PROVE  ReadInv'
<1> USE DEF inputs, readers, counts, control
<1> SUFFICES ASSUME ~Useless', NEW s \in Side PROVE Counting(s)'
  BY DEF ReadInv, Counting
<1>1. ~Useless BY InputsStay DEF Useless, inhibited
<1>2. Counting(s) BY <1>1 DEF ReadInv, Counting
<1>3. CASE CopyWhitespace BY <1>2, <1>3, CopyWhitespaceCounts
<1>4. CASE CopyWord
  <2>1. PICK t : t = Head(calls).side OBVIOUS
  <2>2. t \in Side /\ Ready(t) BY <1>1, <1>4, <2>1, CopyWordReady
  <2> QED BY <1>2, <1>4, <2>1, <2>2, CopyWordCounts
<1>5. CASE SkipUntilOrdinal BY <1>2, <1>5, SkipCounts
<1>6. CASE Shrink BY <1>2, <1>6, ShrinkCounts
<1>7. CASE /\ [Next]_vars
           /\ ~CopyWhitespace /\ ~CopyWord /\ ~SkipUntilOrdinal /\ ~Shrink
  <2>1. UNCHANGED <<text, total, next, position>>
    BY <1>7 DEF Next, Reformat, ReadDirective, CopyUntilOrdinal, StartEmphasis, EndEmphasis,
           PutSeparator, Return, CompleteOutput, Report, Interrupt, Terminated, vars
  <2> QED BY <1>2, <2>1, CountingFrame
<1> QED BY <1>3, <1>4, <1>5, <1>6, <1>7

-----------------------------------------------------------------------------
(* What the actions write.                                                 *)

LEMMA StaysSilent ==
    ASSUME NEW out, Tidy(out)
    PROVE  Silent(out, out)
<1>1. Len(out) \in Nat BY DEF Tidy
<1> QED BY <1>1 DEF Silent, Same

LEMMA OneMute ==
    ASSUME NEW out, Tidy(out), Held(out, "NORMAL"), NEW o \in Written,
           o.from \notin {"term", "user"}, Mute(o)
    PROVE  LET new == out \o <<o>>
           IN  Tidy(new) /\ Held(new, "NORMAL") /\ Silent(out, new)
<1> DEFINE new == out \o <<o>>
<1>1. PlainAt(out, Len(out) + 1) BY PlainWhenNormal
<1>2. /\ Tidy(new) /\ Held(new, "NORMAL")
      /\ Same(out, new) /\ Len(new) = Len(out) + 1 /\ new[Len(out) + 1] = o
  BY <1>1, NoMark
<1>3. Len(out) \in Nat BY DEF Tidy
<1> HIDE DEF new
<1>4. ASSUME NEW i \in (Len(out) + 1)..Len(new) PROVE Mute(new[i])
  <2>1. i = Len(out) + 1 BY <1>2, <1>3
  <2> QED BY <1>2, <2>1
<1>5. Silent(out, new) BY <1>2, <1>4 DEF Silent
<1> QED BY <1>2, <1>5 DEF new

LEMMA FirmNextFrame ==
    ASSUME UNCHANGED options, Firm(output', copy_mode')
    PROVE  FirmInv'
BY DEF FirmInv, Firm, Strings, UserStrings, Defaults

(* White space: an item of the text, or nothing.                           *)
LEMMA WhitespaceSays ==
    ASSUME LineInv, RestType, CopyWhitespace, NEW s, s = Head(calls).side
    PROVE  /\ s \in Side /\ calls # <<>> /\ Head(calls).fn = "copy_whitespace"
           /\ UNCHANGED <<options, text, script, total, obeyed, position, copy_mode>>
           /\ \/ output' = output /\ next' = next
              \/ /\ next[s] \in DOMAIN text[s] /\ text[s][next[s]] # "word"
                 /\ next' = [next EXCEPT ![s] = next[s] + 1]
                 /\ Says(output, output', Char(s, next[s]))
                 /\ Firm(output, copy_mode) => Firm(output', copy_mode)
<1> USE DEF inputs, readers, counts, control
<1>1. /\ UNCHANGED <<options, text, script, total, obeyed, position, copy_mode>>
      /\ calls # <<>> /\ Head(calls).fn = "copy_whitespace"
  BY DEF CopyWhitespace, Called
<1>2. Head(calls) \in CallSet BY <1>1, TailCalls DEF LineInv, CallsInv
<1>3. s \in Side BY <1>1, <1>2, CallKinds DEF Loud
<1>4. \/ next' = next /\ output' = output
      \/ /\ next' = [next EXCEPT ![s] = NextWord(s)]
         /\ output' = output \o
              FlattenSeq([k \in 1..(NextWord(s) - next[s]) |-> Blank(s, next[s] + k - 1)])
  BY DEF CopyWhitespace
<1>5. /\ text[s] \in Seq(Items) /\ next[s] \in Nat /\ next \in [Side -> Nat \ {0}]
      /\ copy_mode \in Modes /\ Tidy(output) /\ Held(output, copy_mode)
      /\ output \in Seq(Written)
  BY <1>3 DEF LineInv, TextInv, Alternating, ModeInv, OutputInv, Tidy, RestType
<1>6. CASE next' = next /\ output' = output BY <1>1, <1>3, <1>6
<1>7. CASE /\ next' = [next EXCEPT ![s] = NextWord(s)]
           /\ output' = output \o
                FlattenSeq([k \in 1..(NextWord(s) - next[s]) |-> Blank(s, next[s] + k - 1)])
  <2>1. CASE NextWord(s) = next[s]
    <3>1. NextWord(s) - next[s] = 0 BY <1>5, <2>1
    <3>2. FlattenSeq([k \in 1..0 |-> Blank(s, next[s] + k - 1)]) = <<>>
      BY <1>3, <1>5, FlattenNone
    <3>3. output' = output \o <<>> BY <1>7, <3>1, <3>2
    <3>4. output' = output BY <1>5, <3>3
    <3>5. next' = next BY <1>3, <1>5, <1>7, <2>1
    <3> QED BY <1>1, <1>3, <3>4, <3>5
  <2>2. CASE /\ NextWord(s) = next[s] + 1
             /\ next[s] \in DOMAIN text[s] /\ text[s][next[s]] # "word"
    <3>1. NextWord(s) - next[s] = 1 BY <1>5, <2>2
    <3>2. output' = output \o Blank(s, next[s]) BY <1>3, <1>5, <1>7, <3>1, FlattenOne
    <3>3. /\ Says(output, output', Char(s, next[s]))
          /\ Firm(output, copy_mode) => Firm(output', copy_mode)
      <4>1. PICK i, new, out : i = next[s] /\ new = output' /\ out = output OBVIOUS
      <4>2. /\ copy_mode \in Modes /\ Tidy(out) /\ Held(out, copy_mode)
            /\ text[s] \in Seq(Items) /\ i \in DOMAIN text[s]
            /\ new = out \o Blank(s, i)
        BY <1>5, <2>2, <3>2, <4>1
      <4>3. /\ Says(out, new, Char(s, i))
            /\ Firm(out, copy_mode) => Firm(new, copy_mode)
        BY <1>3, <4>2, BlankIsCopied
      <4> QED BY <4>1, <4>3
    <3>4. next' = [next EXCEPT ![s] = next[s] + 1] BY <1>7, <2>2
    <3> QED BY <1>1, <1>3, <2>2, <3>3, <3>4
  <2> QED BY <1>3, <2>1, <2>2, NextWordIsReady DEF LineInv
<1> QED BY <1>4, <1>6, <1>7

(* A word, or nothing.                                                     *)
SaysWord(out, new, o) ==
    Says(out, new, o) /\ Len(new) = Len(out) + 1 /\ new[Len(out) + 1] = o

LEMMA WordWritten ==
    ASSUME copy_mode \in Modes, NEW out, Tidy(out), Held(out, copy_mode),
           NEW s \in Side, text[s] \in Seq(Items), NEW i \in DOMAIN text[s], text[s][i] = "word",
           NEW one, one = <<Char(s, i)>>, NEW new, new = out \o one
    PROVE  SaysWord(out, new, Char(s, i)) /\ (Firm(out, copy_mode) => Firm(new, copy_mode))
<1>1. new = out \o <<Char(s, i)>> OBVIOUS
<1>2. Says(out, new, Char(s, i)) BY <1>1, WordIsCopied
<1>3. Len(new) = Len(out) + 1 BY <1>1, WordIsCopied
<1>4. new[Len(out) + 1] = Char(s, i) BY <1>1, WordIsCopied
<1>5. Firm(out, copy_mode) => Firm(new, copy_mode) BY <1>1, WordIsCopied
<1> QED BY <1>2, <1>3, <1>4, <1>5 DEF SaysWord

LEMMA WordSays ==
    ASSUME LineInv, RestType, CopyWord, NEW s, s = Head(calls).side
    PROVE  /\ s \in Side /\ calls # <<>> /\ Head(calls).fn = "copy_word"
           /\ UNCHANGED <<options, text, script, total, obeyed, copy_mode>>
           /\ \/ output' = output /\ next' = next
              \/ /\ AtWord(s)
                 /\ next' = [next EXCEPT ![s] = next[s] + 1]
                 /\ Says(output, output', Char(s, next[s]))
                 /\ Len(output') = Len(output) + 1 /\ output'[Len(output) + 1] = Char(s, next[s])
                 /\ Firm(output, copy_mode) => Firm(output', copy_mode)
<1> USE DEF inputs, readers, counts, control
<1>1. /\ UNCHANGED <<options, text, script, total, obeyed, copy_mode>>
      /\ calls # <<>> /\ Head(calls).fn = "copy_word"
  BY DEF CopyWord, Called
<1>2. Head(calls) \in CallSet BY <1>1, TailCalls DEF LineInv, CallsInv
<1>3. s \in Side BY <1>1, <1>2, CallKinds DEF Loud
<1>4. \/ next' = next /\ output' = output
      \/ /\ next' = [next EXCEPT ![s] = next[s] + IF AtWord(s) THEN 1 ELSE 0]
         /\ output' = output \o When(AtWord(s), <<Char(s, next[s])>>)
  BY DEF CopyWord
<1>5. /\ text[s] \in Seq(Items) /\ next[s] \in Nat /\ next \in [Side -> Nat \ {0}]
      /\ copy_mode \in Modes /\ Tidy(output) /\ Held(output, copy_mode)
      /\ output \in Seq(Written)
  BY <1>3 DEF LineInv, TextInv, Alternating, ModeInv, OutputInv, Tidy, RestType
<1>6. CASE next' = next /\ output' = output BY <1>1, <1>3, <1>6
<1>7. CASE /\ next' = [next EXCEPT ![s] = next[s] + IF AtWord(s) THEN 1 ELSE 0]
           /\ output' = output \o When(AtWord(s), <<Char(s, next[s])>>)
  <2>1. CASE ~AtWord(s)
    <3>1. output' = output \o <<>> BY <1>7, <2>1 DEF When
    <3>2. output' = output BY <1>5, <3>1
    <3>3. next' = next BY <1>3, <1>5, <1>7, <2>1
    <3> QED BY <1>1, <1>3, <3>2, <3>3
  <2>2. CASE AtWord(s)
    <3>1. output' = output \o <<Char(s, next[s])>> BY <1>7, <2>2 DEF When
    <3>2. next[s] \in DOMAIN text[s] /\ text[s][next[s]] = "word" BY <2>2 DEF AtWord
    <3>3. /\ Says(output, output', Char(s, next[s]))
          /\ Len(output') = Len(output) + 1 /\ output'[Len(output) + 1] = Char(s, next[s])
          /\ Firm(output, copy_mode) => Firm(output', copy_mode)
      <4>1. PICK i, one, new : i = next[s] /\ one = <<Char(s, next[s])>> /\ new = output'
        OBVIOUS
      <4>2. i \in DOMAIN text[s] /\ text[s][i] = "word" /\ one = <<Char(s, i)>>
        BY <3>2, <4>1
      <4>3. new = output \o one BY <3>1, <4>1
      <4>4. PICK out : out = output OBVIOUS
      <4>8. copy_mode \in Modes /\ Tidy(out) /\ Held(out, copy_mode) /\ text[s] \in Seq(Items)
        BY <1>5, <4>4
      <4>9. new = out \o one BY <4>3, <4>4
      <4>10. SaysWord(out, new, Char(s, i)) BY <1>3, <4>2, <4>8, <4>9, WordWritten
      <4>11. Firm(out, copy_mode) => Firm(new, copy_mode)
        BY <1>3, <4>2, <4>8, <4>9, WordWritten
      <4>5. SaysWord(output, output', Char(s, next[s])) BY <4>1, <4>4, <4>10
      <4>7. Firm(output, copy_mode) => Firm(output', copy_mode) BY <4>1, <4>4, <4>11
      <4> QED BY <4>5, <4>7 DEF SaysWord
    <3>4. next' = [next EXCEPT ![s] = next[s] + 1] BY <1>7, <2>2
    <3> QED BY <1>1, <1>3, <2>2, <3>3, <3>4
  <2> QED BY <2>1, <2>2
<1> QED BY <1>4, <1>6, <1>7

LEMMA EndOfIsSilent ==
    ASSUME LineInv, NEW mode \in Emphases, copy_mode \in {mode, "NORMAL"}, EndOf(mode)
    PROVE  Silent(output, output') /\ copy_mode' = "NORMAL"
<1>1. copy_mode \in Modes /\ Tidy(output) /\ Held(output, copy_mode)
  BY DEF LineInv, ModeInv, OutputInv
<1>2. CASE Useless
  <2>1. UNCHANGED <<copy_mode, output>> /\ copy_mode = "NORMAL"
    BY <1>2 DEF EndOf, LineInv, ModeInv
  <2> QED BY <1>1, <2>1, StaysSilent
<1>3. CASE ~Useless
  <2>1. output' = output \o EndMarks(End(mode)) /\ copy_mode' = "NORMAL"
    BY <1>3 DEF EndOf
  <2>2. Held(output, mode) \/ Held(output, "NORMAL") BY <1>1
  <2> QED BY <1>1, <2>1, <2>2, Ended
<1> QED BY <1>2, <1>3

(* Everything else writes marks and separators.                            *)
LEMMA MarksAreSilent ==
    ASSUME LineInv, StartEmphasis \/ EndEmphasis \/ PutSeparator \/ CompleteOutput
    PROVE  /\ Silent(output, output')
           /\ copy_mode' # "NORMAL" => Firm(output', copy_mode')
<1> USE DEF inputs, readers, counts, control
<1> DEFINE mode == Head(calls).mode
<1>1. copy_mode \in Modes /\ Tidy(output) /\ Held(output, copy_mode)
  BY DEF LineInv, ModeInv, OutputInv
<1>2. ASSUME calls # <<>>, Head(calls).fn \in Loud
      PROVE  /\ Head(calls).fn \in {"start", "end"} => mode \in Emphases
             /\ \A m : Closes(calls, m) => Head(calls) = end_of(m)
             /\ copy_mode # "NORMAL" => Closes(calls, copy_mode)
  <2>1. Head(calls) \in CallSet /\ \A m : Closes(calls, m) => Head(calls) = end_of(m)
    BY <1>2, TailCalls DEF LineInv, CallsInv
  <2>2. pc \in Reading BY <1>2 DEF LineInv, CallsInv
  <2> QED BY <2>1, <2>2, CallKinds DEF LineInv, CallsInv
<1>3. CASE StartEmphasis
  <2>1. calls # <<>> /\ Head(calls).fn = "start" BY <1>3 DEF StartEmphasis, Called
  <2>2. mode \in Emphases /\ copy_mode = "NORMAL"
    <3>1. \A m : Head(calls) # end_of(m) BY <2>1 DEF end_of
    <3> QED BY <1>2, <2>1, <3>1 DEF Loud
  <2>3. CASE Useless
    <3>1. UNCHANGED <<copy_mode, output>> BY <1>3, <2>3 DEF StartEmphasis
    <3> QED BY <1>1, <2>2, <3>1, StaysSilent
  <2>4. CASE ~Useless
    <3>1. copy_mode' = mode /\ output' = output \o StartMarks(Start(mode))
      BY <1>3, <2>4 DEF StartEmphasis
    <3> HIDE DEF mode
    <3> QED BY <1>1, <2>2, <3>1, Started
  <2> QED BY <2>3, <2>4
<1>4. CASE EndEmphasis
  <2>1. calls # <<>> /\ Head(calls).fn = "end" /\ EndOf(mode)
    BY <1>4 DEF EndEmphasis, Called
  <2>2. mode \in Emphases BY <1>2, <2>1 DEF Loud
  <2>3. copy_mode \in {mode, "NORMAL"}
    <3>1. CASE copy_mode # "NORMAL"
      <4>1. Head(calls) = end_of(copy_mode) BY <1>2, <2>1, <3>1 DEF Loud
      <4> QED BY <4>1 DEF end_of
    <3> QED BY <3>1
  <2> HIDE DEF mode
  <2> QED BY <2>1, <2>2, <2>3, EndOfIsSilent
<1>5. CASE PutSeparator
  <2> DEFINE nl == Other("newline", "wdiff")
             sep == Other("separator", "wdiff")
  <2>1. /\ calls # <<>> /\ Head(calls).fn = "separator" /\ copy_mode' = copy_mode
        /\ output' = output \o <<nl, sep, nl>>
    BY <1>5 DEF PutSeparator, Called
  <2>2. copy_mode = "NORMAL"
    <3>1. \A m : Head(calls) # end_of(m) BY <2>1 DEF end_of
    <3> QED BY <1>2, <2>1, <3>1 DEF Loud
  <2>3. /\ nl \in Written /\ sep \in Written /\ nl.from = "wdiff" /\ sep.from = "wdiff"
        /\ nl.kind = "newline" /\ sep.kind = "separator"
    BY <1>1, OtherIsWritten
  <2>4. /\ nl.from \notin {"term", "user"} /\ sep.from \notin {"term", "user"}
        /\ Mute(nl) /\ Mute(sep)
    BY <2>3 DEF Mute, Side
  <2> HIDE DEF nl, sep
  <2> DEFINE o1 == output \o <<nl>>
             o2 == o1 \o <<sep>>
             o3 == o2 \o <<nl>>
  <2>5. output' = o3
    <3>1. output \in Seq(Written) BY <1>1 DEF Tidy
    <3> QED BY <2>1, <2>3, <3>1
  <2>6. Held(output, "NORMAL") BY <1>1, <2>2
  <2>7. Tidy(o1) /\ Held(o1, "NORMAL") /\ Silent(output, o1)
    BY <1>1, <2>3, <2>4, <2>6, OneMute
  <2> HIDE DEF o1
  <2>8. Tidy(o2) /\ Held(o2, "NORMAL") /\ Silent(o1, o2)
    BY <2>3, <2>4, <2>7, OneMute
  <2> HIDE DEF o2
  <2>9. Tidy(o3) /\ Held(o3, "NORMAL") /\ Silent(o2, o3)
    BY <2>3, <2>4, <2>8, OneMute
  <2> HIDE DEF o3
  <2>10. Silent(output, o2) BY <1>1, <2>7, <2>8, SilentTwice
  <2>11. Silent(output, o3) BY <1>1, <2>8, <2>9, <2>10, SilentTwice
  <2> QED BY <2>1, <2>2, <2>5, <2>11
<1>6. CASE CompleteOutput
  <2>1. CASE copy_mode = "NORMAL"
    <3>1. UNCHANGED <<copy_mode, output>> BY <1>6, <2>1 DEF CompleteOutput, PendingEnded
    <3> QED BY <1>1, <2>1, <3>1, StaysSilent
  <2>2. CASE copy_mode # "NORMAL"
    <3>1. EndOf(copy_mode) BY <1>6, <2>2 DEF CompleteOutput, PendingEnded
    <3>2. copy_mode \in Emphases BY <1>1, <2>2 DEF Modes, Emphases
    <3> QED BY <3>1, <3>2, EndOfIsSilent
  <2> QED BY <2>1, <2>2
<1> QED BY <1>3, <1>4, <1>5, <1>6

LEMMA FirmNext ==
    ASSUME LineInv, RestType, FirmInv, [Next]_vars
    PROVE  FirmInv'
<1> USE DEF inputs, readers, counts, control
<1>0. UNCHANGED options BY InputsStay
<1>1. CASE CopyWhitespace
  <2>1. PICK s : s = Head(calls).side OBVIOUS
  <2>2. copy_mode' = copy_mode /\ Firm(output', copy_mode)
    BY <1>1, <2>1, WhitespaceSays DEF FirmInv
  <2> QED BY <1>0, <2>2, FirmNextFrame
<1>2. CASE CopyWord
  <2>1. PICK s : s = Head(calls).side OBVIOUS
  <2>2. copy_mode' = copy_mode /\ Firm(output', copy_mode)
    BY <1>2, <2>1, WordSays DEF FirmInv
  <2> QED BY <1>0, <2>2, FirmNextFrame
<1>3. CASE StartEmphasis \/ EndEmphasis \/ PutSeparator \/ CompleteOutput
  <2>1. copy_mode' # "NORMAL" => Firm(output', copy_mode') BY <1>3, MarksAreSilent
  <2>2. Firm(output', copy_mode') BY <2>1 DEF Firm
  <2> QED BY <1>0, <2>2, FirmNextFrame
<1>4. CASE /\ [Next]_vars
           /\ ~CopyWhitespace /\ ~CopyWord
           /\ ~(StartEmphasis \/ EndEmphasis \/ PutSeparator \/ CompleteOutput)
  <2>1. UNCHANGED <<output, copy_mode>>
    BY <1>4 DEF Next, Reformat, ReadDirective, CopyUntilOrdinal, SkipUntilOrdinal, Return,
           Report, Interrupt, Shrink, Terminated, vars
  <2>2. Firm(output', copy_mode') BY <2>1 DEF FirmInv
  <2> QED BY <1>0, <2>2, FirmNextFrame
<1> QED BY <1>1, <1>2, <1>3, <1>4

-----------------------------------------------------------------------------
(***************************************************************************)
(* A word that is out looks emphasised exactly when a directive names it.  *)
(***************************************************************************)
Showy(out, i) ==
    out[i].look # "plain" \/ OnIn(out, i, "user") \/ OnIn(out, i, "term")

Told(out, i) ==
    /\ out[i].from \in Side /\ out[i].at \in 1..(next[out[i].from] - 1)
    /\ Closable("user") /\ Closable("term") =>
         (Showy(out, i) <=> Named(out[i].from, Ordinal(out[i].from, out[i].at), obeyed))

WordsInv ==
    ~Useless => \A i \in DOMAIN output : output[i].kind = "word" => Told(output, i)

LEMMA SameShow ==
    ASSUME NEW out, NEW new, Same(out, new), NEW i \in 1..Len(out)
    PROVE  new[i] = out[i] /\ (Showy(new, i) <=> Showy(out, i))
<1>1. new[i] = out[i] BY DEF Same
<1>2. i \in 1..(Len(out) + 1) OBVIOUS
<1>3. \A from \in {"term", "user"} : OnIn(new, i, from) <=> OnIn(out, i, from)
  BY <1>2 DEF Same
<1> QED BY <1>1, <1>3 DEF Showy

LEMMA ToldFrame ==
    ASSUME UNCHANGED <<options, script>>, Tidy(output), Same(output, output'),
           NEW i \in DOMAIN output, Told(output, i),
           \A s \in Side : next[s] \in Nat /\ next'[s] \in Nat /\ next[s] <= next'[s],
           \A s \in Side : \A k \in 1..(next[s] - 1) :
              Ordinal(s, k)' = Ordinal(s, k)
                /\ (Named(s, Ordinal(s, k), obeyed') <=> Named(s, Ordinal(s, k), obeyed))
    PROVE  Told(output, i)'
<1>1. PICK out, new : out = output /\ new = output' OBVIOUS
<1>2. i \in 1..Len(out) /\ Same(out, new) /\ Told(out, i) BY <1>1 DEF Tidy
<1>3. new[i] = out[i] /\ (Showy(new, i) <=> Showy(out, i)) BY <1>2, SameShow
<1>4. PICK s, k : s = out[i].from /\ k = out[i].at OBVIOUS
<1>5. s \in Side /\ k \in 1..(next[s] - 1) BY <1>2, <1>4 DEF Told
<1>6. k \in 1..(next'[s] - 1) BY <1>5
<1>7. /\ Closable("user")' <=> Closable("user")
      /\ Closable("term")' <=> Closable("term")
  BY DEF Closable, Strings, UserStrings, Defaults
<1>8. PICK r : r = Ordinal(s, k) OBVIOUS
<1>9. Ordinal(s, k)' = r /\ (Named(s, r, obeyed') <=> Named(s, r, obeyed))
  BY <1>5, <1>8
<1>10. Named(s, r, obeyed)' <=> Named(s, r, obeyed')
  BY DEF Named, FirstWord, LastWord
<1>11. Closable("user") /\ Closable("term") => (Showy(out, i) <=> Named(s, r, obeyed))
  BY <1>2, <1>4, <1>8 DEF Told
<1>12. (Closable("user") /\ Closable("term"))' => (Showy(new, i) <=> Named(s, r, obeyed)')
  BY <1>3, <1>7, <1>9, <1>10, <1>11
<1>13. new[i].from = s /\ new[i].at = k BY <1>3, <1>4
<1> QED BY <1>1, <1>5, <1>6, <1>9, <1>12, <1>13 DEF Told

(* What is new is told, and what was out stays so.                         *)
LEMMA WordsFrame ==
    ASSUME UNCHANGED <<options, script>>, WordsInv, Tidy(output), Len(output') \in Nat,
           DOMAIN output' = 1..Len(output'), Same(output, output'),
           \A s \in Side : next[s] \in Nat /\ next'[s] \in Nat /\ next[s] <= next'[s],
           \A s \in Side : \A k \in 1..(next[s] - 1) :
              Ordinal(s, k)' = Ordinal(s, k)
                /\ (Named(s, Ordinal(s, k), obeyed') <=> Named(s, Ordinal(s, k), obeyed)),
           \A i \in (Len(output) + 1)..Len(output') :
              output'[i].kind = "word" => Told(output, i)'
    PROVE  WordsInv'
<1>1. Useless' <=> Useless BY DEF Useless, inhibited
<1> SUFFICES ASSUME ~Useless, NEW i \in DOMAIN output', output'[i].kind = "word"
             PROVE  Told(output, i)'
  BY <1>1 DEF WordsInv
<1>2. Len(output) \in Nat /\ DOMAIN output = 1..Len(output) BY DEF Tidy
<1>3. CASE i \in (Len(output) + 1)..Len(output') BY <1>3
<1>4. CASE i \in 1..Len(output)
  <2>1. output[i].kind = "word" BY <1>4 DEF Same
  <2>2. Told(output, i) BY <1>2, <1>4, <2>1 DEF WordsInv
  <2>3. i \in DOMAIN output BY <1>2, <1>4
  <2> QED BY <2>2, <2>3, ToldFrame
<1> QED BY <1>2, <1>3, <1>4

(* No directive is read, and no file loses its end.                        *)
LEMMA WordsWritten ==
    ASSUME UNCHANGED <<options, script, text, obeyed>>, WordsInv, LineInv, LineInv',
           Same(output, output'), \A s \in Side : next[s] <= next'[s],
           \A i \in (Len(output) + 1)..Len(output') :
              output'[i].kind = "word" => Told(output, i)'
    PROVE  WordsInv'
<1>1. Tidy(output) /\ Len(output') \in Nat /\ DOMAIN output' = 1..Len(output')
  BY DEF LineInv, OutputInv, Tidy
<1>2. ASSUME NEW s \in Side PROVE next[s] \in Nat /\ next'[s] \in Nat /\ next[s] <= next'[s]
  BY <1>2 DEF LineInv, TextInv
<1>3. ASSUME NEW s \in Side, NEW k \in 1..(next[s] - 1)
      PROVE  /\ Ordinal(s, k)' = Ordinal(s, k)
             /\ Named(s, Ordinal(s, k), obeyed') <=> Named(s, Ordinal(s, k), obeyed)
  BY DEF Ordinal
<1> QED BY <1>1, <1>2, <1>3, WordsFrame

LEMMA NothingNew ==
    ASSUME UNCHANGED output, LineInv
    PROVE  /\ Same(output, output')
           /\ \A i \in (Len(output) + 1)..Len(output') :
                 output'[i].kind = "word" => Told(output, i)'
<1>1. Tidy(output) /\ Len(output) \in Nat BY DEF LineInv, OutputInv, Tidy
<1>2. Silent(output, output) BY <1>1, StaysSilent
<1> QED BY <1>1, <1>2 DEF Silent

LEMMA SilentTells ==
    ASSUME UNCHANGED <<options, script, text, obeyed, next>>, WordsInv, LineInv, LineInv',
           Silent(output, output')
    PROVE  WordsInv'
<1>1. \A s \in Side : next[s] <= next'[s] BY DEF LineInv, TextInv
<1>2. /\ Same(output, output')
      /\ \A i \in (Len(output) + 1)..Len(output') : output'[i].kind # "word"
  BY DEF Silent, Mute
<1> QED BY <1>1, <1>2, WordsWritten

LEMMA CopyWhitespaceTells ==
    ASSUME LineInv, LineInv', RestType, WordsInv, CopyWhitespace
    PROVE  WordsInv'
<1>1. PICK s : s = Head(calls).side OBVIOUS
<1>2. PICK k : k = next[s] OBVIOUS
<1>3. /\ s \in Side /\ UNCHANGED <<options, text, script, obeyed>>
      /\ \/ output' = output /\ next' = next
         \/ /\ k \in DOMAIN text[s] /\ text[s][k] # "word"
            /\ next' = [next EXCEPT ![s] = next[s] + 1]
            /\ Says(output, output', Char(s, k))
  BY <1>1, <1>2, WhitespaceSays
<1>4. \A r \in Side : next[r] \in Nat BY DEF LineInv, TextInv
<1>5. CASE output' = output /\ next' = next
  <2>1. \A r \in Side : next[r] <= next'[r] BY <1>4, <1>5
  <2> QED BY <1>3, <1>5, <2>1, NothingNew, WordsWritten
<1>6. CASE /\ k \in DOMAIN text[s] /\ text[s][k] # "word"
           /\ next' = [next EXCEPT ![s] = next[s] + 1]
           /\ Says(output, output', Char(s, k))
  <2>1. next \in [Side -> Nat \ {0}] BY DEF RestType
  <2>2. \A r \in Side : next[r] <= next'[r] BY <1>4, <1>6, <2>1
  <2>3. Char(s, k).kind # "word" BY <1>6 DEF Char
  <2>4. PICK c : c = Char(s, k) OBVIOUS
  <2>5. Same(output, output') /\ \E i \in (Len(output) + 1)..Len(output') : SaysAt(output, output', c, i)
    BY <1>6, <2>4 DEF Says
  <2>6. \A i \in (Len(output) + 1)..Len(output') : output'[i].kind # "word"
    BY <2>3, <2>4, <2>5 DEF SaysAt, Mute
  <2> QED BY <1>3, <2>2, <2>5, <2>6, WordsWritten
<1> QED BY <1>3, <1>5, <1>6

(* The word looks as the mode says it should.                              *)
LEMMA ShownAsCopied ==
    ASSUME RestType, copy_mode \in Modes, NEW out, Held(out, copy_mode), Firm(out, copy_mode),
           Closable("user"), Closable("term")
    PROVE  (Look("word") # "plain" \/ OnAfter(out, "user") \/ OnAfter(out, "term"))
             <=> copy_mode # "NORMAL"
<1>1. CASE copy_mode = "NORMAL" BY <1>1 DEF Look, Held
<1>2. CASE copy_mode # "NORMAL" /\ options.overstrike # "none"
  BY <1>2 DEF Look, Modes
<1>3. CASE copy_mode # "NORMAL" /\ options.overstrike = "none"
  <2>1. Start(copy_mode) \in Markers BY DEF Start, Markers
  <2>2. Start(copy_mode) \in Strings("term") \/ Start(copy_mode) \in Strings("user")
    BY <1>3, <2>1 DEF Strings, UserStrings, Defaults
  <2> QED BY <1>3, <2>2 DEF Firm
<1> QED BY <1>1, <1>2, <1>3

LEMMA CopyWordTells ==
    ASSUME LineInv, LineInv', RestType, PlanInv, ReadInv, FirmInv, WordsInv, CopyWord
    PROVE  WordsInv'
<1>1. PICK s : s = Head(calls).side OBVIOUS
<1>2. PICK k : k = next[s] OBVIOUS
<1>3. PICK c : c = Char(s, k) OBVIOUS
<1>4. /\ s \in Side /\ UNCHANGED <<options, text, script, obeyed, copy_mode>>
      /\ \/ output' = output /\ next' = next
         \/ /\ AtWord(s) /\ next' = [next EXCEPT ![s] = next[s] + 1]
            /\ Says(output, output', c)
            /\ Len(output') = Len(output) + 1 /\ output'[Len(output) + 1] = c
  BY <1>1, <1>2, <1>3, WordSays
<1>5. \A r \in Side : next[r] \in Nat BY DEF LineInv, TextInv
<1>6. CASE output' = output /\ next' = next
  <2>1. \A r \in Side : next[r] <= next'[r] BY <1>5, <1>6
  <2> QED BY <1>4, <1>6, <2>1, NothingNew, WordsWritten
<1>7. CASE /\ AtWord(s) /\ next' = [next EXCEPT ![s] = next[s] + 1]
           /\ Says(output, output', c)
           /\ Len(output') = Len(output) + 1 /\ output'[Len(output) + 1] = c
  <2>1. next \in [Side -> Nat \ {0}] /\ copy_mode \in Modes
        /\ Tidy(output) /\ Held(output, copy_mode)
    BY DEF RestType, LineInv, ModeInv, OutputInv
  <2>2. \A r \in Side : next[r] <= next'[r] BY <1>5, <1>7, <2>1
  <2>3. Same(output, output') BY <1>7 DEF Says
  <2>4. PICK n : n = Len(output) + 1 OBVIOUS
  <2>5. n \in Nat \ {0} /\ n = Len(output') /\ n = Len(output) + 1
    BY <1>7, <2>1, <2>4 DEF Tidy
  <2>6. ASSUME ~Useless PROVE Told(output, n)'
    <3>1. c.from = s /\ c.at = k /\ c.look = Look("word")
      BY <1>2, <1>3, <1>7 DEF Char, AtWord
    <3>2. PICK new : new = output' OBVIOUS
    <3>3. new[n] = c BY <1>7, <2>4, <3>2
    <3>4. ASSUME NEW from \in {"term", "user"} PROVE OnIn(new, n, from) <=> OnAfter(output, from)
      <4>1. n \in 1..(Len(output) + 1) BY <2>5
      <4>2. Same(output, new) BY <2>3, <3>2
      <4>3. OnIn(new, n, from) <=> OnIn(output, n, from) BY <4>1, <4>2 DEF Same
      <4> QED BY <2>4, <4>3 DEF OnAfter
    <3>5. (OnIn(new, n, "user") <=> OnAfter(output, "user"))
          /\ (OnIn(new, n, "term") <=> OnAfter(output, "term"))
      BY <3>4
    <3>6. ASSUME Closable("user"), Closable("term")
          PROVE  Showy(new, n) <=> copy_mode # "NORMAL"
      BY <2>1, <3>1, <3>3, <3>5, <3>6, ShownAsCopied DEF FirmInv, Showy
    <3>7. Truthful(s, obeyed, position[s] + 1, copy_mode) BY <1>1, <2>6, CopyWordReady
    <3>8. Ordinal(s, k) = position[s] + 1
      <4>1. k \in Nat \ {0} /\ text[s][k] = "word" /\ k <= Len(text[s])
        BY <1>2, <1>4, <1>7, <2>1 DEF AtWord, LineInv, TextInv, Alternating
      <4>2. Ordinal(s, k) = Ordinal(s, k - 1) + 1 BY <1>4, <4>1, OrdinalNext
      <4>3. Ordinal(s, k - 1) = position[s] BY <1>2, <1>4, <2>6, <4>1 DEF ReadInv
      <4> QED BY <4>2, <4>3
    <3>9. PICK r : r = Ordinal(s, k) OBVIOUS
    <3>10. Ordinal(s, k)' = r BY <1>4, <3>9 DEF Ordinal
    <3>11. Named(s, r, obeyed)' <=> Named(s, r, obeyed)
      BY <1>4 DEF Named, FirstWord, LastWord
    <3>12. /\ Closable("user")' <=> Closable("user")
           /\ Closable("term")' <=> Closable("term")
      BY <1>4 DEF Closable, Strings, UserStrings, Defaults
    <3>13. (Closable("user") /\ Closable("term"))' => (Showy(new, n) <=> Named(s, r, obeyed)')
      BY <3>6, <3>7, <3>8, <3>9, <3>11, <3>12 DEF Truthful
    <3>14. k \in 1..(next'[s] - 1) BY <1>2, <1>4, <1>7, <2>1
    <3>15. new[n].from = s /\ new[n].at = k BY <3>1, <3>3
    <3> QED BY <1>4, <3>2, <3>10, <3>13, <3>14, <3>15 DEF Told
  <2>7. CASE Useless
    <3>1. Useless' BY <1>4, <2>7 DEF Useless, inhibited
    <3> QED BY <3>1 DEF WordsInv
  <2>8. CASE ~Useless
    <3>1. \A i \in (Len(output) + 1)..Len(output') : i = n BY <2>5
    <3>2. Told(output, n)' BY <2>6, <2>8
    <3>3. ASSUME NEW i \in (Len(output) + 1)..Len(output') PROVE Told(output, i)'
      BY <3>1, <3>2
    <3> QED BY <1>4, <2>2, <2>3, <3>3, WordsWritten
  <2> QED BY <2>7, <2>8
<1> QED BY <1>4, <1>6, <1>7

LEMMA SkipUntilOrdinalTells ==
    ASSUME LineInv, LineInv', RestType, WordsInv, SkipUntilOrdinal
    PROVE  WordsInv'
<1> USE DEF inputs, readers, counts, control
<1>1. UNCHANGED <<options, text, script, obeyed, output>> BY DEF SkipUntilOrdinal
<1>2. ASSUME NEW s \in Side PROVE next[s] <= next'[s]
  <2>1. PICK t : t = Head(calls).side OBVIOUS
  <2>2. next' = next \/ next' = [next EXCEPT ![t] = Min({NextWord(t) + 1, Len(text[t]) + 1})]
    BY <2>1 DEF SkipUntilOrdinal
  <2>3. next \in [Side -> Nat \ {0}] BY DEF RestType
  <2>4. next'[s] = next[s] \/ next'[s] = Min({NextWord(s) + 1, Len(text[s]) + 1})
    BY <2>2, <2>3
  <2>5. PICK n, w : n = next[s] /\ w = NextWord(s) OBVIOUS
  <2>6. n \in Nat /\ Len(text[s]) \in Nat /\ n <= Len(text[s]) + 1
    BY <2>5 DEF LineInv, TextInv, Alternating
  <2>7. w \in Nat /\ n <= w BY <2>5, <2>6, NextWordIsReady DEF LineInv
  <2>8. n <= Min({w + 1, Len(text[s]) + 1}) BY <2>6, <2>7, MinOfTwo
  <2> QED BY <2>4, <2>5, <2>6, <2>8
<1> QED BY <1>1, <1>2, NothingNew, WordsWritten

(* A directive names no word that has been read.                           *)
LEMMA NamesNothingRead ==
    ASSUME CountsInv, BehindInv, LineInv, PlanInv, ReadInv, RestType, ~Useless,
           pc = "reformat", calls = <<>>,
           NEW n, n = obeyed + 1, n \in DOMAIN script,
           NEW s \in Side, NEW k \in 1..(next[s] - 1)
    PROVE  Named(s, Ordinal(s, k), n) <=> Named(s, Ordinal(s, k), obeyed)
<1>1. PICK p \in Place, q \in Place :
             Here(s, p) /\ There(s, q) /\ Leads(s, obeyed, calls, p, q)
  BY DEF PlanInv, Planned, Reading
<1>2. q = p BY <1>1, LedNowhere
<1>3. position[s] <= Accounted(script, obeyed, s) BY <1>1, <1>2 DEF Here, There
<1>4. PICK m : m = next[s] - 1 OBVIOUS
<1>5. m \in Nat /\ k \in Nat /\ k <= m BY <1>4 DEF LineInv, TextInv
<1>6. Ordinal(s, k) <= Ordinal(s, m) /\ Ordinal(s, k) \in Nat /\ Ordinal(s, m) \in Nat
  BY <1>5, OrdinalGrows, OrdinalIs
<1>7. Ordinal(s, m) <= position[s] BY <1>4 DEF ReadInv
<1>8. position[s] \in Nat /\ Accounted(script, obeyed, s) \in Nat /\ n - 1 = obeyed
  BY DEF RestType, BehindInv, CountsInv, CountsType
<1>9. PICK o : o = Ordinal(s, k) OBVIOUS
<1>10. o \in Int /\ o <= Accounted(script, n - 1, s)
  BY <1>3, <1>6, <1>7, <1>8, <1>9
<1> QED BY <1>8, <1>9, <1>10, NamedByNext

LEMMA ReadDirectiveTells ==
    ASSUME CountsInv, BehindInv, LineInv, LineInv', PlanInv, ReadInv, RestType, WordsInv,
           ReadDirective
    PROVE  WordsInv'
<1> USE DEF inputs, readers, counts, control
<1>1. /\ UNCHANGED <<options, script, text, next, output>>
      /\ pc = "reformat" /\ calls = <<>>
  BY DEF ReadDirective
<1>2. CASE Useless
  <2>1. Useless' BY <1>1, <1>2 DEF Useless, inhibited
  <2> QED BY <2>1 DEF WordsInv
<1>3. CASE obeyed' = obeyed
  <2>1. \A s \in Side : next[s] <= next'[s] BY <1>1 DEF LineInv, TextInv
  <2> QED BY <1>1, <1>3, <2>1, NothingNew, WordsWritten
<1>4. CASE ~Useless /\ obeyed' # obeyed
  <2>1. obeyed' = obeyed + 1 /\ obeyed < Len(script)
    BY <1>4 DEF ReadDirective, LongJump
  <2>2. PICK n : n = obeyed' OBVIOUS
  <2>3. n = obeyed + 1 /\ n \in DOMAIN script BY <2>1, <2>2 DEF CountsInv, CountsType
  <2>4. ASSUME NEW s \in Side PROVE next[s] \in Nat /\ next'[s] \in Nat /\ next[s] <= next'[s]
    BY <1>1 DEF LineInv, TextInv
  <2>5. ASSUME NEW s \in Side, NEW k \in 1..(next[s] - 1)
        PROVE  /\ Ordinal(s, k)' = Ordinal(s, k)
               /\ Named(s, Ordinal(s, k), obeyed') <=> Named(s, Ordinal(s, k), obeyed)
    <3>1. Ordinal(s, k)' = Ordinal(s, k) BY <1>1 DEF Ordinal
    <3>2. Named(s, Ordinal(s, k), n) <=> Named(s, Ordinal(s, k), obeyed)
      BY <1>1, <1>4, <2>3, NamesNothingRead
    <3> QED BY <2>2, <3>1, <3>2
  <2>6. /\ Tidy(output) /\ Len(output') \in Nat /\ DOMAIN output' = 1..Len(output')
    BY <1>1 DEF LineInv, OutputInv, Tidy
  <2>7. /\ Same(output, output')
        /\ \A i \in (Len(output) + 1)..Len(output') :
             output'[i].kind = "word" => Told(output, i)'
    BY <1>1, NothingNew
  <2> QED BY <1>1, <2>4, <2>5, <2>6, <2>7, WordsFrame
<1> QED BY <1>2, <1>3, <1>4

LEMMA ShrinkTells ==
    ASSUME LineInv, LineInv', WordsInv, Shrink
    PROVE  WordsInv'
<1>1. UNCHANGED <<options, script, obeyed, next, output>> BY DEF Shrink, readers
<1>2. ASSUME NEW s \in Side PROVE next[s] \in Nat /\ next'[s] \in Nat /\ next[s] <= next'[s]
  BY <1>1 DEF LineInv, TextInv
<1>3. ASSUME NEW s \in Side, NEW k \in 1..(next[s] - 1)
      PROVE  /\ Ordinal(s, k)' = Ordinal(s, k)
             /\ Named(s, Ordinal(s, k), obeyed') <=> Named(s, Ordinal(s, k), obeyed)
  <2>1. k \in 0..(next[s] - 1) OBVIOUS
  <2> QED BY <1>1, <2>1, ShrinkKeepsOrdinals
<1>4. Tidy(output) /\ Len(output') \in Nat /\ DOMAIN output' = 1..Len(output')
  BY <1>1 DEF LineInv, OutputInv, Tidy
<1>5. /\ Same(output, output')
      /\ \A i \in (Len(output) + 1)..Len(output') :
           output'[i].kind = "word" => Told(output, i)'
  BY <1>1, NothingNew
<1> QED BY <1>1, <1>2, <1>3, <1>4, <1>5, WordsFrame

LEMMA WordsNext ==
    ASSUME CountsInv, BehindInv, LineInv, LineInv', RestType, PlanInv, ReadInv, FirmInv,
           WordsInv, [Next]_vars
    PROVE  WordsInv'
<1> USE DEF inputs, readers, counts, control
<1>1. CASE ReadDirective BY <1>1, ReadDirectiveTells
<1>2. CASE CopyWhitespace BY <1>2, CopyWhitespaceTells
<1>3. CASE CopyWord BY <1>3, CopyWordTells
<1>4. CASE SkipUntilOrdinal BY <1>4, SkipUntilOrdinalTells
<1>5. CASE Shrink BY <1>5, ShrinkTells
<1>6. CASE StartEmphasis \/ EndEmphasis \/ PutSeparator \/ CompleteOutput
  <2>1. UNCHANGED <<options, script, text, obeyed, next>>
    BY <1>6 DEF StartEmphasis, EndEmphasis, PutSeparator, CompleteOutput
  <2> QED BY <1>6, <2>1, MarksAreSilent, SilentTells
<1>7. CASE CopyUntilOrdinal \/ Return \/ Report \/ Interrupt \/ Terminated \/ UNCHANGED vars
  <2>1. UNCHANGED <<options, script, text, obeyed, next, output>>
    BY <1>7 DEF CopyUntilOrdinal, Return, Report, Interrupt, Terminated, vars
  <2>2. Silent(output, output') BY <2>1, StaysSilent DEF LineInv, OutputInv
  <2> QED BY <2>1, <2>2, SilentTells
<1> QED BY <1>1, <1>2, <1>3, <1>4, <1>5, <1>6, <1>7 DEF Next, Reformat

-----------------------------------------------------------------------------
(***************************************************************************)
(* Text that is to be shown whole: what has been read of it is out, once   *)
(* and in order.                                                           *)
(***************************************************************************)
Tells(out, s, m) ==
    /\ \A i \in DOMAIN out : out[i].from = s => out[i].at \in 1..m
    /\ \A i, j \in DOMAIN out :
         out[i].from = s /\ out[j].from = s /\ i < j => out[i].at < out[j].at
    /\ \A k \in 1..m : \E i \in DOMAIN out : out[i].from = s /\ out[i].at = k

IntactInv == Whole(Source) => Tells(output, Source, next[Source] - 1)

Lengths(out, new) ==
    /\ Len(out) \in Nat /\ DOMAIN out = 1..Len(out)
    /\ Len(new) \in Nat /\ DOMAIN new = 1..Len(new)

(* Nothing is said of s.                                                   *)
LEMMA TellsNothing ==
    ASSUME NEW out, NEW new, Lengths(out, new), Same(out, new), NEW s, NEW m,
           Tells(out, s, m), \A i \in (Len(out) + 1)..Len(new) : new[i].from # s
    PROVE  Tells(new, s, m)
<1>1. Len(out) <= Len(new) /\ \A i \in DOMAIN out : new[i] = out[i] /\ i \in DOMAIN new
  BY DEF Same, Lengths
<1>2. \A i \in DOMAIN new : new[i].from = s => i \in DOMAIN out
  <2> SUFFICES ASSUME NEW i \in DOMAIN new, i \notin DOMAIN out PROVE new[i].from # s
    OBVIOUS
  <2>1. i \in (Len(out) + 1)..Len(new) BY DEF Lengths
  <2> QED BY <2>1
<1>3. ASSUME NEW i \in DOMAIN new, new[i].from = s PROVE new[i].at \in 1..m
  BY <1>1, <1>2, <1>3 DEF Tells
<1>4. ASSUME NEW i \in DOMAIN new, NEW j \in DOMAIN new,
             new[i].from = s, new[j].from = s, i < j
      PROVE  new[i].at < new[j].at
  BY <1>1, <1>2, <1>4 DEF Tells
<1>5. ASSUME NEW k \in 1..m
      PROVE  \E i \in DOMAIN new : new[i].from = s /\ new[i].at = k
  <2>1. PICK i \in DOMAIN out : out[i].from = s /\ out[i].at = k BY DEF Tells
  <2> QED BY <1>1, <2>1
<1> QED BY <1>3, <1>4, <1>5 DEF Tells

(* The next item is said.                                                  *)
LEMMA TellsOne ==
    ASSUME NEW out, NEW new, Lengths(out, new), NEW s \in Side, NEW m \in Nat,
           Tells(out, s, m), NEW o, Says(out, new, o), o.from = s, o.at = m + 1
    PROVE  Tells(new, s, m + 1)
<1>1. /\ Len(out) <= Len(new) /\ \A i \in DOMAIN out : new[i] = out[i] /\ i \in DOMAIN new
  BY DEF Says, Same, Lengths
<1>2. PICK n \in (Len(out) + 1)..Len(new) : SaysAt(out, new, o, n) BY DEF Says
<1>3. n \in DOMAIN new /\ n \notin DOMAIN out /\ new[n] = o
  BY <1>2 DEF Lengths, SaysAt
<1>4. ASSUME NEW i \in DOMAIN new, new[i].from = s PROVE i \in DOMAIN out \/ i = n
  <2> SUFFICES ASSUME i \notin DOMAIN out, i # n PROVE new[i].from \notin Side
    BY <1>4
  <2>1. i \in (Len(out) + 1)..Len(new) BY DEF Lengths
  <2> QED BY <1>2, <2>1 DEF SaysAt, Mute
<1>5. ASSUME NEW i \in DOMAIN new, new[i].from = s PROVE new[i].at \in 1..(m + 1)
  <2>1. CASE i = n BY <1>3, <2>1
  <2>2. CASE i \in DOMAIN out
    <3>1. new[i].at \in 1..m BY <1>1, <1>5, <2>2 DEF Tells
    <3> QED BY <3>1
  <2> QED BY <1>4, <1>5, <2>1, <2>2
<1>6. ASSUME NEW i \in DOMAIN new, NEW j \in DOMAIN new,
             new[i].from = s, new[j].from = s, i < j
      PROVE  new[i].at < new[j].at
  <2>1. i \in DOMAIN out
    <3>1. CASE i = n
      <4>1. j \in DOMAIN out BY <1>4, <1>6, <3>1
      <4> QED BY <1>2, <1>6, <3>1, <4>1 DEF Lengths
    <3> QED BY <1>4, <1>6, <3>1
  <2>2. out[i].from = s /\ new[i].at = out[i].at BY <1>1, <1>6, <2>1
  <2>3. out[i].at \in 1..m BY <2>1, <2>2 DEF Tells
  <2>4. CASE j = n BY <1>3, <2>2, <2>3, <2>4
  <2>5. CASE j \in DOMAIN out
    <3>1. out[j].from = s /\ new[j].at = out[j].at BY <1>1, <1>6, <2>5
    <3>2. out[i].at < out[j].at BY <1>6, <2>1, <2>2, <2>5, <3>1 DEF Tells
    <3> QED BY <2>2, <3>1, <3>2
  <2> QED BY <1>4, <1>6, <2>4, <2>5
<1>7. ASSUME NEW k \in 1..(m + 1)
      PROVE  \E i \in DOMAIN new : new[i].from = s /\ new[i].at = k
  <2>1. CASE k = m + 1 BY <1>3, <2>1
  <2>2. CASE k # m + 1
    <3>1. k \in 1..m BY <2>2
    <3>2. PICK i \in DOMAIN out : out[i].from = s /\ out[i].at = k BY <3>1 DEF Tells
    <3> QED BY <1>1, <3>2
  <2> QED BY <2>1, <2>2
<1> QED BY <1>5, <1>6, <1>7 DEF Tells

LEMMA WholeFrame ==
    ASSUME UNCHANGED options
    PROVE  Source' = Source /\ (Whole(Source)' <=> Whole(Source)) /\ Source \in Side
BY DEF Whole, Source, inhibited, Side

(* The reader stands still, and none of its text is written.               *)
LEMMA IntactFrame ==
    ASSUME UNCHANGED options, IntactInv, LineInv, LineInv', Same(output, output'),
           next'[Source] = next[Source],
           \A i \in (Len(output) + 1)..Len(output') : output'[i].from # Source
    PROVE  IntactInv'
<1>1. Source' = Source /\ (Whole(Source)' <=> Whole(Source)) BY WholeFrame
<1>2. PICK s, m, out, new :
             s = Source /\ m = next[Source] - 1 /\ out = output /\ new = output'
  OBVIOUS
<1>3. Lengths(out, new) /\ Same(out, new) BY <1>2 DEF Lengths, LineInv, OutputInv, Tidy
<1>4. \A i \in (Len(out) + 1)..Len(new) : new[i].from # s BY <1>2
<1>5. Whole(s) => Tells(new, s, m)
  <2>1. Whole(s) => Tells(out, s, m) BY <1>2 DEF IntactInv
  <2> QED BY <1>3, <1>4, <2>1, TellsNothing
<1>6. next'[s] - 1 = m BY <1>2
<1>7. Tells(output, Source, next[Source] - 1)' <=> Tells(new, s, m) BY <1>1, <1>2, <1>6
<1> QED BY <1>1, <1>2, <1>5, <1>7 DEF IntactInv

LEMMA SilentIntact ==
    ASSUME UNCHANGED <<options, next>>, IntactInv, LineInv, LineInv', Silent(output, output')
    PROVE  IntactInv'
<1>1. Source \in Side BY WholeFrame
<1>2. /\ Same(output, output')
      /\ \A i \in (Len(output) + 1)..Len(output') : output'[i].from # Source
  BY <1>1 DEF Silent, Mute
<1> QED BY <1>2, IntactFrame

(* One item of the text of s is read, and said.                            *)
LEMMA SaidIntact ==
    ASSUME UNCHANGED options, IntactInv, LineInv, LineInv', RestType, NEW s \in Side,
           next' = [next EXCEPT ![s] = next[s] + 1], Says(output, output', Char(s, next[s]))
    PROVE  IntactInv'
<1>1. /\ Source' = Source /\ (Whole(Source)' <=> Whole(Source)) /\ Source \in Side
  BY WholeFrame
<1>2. PICK k : k = next[s] OBVIOUS
<1>3. PICK c : c = Char(s, k) OBVIOUS
<1>4. c.from = s /\ c.at = k BY <1>3 DEF Char
<1>5. next \in [Side -> Nat \ {0}] BY DEF RestType
<1>6. PICK out, new : out = output /\ new = output' OBVIOUS
<1>7. Lengths(out, new) BY <1>6 DEF Lengths, LineInv, OutputInv, Tidy
<1>8. Says(out, new, c) BY <1>2, <1>3, <1>6
<1>9. CASE s = Source
  <2>1. k \in Nat \ {0} /\ next'[s] = k + 1 BY <1>2, <1>5
  <2>2. PICK m : m = k - 1 OBVIOUS
  <2>3. m \in Nat /\ c.at = m + 1 /\ m = next[s] - 1 /\ m + 1 = next'[s] - 1
    BY <1>2, <1>4, <2>1, <2>2
  <2>4. Whole(s) => Tells(out, s, m) BY <1>6, <1>9, <2>3 DEF IntactInv
  <2>5. Whole(s) => Tells(new, s, m + 1) BY <1>4, <1>7, <1>8, <2>3, <2>4, TellsOne
  <2>6. Tells(output, Source, next[Source] - 1)' <=> Tells(new, s, m + 1)
    BY <1>1, <1>6, <1>9, <2>3
  <2> QED BY <1>1, <1>9, <2>5, <2>6 DEF IntactInv
<1>10. CASE s # Source
  <2>1. next'[Source] = next[Source] BY <1>1, <1>5, <1>10
  <2>2. PICK n \in (Len(out) + 1)..Len(new) : SaysAt(out, new, c, n) BY <1>8 DEF Says
  <2>3. \A i \in (Len(out) + 1)..Len(new) : new[i].from # Source
    BY <1>1, <1>4, <1>10, <2>2 DEF SaysAt, Mute
  <2>4. Same(output, output') BY <1>6, <1>8 DEF Says
  <2>5. \A i \in (Len(output) + 1)..Len(output') : output'[i].from # Source
    BY <1>6, <2>3
  <2> QED BY <2>1, <2>4, <2>5, IntactFrame
<1> QED BY <1>9, <1>10

(* Nothing of it is skipped.                                               *)
LEMMA SkipsElsewhere ==
    ASSUME LineInv, PlanInv, RestType, SkipUntilOrdinal, Whole(Source)
    PROVE  next'[Source] = next[Source]
<1> USE DEF readers
<1>1. Source \in Side BY DEF Source, Side
<1>2. PICK t : t = Head(calls).side OBVIOUS
<1>3. calls # <<>> /\ Head(calls).fn = "skip_until_ordinal" BY DEF SkipUntilOrdinal, Called
<1>4. t # Source
  <2>1. SUFFICES ASSUME t = Source PROVE FALSE OBVIOUS
  <2>2. pc \in Reading /\ calls \in Seq(CallSet) BY <1>3 DEF LineInv, CallsInv
  <2>3. Planned(Source) BY <1>1, <2>2, WholeIsActive DEF PlanInv
  <2>4. PICK p \in Place, q \in Place : Leads(Source, obeyed, calls, p, q)
    BY <2>3 DEF Planned
  <2>5. PICK r \in Place : Step(Source, obeyed, Head(calls), p, r)
    BY <1>3, <2>2, <2>4, LedByHead
  <2> QED BY <1>2, <1>3, <2>1, <2>5 DEF Step, Reads, ReadsOn
<1>5. next' = next \/ next' = [next EXCEPT ![t] = Min({NextWord(t) + 1, Len(text[t]) + 1})]
  BY <1>2 DEF SkipUntilOrdinal
<1>6. next \in [Side -> Nat \ {0}] BY DEF RestType
<1> QED BY <1>1, <1>4, <1>5, <1>6

LEMMA IntactNext ==
    ASSUME LineInv, LineInv', RestType, PlanInv, IntactInv, [Next]_vars
    PROVE  IntactInv'
<1> USE DEF inputs, readers, counts, control
<1>0. UNCHANGED options BY InputsStay
<1>1. CASE CopyWhitespace
  <2>1. PICK s : s = Head(calls).side OBVIOUS
  <2>2. /\ s \in Side
        /\ \/ output' = output /\ next' = next
           \/ /\ next' = [next EXCEPT ![s] = next[s] + 1]
              /\ Says(output, output', Char(s, next[s]))
    BY <1>1, <2>1, WhitespaceSays
  <2>3. CASE output' = output /\ next' = next
    <3>1. Silent(output, output') BY <2>3, StaysSilent DEF LineInv, OutputInv
    <3> QED BY <1>0, <2>3, <3>1, SilentIntact
  <2> QED BY <1>0, <2>2, <2>3, SaidIntact
<1>2. CASE CopyWord
  <2>1. PICK s : s = Head(calls).side OBVIOUS
  <2>2. /\ s \in Side
        /\ \/ output' = output /\ next' = next
           \/ /\ next' = [next EXCEPT ![s] = next[s] + 1]
              /\ Says(output, output', Char(s, next[s]))
    BY <1>2, <2>1, WordSays
  <2>3. CASE output' = output /\ next' = next
    <3>1. Silent(output, output') BY <2>3, StaysSilent DEF LineInv, OutputInv
    <3> QED BY <1>0, <2>3, <3>1, SilentIntact
  <2> QED BY <1>0, <2>2, <2>3, SaidIntact
<1>3. CASE SkipUntilOrdinal
  <2>1. CASE Whole(Source)
    <3>1. next'[Source] = next[Source] BY <1>3, <2>1, SkipsElsewhere
    <3>2. output' = output BY <1>3 DEF SkipUntilOrdinal
    <3>3. Silent(output, output') BY <3>2, StaysSilent DEF LineInv, OutputInv
    <3>4. Source \in Side BY DEF Source, Side
    <3>5. /\ Same(output, output')
          /\ \A i \in (Len(output) + 1)..Len(output') : output'[i].from # Source
      BY <3>3, <3>4 DEF Silent, Mute
    <3> QED BY <1>0, <3>1, <3>5, IntactFrame
  <2>2. CASE ~Whole(Source) BY <1>0, <2>2, WholeFrame DEF IntactInv
  <2> QED BY <2>1, <2>2
<1>4. CASE StartEmphasis \/ EndEmphasis \/ PutSeparator \/ CompleteOutput
  <2>1. UNCHANGED next
    BY <1>4 DEF StartEmphasis, EndEmphasis, PutSeparator, CompleteOutput
  <2> QED BY <1>0, <1>4, <2>1, MarksAreSilent, SilentIntact
<1>5. CASE \/ ReadDirective \/ CopyUntilOrdinal \/ Return \/ Report \/ Interrupt
           \/ Shrink \/ Terminated \/ UNCHANGED vars
  <2>1. UNCHANGED <<next, output>>
    BY <1>5 DEF ReadDirective, CopyUntilOrdinal, Return, Report, Interrupt, Shrink, Terminated,
           vars
  <2>2. Silent(output, output') BY <2>1, StaysSilent DEF LineInv, OutputInv
  <2> QED BY <1>0, <2>1, <2>2, SilentIntact
<1> QED BY <1>1, <1>2, <1>3, <1>4, <1>5 DEF Next, Reformat

-----------------------------------------------------------------------------
(***************************************************************************)
(* A run that no signal stops reads the text to its end.                   *)
(***************************************************************************)
EndInv ==
    Whole(Source) =>
        /\ pc \in {"cleanup", "report"} /\ ~interrupted => AtEnd(Source)
        /\ exit_status \in {0, 1} => AtEnd(Source)
        /\ exit_status # -1 => pc = "exited"

LEMMA EndFrame ==
    ASSUME UNCHANGED <<options, text, next>>
    PROVE  /\ Whole(Source)' <=> Whole(Source)
           /\ AtEnd(Source)' <=> AtEnd(Source)
BY WholeFrame DEF AtEnd

LEMMA ReturnsAtEnd ==
    ASSUME LineInv, CountsInv, PlanInv, ReadInv, Whole(Source), pc = "remainder", calls = <<>>
    PROVE  AtEnd(Source)
<1>1. PICK s : s = Source OBVIOUS
<1>2. s \in Side BY <1>1 DEF Source, Side
<1>3. ~Useless BY <1>1, <1>2, WholeIsActive
<1>4. PICK p \in Place, q \in Place :
             Here(s, p) /\ There(s, q) /\ Leads(s, obeyed, calls, p, q)
  BY <1>2, <1>3 DEF PlanInv, Planned, Reading
<1>5. q = p BY <1>4, LedNowhere
<1>6. position[s] = total[s] /\ Ready(s) BY <1>1, <1>4, <1>5 DEF Here, There
<1>7. SUFFICES ASSUME AtWord(s) PROVE FALSE BY <1>1, <1>6 DEF Ready
<1>8. PICK n, len : n = next[s] /\ len = Len(text[s]) OBVIOUS
<1>9. n \in Nat \ {0} /\ len \in Nat /\ n <= len /\ text[s][n] = "word" /\ text[s] \in Seq(Items)
  BY <1>2, <1>7, <1>8 DEF AtWord, LineInv, TextInv, Alternating
<1>10. Ordinal(s, n - 1) = total[s] /\ WordsIn(text[s]) <= total[s]
  BY <1>2, <1>3, <1>6, <1>8, <1>9 DEF ReadInv
<1>11. Ordinal(s, n) = Ordinal(s, n - 1) + 1 BY <1>2, <1>9, OrdinalNext
<1>12. Ordinal(s, n) <= Ordinal(s, len) /\ Ordinal(s, n) \in Nat /\ Ordinal(s, len) \in Nat
  BY <1>2, <1>9, OrdinalGrows, OrdinalIs
<1>13. Ordinal(s, len) = WordsIn(text[s]) BY <1>2, <1>8, <1>9, OrdinalOfAll
<1>14. total[s] \in Nat BY <1>2 DEF CountsInv, CountsType
<1> QED BY <1>10, <1>11, <1>12, <1>13, <1>14

LEMMA EndNext ==
    ASSUME LineInv, CountsInv, PlanInv, ReadInv, EndInv, [Next]_vars
    PROVE  EndInv'
<1> USE DEF inputs, readers, counts, control
<1>0. Whole(Source)' <=> Whole(Source) BY InputsStay, WholeFrame
<1> SUFFICES ASSUME Whole(Source)
             PROVE  /\ (pc \in {"cleanup", "report"} /\ ~interrupted => AtEnd(Source))'
                    /\ (exit_status \in {0, 1} => AtEnd(Source))'
                    /\ (exit_status # -1 => pc = "exited")'
  BY <1>0 DEF EndInv
<1>1. CASE calls # <<>> /\ pc \in Reading /\ pc' \in Reading /\ exit_status' = exit_status
  <2>1. exit_status = -1 BY <1>1 DEF EndInv, Reading
  <2> QED BY <1>1, <2>1 DEF Reading
<1>2. CASE interrupted /\ pc \in Reading /\ interrupted' = interrupted /\ exit_status' = exit_status
  <2>1. exit_status = -1 BY <1>2 DEF EndInv, Reading
  <2> QED BY <1>2, <2>1
<1>3. CASE \/ CopyUntilOrdinal \/ SkipUntilOrdinal \/ CopyWhitespace
           \/ CopyWord \/ StartEmphasis \/ EndEmphasis \/ PutSeparator
  <2>1. calls # <<>> /\ pc \in Reading
    BY <1>3 DEF CopyUntilOrdinal, SkipUntilOrdinal, CopyWhitespace, CopyWord, StartEmphasis,
           EndEmphasis, PutSeparator, Called, LineInv, CallsInv
  <2>2. UNCHANGED <<interrupted, exit_status>>
    BY <1>3 DEF CopyUntilOrdinal, SkipUntilOrdinal, CopyWhitespace, CopyWord, StartEmphasis,
           EndEmphasis, PutSeparator
  <2>3. pc' = pc \/ interrupted
    BY <1>3 DEF CopyUntilOrdinal, SkipUntilOrdinal, CopyWhitespace, CopyWord, StartEmphasis,
           EndEmphasis, PutSeparator, LongJump
  <2> QED BY <1>1, <1>2, <2>1, <2>2, <2>3
<1>4. CASE ReadDirective
  <2>1. pc = "reformat" /\ UNCHANGED <<interrupted, exit_status>> BY <1>4 DEF ReadDirective
  <2>2. pc' \in Reading \/ interrupted BY <1>4, <2>1 DEF ReadDirective, LongJump, Reading
  <2>3. exit_status = -1 BY <2>1 DEF EndInv
  <2> QED BY <1>2, <2>1, <2>2, <2>3 DEF Reading
<1>5. CASE Shrink
  <2>1. pc \in Reading /\ UNCHANGED <<pc, exit_status>> BY <1>5 DEF Shrink, Reading
  <2>2. exit_status = -1 BY <2>1 DEF EndInv, Reading
  <2> QED BY <2>1, <2>2 DEF Reading
<1>6. CASE Return
  <2>1. /\ pc = "remainder" /\ calls = <<>> /\ pc' = "cleanup"
        /\ UNCHANGED <<options, text, next, exit_status>>
    BY <1>6 DEF Return
  <2>2. AtEnd(Source)' BY <2>1, ReturnsAtEnd, EndFrame
  <2>3. exit_status = -1 BY <2>1 DEF EndInv
  <2> QED BY <2>1, <2>2, <2>3
<1>7. CASE Report
  <2>1. /\ pc = "report" /\ pc' = "exited" /\ exit_status' = Status
        /\ UNCHANGED <<options, text, next, interrupted>>
    BY <1>7 DEF Report
  <2>2. AtEnd(Source)' <=> AtEnd(Source) BY <2>1, EndFrame
  <2>3. exit_status' \in {0, 1} => ~interrupted BY <2>1 DEF Status
  <2> QED BY <2>1, <2>2, <2>3 DEF EndInv
<1>8. CASE CompleteOutput
  <2>1. /\ pc = "cleanup" /\ pc' = "report"
        /\ UNCHANGED <<options, text, next, interrupted, exit_status>>
    BY <1>8 DEF CompleteOutput
  <2>2. AtEnd(Source)' <=> AtEnd(Source) BY <2>1, EndFrame
  <2> QED BY <2>1, <2>2 DEF EndInv
<1>9. CASE Interrupt \/ Terminated \/ UNCHANGED vars
  <2>1. /\ UNCHANGED <<options, text, next, exit_status, pc>>
        /\ (interrupted' = interrupted) \/ interrupted'
    BY <1>9 DEF Interrupt, Terminated, vars
  <2>2. AtEnd(Source)' <=> AtEnd(Source) BY <2>1, EndFrame
  <2> QED BY <2>1, <2>2 DEF EndInv
<1> QED BY <1>3, <1>4, <1>5, <1>6, <1>7, <1>8, <1>9 DEF Next, Reformat

-----------------------------------------------------------------------------
(* The invariants, together.                                               *)
ShowInv ==
    /\ CountsInv /\ LineInv /\ BehindInv /\ RestType
    /\ PlanInv /\ ReadInv /\ FirmInv /\ WordsInv /\ IntactInv /\ EndInv

LEMMA ShowInit == Init => ShowInv
<1> SUFFICES ASSUME Init PROVE ShowInv OBVIOUS
<1>1. CountsInv /\ LineInv /\ BehindInv /\ RestType /\ PlanInv /\ ReadInv /\ FirmInv
  BY CountsInit, LineInit, BehindInit, RestInit, PlanInit
<1>2. WordsInv BY DEF Init, WordsInv
<1>3. IntactInv
  <2>1. output = <<>> /\ next[Source] - 1 = 0 BY DEF Init, Source, Side
  <2>2. Tells(<<>>, Source, 0) BY DEF Tells
  <2> QED BY <2>1, <2>2 DEF IntactInv
<1>4. EndInv BY DEF Init, EndInv
<1> QED BY <1>1, <1>2, <1>3, <1>4 DEF ShowInv

LEMMA ShowNext ==
    ASSUME ShowInv, [Next]_vars
    PROVE  ShowInv'
<1> USE DEF ShowInv
<1>1. CountsInv' BY CountsNext
<1>2. LineInv' BY LineNext
<1>3. BehindInv' BY BehindNext
<1>4. RestType' BY <1>2, RestNext
<1>5. PlanInv' BY PlanNext
<1>6. ReadInv' BY ReadNext
<1>7. FirmInv' BY FirmNext
<1>8. WordsInv' BY <1>2, WordsNext
<1>9. IntactInv' BY <1>2, IntactNext
<1>10. EndInv' BY EndNext
<1> QED BY <1>1, <1>2, <1>3, <1>4, <1>5, <1>6, <1>7, <1>8, <1>9, <1>10

(* A word looks emphasised, by its markers or by overstriking, exactly     *)
(* when a directive obeyed so far names it: wherever the run stops,        *)
(* whatever is inhibited and however the files end.                        *)
THEOREM EmphasisTold == Spec => []EmphasisTellsTruth
<1>1. ShowInv => EmphasisTellsTruth
  <2> SUFFICES ASSUME ShowInv, ~Useless, Closable("user"), Closable("term"),
                      NEW i \in DOMAIN output, output[i].kind = "word"
               PROVE  (output[i].look # "plain" \/ On(i, "user") \/ On(i, "term"))
                        <=> \E n \in 1..obeyed :
                              Ordinal(output[i].from, output[i].at)
                                \in FirstWord(script[n], output[i].from)
                                      ..LastWord(script[n], output[i].from)
    BY DEF EmphasisTellsTruth
  <2>1. Told(output, i) BY DEF ShowInv, WordsInv
  <2>2. Showy(output, i) <=> Named(output[i].from, Ordinal(output[i].from, output[i].at), obeyed)
    BY <2>1 DEF Told
  <2>3. \A from : On(i, from) <=> OnIn(output, i, from) BY DEF On, OnIn, Marks
  <2> QED BY <2>2, <2>3 DEF Showy, Named
<1>2. ShowInv /\ [Next]_vars => ShowInv' BY ShowNext
<1> QED BY <1>1, <1>2, ShowInit, PTL DEF Spec

(* A run that no signal stops, and whose words are all to be shown, has    *)
(* printed the text from its first character to its last, each once and    *)
(* in order.                                                               *)
THEOREM TextKept == Spec => []TextIntact
<1>1. ShowInv => TextIntact
  <2> SUFFICES ASSUME ShowInv, Succeeded, ~inhibited("common"), ~inhibited(Source)
               PROVE  LET chars == {i \in DOMAIN output : output[i].from = Source}
                      IN  /\ \A i, j \in chars : i < j => output[i].at < output[j].at
                          /\ {output[i].at : i \in chars} = DOMAIN text[Source]
    BY DEF TextIntact
  <2>1. PICK s : s = Source OBVIOUS
  <2>2. s \in Side /\ Whole(s) BY <2>1 DEF Source, Side, Whole
  <2>3. next[s] = Len(text[s]) + 1 BY <2>1, <2>2 DEF ShowInv, EndInv, Succeeded, AtEnd
  <2>4. Len(text[s]) \in Nat /\ DOMAIN text[s] = 1..Len(text[s])
    BY <2>2 DEF ShowInv, LineInv, TextInv, Alternating
  <2>5. next[s] - 1 = Len(text[s]) BY <2>3, <2>4
  <2>6. Tells(output, s, Len(text[s])) BY <2>1, <2>2, <2>5 DEF ShowInv, IntactInv
  <2> DEFINE chars == {i \in DOMAIN output : output[i].from = s}
  <2>7. \A i, j \in chars : i < j => output[i].at < output[j].at BY <2>6 DEF Tells
  <2>8. {output[i].at : i \in chars} = DOMAIN text[s] BY <2>4, <2>6 DEF Tells
  <2> QED BY <2>1, <2>7, <2>8
<1>2. ShowInv /\ [Next]_vars => ShowInv' BY ShowNext
<1> QED BY <1>1, <1>2, ShowInit, PTL DEF Spec
=============================================================================
