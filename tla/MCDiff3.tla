------------------------------- MODULE MCDiff3 -------------------------------
(* Three small files with all the scripts that diff might find for them,   *)
(* and longer ones with changes in several places, for module Diff3.       *)
EXTENDS Diff3

CONSTANTS
    MaxLines,    \* lines of a small file
    CommonTexts  \* lines of a long common file, all different

Texts == UNION {[1..n -> {Line("a"), Line("b"), Dot}] : n \in 0..MaxLines}

(* All that diff might print of two files: any script whose common lines   *)
(* are the same, but none for the same file.                               *)
Valid(script, other, common) ==
    LET words == E!Transcript(script, "left" :> Len(other) @@ "right" :> Len(common))
    IN  \A k \in DOMAIN words :
            words[k].kind = "common" => other[words[k].left] = common[words[k].right]
SmallComparisons ==
    UNION {{[other |-> other, common |-> common, script |-> s] :
              s \in {r \in E!Scripts(Len(other), Len(common)) :
                       IF other = common THEN r = <<>> ELSE Valid(r, other, common)}} :
           other \in Texts, common \in Texts}

(* Changes to a long common file: runs of its lines are missing from the   *)
(* other one, or replaced by one line.                                     *)
Common == [n \in 1..Len(CommonTexts) |-> Line(CommonTexts[n])]
Starts(missing) == SetToSortSeq({n \in missing : n - 1 \notin missing}, <)
End(missing, n) == CHOOSE m \in missing : n..m \subseteq missing /\ m + 1 \notin missing /\ m >= n
Script(missing, instead) ==
    LET starts == Starts(missing)
        Before(k) == starts[k] - 1 - Cardinality({n \in missing : n < starts[k]})
                       + (k - 1) * instead
        HunkAt(k) == IF instead = 1
                     THEN E!Hunk("c", Before(k) + 1, Before(k) + 1,
                                 starts[k], End(missing, starts[k]))
                     ELSE E!Hunk("a", Before(k), Before(k), starts[k], End(missing, starts[k]))
    IN  [k \in DOMAIN starts |-> HunkAt(k)]
Other(missing, instead) ==
    FlattenSeq([n \in DOMAIN Common |->
        IF n \notin missing THEN <<Common[n]>>
        ELSE IF n - 1 \in missing \/ instead = 0 THEN <<>> ELSE <<Line("instead")>>])
LongComparisons ==
    {[other |-> Other(missing, instead), common |-> Common, script |-> Script(missing, instead)] :
       missing \in SUBSET (DOMAIN Common), instead \in {0, 1}}

Five == <<"1", "2", "3", "4", "5">>
NoLines == <<>>
AllComparisons == SmallComparisons \cup LongComparisons
=============================================================================
