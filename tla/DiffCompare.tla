---------------------------- MODULE DiffCompare ----------------------------
(***************************************************************************)
(* How diff compares two files (analyze.c, diffseq.h and the part of io.c  *)
(* that trims what they share): from the lines of the files to the chain   *)
(* of changes that every output format prints.                             *)
(*                                                                         *)
(* The thresholds that the code derives from the speed of machines are     *)
(* constants, so that small files reach the heuristics.                    *)
(***************************************************************************)
EXTENDS Integers, Sequences, SequencesExt

CONSTANTS
    Lines,          \* what a line may be
    Cases,          \* pairs of files and options to compare them with
    Class(_),       \* the line that stands for all that compare equal to it
    Many,           \* 5: matches that make a line provisionally discardable
    SnakeLimit,     \* 20: longer snakes are big
    LongSearch,     \* 200: the cost from which progress is looked at
    Progress,       \* 12: the factor that makes progress remarkable
    OFFSET_MAX      \* LIN_MAX: a file has fewer lines, or its buffer does not fit

VARIABLES
    input,          \* [old, new, minimal, speed_large_files, horizon_lines,
                    \*  too_expensive], too_expensive being 4096 at least
    stage,
    prefix_lines,
    equivs,         \* of each file, the classes of the lines that remain
    discarded,      \* of each file, which lines may be discarded
    realindexes,    \* of each file, the lines that are not discarded
    changed,        \* of each file, the flags, with a sentinel at both ends
    todo,           \* the call stack of compareseq, the running call first
    search,         \* the locals of diag
    shift,          \* the locals of shift_boundaries
    script          \* what build_script returns

vars == <<input, stage, prefix_lines, equivs, discarded, realindexes, changed, todo,
          search, shift, script>>

reading == <<input, prefix_lines, equivs>>
compared == <<reading, discarded, realindexes>>

ASSUME LinesHaveClasses == \A l \in Lines : Class(l) \in Lines

ASSUME CasesAssumption ==
    \A c \in Cases : /\ c.old \in Seq(Lines) /\ c.new \in Seq(Lines)
                     /\ Len(c.old) < OFFSET_MAX /\ Len(c.new) < OFFSET_MAX
                     /\ c.horizon_lines \in Nat /\ c.minimal \in BOOLEAN

ASSUME LimitsAssumption == SnakeLimit \in Nat /\ OFFSET_MAX \in Nat

Files == 0..1
File(f) == IF f = 0 THEN input.old ELSE input.new
buffered_lines(f) == Len(equivs[f])

(* A finite set of numbers as a sequence, in increasing order.             *)
InOrder(S) ==
    [k \in 1..Cardinality(S) |-> CHOOSE x \in S : Cardinality({y \in S : y <= x}) = k]
Biggest(S) == CHOOSE x \in S : \A y \in S : y <= x
Least(S) == CHOOSE x \in S : \A y \in S : x <= y
Bigger(x, y) == IF x < y THEN y ELSE x
Smaller(x, y) == IF x < y THEN x ELSE y

-----------------------------------------------------------------------------
(* find_identical_ends: lines at both ends that are the same, byte for     *)
(* byte, are not compared, but for horizon_lines of them.                  *)
CommonPrefix(s, t) ==
    Biggest({n \in 0..Smaller(Len(s), Len(t)) : \A k \in 1..n : s[k] = t[k]})

Trimmed(n) == Bigger(0, n - input.horizon_lines)

FindIdenticalPrefix ==
    LET prefix == Trimmed(CommonPrefix(input.old, input.new))
    IN  /\ stage = "read"
        /\ prefix_lines' = prefix
        /\ equivs' = [f \in Files |-> SubSeq(File(f), prefix + 1, Len(File(f)))]
        /\ stage' = "suffix"
        /\ UNCHANGED <<input, discarded, realindexes, changed, todo, search, shift, script>>

(* What remains is hashed, after the suffix has gone.                      *)
FindIdenticalSuffix ==
    /\ stage = "suffix"
    /\ \E suffix \in {Trimmed(CommonPrefix(Reverse(equivs[0]), Reverse(equivs[1])))} :
        LET Middle(f) == 1..(buffered_lines(f) - suffix)
        IN  /\ equivs' = [f \in Files |-> [k \in Middle(f) |-> Class(equivs[f][k])]]
            /\ stage' = "discard"
            /\ UNCHANGED <<input, prefix_lines, discarded, realindexes, changed, todo,
                           search, shift, script>>

-----------------------------------------------------------------------------
(* discard_confusing_lines.                                                *)

(* How often n can be shifted by two bits before nothing is left of it.    *)
Log4(n) == IF n = 0 THEN 0 ELSE CHOOSE k \in 0..n : 4^k <= n /\ n < 4^(k + 1)

Threshold(f) == Many * 2^Log4(buffered_lines(f) \div 64)

(* What becomes of a line that so many lines of the other file match.      *)
Mark(matches, many) ==
    IF matches = 0 THEN "lone" ELSE IF matches > many THEN "provisional" ELSE "kept"

MarkDiscardable ==
    LET Matches(f, line) == Len(SelectSeq(equivs[1 - f], LAMBDA l : l = line))
    IN  /\ stage = "discard"
        /\ discarded' = [f \in Files |-> [i \in DOMAIN equivs[f] |->
                            Mark(Matches(f, equivs[f][i]), Threshold(f))]]
        /\ stage' = "thin"
        /\ UNCHANGED <<reading, realindexes, changed, todo, search, shift, script>>

Lone(f, i) == discarded[f][i] = "lone"
Provisional(f, i) == discarded[f][i] = "provisional"
Discardable(f, i) == discarded[f][i] # "kept"

(* A run of discardable lines, without the provisional ones at its ends.   *)
Run(f, a, b) ==
    /\ Lone(f, a) /\ Lone(f, b)
    /\ \A i \in a..b : Discardable(f, i)
    /\ \A c \in 1..(a - 1) : Lone(f, c) => \E i \in c..a : ~Discardable(f, i)
    /\ \A c \in (b + 1)..buffered_lines(f) :
         Lone(f, c) => \E i \in b..c : ~Discardable(f, i)

(* Subruns of so many provisional lines do not stand.                      *)
Minimum(length) == 2^Log4(length \div 4) + 1

(* The scan of a run from one end, which line i survives: three lone lines *)
(* in a row, or one at least eight lines in, come before it.               *)
Settled(f, i, from) ==
    LET Steps(k) == IF from < k THEN k - from ELSE from - k
        Line(n) == IF from < i THEN from + n ELSE from - n
    IN  \E n \in 0..(Steps(i) - 1) :
            /\ Lone(f, Line(n))
            /\ n >= 8 \/ (n >= 2 /\ Lone(f, Line(n - 1)) /\ Lone(f, Line(n - 2)))

(* The provisional line i is discarded with the run a..b around it.        *)
StandsIn(f, i, a, b) ==
    LET length == b - a + 1
        provisional == {k \in a..b : Provisional(f, k)}
    IN  /\ 4 * Cardinality(provisional) <= length
        /\ ~\E k \in a..i : /\ i <= k + Minimum(length) - 1
                            /\ k + Minimum(length) - 1 <= b
                            /\ k..(k + Minimum(length) - 1) \subseteq provisional
        /\ Settled(f, i, a) /\ Settled(f, i, b)

Discarded(f, i) ==
    \/ Lone(f, i)
    \/ /\ Provisional(f, i)
       /\ \E a \in 1..i, b \in i..buffered_lines(f) : Run(f, a, b) /\ StandsIn(f, i, a, b)

(* A call of compareseq, for the lines that are not discarded.             *)
Call(xoff, xlim, yoff, ylim, find_minimal) ==
    [xoff |-> xoff, xlim |-> xlim, yoff |-> yoff, ylim |-> ylim,
     find_minimal |-> find_minimal]

Discard ==
    /\ stage = "thin"
    /\ \E kept \in {[f \in Files |-> {i \in 0..(buffered_lines(f) - 1) :
                                       input.minimal \/ ~Discarded(f, i + 1)}]} :
        /\ realindexes' = [f \in Files |-> InOrder(kept[f])]
        /\ changed' = [f \in Files |->
                         [i \in -1..buffered_lines(f) |->
                            i \in (0..(buffered_lines(f) - 1)) \ kept[f]]]
        /\ todo' = <<Call(0, Cardinality(kept[0]), 0, Cardinality(kept[1]), input.minimal)>>
        /\ stage' = "slide"
        /\ UNCHANGED <<reading, discarded, search, shift, script>>

-----------------------------------------------------------------------------
(* compareseq: one call is taken from the stack at a time.                 *)
call == todo[1]
XVec(x) == equivs[0][realindexes[0][x + 1] + 1]
YVec(y) == equivs[1][realindexes[1][y + 1] + 1]

(* How many elements are equal from x and y on, and back from them.        *)
Snake(x, y) ==
    LET longest == Bigger(0, Smaller(call.xlim - x, call.ylim - y))
    IN  Biggest({n \in 0..longest : \A k \in 0..(n - 1) : XVec(x + k) = YVec(y + k)})
SnakeBack(x, y) ==
    LET longest == Bigger(0, Smaller(x - call.xoff, y - call.yoff))
    IN  Biggest({n \in 0..longest : \A k \in 1..n : XVec(x - k) = YVec(y - k)})

SlideEnds ==
    LET lo == Snake(call.xoff, call.yoff)
        hi == Smaller(SnakeBack(call.xlim, call.ylim),
                      Smaller(call.xlim - call.xoff, call.ylim - call.yoff) - lo)
    IN  /\ stage = "slide"
        /\ todo' = [todo EXCEPT ![1].xoff = @ + lo, ![1].yoff = @ + lo,
                                ![1].xlim = @ - hi, ![1].ylim = @ - hi]
        /\ stage' = "simple"
        /\ UNCHANGED <<compared, changed, search, shift, script>>

Simple == call.xoff = call.xlim \/ call.yoff = call.ylim

(* NOTE_DELETE and NOTE_INSERT.                                            *)
Flagged(f, from, lim) == {realindexes[f][k + 1] : k \in from..(lim - 1)}

SimpleCase ==
    LET flagged(f) == IF f = 0 THEN Flagged(0, call.xoff, call.xlim)
                               ELSE Flagged(1, call.yoff, call.ylim)
    IN  /\ stage = "simple" /\ Simple
        /\ changed' = [f \in Files |->
                         [i \in DOMAIN changed[f] |-> changed[f][i] \/ i \in flagged(f)]]
        /\ todo' = Tail(todo)
        /\ stage' = IF Tail(todo) = <<>> THEN "scan" ELSE "slide"
        /\ UNCHANGED <<compared, search, shift, script>>

-----------------------------------------------------------------------------
(* diag.                                                                   *)
dmin == call.xoff - call.ylim
dmax == call.xlim - call.yoff
fmid == call.xoff - call.yoff
bmid == call.xlim - call.ylim
odd == (fmid - bmid) % 2 = 1

(* The domain of fd and of bd: the entries that this call has written.     *)
StartDiag ==
    /\ stage = "simple" /\ ~Simple
    /\ search' = [c |-> 1, big_snake |-> FALSE,
                  fmin |-> fmid, fmax |-> fmid, fd |-> [d \in {fmid} |-> call.xoff],
                  bmin |-> bmid, bmax |-> bmid, bd |-> [d \in {bmid} |-> call.xlim]]
    /\ stage' = "extend"
    /\ UNCHANGED <<compared, changed, todo, shift, script>>

(* The limits of a search, an edit step further on either side; one that   *)
(* has moved outwards is marked beyond its end.                            *)
Lower(min) == IF min > dmin THEN min - 1 ELSE min + 1
Upper(max) == IF max < dmax THEN max + 1 ELSE max - 1

(* Mutant: only the lower limit is marked.                                 *)
MarkedBelow(diagonals, min, max, mark) ==
    LET marks == {d \in {min - 2} : min > dmin}
    IN  [d \in DOMAIN diagonals \cup marks |-> IF d \in marks THEN mark ELSE diagonals[d]]

Marked(diagonals, min, max, mark) ==
    LET marks == {d \in {min - 2} : min > dmin} \cup {d \in {max + 2} : max < dmax}
    IN  [d \in DOMAIN diagonals \cup marks |-> IF d \in marks THEN mark ELSE diagonals[d]]

ExtendForward ==
    /\ stage = "extend"
    /\ search' = [search EXCEPT !.fmin = Lower(@), !.fmax = Upper(@),
                    !.fd = Marked(@, search.fmin, search.fmax, -1)]
    /\ stage' = "forward"
    /\ UNCHANGED <<compared, changed, todo, shift, script>>

ExtendBackward ==
    /\ stage = "extend back"
    /\ search' = [search EXCEPT !.bmin = Lower(@), !.bmax = Upper(@),
                    !.bd = Marked(@, search.bmin, search.bmax, OFFSET_MAX)]
    /\ stage' = "backward"
    /\ UNCHANGED <<compared, changed, todo, shift, script>>

Sweep(min, max) == {d \in min..max : (max - d) % 2 = 0}

(* Mutant: the second part leaves out the element at the division.         *)
DivideSkipping(xmid, ymid, lo_minimal, hi_minimal) ==
    LET lo == Call(call.xoff, xmid, call.yoff, ymid, lo_minimal)
        hi == Call(Smaller(xmid + 1, call.xlim), call.xlim, ymid, call.ylim, hi_minimal)
    IN  /\ todo' = <<lo, hi>> \o Tail(todo)
        /\ stage' = "slide"

(* Divide the call at a point, the smaller part first.                     *)
Divide(xmid, ymid, lo_minimal, hi_minimal) ==
    LET lo == Call(call.xoff, xmid, call.yoff, ymid, lo_minimal)
        hi == Call(xmid, call.xlim, ymid, call.ylim, hi_minimal)
    IN  /\ todo' = (IF (call.xlim + call.ylim) - (xmid + ymid)
                          < (xmid + ymid) - (call.xoff + call.yoff)
                    THEN <<hi, lo>> ELSE <<lo, hi>>) \o Tail(todo)
        /\ stage' = "slide"

ForwardStart(d) ==
    IF search.fd[d - 1] < search.fd[d + 1] THEN search.fd[d + 1] ELSE search.fd[d - 1] + 1
BackwardStart(d) ==
    IF search.bd[d - 1] < search.bd[d + 1] THEN search.bd[d - 1] ELSE search.bd[d + 1] - 1

(* The top-down search.  A sweep reads the diagonals between its own.      *)
Forward ==
    LET x0(d) == ForwardStart(d)
        x(d) == x0(d) + Snake(x0(d), x0(d) - d)
        sweep == Sweep(search.fmin, search.fmax)
        met == {d \in sweep : /\ odd /\ d \in search.bmin..search.bmax
                              /\ search.bd[d] <= x(d)}
    IN  /\ stage = "forward"
        /\ IF met # {}
           THEN /\ \E d \in met : /\ \A e \in met : e <= d
                                 /\ Divide(x(d), x(d) - d, TRUE, TRUE)
                /\ UNCHANGED search
           ELSE /\ search' = [search EXCEPT
                     !.fd = [d \in DOMAIN @ \cup sweep |-> IF d \in sweep THEN x(d) ELSE @[d]],
                     !.big_snake = \E d \in sweep : x(d) - x0(d) > SnakeLimit]
                /\ stage' = "extend back"
                /\ UNCHANGED todo
        /\ UNCHANGED <<compared, changed, shift, script>>

(* The bottom-up search; what the heuristics do then is left to Consider.  *)
Backward ==
    LET x0(d) == BackwardStart(d)
        x(d) == x0(d) - SnakeBack(x0(d), x0(d) - d)
        sweep == Sweep(search.bmin, search.bmax)
        met == {d \in sweep : /\ ~odd /\ d \in search.fmin..search.fmax
                              /\ x(d) <= search.fd[d]}
    IN  /\ stage = "backward"
        /\ IF met # {}
           THEN /\ \E d \in met : /\ \A e \in met : e <= d
                                 /\ Divide(x(d), x(d) - d, TRUE, TRUE)
                /\ UNCHANGED search
           ELSE /\ search' = [search EXCEPT
                     !.bd = [d \in DOMAIN @ \cup sweep |-> IF d \in sweep THEN x(d) ELSE @[d]],
                     !.big_snake = @ \/ \E d \in sweep : x0(d) - x(d) > SnakeLimit]
                /\ stage' = "consider"
                /\ UNCHANGED todo
        /\ UNCHANGED <<compared, changed, shift, script>>

-----------------------------------------------------------------------------
(* The heuristics that stop a search.                                      *)
Abs(n) == IF n < 0 THEN -n ELSE n

(* A diagonal that has made lots of progress compared with its cost.       *)
ForwardProgress(d) == (search.fd[d] - call.xoff) * 2 - (d - fmid)
BackwardProgress(d) == (call.xlim - search.bd[d]) * 2 + (d - bmid)

GoodForward ==
    {d \in Sweep(search.fmin, search.fmax) :
       LET x == search.fd[d]  y == x - d
       IN  /\ ForwardProgress(d) > Progress * (search.c + Abs(d - fmid))
           /\ call.xoff + SnakeLimit <= x /\ x < call.xlim
           /\ call.yoff + SnakeLimit <= y /\ y < call.ylim
           /\ \A k \in 1..SnakeLimit : XVec(x - k) = YVec(y - k)}

GoodBackward ==
    {d \in Sweep(search.bmin, search.bmax) :
       LET x == search.bd[d]  y == x - d
       IN  /\ BackwardProgress(d) > Progress * (search.c + Abs(d - bmid))
           /\ call.xoff < x /\ x <= call.xlim - SnakeLimit
           /\ call.yoff < y /\ y <= call.ylim - SnakeLimit
           /\ \A k \in 0..(SnakeLimit - 1) : XVec(x + k) = YVec(y + k)}

(* d is the first diagonal, from above, of the greatest value.             *)
Foremost(d, diagonals, Value(_)) ==
    \A e \in diagonals : Value(e) < Value(d) \/ (Value(e) = Value(d) /\ e <= d)

Remarkable ==
    /\ search.c > LongSearch /\ search.big_snake /\ input.speed_large_files
    /\ GoodForward # {} \/ GoodBackward # {}

DivideRemarkably ==
    \/ \E d \in GoodForward :
          /\ Foremost(d, GoodForward, ForwardProgress)
          /\ Divide(search.fd[d], search.fd[d] - d, TRUE, FALSE)
    \/ \E d \in GoodBackward :
          /\ GoodForward = {}
          /\ Foremost(d, GoodBackward, BackwardProgress)
          /\ Divide(search.bd[d], search.bd[d] - d, FALSE, TRUE)

(* The points the searches have reached, brought back into the box.        *)
ForwardX(d) ==
    LET x == Smaller(search.fd[d], call.xlim)
    IN  IF call.ylim < x - d THEN call.ylim + d ELSE x
BackwardX(d) ==
    LET x == Bigger(call.xoff, search.bd[d])
    IN  IF x - d < call.yoff THEN call.yoff + d ELSE x

(* Give up and divide at the better of the best points so far.             *)
GiveUp ==
    LET ForwardSum(d) == 2 * ForwardX(d) - d
        BackwardSum(d) == 2 * BackwardX(d) - d
    IN  \E f \in Sweep(search.fmin, search.fmax), b \in Sweep(search.bmin, search.bmax) :
            /\ Foremost(f, Sweep(search.fmin, search.fmax), ForwardSum)
            /\ Foremost(b, Sweep(search.bmin, search.bmax), LAMBDA d : -BackwardSum(d))
            /\ IF (call.xlim + call.ylim) - BackwardSum(b)
                     < ForwardSum(f) - (call.xoff + call.yoff)
               THEN Divide(ForwardX(f), ForwardX(f) - f, TRUE, FALSE)
               ELSE Divide(BackwardX(b), BackwardX(b) - b, FALSE, TRUE)

(* Mutant: a search that is to be minimal gives up, too.                   *)
ConsiderCost ==
    /\ stage = "consider"
    /\ IF search.c >= input.too_expensive
       THEN GiveUp /\ UNCHANGED search
       ELSE /\ search' = [search EXCEPT !.c = @ + 1]
            /\ stage' = "extend"
            /\ UNCHANGED todo
    /\ UNCHANGED <<compared, changed, shift, script>>

Consider ==
    /\ stage = "consider"
    /\ IF ~call.find_minimal /\ Remarkable
       THEN DivideRemarkably /\ UNCHANGED search
       ELSE IF ~call.find_minimal /\ search.c >= input.too_expensive
       THEN GiveUp /\ UNCHANGED search
       ELSE /\ search' = [search EXCEPT !.c = @ + 1]
            /\ stage' = "extend"
            /\ UNCHANGED todo
    /\ UNCHANGED <<compared, changed, shift, script>>

-----------------------------------------------------------------------------
(* shift_boundaries: for each file f in turn, each run of changed lines    *)
(* start..i-1 is moved, j being the place in the other file that matches.  *)
other == 1 - shift.f
i_end == buffered_lines(shift.f)
Line(k) == equivs[shift.f][k + 1]

AtFile(f) == [f |-> f, i |-> 0, j |-> 0, start |-> 0, runlength |-> 0, corresponding |-> 0]

(* The first place from k on, and the last before k, that is unchanged.    *)
After(f, k) == Least({m \in k..buffered_lines(f) : ~changed[f][m]})
Before(f, k) == Biggest({m \in -1..(k - 1) : ~changed[f][m]})

(* The place behind the nth unchanged line from k on.                      *)
Passed(f, k, n) ==
    IF n = 0 THEN k
    ELSE 1 + Least({m \in k..buffered_lines(f) :
                      Cardinality({l \in k..m : ~changed[f][l]}) = n})

Scan ==
    LET first == Least({k \in shift.i..i_end : k = i_end \/ changed[shift.f][k]})
        last == After(shift.f, first)
    IN  /\ stage = "scan"
        /\ IF first = i_end
           THEN /\ stage' = IF shift.f = 0 THEN "scan" ELSE "build"
                /\ shift' = IF shift.f = 0 THEN AtFile(1) ELSE shift
           ELSE /\ stage' = "back"
                /\ shift' = [shift EXCEPT
                     !.i = last, !.start = first, !.runlength = last - first,
                     !.j = After(other, Passed(other, @, first - shift.i))]
        /\ UNCHANGED <<compared, changed, todo, search, script>>

(* Mutant: j is not moved past the run that precedes it.                   *)
MoveUpOneByOne ==
    /\ changed' = [changed EXCEPT ![shift.f][shift.start - 1] = TRUE,
                                  ![shift.f][shift.i - 1] = FALSE]
    /\ shift' = [shift EXCEPT !.start = Before(shift.f, @ - 1) + 1, !.i = @ - 1,
                              !.j = @ - 1]

(* Move the run by a line: up, with all flags that precede it, or down,    *)
(* with all that follow.                                                   *)
MoveUp ==
    /\ changed' = [changed EXCEPT ![shift.f][shift.start - 1] = TRUE,
                                  ![shift.f][shift.i - 1] = FALSE]
    /\ shift' = [shift EXCEPT !.start = Before(shift.f, @ - 1) + 1, !.i = @ - 1,
                              !.j = Before(other, @)]

MoveDown ==
    LET i == After(shift.f, shift.i + 1)
        j == After(other, shift.j + 1)
    IN  /\ changed' = [changed EXCEPT ![shift.f][shift.start] = FALSE,
                                      ![shift.f][shift.i] = TRUE]
        /\ shift' = [shift EXCEPT !.start = @ + 1, !.i = i, !.j = j,
                       !.corresponding = IF j > shift.j + 1 THEN i ELSE @]

(* Mutant: runs are only moved forward.                                    *)
ShiftBackNever ==
    /\ stage = "back"
    /\ shift' = [shift EXCEPT !.corresponding =
                    IF changed[other][shift.j - 1] THEN shift.i ELSE i_end]
    /\ stage' = "forth"
    /\ UNCHANGED <<compared, changed, todo, search, script>>

ShiftBack ==
    /\ stage = "back"
    /\ IF shift.start > 0 /\ Line(shift.start - 1) = Line(shift.i - 1)
       THEN MoveUp /\ UNCHANGED stage
       ELSE /\ shift' = [shift EXCEPT !.corresponding =
                           IF changed[other][shift.j - 1] THEN shift.i ELSE i_end]
            /\ stage' = "forth"
            /\ UNCHANGED changed
    /\ UNCHANGED <<compared, todo, search, script>>

(* Mutants: a run that has grown is not looked at again, and its length is *)
(* not taken down.                                                         *)
ShiftForthOnce ==
    /\ stage = "forth"
    /\ \/ /\ shift.i # i_end /\ Line(shift.start) = Line(shift.i)
          /\ MoveDown
          /\ UNCHANGED stage
       \/ /\ ~(shift.i # i_end /\ Line(shift.start) = Line(shift.i))
          /\ stage' = "return"
          /\ UNCHANGED <<changed, shift>>
    /\ UNCHANGED <<compared, todo, search, script>>

ShiftForthForever ==
    /\ stage = "forth"
    /\ \/ /\ shift.i # i_end /\ Line(shift.start) = Line(shift.i)
          /\ MoveDown
          /\ UNCHANGED stage
       \/ /\ ~(shift.i # i_end /\ Line(shift.start) = Line(shift.i))
          /\ stage' = IF shift.runlength # shift.i - shift.start THEN "back" ELSE "return"
          /\ UNCHANGED <<changed, shift>>
    /\ UNCHANGED <<compared, todo, search, script>>

ShiftForth ==
    /\ stage = "forth"
    /\ \/ /\ shift.i # i_end /\ Line(shift.start) = Line(shift.i)
          /\ MoveDown
          /\ UNCHANGED stage
       \/ /\ ~(shift.i # i_end /\ Line(shift.start) = Line(shift.i))
          /\ stage' = IF shift.runlength # shift.i - shift.start THEN "back" ELSE "return"
          /\ shift' = [shift EXCEPT !.runlength = shift.i - shift.start]
          /\ UNCHANGED changed
    /\ UNCHANGED <<compared, todo, search, script>>

(* Back to the last place where the other file has a run, too.             *)
ReturnToCorresponding ==
    /\ stage = "return"
    /\ IF shift.corresponding < shift.i
       THEN /\ changed' = [changed EXCEPT ![shift.f][shift.start - 1] = TRUE,
                                          ![shift.f][shift.i - 1] = FALSE]
            /\ shift' = [shift EXCEPT !.start = @ - 1, !.i = @ - 1,
                                      !.j = Before(other, @)]
            /\ UNCHANGED stage
       ELSE stage' = "scan" /\ UNCHANGED <<changed, shift>>
    /\ UNCHANGED <<compared, todo, search, script>>

-----------------------------------------------------------------------------
(* build_script: what lies between two lines that match is a change.       *)
Change(line0, line1, deleted, inserted) ==
    [line0 |-> line0, line1 |-> line1, deleted |-> deleted, inserted |-> inserted]

Unchanged(f) == InOrder({i \in 0..(buffered_lines(f) - 1) : ~changed[f][i]})

BuildScript ==
    /\ stage = "build"
    /\ \E stop \in {[f \in Files |-> <<-1>> \o Unchanged(f) \o <<buffered_lines(f)>>]} :
         LET Between(k) == Change(stop[0][k] + 1, stop[1][k] + 1,
                                  stop[0][k + 1] - stop[0][k] - 1,
                                  stop[1][k + 1] - stop[1][k] - 1)
         IN  \E changes \in {InOrder({k \in 1..(Len(stop[0]) - 1) :
                                    Between(k).deleted + Between(k).inserted > 0})} :
                script' = [n \in DOMAIN changes |-> Between(changes[n])]
    /\ stage' = "done"
    /\ UNCHANGED <<compared, changed, todo, search, shift>>

Done == stage = "done" /\ UNCHANGED vars

Init ==
    /\ input \in Cases
    /\ stage = "read"
    /\ prefix_lines = 0
    /\ equivs = [f \in Files |-> <<>>] /\ discarded = [f \in Files |-> <<>>]
    /\ realindexes = [f \in Files |-> <<>>] /\ changed = [f \in Files |-> <<>>]
    /\ todo = <<>> /\ search = <<>> /\ shift = AtFile(0) /\ script = <<>>

Next ==
    \/ FindIdenticalPrefix \/ FindIdenticalSuffix \/ MarkDiscardable \/ Discard
    \/ SlideEnds \/ SimpleCase \/ StartDiag
    \/ ExtendForward \/ Forward \/ ExtendBackward \/ Backward \/ Consider
    \/ Scan \/ ShiftBack \/ ShiftForth \/ ReturnToCorresponding
    \/ BuildScript \/ Done

Spec == Init /\ [][Next]_vars /\ WF_vars(Next)

-----------------------------------------------------------------------------
Reading == {"read", "suffix", "discard", "thin"}
Comparing == {"slide", "simple", "extend", "forward", "extend back", "backward", "consider"}
Shifting == {"scan", "back", "forth", "return"}

(* Every variable has its type, the calls lie in the vectors, no change is *)
(* empty, and the sentinels stay: "Allocate an extra element, always 0, at *)
(* each end of each vector", where the loops of shift_boundaries and       *)
(* build_script stop.                                                      *)
TypeOK ==
    /\ stage \in Reading \cup Comparing \cup Shifting \cup {"build", "done"}
    /\ prefix_lines \in 0..Len(input.old)
    /\ \A f \in Files :
         /\ \A k \in DOMAIN equivs[f] :
              \E l \in DOMAIN File(f) : equivs[f][k] \in {File(f)[l], Class(File(f)[l])}
         /\ stage \notin Reading => changed[f] \in [-1..buffered_lines(f) -> BOOLEAN]
         /\ \A k \in DOMAIN realindexes[f] : realindexes[f][k] \in 0..(buffered_lines(f) - 1)
    /\ \A k \in DOMAIN todo : /\ todo[k].xoff \in 0..todo[k].xlim
                              /\ todo[k].yoff \in 0..todo[k].ylim
                              /\ todo[k].xlim <= Len(realindexes[0])
                              /\ todo[k].ylim <= Len(realindexes[1])
    /\ stage \in Comparing <=> todo # <<>>
    /\ \A k \in DOMAIN script : script[k].deleted + script[k].inserted > 0
    /\ stage \notin Reading =>
         \A f \in Files : ~changed[f][-1] /\ ~changed[f][buffered_lines(f)]

(* Once compareseq has ended the lines that are not flagged are the same   *)
(* in both files, whatever diag gave up, was discarded or is being moved;  *)
(* and while a run is moved, j stays the place that matches its end: as    *)
(* many unchanged lines lie before it.                                     *)
FlagsMatch ==
    LET rest == [f \in Files |-> Unchanged(f)]
        Rest(f) == [k \in DOMAIN rest[f] |-> equivs[f][rest[f][k] + 1]]
        Unmoved(f, lim) == Cardinality({k \in 0..(lim - 1) : ~changed[f][k]})
    IN  /\ stage \in Shifting \cup {"build", "done"} => Rest(0) = Rest(1)
        /\ stage \in {"back", "forth", "return"} =>
             /\ shift.j \in 0..buffered_lines(other) /\ ~changed[other][shift.j]
             /\ Unmoved(shift.f, shift.i) = Unmoved(other, shift.j)

(* A sweep of diag reads no entry that this call has not written, and      *)
(* compares no elements before those of the call.                          *)
SweepsInBox ==
    LET Written(diagonals, d) == {d - 1, d + 1} \subseteq DOMAIN diagonals
    IN  /\ stage = "forward" =>
             \A d \in Sweep(search.fmin, search.fmax) :
                 /\ Written(search.fd, d)
                 /\ ForwardStart(d) >= call.xoff /\ ForwardStart(d) - d >= call.yoff
        /\ stage = "backward" =>
             \A d \in Sweep(search.bmin, search.bmax) :
                 /\ Written(search.bd, d)
                 /\ BackwardStart(d) <= call.xlim /\ BackwardStart(d) - d <= call.ylim

(* The comparison ends: the parts that diag divides a call into are both   *)
(* smaller than the call, every sweep gets further, and a run that is      *)
(* moved back and forth stops growing.                                     *)
Terminates == <>(stage = "done")

(* The length of a longest common subsequence.                             *)
LCS(s, t) ==
    LET longest[i \in 0..Len(s), j \in 0..Len(t)] ==
          IF i = 0 \/ j = 0 THEN 0
          ELSE IF s[i] = t[j] THEN longest[i - 1, j - 1] + 1
          ELSE Bigger(longest[i - 1, j], longest[i, j - 1])
    IN  longest[Len(s), Len(t)]

Vector(f) == [k \in DOMAIN realindexes[f] |-> equivs[f][realindexes[f][k] + 1]]
Classes(f) == [k \in DOMAIN File(f) |-> Class(File(f)[k])]

(* --minimal: "Guarantee a minimal set of changes", of the whole files.    *)
(* Otherwise the set is minimal for the lines that were not discarded, as  *)
(* long as diag does not stop early.                                       *)
Minimal ==
    stage = "done" =>
        LET Changes(f) == buffered_lines(f) - Len(Unchanged(f))
            Dropped(f) == buffered_lines(f) - Len(realindexes[f])
            Fewest(s, t) == Len(s) + Len(t) - 2 * LCS(s, t)
        IN  /\ input.minimal => Changes(0) + Changes(1) = Fewest(Classes(0), Classes(1))
            /\ input.too_expensive = 4096 /\ ~input.speed_large_files =>
                 Changes(0) + Changes(1)
                   = Dropped(0) + Dropped(1) + Fewest(Vector(0), Vector(1))

(* "Adjust inserts/deletes of identical lines to join changes as much as   *)
(* possible": of two runs of a file in a row, neither can be moved so far  *)
(* that it meets the other one.                                            *)
Joined ==
    stage = "done" =>
        \A f \in Files :
            LET Flags(from, lim, flag) == \A k \in from..(lim - 1) : changed[f][k] = flag
                Runs == {r \in (0..buffered_lines(f)) \X (0..buffered_lines(f)) :
                           /\ r[1] < r[2] /\ Flags(r[1], r[2], TRUE)
                           /\ ~changed[f][r[1] - 1] /\ ~changed[f][r[2]]}
                Same(from, n, at) == SubSeq(equivs[f], from + 1, from + n)
                                       = SubSeq(equivs[f], at + 1, at + n)
            IN  \A r, s \in Runs :
                   r[2] < s[1] /\ Flags(r[2], s[1], FALSE) =>
                       LET n == s[1] - r[2]
                       IN  ~Same(r[1], n, r[2]) /\ ~Same(s[2] - n, n, r[2])

-----------------------------------------------------------------------------
(* The boxes still to be compared, and the elements outside them that were *)
(* found equal: the kth of one file is matched with the kth of the other.  *)
Boxes == {[xoff |-> todo[k].xoff, xlim |-> todo[k].xlim,
           yoff |-> todo[k].yoff, ylim |-> todo[k].ylim] : k \in DOMAIN todo}
Elements(f, flag) ==
    {k \in 0..(Len(realindexes[f]) - 1) : changed[f][realindexes[f][k + 1]] = flag}
Compared(f) ==
    {k \in Elements(f, FALSE) :
       \A b \in Boxes : k \notin (IF f = 0 THEN b.xoff..(b.xlim - 1) ELSE b.yoff..(b.ylim - 1))}
Matched ==
    {p \in Compared(0) \X Compared(1) :
       Cardinality({k \in Compared(0) : k < p[1]}) = Cardinality({k \in Compared(1) : k < p[2]})}

Abstract == INSTANCE Compareseq WITH
    Element <- Lines, xvec <- Vector(0), yvec <- Vector(1), boxes <- Boxes,
    deleted <- Elements(0, TRUE), inserted <- Elements(1, TRUE), matched <- Matched

(* From the call to its return compareseq does what Compareseq does.       *)
Compares ==
    [][/\ stage = "thin" => Abstract!Init'
       /\ stage \in Comparing => [Abstract!Next]_(Abstract!vars)]_vars
=============================================================================
