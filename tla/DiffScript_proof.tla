-------------------------- MODULE DiffScript_proof --------------------------
(***************************************************************************)
(* The script of two files of any length: the runs of changed lines are    *)
(* joined as far as they can be, the chain of changes leaves out lines     *)
(* that are the same in both files, wdiff can read what is printed of it,  *)
(* and the columns of a side by side listing hold both files.              *)
(***************************************************************************)
EXTENDS DiffCompare_proof, DiffOutput

-----------------------------------------------------------------------------
(***************************************************************************)
(* What keeps two runs apart.  e are the lines of a file and d its flags;  *)
(* Level(e, d, x) is how many unflagged lines come before x, and q the     *)
(* levels at which the other file has no run: a run that is moved to such  *)
(* a level is not brought back to it.                                      *)
(***************************************************************************)
Flagging(e, d) ==
    Len(e) \in Nat /\ d \in [-1..Len(e) -> BOOLEAN] /\ ~d[-1] /\ ~d[Len(e)]
Open(e, d) == {k \in 0..(Len(e) - 1) : ~d[k]}
Level(e, d, x) == Rank(Open(e, d), x)

IsRun(e, d, a, b) ==
    /\ a \in Nat /\ b \in Nat /\ a < b /\ b <= Len(e)
    /\ \A k \in a..(b - 1) : d[k]
    /\ ~d[a - 1] /\ ~d[b]
IsGap(d, b, x) == b < x /\ \A k \in b..(x - 1) : ~d[k]
Unlike(e, x, y) == e[x + 1] # e[y + 1]

(* Moved down from b as far as c, a run meets none of the other file.      *)
Calm(e, d, q, b, c) == \A k \in 1..(c - b) : Level(e, d, b) + k \in q

(* Neither can the run a..b-1 be moved down to x nor the run x..y-1 up to  *)
(* b; and the former stops at a place up to which the other file has none. *)
Parted(e, a, b, x, y) ==
    /\ \E c \in b..(x - 1) : Unlike(e, c - (b - a), c)
    /\ \E c \in b..(x - 1) : Unlike(e, c, c + (y - x))
Held(e, d, q, a, b, x) ==
    \E c \in b..(x - 1) : Unlike(e, c - (b - a), c) /\ Calm(e, d, q, b, c)

PartedUpto(e, d, lim) ==
    \A a, b, x, y \in Nat :
        IsRun(e, d, a, b) /\ IsRun(e, d, x, y) /\ IsGap(d, b, x) /\ y <= lim
            => Parted(e, a, b, x, y)
HeldUpto(e, d, q, lim) ==
    \A a, b, x, y \in Nat :
        IsRun(e, d, a, b) /\ IsRun(e, d, x, y) /\ IsGap(d, b, x) /\ y <= lim
            => Held(e, d, q, a, b, x)
ApartUpto(e, d, q, lim) == PartedUpto(e, d, lim) /\ HeldUpto(e, d, q, lim)

(* The run s..i-1 can be moved down until c is behind it.                  *)
Clear(e, d, s, i, c) ==
    \A m \in s..c : /\ m + (i - s) < Len(e) /\ ~d[m + (i - s)]
                    /\ ~Unlike(e, m, m + (i - s))

(* Wherever the run s..i-1 has been moved to: the run before it would stop *)
(* at some c, which it does not take with it for good.                     *)
Below(e, d, q, s, i, lim) ==
    \A a, b \in Nat :
        IsRun(e, d, a, b) /\ IsGap(d, b, s) =>
            \E c \in b..Len(e) :
                /\ Unlike(e, c - (b - a), c) /\ Calm(e, d, q, b, c) /\ Clear(e, d, s, i, c)
                /\ c < lim

(* Returning to p, of n lines, the run stops behind the run before it.     *)
Short(e, d, s, n, p) ==
    \A a, b \in Nat :
        IsRun(e, d, a, b) /\ IsGap(d, b, s) =>
            \E c \in b..(s - 1) : Unlike(e, c, c + n) /\ c + n < p

(* Since it was at p the end of the run has met no run of the other file.  *)
Recent(e, d, q, i, p) == \A k \in 0..(i - p - 1) : Level(e, d, i) - k \in q

(* Where the run s..i-1 stops when it is moved down.                       *)
Onward(e, d, q, s, i) ==
    \E c \in i..Len(e) :
        /\ \A k \in i..c : ~d[k]
        /\ c = Len(e) \/ Unlike(e, c - (i - s), c)
        /\ Calm(e, d, q, i, c)

(* Levels.                                                                 *)
LEMMA OpenWithin ==
  ASSUME NEW e, NEW d, Flagging(e, d)
  PROVE  Within(Open(e, d), Len(e)) /\ Len(e) \in Nat
BY DEF Within, Open, Flagging

LEMMA LevelAlike ==
  ASSUME NEW e, NEW d, NEW d2, Len(e) \in Nat, NEW x \in Int, x <= Len(e),
         \A k \in 0..(x - 1) : d2[k] = d[k]
  PROVE  Level(e, d2, x) = Level(e, d, x)
<1>1. {y \in Open(e, d2) : y < x} = {y \in Open(e, d) : y < x}
  BY DEF Open
<1> QED
  BY <1>1 DEF Level, Rank

LEMMA LevelNat ==
  ASSUME NEW e, NEW d, Flagging(e, d), NEW x \in Int
  PROVE  Level(e, d, x) \in Nat
BY OpenWithin, RankFinite DEF Level

LEMMA LevelNext ==
  ASSUME NEW e, NEW d, Flagging(e, d), NEW x \in Nat, x < Len(e)
  PROVE  /\ ~d[x] => Level(e, d, x + 1) = Level(e, d, x) + 1
         /\ d[x] => Level(e, d, x + 1) = Level(e, d, x)
<1>1. Within(Open(e, d), Len(e)) /\ Len(e) \in Nat BY OpenWithin
<1>2. x \in Open(e, d) <=> ~d[x] BY <1>1 DEF Open
<1> QED
  BY <1>1, <1>2, RankNext DEF Level

LEMMA LevelRun ==
  ASSUME NEW e, NEW d, Flagging(e, d), NEW s, NEW i, IsRun(e, d, s, i)
  PROVE  Level(e, d, i) = Level(e, d, s)
<1>1. Within(Open(e, d), Len(e)) /\ Len(e) \in Nat BY OpenWithin
<1>2. s \in Int /\ i \in Int /\ s <= i BY DEF IsRun
<1>3. \A k \in Open(e, d) : k < s \/ i <= k BY DEF Open, IsRun
<1> QED
  BY <1>1, <1>2, <1>3, RankSame DEF Level

LEMMA LevelGap ==
  ASSUME NEW e, NEW d, Flagging(e, d), NEW b \in Nat, NEW m \in Nat, b <= m, m <= Len(e),
         \A k \in b..(m - 1) : ~d[k]
  PROVE  Level(e, d, m) = Level(e, d, b) + (m - b)
<1>1. Within(Open(e, d), Len(e)) /\ Len(e) \in Nat BY OpenWithin
<1>2. CASE m = b
  <2>1. Level(e, d, b) \in Nat BY LevelNat
  <2> QED BY <1>2, <2>1
<1>3. CASE m # b
  <2>1. PICK q \in Nat : m = q + 1
    <3>1. m - 1 \in Nat /\ m = (m - 1) + 1 BY <1>3
    <3> QED BY <3>1
  <2>2. b <= q + 1 BY <2>1
  <2> DEFINE B == {l \in Open(e, d) : b <= l /\ l <= q}
  <2>3. Rank(Open(e, d), q + 1) = Rank(Open(e, d), b) + Cardinality(B)
    BY <1>1, <2>2, RankBetween
  <2>4. B = b..q
    <3>1. \A l \in b..q : l \in 0..(Len(e) - 1) /\ l \in b..(m - 1) BY <1>1, <2>1
    <3> QED BY <1>1, <3>1 DEF Open
  <2>5. Cardinality(b..q) = m - b BY <1>3, <2>1, FS_Interval
  <2> QED BY <2>1, <2>3, <2>4, <2>5 DEF Level
<1> QED BY <1>2, <1>3

LEMMA CalmAlike ==
  ASSUME NEW e, NEW d, NEW d2, NEW q, Len(e) \in Nat, NEW b \in Nat, b <= Len(e),
         \A k \in 0..(b - 1) : d2[k] = d[k], NEW c
  PROVE  Calm(e, d2, q, b, c) <=> Calm(e, d, q, b, c)
<1>1. Level(e, d2, b) = Level(e, d, b) BY LevelAlike
<1> QED BY <1>1 DEF Calm

(* Runs.                                                                   *)
LEMMA RunAlike ==
  ASSUME NEW e, NEW d, NEW d2, NEW k \in Int, \A m \in -1..k : d2[m] = d[m],
         NEW a \in Nat, NEW b \in Nat, b <= k
  PROVE  IsRun(e, d2, a, b) <=> IsRun(e, d, a, b)
<1>1. CASE a < b
  <2>1. \A m \in a..(b - 1) : m \in -1..k OBVIOUS
  <2>2. a - 1 \in -1..k /\ b \in -1..k BY <1>1
  <2>3. d2[a - 1] = d[a - 1] /\ d2[b] = d[b] BY <2>2
  <2>4. \A m \in a..(b - 1) : d2[m] = d[m] BY <2>1
  <2> QED BY <2>3, <2>4 DEF IsRun
<1>2. CASE ~(a < b) BY <1>2 DEF IsRun
<1> QED BY <1>1, <1>2

LEMMA RunAvoids ==
  ASSUME NEW e, NEW d, NEW a, NEW b, IsRun(e, d, a, b), NEW x \in Int, ~d[x], x < b
  PROVE  x < a
BY DEF IsRun

LEMMA RunUnique ==
  ASSUME NEW e, NEW d, NEW a, NEW a2, NEW b, IsRun(e, d, a, b), IsRun(e, d, a2, b)
  PROVE  a = a2
<1>1. a - 1 < a2
  <2>1. a - 1 \in Int /\ ~d[a - 1] /\ a - 1 < b BY DEF IsRun
  <2> QED BY <2>1, RunAvoids
<1>2. a2 - 1 < a
  <2>1. a2 - 1 \in Int /\ ~d[a2 - 1] /\ a2 - 1 < b BY DEF IsRun
  <2> QED BY <2>1, RunAvoids
<1> QED BY <1>1, <1>2 DEF IsRun

(* Flags that agree before a place keep apart what was apart there.        *)
LEMMA ApartAlike ==
  ASSUME NEW e, NEW d, NEW d2, NEW q, Len(e) \in Nat,
         NEW k \in Int, k <= Len(e), \A m \in -1..k : d2[m] = d[m],
         NEW lim \in Int, NEW lim2 \in Int, ApartUpto(e, d, q, lim),
         \A x, y \in Nat : IsRun(e, d2, x, y) /\ y <= lim2 => y <= lim /\ y <= k
  PROVE  ApartUpto(e, d2, q, lim2)
<1> SUFFICES ASSUME NEW a \in Nat, NEW b \in Nat, NEW x \in Nat, NEW y \in Nat,
                    IsRun(e, d2, a, b), IsRun(e, d2, x, y), IsGap(d2, b, x), y <= lim2
             PROVE  Parted(e, a, b, x, y) /\ Held(e, d2, q, a, b, x)
  BY DEF ApartUpto, PartedUpto, HeldUpto
<1>1. y <= lim /\ y <= k OBVIOUS
<1>2. b < x /\ x < y BY DEF IsRun, IsGap
<1>3. IsRun(e, d, x, y) BY <1>1, RunAlike
<1>4. b <= k BY <1>1, <1>2
<1>5. IsRun(e, d, a, b) BY <1>4, RunAlike
<1>6. \A m \in b..(x - 1) : m \in -1..k BY <1>1, <1>2
<1>7. IsGap(d, b, x) BY <1>6 DEF IsGap
<1>8. Parted(e, a, b, x, y) /\ Held(e, d, q, a, b, x)
  BY <1>1, <1>3, <1>5, <1>7 DEF ApartUpto, PartedUpto, HeldUpto
<1>9. \A m \in 0..(b - 1) : d2[m] = d[m]
  <2>1. \A m \in 0..(b - 1) : m \in -1..k BY <1>4
  <2> QED BY <2>1
<1>10. \A c : Calm(e, d2, q, b, c) <=> Calm(e, d, q, b, c)
  <2>1. b <= Len(e) BY <1>4
  <2> QED BY <1>9, <2>1, CalmAlike
<1> QED BY <1>8, <1>10 DEF Held

(* The levels at which a file has no run.                                  *)
Silent(e, d) ==
    {u \in Int : \A y \in 0..Len(e) : ~d[y] /\ Level(e, d, y) = u => ~d[y - 1]}

LEMMA LevelsDiffer ==
  ASSUME NEW e, NEW d, Flagging(e, d), NEW x \in 0..Len(e), NEW y \in 0..Len(e),
         ~d[x], x < y
  PROVE  Level(e, d, x) < Level(e, d, y)
<1>1. Within(Open(e, d), Len(e)) /\ Len(e) \in Nat BY OpenWithin
<1>2. x \in Open(e, d) BY <1>1 DEF Open
<1>3. y \in Int BY <1>1
<1> QED BY <1>1, <1>2, <1>3, RankStrict DEF Level

LEMMA SilentAt ==
  ASSUME NEW e, NEW d, Flagging(e, d), NEW y \in 0..Len(e), ~d[y]
  PROVE  Level(e, d, y) \in Silent(e, d) <=> ~d[y - 1]
<1>1. Level(e, d, y) \in Int /\ Len(e) \in Nat BY LevelNat DEF Flagging
<1>2. ASSUME NEW x \in 0..Len(e), ~d[x], Level(e, d, x) = Level(e, d, y) PROVE x = y
  <2>1. ~(x < y)
    <3>1. SUFFICES ASSUME x < y PROVE FALSE OBVIOUS
    <3>2. Level(e, d, x) < Level(e, d, y) BY <1>2, <3>1, LevelsDiffer
    <3> QED BY <1>1, <1>2, <3>2
  <2>2. ~(y < x)
    <3>1. SUFFICES ASSUME y < x PROVE FALSE OBVIOUS
    <3>2. Level(e, d, y) < Level(e, d, x) BY <3>1, LevelsDiffer
    <3> QED BY <1>1, <1>2, <3>2
  <2> QED BY <1>1, <2>1, <2>2
<1> QED BY <1>1, <1>2 DEF Silent

(* A run that has been moved up by a line.                                 *)
MovedUp(e, d, d2, s, i) ==
    /\ Flagging(e, d) /\ Flagging(e, d2) /\ IsRun(e, d, s, i) /\ s > 0
    /\ d2[s - 1] /\ ~d2[i - 1]
    /\ \A k \in -1..Len(e) : k # s - 1 /\ k # i - 1 => d2[k] = d[k]

LEMMA UpAlike ==
  ASSUME NEW e, NEW d, NEW d2, NEW s, NEW i, MovedUp(e, d, d2, s, i)
  PROVE  /\ s \in Nat /\ i \in Nat /\ s < i /\ i <= Len(e) /\ Len(e) \in Nat
         /\ \A k \in -1..(s - 2) : d2[k] = d[k]
BY DEF MovedUp, IsRun, Flagging

LEMMA ApartUp ==
  ASSUME NEW e, NEW d, NEW d2, NEW s, NEW i, MovedUp(e, d, d2, s, i), NEW q,
         NEW s2 \in Int, s2 <= s - 1, ApartUpto(e, d, q, s)
  PROVE  ApartUpto(e, d2, q, s2)
<1>1. /\ s \in Nat /\ i \in Nat /\ s < i /\ i <= Len(e) /\ Len(e) \in Nat
      /\ \A k \in -1..(s - 2) : d2[k] = d[k]
  BY UpAlike
<1>2. ASSUME NEW x \in Nat, NEW y \in Nat, IsRun(e, d2, x, y), y <= s2
      PROVE  y <= s /\ y <= s - 2
  <2>1. y # s - 1 BY <1>2 DEF IsRun, MovedUp
  <2> QED BY <1>1, <1>2, <2>1
<1>3. s - 2 \in Int /\ s - 2 <= Len(e) /\ s \in Int BY <1>1
<1> DEFINE k == s - 2
<1> HIDE DEF k
<1>4. k \in Int /\ k <= Len(e) /\ \A m \in -1..k : d2[m] = d[m] BY <1>1, <1>3 DEF k
<1>5. \A x, y \in Nat : IsRun(e, d2, x, y) /\ y <= s2 => y <= s /\ y <= k BY <1>2 DEF k
<1> QED BY <1>1, <1>3, <1>4, <1>5, ApartAlike

(* The runs before it are the same.                                        *)
LEMMA RunBeforeUp ==
  ASSUME NEW e, NEW d, NEW d2, NEW s, NEW i, MovedUp(e, d, d2, s, i), ~d[s - 1],
         NEW a \in Nat, NEW b \in Nat, IsRun(e, d2, a, b), IsGap(d2, b, s - 1)
  PROVE  IsRun(e, d, a, b) /\ IsGap(d, b, s)
<1>1. /\ s \in Nat /\ \A k \in -1..(s - 2) : d2[k] = d[k]
  BY UpAlike
<1>2. b < s - 1 BY DEF IsGap
<1>3. IsRun(e, d, a, b)
  <2> DEFINE k == s - 2
  <2>2. k \in Int /\ b <= k /\ \A m \in -1..k : d2[m] = d[m] BY <1>1, <1>2
  <2> HIDE DEF k
  <2> QED BY <2>2, RunAlike
<1>4. IsGap(d, b, s)
  <2>1. \A m \in b..(s - 2) : m \in -1..(s - 2) /\ m \in b..((s - 1) - 1) BY <1>1, <1>2
  <2>2. \A m \in b..(s - 2) : ~d[m] BY <1>1, <2>1 DEF IsGap
  <2>3. \A m \in b..(s - 1) : m \in b..(s - 2) \/ m = s - 1 BY <1>1, <1>2
  <2> QED BY <1>1, <1>2, <2>2, <2>3 DEF IsGap
<1> QED BY <1>3, <1>4

(* The runs before it are the same, and what is clear behind it stays so,  *)
(* as the line that it leaves is like the line that it takes.              *)
LEMMA BelowUp ==
  ASSUME NEW e, NEW d, NEW d2, NEW s, NEW i, MovedUp(e, d, d2, s, i),
         ~Unlike(e, s - 1, i - 1), ~d[s - 1], NEW q, NEW lim, Below(e, d, q, s, i, lim)
  PROVE  Below(e, d2, q, s - 1, i - 1, lim)
<1>1. /\ s \in Nat /\ i \in Nat /\ s < i /\ i <= Len(e) /\ Len(e) \in Nat /\ s > 0
      /\ \A k \in -1..(s - 2) : d2[k] = d[k]
  BY UpAlike DEF MovedUp
<1> SUFFICES ASSUME NEW a \in Nat, NEW b \in Nat, IsRun(e, d2, a, b), IsGap(d2, b, s - 1)
             PROVE  \E c \in b..Len(e) :
                      /\ Unlike(e, c - (b - a), c) /\ Calm(e, d2, q, b, c)
                      /\ Clear(e, d2, s - 1, i - 1, c) /\ c < lim
  BY DEF Below
<1>2. b < s - 1 /\ a < b BY DEF IsGap, IsRun
<1>3. IsRun(e, d, a, b) /\ IsGap(d, b, s) BY RunBeforeUp
<1>5. PICK c \in b..Len(e) : /\ Unlike(e, c - (b - a), c) /\ Calm(e, d, q, b, c)
                             /\ Clear(e, d, s, i, c) /\ c < lim
  BY <1>3 DEF Below
<1>6. Calm(e, d2, q, b, c)
  <2>1. b <= Len(e) /\ \A m \in 0..(b - 1) : m \in -1..(s - 2) BY <1>1, <1>2
  <2>2. \A m \in 0..(b - 1) : d2[m] = d[m] BY <1>1, <2>1
  <2> QED BY <1>1, <1>5, <2>1, <2>2, CalmAlike
<1>7. ASSUME NEW m \in (s - 1)..c
      PROVE  /\ m + ((i - 1) - (s - 1)) < Len(e) /\ ~d2[m + ((i - 1) - (s - 1))]
             /\ ~Unlike(e, m, m + ((i - 1) - (s - 1)))
  <2>0. (i - 1) - (s - 1) = i - s /\ m \in Int BY <1>1
  <2>1. CASE m = s - 1
    <3>1. m + (i - s) = i - 1 BY <1>1, <2>1
    <3> QED BY <1>1, <2>0, <2>1, <3>1 DEF MovedUp
  <2>2. CASE m # s - 1
    <3>1. m \in s..c BY <1>1, <2>2
    <3>2. m + (i - s) < Len(e) /\ ~d[m + (i - s)] /\ ~Unlike(e, m, m + (i - s))
      BY <1>5, <3>1 DEF Clear
    <3> DEFINE k == m + (i - s)
    <3>3. k \in -1..Len(e) /\ k # s - 1 /\ k # i - 1 BY <1>1, <3>1, <3>2
    <3> HIDE DEF k
    <3>4. d2[k] = d[k] BY <3>3 DEF MovedUp
    <3> QED BY <2>0, <3>2, <3>4 DEF k
  <2> QED BY <2>1, <2>2
<1>8. Clear(e, d2, s - 1, i - 1, c) BY <1>7 DEF Clear
<1> QED BY <1>5, <1>6, <1>8

(* It has met the run before it: now the one before that counts.           *)
LEMMA BelowMerged ==
  ASSUME NEW e, NEW d, NEW d2, NEW s, NEW i, MovedUp(e, d, d2, s, i),
         NEW p, IsRun(e, d, p, s - 1), NEW q, HeldUpto(e, d, q, s)
  PROVE  Below(e, d2, q, p, i - 1, Len(e) + 1)
<1>1. /\ s \in Nat /\ i \in Nat /\ s < i /\ i <= Len(e) /\ Len(e) \in Nat /\ s > 0
      /\ p \in Nat /\ p < s - 1 /\ \A k \in -1..(s - 2) : d2[k] = d[k]
  BY UpAlike DEF MovedUp, IsRun
<1> SUFFICES ASSUME NEW a \in Nat, NEW b \in Nat, IsRun(e, d2, a, b), IsGap(d2, b, p)
             PROVE  \E c \in b..Len(e) :
                      /\ Unlike(e, c - (b - a), c) /\ Calm(e, d2, q, b, c)
                      /\ Clear(e, d2, p, i - 1, c) /\ c < Len(e) + 1
  BY DEF Below
<1>2. b < p /\ a < b BY DEF IsGap, IsRun
<1>3. IsRun(e, d, a, b)
  <2> DEFINE k == s - 2
  <2>2. k \in Int /\ b <= k /\ \A m \in -1..k : d2[m] = d[m] BY <1>1, <1>2
  <2> HIDE DEF k
  <2> QED BY <2>2, RunAlike
<1>4. IsGap(d, b, p)
  <2>1. \A m \in b..(p - 1) : m \in -1..(s - 2) BY <1>1, <1>2
  <2> QED BY <1>1, <2>1 DEF IsGap
<1>5. Held(e, d, q, a, b, p)
  <2>1. s - 1 \in Nat /\ s - 1 <= s BY <1>1
  <2> QED BY <1>1, <1>3, <1>4, <2>1 DEF HeldUpto
<1>6. PICK c \in b..(p - 1) : Unlike(e, c - (b - a), c) /\ Calm(e, d, q, b, c)
  BY <1>5 DEF Held
<1>7. Calm(e, d2, q, b, c)
  <2>1. b <= Len(e) /\ \A m \in 0..(b - 1) : m \in -1..(s - 2) BY <1>1, <1>2
  <2>2. \A m \in 0..(b - 1) : d2[m] = d[m] BY <1>1, <2>1
  <2> QED BY <1>1, <1>6, <2>1, <2>2, CalmAlike
<1>8. c \in b..Len(e) /\ c < Len(e) + 1 /\ p..c = {} BY <1>1, <1>2
<1> QED BY <1>6, <1>7, <1>8 DEF Clear

LEMMA ShortUp ==
  ASSUME NEW e, NEW d, NEW d2, NEW s, NEW i, MovedUp(e, d, d2, s, i), ~d[s - 1],
         NEW n, n = i - s, NEW p \in Int, p < i, Short(e, d, s, n, p)
  PROVE  Short(e, d2, s - 1, n, p)
<1> SUFFICES ASSUME NEW a \in Nat, NEW b \in Nat, IsRun(e, d2, a, b), IsGap(d2, b, s - 1)
             PROVE  \E c \in b..((s - 1) - 1) : Unlike(e, c, c + n) /\ c + n < p
  BY DEF Short
<1>1. IsRun(e, d, a, b) /\ IsGap(d, b, s) BY RunBeforeUp
<1>2. PICK c \in b..(s - 1) : Unlike(e, c, c + n) /\ c + n < p BY <1>1 DEF Short
<1>3. s \in Nat /\ i \in Nat BY UpAlike
<1>4. c \in b..((s - 1) - 1) BY <1>2, <1>3
<1> QED BY <1>2, <1>4

LEMMA LevelUp ==
  ASSUME NEW e, NEW d, NEW d2, NEW s, NEW i, MovedUp(e, d, d2, s, i), ~d[s - 1],
         IsRun(e, d2, s - 1, i - 1)
  PROVE  Level(e, d, i) \in Nat /\ Level(e, d2, i - 1) = Level(e, d, i) - 1
<1>1. /\ s \in Nat /\ i \in Nat /\ s < i /\ i <= Len(e) /\ Len(e) \in Nat /\ s > 0
      /\ \A k \in -1..(s - 2) : d2[k] = d[k]
      /\ Flagging(e, d) /\ Flagging(e, d2) /\ IsRun(e, d, s, i)
  BY UpAlike DEF MovedUp
<1>2. Level(e, d2, i - 1) = Level(e, d2, s - 1) BY <1>1, LevelRun
<1>3. Level(e, d2, s - 1) = Level(e, d, s - 1)
  <2> DEFINE x == s - 1
  <2>1. x \in Int /\ x <= Len(e) /\ \A k \in 0..(x - 1) : d2[k] = d[k] BY <1>1
  <2> HIDE DEF x
  <2>2. Level(e, d2, x) = Level(e, d, x) BY <1>1, <2>1, LevelAlike
  <2> QED BY <2>2 DEF x
<1>4. Level(e, d, s) = Level(e, d, s - 1) + 1
  <2> DEFINE x == s - 1
  <2>1. x \in Nat /\ x < Len(e) /\ x + 1 = s /\ ~d[x] BY <1>1
  <2> HIDE DEF x
  <2>2. Level(e, d, x + 1) = Level(e, d, x) + 1 BY <1>1, <2>1, LevelNext
  <2> QED BY <2>1, <2>2 DEF x
<1>5. Level(e, d, i) = Level(e, d, s) BY <1>1, LevelRun
<1>6. Level(e, d, i) \in Nat /\ Level(e, d, s - 1) \in Nat
  <2>1. i \in Int /\ s - 1 \in Int BY <1>1
  <2> QED BY <1>1, <2>1, LevelNat
<1> QED BY <1>2, <1>3, <1>4, <1>5, <1>6

LEMMA RecentUp ==
  ASSUME NEW e, NEW d, NEW d2, NEW s, NEW i, MovedUp(e, d, d2, s, i), ~d[s - 1],
         IsRun(e, d2, s - 1, i - 1), NEW q, NEW p \in Int, Recent(e, d, q, i, p)
  PROVE  Recent(e, d2, q, i - 1, p)
<1>1. Level(e, d, i) \in Nat /\ Level(e, d2, i - 1) = Level(e, d, i) - 1 /\ i \in Nat
  BY LevelUp, UpAlike
<1>2. ASSUME NEW k \in 0..((i - 1) - p - 1) PROVE Level(e, d2, i - 1) - k \in q
  <2>1. k + 1 \in 0..(i - p - 1) BY <1>1
  <2>2. Level(e, d, i) - (k + 1) \in q BY <2>1 DEF Recent
  <2>3. Level(e, d2, i - 1) - k = Level(e, d, i) - (k + 1) BY <1>1
  <2> QED BY <2>2, <2>3
<1> QED BY <1>2 DEF Recent

LEMMA OnwardUp ==
  ASSUME NEW e, NEW d, NEW d2, NEW s, NEW i, MovedUp(e, d, d2, s, i), ~d[s - 1],
         IsRun(e, d2, s - 1, i - 1), NEW q, NEW p \in Int, p < i, Recent(e, d, q, i, p),
         Onward(e, d, q, s, i)
  PROVE  Onward(e, d2, q, s - 1, i - 1)
<1>1. /\ Level(e, d, i) \in Nat /\ Level(e, d2, i - 1) = Level(e, d, i) - 1
      /\ s \in Nat /\ i \in Nat /\ s < i /\ i <= Len(e) /\ Len(e) \in Nat
  BY LevelUp, UpAlike
<1>2. PICK c \in i..Len(e) : /\ \A k \in i..c : ~d[k]
                             /\ c = Len(e) \/ Unlike(e, c - (i - s), c)
                             /\ Calm(e, d, q, i, c)
  BY DEF Onward
<1>3. c \in (i - 1)..Len(e) BY <1>1
<1>4. \A k \in (i - 1)..c : ~d2[k]
  <2> SUFFICES ASSUME NEW k \in (i - 1)..c, k # i - 1 PROVE ~d2[k]
    BY DEF MovedUp
  <2>1. k \in i..c /\ k \in -1..Len(e) /\ k # s - 1 BY <1>1
  <2> QED BY <1>2, <2>1 DEF MovedUp
<1>5. c = Len(e) \/ Unlike(e, c - ((i - 1) - (s - 1)), c)
  <2>1. (i - 1) - (s - 1) = i - s BY <1>1
  <2> QED BY <1>2, <2>1
<1>6. ASSUME NEW k \in 1..(c - (i - 1)) PROVE Level(e, d2, i - 1) + k \in q
  <2>1. CASE k = 1
    <3>1. 0 \in 0..(i - p - 1) BY <1>1
    <3>2. Level(e, d, i) - 0 \in q BY <3>1 DEF Recent
    <3>3. Level(e, d2, i - 1) + k = Level(e, d, i) - 0 BY <1>1, <2>1
    <3> QED BY <3>2, <3>3
  <2>2. CASE k # 1
    <3>1. k - 1 \in 1..(c - i) BY <1>1, <2>2
    <3>2. Level(e, d, i) + (k - 1) \in q BY <1>2, <3>1 DEF Calm
    <3>3. Level(e, d2, i - 1) + k = Level(e, d, i) + (k - 1) BY <1>1
    <3> QED BY <3>2, <3>3
  <2> QED BY <2>1, <2>2
<1> QED BY <1>3, <1>4, <1>5, <1>6 DEF Onward, Calm

(* A run that has been moved down by a line.                               *)
MovedDown(e, d, d2, s, i) ==
    /\ Flagging(e, d) /\ Flagging(e, d2) /\ IsRun(e, d, s, i) /\ i # Len(e)
    /\ ~d2[s] /\ d2[i]
    /\ \A k \in -1..Len(e) : k # s /\ k # i => d2[k] = d[k]

LEMMA DownAlike ==
  ASSUME NEW e, NEW d, NEW d2, NEW s, NEW i, MovedDown(e, d, d2, s, i)
  PROVE  /\ s \in Nat /\ i \in Nat /\ s < i /\ i < Len(e) /\ Len(e) \in Nat
         /\ \A k \in -1..(s - 1) : d2[k] = d[k]
BY DEF MovedDown, IsRun, Flagging

LEMMA ApartDown ==
  ASSUME NEW e, NEW d, NEW d2, NEW s, NEW i, MovedDown(e, d, d2, s, i), NEW q,
         ApartUpto(e, d, q, s)
  PROVE  ApartUpto(e, d2, q, s + 1)
<1>1. /\ s \in Nat /\ i \in Nat /\ s < i /\ i < Len(e) /\ Len(e) \in Nat
      /\ \A k \in -1..(s - 1) : d2[k] = d[k]
  BY DownAlike
<1>2. ~d2[s - 1] BY <1>1 DEF MovedDown, IsRun
<1>3. ASSUME NEW x \in Nat, NEW y \in Nat, IsRun(e, d2, x, y), y <= s + 1
      PROVE  y <= s /\ y <= s - 1
  <2>1. x <= y - 1 /\ d2[y - 1] BY <1>3 DEF IsRun
  <2>2. y # s + 1
    <3>1. SUFFICES ASSUME y = s + 1 PROVE FALSE OBVIOUS
    <3>2. y - 1 = s BY <1>1, <3>1
    <3> QED BY <2>1, <3>2 DEF MovedDown
  <2>3. y # s BY <1>2, <2>1
  <2> QED BY <1>1, <1>3, <2>2, <2>3
<1> DEFINE k == s - 1
           lim == s + 1
<1> HIDE DEF k, lim
<1>4. k \in Int /\ k <= Len(e) /\ \A m \in -1..k : d2[m] = d[m] BY <1>1 DEF k
<1>5. \A x, y \in Nat : IsRun(e, d2, x, y) /\ y <= lim => y <= s /\ y <= k BY <1>3 DEF k, lim
<1>6. s \in Int /\ lim \in Int BY <1>1 DEF lim
<1>7. ApartUpto(e, d2, q, lim) BY <1>1, <1>4, <1>5, <1>6, ApartAlike
<1> QED BY <1>7 DEF lim

LEMMA RunBeforeDown ==
  ASSUME NEW e, NEW d, NEW d2, NEW s, NEW i, MovedDown(e, d, d2, s, i),
         NEW a \in Nat, NEW b \in Nat, IsRun(e, d2, a, b), IsGap(d2, b, s + 1)
  PROVE  b < s /\ IsRun(e, d, a, b) /\ IsGap(d, b, s)
<1>1. /\ s \in Nat /\ i \in Nat /\ s < i /\ i < Len(e)
      /\ \A k \in -1..(s - 1) : d2[k] = d[k]
  BY DownAlike
<1>2. b < s
  <2>1. b - 1 # s - 1
    <3>1. d2[b - 1] BY DEF IsRun
    <3>2. ~d2[s - 1] BY <1>1 DEF MovedDown, IsRun
    <3> QED BY <3>1, <3>2
  <2> QED BY <1>1, <2>1 DEF IsGap
<1>3. IsRun(e, d, a, b)
  <2> DEFINE k == s - 1
  <2>2. k \in Int /\ b <= k /\ \A m \in -1..k : d2[m] = d[m] BY <1>1, <1>2
  <2> HIDE DEF k
  <2> QED BY <2>2, RunAlike
<1>4. IsGap(d, b, s)
  <2>1. \A m \in b..(s - 1) : m \in -1..(s - 1) /\ m \in b..((s + 1) - 1) BY <1>1
  <2>2. \A m \in b..(s - 1) : ~d2[m] BY <2>1 DEF IsGap
  <2> QED BY <1>1, <1>2, <2>1, <2>2 DEF IsGap
<1> QED BY <1>2, <1>3, <1>4

(* The level to which it is moved.                                         *)
LEMMA LevelDown ==
  ASSUME NEW e, NEW d, NEW d2, NEW s, NEW i, MovedDown(e, d, d2, s, i),
         NEW to, IsRun(e, d2, s + 1, to)
  PROVE  Level(e, d, i) \in Nat /\ Level(e, d2, to) = Level(e, d, i) + 1
<1>1. /\ s \in Nat /\ i \in Nat /\ s < i /\ i < Len(e) /\ Len(e) \in Nat
      /\ \A k \in -1..(s - 1) : d2[k] = d[k]
      /\ Flagging(e, d) /\ Flagging(e, d2) /\ IsRun(e, d, s, i) /\ ~d2[s]
  BY DownAlike DEF MovedDown
<1>2. Level(e, d2, to) = Level(e, d2, s + 1) BY <1>1, LevelRun
<1>3. Level(e, d2, s + 1) = Level(e, d2, s) + 1 BY <1>1, LevelNext
<1>4. Level(e, d2, s) = Level(e, d, s)
  <2>1. s \in Int /\ s <= Len(e) /\ \A k \in 0..(s - 1) : d2[k] = d[k] BY <1>1
  <2> QED BY <1>1, <2>1, LevelAlike
<1>5. Level(e, d, i) = Level(e, d, s) BY <1>1, LevelRun
<1>6. Level(e, d, i) \in Nat BY <1>1, LevelNat
<1> QED BY <1>2, <1>3, <1>4, <1>5, <1>6

(* What is clear goes on being so, and the run meets no other one on it;   *)
(* beyond s it meets none of the other file either.                        *)
LEMMA BelowDown ==
  ASSUME NEW e, NEW d, NEW d2, NEW s, NEW i, MovedDown(e, d, d2, s, i),
         NEW to, IsRun(e, d2, s + 1, to), i + 1 <= to,
         NEW q, NEW lim, Below(e, d, q, s, i, lim), NEW lim2,
         \A c \in 0..Len(e) : c < lim /\ (c <= s \/ Level(e, d, i) + 1 \in q) => c < lim2
  PROVE  Below(e, d2, q, s + 1, to, lim2)
<1>1. /\ s \in Nat /\ i \in Nat /\ s < i /\ i < Len(e) /\ Len(e) \in Nat
      /\ \A k \in -1..(s - 1) : d2[k] = d[k]
      /\ Flagging(e, d) /\ Flagging(e, d2) /\ IsRun(e, d, s, i)
      /\ to \in Nat /\ to <= Len(e)
  BY DownAlike DEF MovedDown, IsRun
<1> SUFFICES ASSUME NEW a \in Nat, NEW b \in Nat, IsRun(e, d2, a, b), IsGap(d2, b, s + 1)
             PROVE  \E c \in b..Len(e) :
                      /\ Unlike(e, c - (b - a), c) /\ Calm(e, d2, q, b, c)
                      /\ Clear(e, d2, s + 1, to, c) /\ c < lim2
  BY DEF Below
<1>2. b < s /\ IsRun(e, d, a, b) /\ IsGap(d, b, s) BY RunBeforeDown
<1>3. PICK c \in b..Len(e) : /\ Unlike(e, c - (b - a), c) /\ Calm(e, d, q, b, c)
                             /\ Clear(e, d, s, i, c) /\ c < lim
  BY <1>2 DEF Below
<1>4. Calm(e, d2, q, b, c)
  <2>1. b <= Len(e) /\ \A m \in 0..(b - 1) : m \in -1..(s - 1) BY <1>1, <1>2
  <2>2. \A m \in 0..(b - 1) : d2[m] = d[m] BY <1>1, <2>1
  <2> QED BY <1>1, <1>3, <2>1, <2>2, CalmAlike
<1>5. c > s => Level(e, d, i) + 1 \in q
  <2> SUFFICES ASSUME c > s PROVE Level(e, d, i) + 1 \in q OBVIOUS
  <2>1. Level(e, d, s) = Level(e, d, b) + (s - b)
    <3>1. b <= s /\ s <= Len(e) /\ \A m \in b..(s - 1) : ~d[m] BY <1>1, <1>2 DEF IsGap
    <3> QED BY <1>1, <3>1, LevelGap
  <2>2. Level(e, d, i) = Level(e, d, s) BY <1>1, LevelRun
  <2>3. (s - b) + 1 \in 1..(c - b) BY <1>1, <1>2
  <2>4. Level(e, d, b) + ((s - b) + 1) \in q BY <1>3, <2>3 DEF Calm
  <2>5. Level(e, d, b) \in Nat BY <1>1, LevelNat
  <2>6. Level(e, d, i) + 1 = Level(e, d, b) + ((s - b) + 1) BY <1>1, <2>1, <2>2, <2>5
  <2> QED BY <2>4, <2>6
<1>6. c < lim2
  <2>1. c \in 0..Len(e) /\ (c <= s \/ c > s) BY <1>1
  <2> QED BY <1>3, <1>5, <2>1
<1>7. Clear(e, d2, s + 1, to, c)
  <2> SUFFICES ASSUME NEW m \in (s + 1)..c
               PROVE  /\ m + (to - (s + 1)) < Len(e) /\ ~d2[m + (to - (s + 1))]
                      /\ ~Unlike(e, m, m + (to - (s + 1)))
    BY DEF Clear
  <2>1. \A l \in s..c : /\ l + (i - s) < Len(e) /\ ~d[l + (i - s)] /\ ~Unlike(e, l, l + (i - s))
    BY <1>3 DEF Clear
  <2>2. to = i + 1
    <3>1. s + 1 \in s..c /\ (s + 1) + (i - s) = i + 1 BY <1>1
    <3>2. i + 1 < Len(e) /\ ~d[i + 1]
      <4> DEFINE l == s + 1
      <4>1. l \in s..c /\ l + (i - s) = i + 1 BY <3>1
      <4> HIDE DEF l
      <4>2. l + (i - s) < Len(e) /\ ~d[l + (i - s)] BY <2>1, <4>1
      <4> QED BY <4>1, <4>2
    <3>3. ~d2[i + 1]
      <4>1. i + 1 \in -1..Len(e) /\ i + 1 # s /\ i + 1 # i BY <1>1
      <4> QED BY <3>2, <4>1 DEF MovedDown
    <3>4. \A k \in (s + 1)..(to - 1) : d2[k] BY DEF IsRun
    <3>5. ~(i + 1 <= to - 1)
      <4>1. i + 1 >= s + 1 BY <1>1
      <4> QED BY <1>1, <3>3, <3>4, <4>1
    <3> QED BY <1>1, <3>5
  <2>3. to - (s + 1) = i - s BY <1>1, <2>2
  <2>4. m \in s..c BY <1>1
  <2> DEFINE k == m + (i - s)
  <2>5. k < Len(e) /\ ~d[k] /\ ~Unlike(e, m, k) BY <2>1, <2>4
  <2>6. k \in -1..Len(e) /\ k # s /\ k # i BY <1>1, <2>4, <2>5
  <2> HIDE DEF k
  <2>7. d2[k] = d[k] BY <2>6 DEF MovedDown
  <2> QED BY <2>3, <2>5, <2>7 DEF k
<1> QED BY <1>3, <1>4, <1>6, <1>7

LEMMA ShortDown ==
  ASSUME NEW e, NEW d, NEW d2, NEW s, NEW i, MovedDown(e, d, d2, s, i),
         NEW n, n = i - s, NEW p, Short(e, d, s, n, p), NEW p2, p2 = p \/ p2 = i + 1
  PROVE  Short(e, d2, s + 1, n, p2)
<1> SUFFICES ASSUME NEW a \in Nat, NEW b \in Nat, IsRun(e, d2, a, b), IsGap(d2, b, s + 1)
             PROVE  \E c \in b..((s + 1) - 1) : Unlike(e, c, c + n) /\ c + n < p2
  BY DEF Short
<1>1. IsRun(e, d, a, b) /\ IsGap(d, b, s) BY RunBeforeDown
<1>2. PICK c \in b..(s - 1) : Unlike(e, c, c + n) /\ c + n < p BY <1>1 DEF Short
<1>3. s \in Nat /\ i \in Nat BY DownAlike
<1>4. c \in b..((s + 1) - 1) /\ c + n < i + 1 BY <1>2, <1>3
<1> QED BY <1>2, <1>4

LEMMA RecentDown ==
  ASSUME NEW e, NEW d, NEW d2, NEW s, NEW i, MovedDown(e, d, d2, s, i),
         IsRun(e, d2, s + 1, i + 1), NEW q, NEW p \in Int, Recent(e, d, q, i, p),
         NEW p2, \/ p2 = i + 1
                 \/ p2 = p /\ Level(e, d, i) + 1 \in q
  PROVE  Recent(e, d2, q, i + 1, p2)
<1>1. Level(e, d, i) \in Nat /\ Level(e, d2, i + 1) = Level(e, d, i) + 1 /\ i \in Nat
  BY LevelDown, DownAlike
<1>2. ASSUME NEW k \in 0..((i + 1) - p2 - 1) PROVE Level(e, d2, i + 1) - k \in q
  <2>1. p2 = p /\ Level(e, d, i) + 1 \in q
    <3>1. p2 # i + 1 BY <1>1, <1>2
    <3> QED BY <3>1
  <2>2. CASE k = 0
    <3>1. Level(e, d2, i + 1) - k = Level(e, d, i) + 1 BY <1>1, <2>2
    <3> QED BY <2>1, <3>1
  <2>3. CASE k # 0
    <3>1. k - 1 \in 0..(i - p - 1) BY <1>1, <2>1, <2>3
    <3>2. Level(e, d, i) - (k - 1) \in q BY <3>1 DEF Recent
    <3>3. Level(e, d2, i + 1) - k = Level(e, d, i) - (k - 1) BY <1>1
    <3> QED BY <3>2, <3>3
  <2> QED BY <2>2, <2>3
<1> QED BY <1>2 DEF Recent

(* Moved up as far as it goes: a run before it stops below its end, if the *)
(* other file has a run there, and else in the file.                       *)
LEMMA TurnForth ==
  ASSUME NEW e, NEW d, Flagging(e, d), NEW s, NEW i, IsRun(e, d, s, i),
         s > 0 => Unlike(e, s - 1, i - 1),
         NEW q, NEW lim, Below(e, d, q, s, i, lim),
         NEW p, \/ p = i /\ Level(e, d, i) \notin q
                \/ p = Len(e) /\ Level(e, d, i) \in q,
         NEW n, n = i - s
  PROVE  Below(e, d, q, s, i, p - n) /\ Short(e, d, s, n, p) /\ Recent(e, d, q, i, p)
<1>1. /\ s \in Nat /\ i \in Nat /\ s < i /\ i <= Len(e) /\ Len(e) \in Nat
  BY DEF Flagging, IsRun
<1>2. p \in Nat /\ i <= p BY <1>1
<1>3. ASSUME NEW a \in Nat, NEW b \in Nat, IsRun(e, d, a, b), IsGap(d, b, s)
      PROVE  \E c \in b..(s - 1) : Unlike(e, c, c + n) /\ c + n < p
  <2>1. b < s BY <1>3 DEF IsGap
  <2>2. s > 0 /\ s - 1 \in b..(s - 1) /\ (s - 1) + n = i - 1 /\ i - 1 < p
    BY <1>1, <1>2, <2>1
  <2> QED BY <2>2
<1>4. Short(e, d, s, n, p) BY <1>3 DEF Short
<1>5. ASSUME NEW a \in Nat, NEW b \in Nat, IsRun(e, d, a, b), IsGap(d, b, s)
      PROVE  \E c \in b..Len(e) :
               /\ Unlike(e, c - (b - a), c) /\ Calm(e, d, q, b, c) /\ Clear(e, d, s, i, c)
               /\ c < p - n
  <2>1. PICK c \in b..Len(e) : /\ Unlike(e, c - (b - a), c) /\ Calm(e, d, q, b, c)
                               /\ Clear(e, d, s, i, c)
    BY <1>5 DEF Below
  <2>2. b < s BY <1>5 DEF IsGap
  <2>3. CASE c < s
    <3>1. c < p - n BY <1>1, <1>2, <2>3
    <3> QED BY <2>1, <3>1
  <2>4. CASE c >= s
    <3>1. Level(e, d, i) \in q
      <4>1. Level(e, d, s) = Level(e, d, b) + (s - b)
        <5>1. b <= s /\ s <= Len(e) /\ \A m \in b..(s - 1) : ~d[m]
          BY <1>1, <1>5, <2>2 DEF IsGap
        <5> QED BY <1>1, <5>1, LevelGap
      <4>2. Level(e, d, i) = Level(e, d, s) BY LevelRun
      <4>3. s - b \in 1..(c - b) BY <1>1, <2>2, <2>4
      <4> QED BY <2>1, <4>1, <4>2, <4>3 DEF Calm
    <3>2. p = Len(e) BY <3>1
    <3>3. c \in s..c BY <1>1, <2>4
    <3>4. c + (i - s) < Len(e) BY <2>1, <3>3 DEF Clear
    <3>5. c < p - n BY <1>1, <3>2, <3>4
    <3> QED BY <2>1, <3>5
  <2> QED BY <1>1, <2>3, <2>4
<1>6. Below(e, d, q, s, i, p - n) BY <1>5 DEF Below
<1>7. Recent(e, d, q, i, p)
  <2>1. 0..(i - p - 1) = {} BY <1>1, <1>2
  <2> QED BY <2>1 DEF Recent
<1> QED BY <1>4, <1>6, <1>7

(* Moved down as far as it goes: a run before it stops before it.          *)
LEMMA TurnBack ==
  ASSUME NEW e, NEW d, Flagging(e, d), NEW s, NEW i, IsRun(e, d, s, i),
         i # Len(e) => Unlike(e, s, i),
         NEW q, NEW lim \in Int, Below(e, d, q, s, i, lim)
  PROVE  Below(e, d, q, s, i, Smaller(s, lim)) /\ Onward(e, d, q, s, i)
<1>1. /\ s \in Nat /\ i \in Nat /\ s < i /\ i <= Len(e) /\ Len(e) \in Nat
  BY DEF Flagging, IsRun
<1>2. ASSUME NEW a \in Nat, NEW b \in Nat, IsRun(e, d, a, b), IsGap(d, b, s)
      PROVE  \E c \in b..Len(e) :
               /\ Unlike(e, c - (b - a), c) /\ Calm(e, d, q, b, c) /\ Clear(e, d, s, i, c)
               /\ c < Smaller(s, lim)
  <2>1. PICK c \in b..Len(e) : /\ Unlike(e, c - (b - a), c) /\ Calm(e, d, q, b, c)
                               /\ Clear(e, d, s, i, c) /\ c < lim
    BY <1>2 DEF Below
  <2>2. c < s
    <3>1. SUFFICES ASSUME c >= s PROVE FALSE BY <1>1
    <3>2. s \in s..c /\ s + (i - s) = i BY <1>1, <3>1
    <3>3. s + (i - s) < Len(e) /\ ~Unlike(e, s, s + (i - s)) BY <2>1, <3>2 DEF Clear
    <3> QED BY <1>1, <3>2, <3>3
  <2>3. c < Smaller(s, lim) BY <2>1, <2>2 DEF Smaller
  <2> QED BY <2>1, <2>3
<1>3. Below(e, d, q, s, i, Smaller(s, lim)) BY <1>2 DEF Below
<1>4. Onward(e, d, q, s, i)
  <2>1. i \in i..Len(e) /\ i - (i - s) = s /\ 1..(i - i) = {} BY <1>1
  <2>2. \A k \in i..i : ~d[k] BY <1>1 DEF IsRun
  <2>3. Calm(e, d, q, i, i) BY <2>1 DEF Calm
  <2>4. i = Len(e) \/ Unlike(e, i - (i - s), i) BY <2>1
  <2> QED BY <2>1, <2>2, <2>3, <2>4 DEF Onward
<1> QED BY <1>3, <1>4

(* A run that has come to rest is apart from the run before it.            *)
LEMMA ApartRest ==
  ASSUME NEW e, NEW d, Flagging(e, d), NEW s, NEW i, IsRun(e, d, s, i),
         NEW q, ApartUpto(e, d, q, s), NEW lim \in Int, lim <= s, Below(e, d, q, s, i, lim),
         NEW n, n = i - s, NEW p, Short(e, d, s, n, p)
  PROVE  ApartUpto(e, d, q, i)
<1>1. /\ s \in Nat /\ i \in Nat /\ s < i /\ i <= Len(e) /\ Len(e) \in Nat
  BY DEF Flagging, IsRun
<1> SUFFICES ASSUME NEW a \in Nat, NEW b \in Nat, NEW x \in Nat, NEW y \in Nat,
                    IsRun(e, d, a, b), IsRun(e, d, x, y), IsGap(d, b, x), y <= i
             PROVE  Parted(e, a, b, x, y) /\ Held(e, d, q, a, b, x)
  BY DEF ApartUpto, PartedUpto, HeldUpto
<1>2. CASE y <= s BY <1>2 DEF ApartUpto, PartedUpto, HeldUpto
<1>3. CASE y > s
  <2>1. y = i
    <3>1. y - 1 \in Int /\ x <= y - 1 /\ ~d[y] BY DEF IsRun
    <3>2. ~(y < i)
      <4>1. SUFFICES ASSUME y < i PROVE FALSE OBVIOUS
      <4>2. y \in s..(i - 1) BY <1>1, <1>3, <4>1
      <4> QED BY <3>1, <4>2 DEF IsRun
    <3> QED BY <1>1, <3>2
  <2>2. x = s BY <2>1, RunUnique
  <2>3. PICK c \in b..Len(e) : Unlike(e, c - (b - a), c) /\ Calm(e, d, q, b, c) /\ c < lim
    BY <2>2 DEF Below
  <2>4. c \in b..(x - 1) BY <1>1, <2>2, <2>3
  <2>5. PICK k \in b..(s - 1) : Unlike(e, k, k + n) BY <2>2 DEF Short
  <2>6. y - x = n BY <2>1, <2>2
  <2> QED BY <2>2, <2>3, <2>4, <2>5, <2>6 DEF Parted, Held
<1> QED BY <1>1, <1>2, <1>3

(* What is unflagged behind it makes no run.                               *)
LEMMA ApartScan ==
  ASSUME NEW e, NEW d, Len(e) \in Nat, NEW q, NEW i \in Nat, ApartUpto(e, d, q, i),
         NEW lim \in Nat, \A k \in i..(lim - 1) : ~d[k]
  PROVE  ApartUpto(e, d, q, lim)
<1>1. ASSUME NEW x \in Nat, NEW y \in Nat, IsRun(e, d, x, y), y <= lim PROVE y <= i
  <2>1. x <= y - 1 /\ d[y - 1] BY <1>1 DEF IsRun
  <2>2. SUFFICES ASSUME y > i PROVE FALSE OBVIOUS
  <2>3. y - 1 \in i..(lim - 1) BY <1>1, <2>2
  <2> QED BY <2>1, <2>3
<1> QED BY <1>1 DEF ApartUpto, PartedUpto, HeldUpto

(* The next run: the one before it stops as it did.                        *)
LEMMA BelowScan ==
  ASSUME NEW e, NEW d, Flagging(e, d), NEW q, NEW i \in Nat, i <= Len(e),
         NEW s, i = 0 \/ (IsRun(e, d, s, i) /\ Onward(e, d, q, s, i)),
         NEW first, NEW last, IsRun(e, d, first, last), i <= first,
         \A k \in i..(first - 1) : ~d[k]
  PROVE  Below(e, d, q, first, last, Len(e) + 1)
<1>1. first \in Nat /\ last \in Nat /\ first < last /\ last <= Len(e) /\ Len(e) \in Nat
      /\ d[first]
  BY DEF Flagging, IsRun
<1> SUFFICES ASSUME NEW a \in Nat, NEW b \in Nat, IsRun(e, d, a, b), IsGap(d, b, first)
             PROVE  \E c \in b..Len(e) :
                      /\ Unlike(e, c - (b - a), c) /\ Calm(e, d, q, b, c)
                      /\ Clear(e, d, first, last, c) /\ c < Len(e) + 1
  BY DEF Below
<1>2. b < first /\ a <= b - 1 /\ d[b - 1] BY DEF IsGap, IsRun
<1>3. b <= i
  <2>1. SUFFICES ASSUME b > i PROVE FALSE OBVIOUS
  <2>2. b - 1 \in i..(first - 1) BY <1>1, <1>2, <2>1
  <2> QED BY <1>2, <2>2
<1>4. i # 0 BY <1>2, <1>3
<1>5. IsRun(e, d, s, i) /\ Onward(e, d, q, s, i) BY <1>4
<1>6. b = i
  <2>1. SUFFICES ASSUME b < i PROVE FALSE BY <1>3
  <2>2. i - 1 \in b..(first - 1) BY <1>1, <2>1
  <2>3. ~d[i - 1] BY <2>2 DEF IsGap
  <2>4. d[i - 1] BY <1>5 DEF IsRun
  <2> QED BY <2>3, <2>4
<1>7. a = s BY <1>5, <1>6, RunUnique
<1>8. PICK c \in i..Len(e) : /\ \A k \in i..c : ~d[k]
                             /\ c = Len(e) \/ Unlike(e, c - (i - s), c)
                             /\ Calm(e, d, q, i, c)
  BY <1>5 DEF Onward
<1>9. c < first
  <2>1. SUFFICES ASSUME c >= first PROVE FALSE BY <1>1
  <2>2. first \in i..c BY <1>1, <2>1
  <2> QED BY <1>1, <1>8, <2>2
<1>10. c # Len(e) /\ c < Len(e) + 1 /\ first..c = {} BY <1>1, <1>9
<1> QED BY <1>6, <1>7, <1>8, <1>10 DEF Clear

(* Returning, a run does not meet the run before it.                       *)
LEMMA RunBehind ==
  ASSUME NEW e, NEW d, Flagging(e, d), NEW k \in Nat, k <= Len(e), ~d[k], d[k - 1]
  PROVE  \E a \in Nat : IsRun(e, d, a, k)
<1> DEFINE S == {m \in -1..(k - 1) : ~d[m]}
           a == Biggest(S) + 1
<1>1. k - 1 \in Int /\ -1 \in S /\ (\A x \in S : x \in Int /\ x <= k - 1) BY DEF Flagging
<1>2. Biggest(S) \in S /\ \A y \in S : y <= Biggest(S)
  <2> HIDE DEF S
  <2> QED BY <1>1, BiggestIsBiggest
<1>3. Biggest(S) \in -1..(k - 1) /\ ~d[Biggest(S)] BY <1>2
<1>4. Biggest(S) # k - 1 BY <1>3
<1>5. a \in Nat /\ a < k /\ a - 1 = Biggest(S) BY <1>3, <1>4
<1>6. \A m \in a..(k - 1) : d[m]
  <2> SUFFICES ASSUME NEW m \in a..(k - 1), ~d[m] PROVE FALSE OBVIOUS
  <2>1. m \in S /\ m > Biggest(S) BY <1>3, <1>5
  <2> QED BY <1>2, <1>3, <2>1
<1> HIDE DEF a
<1> QED BY <1>3, <1>5, <1>6 DEF IsRun

LEMMA ReturnFree ==
  ASSUME NEW e, NEW d, Flagging(e, d), NEW s, NEW i, IsRun(e, d, s, i), s > 0,
         NEW n, n = i - s, NEW p \in Int, p < i, Short(e, d, s, n, p)
  PROVE  ~d[s - 2]
<1>1. /\ s \in Nat /\ i \in Nat /\ s < i /\ i <= Len(e) /\ Len(e) \in Nat /\ ~d[s - 1]
  BY DEF Flagging, IsRun
<1> SUFFICES ASSUME d[s - 2] PROVE FALSE OBVIOUS
<1>2. PICK b \in Nat : b = s - 1 BY <1>1
<1>3. b <= Len(e) /\ ~d[b] /\ d[b - 1]
  <2>1. b - 1 = s - 2 BY <1>1, <1>2
  <2> QED BY <1>1, <1>2, <2>1
<1>4. PICK a \in Nat : IsRun(e, d, a, b) BY <1>3, RunBehind
<1>5. IsGap(d, b, s) BY <1>1, <1>2 DEF IsGap
<1>6. PICK c \in b..(s - 1) : c + n < p BY <1>4, <1>5 DEF Short
<1> QED BY <1>1, <1>2, <1>6

LEMMA RunReturned ==
  ASSUME NEW e, NEW d, NEW d2, NEW s, NEW i, MovedUp(e, d, d2, s, i), ~d[s - 2]
  PROVE  IsRun(e, d2, s - 1, i - 1)
<1>1. /\ s \in Nat /\ i \in Nat /\ s < i /\ i <= Len(e) /\ Len(e) \in Nat /\ s > 0
      /\ \A k \in -1..(s - 2) : d2[k] = d[k]
  BY UpAlike DEF MovedUp
<1>2. ~d2[(s - 1) - 1]
  <2>1. (s - 1) - 1 = s - 2 /\ s - 2 \in -1..(s - 2) BY <1>1
  <2> QED BY <1>1, <2>1
<1>3. \A k \in (s - 1)..((i - 1) - 1) : d2[k]
  <2> SUFFICES ASSUME NEW k \in (s - 1)..((i - 1) - 1), k # s - 1 PROVE d2[k]
    BY DEF MovedUp
  <2>1. k \in -1..Len(e) /\ k # i - 1 /\ k \in s..(i - 1) BY <1>1
  <2> QED BY <2>1 DEF MovedUp, IsRun
<1> QED BY <1>1, <1>2, <1>3 DEF IsRun, MovedUp

-----------------------------------------------------------------------------
(***************************************************************************)
(* The runs of a file, up to the run that is moved, are apart; and so are  *)
(* all runs of a file that shift_boundaries has done with.                 *)
(***************************************************************************)
Steady(e, d, q, s, i, n, p) ==
    Below(e, d, q, s, i, p - n) /\ Short(e, d, s, n, p) /\ Recent(e, d, q, i, p)
Resting(e, d, q, s, i, n, p) ==
    /\ Below(e, d, q, s, i, Smaller(s, p - n)) /\ Short(e, d, s, n, p)
    /\ Recent(e, d, q, i, p) /\ Onward(e, d, q, s, i)

Moving(e, d, q, s, at) ==
    /\ ApartUpto(e, d, q, s.start) /\ IsRun(e, d, s.start, s.i)
    /\ at \in {"back", "forth"} => Below(e, d, q, s.start, s.i, Len(e) + 1)
    /\ at = "forth" /\ s.i - s.start = s.runlength =>
         Steady(e, d, q, s.start, s.i, s.runlength, s.corresponding)
    /\ at = "return" => Resting(e, d, q, s.start, s.i, s.runlength, s.corresponding)
Scanned(e, d, q, s) ==
    /\ ApartUpto(e, d, q, s.i)
    /\ s.i = 0 \/ (IsRun(e, d, s.start, s.i) /\ Onward(e, d, q, s.start, s.i))
Finished(f) == PartedUpto(equivs[f], changed[f], Len(equivs[f]))

JoinInv ==
    /\ stage \in Shifting => \A f \in Files : f < shift.f => Finished(f)
    /\ stage \in {"build", "done"} => \A f \in Files : Finished(f)
    /\ stage = "scan" => Scanned(equivs[shift.f], changed[shift.f],
                                 Silent(equivs[other], changed[other]), shift)
    /\ stage \in {"back", "forth", "return"} =>
         Moving(equivs[shift.f], changed[shift.f],
                Silent(equivs[other], changed[other]), shift, stage)

LEMMA MovingNext ==
  ASSUME NEW g \in Files, NEW e, e = equivs[g], NEW q,
         q = Silent(equivs[1 - g], changed[1 - g]), NEW d2, d2 = changed'[g],
         NEW s2, s2 = shift', s2.f = g, NEW at \in {"back", "forth", "return"}, stage' = at,
         equivs' = equivs, changed'[1 - g] = changed[1 - g],
         Moving(e, d2, q, s2, at), \A f \in Files : f < g => Finished(f)
  PROVE  JoinInv'
<1>1. 1 - g \in Files /\ \A f \in Files : f < g => f = 1 - g BY DEF Files
<1>2. \A f \in Files : f < shift'.f => Finished(f)' BY <1>1 DEF Finished
<1>3. Moving(equivs[shift.f], changed[shift.f], Silent(equivs[other], changed[other]), shift, stage)'
  BY DEF other
<1> QED BY <1>2, <1>3 DEF JoinInv, Shifting

LEMMA FlagsFlagging ==
  ASSUME ReadInv, FlagsSame, NEW f \in Files
  PROVE  Flagging(equivs[f], changed[f]) /\ 1 - f \in Files
BY DEF ReadInv, FlagsSame, Flags, Flagging, Files

LEMMA RunIsRun ==
  ASSUME NEW g, NEW s, NEW i, NEW j, AtRun(g, s, i, j), ~changed[g][s - 1]
  PROVE  IsRun(equivs[g], changed[g], s, i)
BY DEF AtRun, IsRun

LEMMA LevelIsRank == \A g, x : Level(equivs[g], changed[g], x) = Rank(Unflagged(g), x)
BY DEF Level, Open, Unflagged, buffered_lines

LEMMA UpMoves ==
  ASSUME ReadInv, FlagsSame, FlagsSame', equivs' = equivs, NEW g \in Files,
         NEW s, NEW i, NEW j, AtRun(g, s, i, j), ~changed[g][s - 1], s > 0,
         changed' = [changed EXCEPT ![g][s - 1] = TRUE, ![g][i - 1] = FALSE]
  PROVE  /\ MovedUp(equivs[g], changed[g], changed'[g], s, i)
         /\ changed'[1 - g] = changed[1 - g]
<1>1. Flagging(equivs[g], changed[g]) BY FlagsFlagging
<1>2. Flags(g)' BY DEF FlagsSame
<1>3. Flagging(equivs[g], changed'[g]) BY <1>1, <1>2 DEF Flags, Flagging
<1>4. IsRun(equivs[g], changed[g], s, i) BY RunIsRun
<1>5. s \in Nat /\ i \in Nat /\ s < i /\ i <= Len(equivs[g]) /\ Len(equivs[g]) \in Nat
  BY <1>1, <1>4 DEF IsRun, Flagging
<1>6. s - 1 \in -1..Len(equivs[g]) /\ i - 1 \in -1..Len(equivs[g]) /\ s - 1 # i - 1
  BY <1>5
<1>7. DOMAIN changed = Files /\ changed[g] \in [-1..Len(equivs[g]) -> BOOLEAN]
  BY <1>1 DEF FlagsSame, Flagging
<1>8. 1 - g # g BY DEF Files
<1>9. changed'[1 - g] = changed[1 - g] BY <1>7, <1>8 DEF Files
<1>10. changed'[g] = [changed[g] EXCEPT ![s - 1] = TRUE, ![i - 1] = FALSE] BY <1>7
<1>11. /\ changed'[g][s - 1] /\ ~changed'[g][i - 1]
       /\ \A k \in -1..Len(equivs[g]) :
            k # s - 1 /\ k # i - 1 => changed'[g][k] = changed[g][k]
  <2> DEFINE k1 == s - 1
             k2 == i - 1
  <2> HIDE DEF k1, k2
  <2>1. changed'[g] = [changed[g] EXCEPT ![k1] = TRUE, ![k2] = FALSE] BY <1>10 DEF k1, k2
  <2>2. k1 \in -1..Len(equivs[g]) /\ k2 \in -1..Len(equivs[g]) /\ k1 # k2
    BY <1>6 DEF k1, k2
  <2>3. /\ changed'[g][k1] /\ ~changed'[g][k2]
        /\ \A k \in -1..Len(equivs[g]) :
             k # k1 /\ k # k2 => changed'[g][k] = changed[g][k]
    BY <1>7, <2>1, <2>2
  <2> QED BY <2>3 DEF k1, k2
<1> QED BY <1>1, <1>3, <1>4, <1>9, <1>11 DEF MovedUp

LEMMA DownMoves ==
  ASSUME ReadInv, FlagsSame, FlagsSame', equivs' = equivs, NEW g \in Files,
         NEW s, NEW i, NEW j, AtRun(g, s, i, j), ~changed[g][s - 1], i # Len(equivs[g]),
         changed' = [changed EXCEPT ![g][s] = FALSE, ![g][i] = TRUE]
  PROVE  /\ MovedDown(equivs[g], changed[g], changed'[g], s, i)
         /\ changed'[1 - g] = changed[1 - g]
<1>1. Flagging(equivs[g], changed[g]) BY FlagsFlagging
<1>2. Flags(g)' BY DEF FlagsSame
<1>3. Flagging(equivs[g], changed'[g]) BY <1>1, <1>2 DEF Flags, Flagging
<1>4. IsRun(equivs[g], changed[g], s, i) BY RunIsRun
<1>5. s \in Nat /\ i \in Nat /\ s < i /\ i <= Len(equivs[g]) /\ Len(equivs[g]) \in Nat
  BY <1>1, <1>4 DEF IsRun, Flagging
<1>6. s \in -1..Len(equivs[g]) /\ i \in -1..Len(equivs[g]) /\ s # i
  BY <1>5
<1>7. DOMAIN changed = Files /\ changed[g] \in [-1..Len(equivs[g]) -> BOOLEAN]
  BY <1>1 DEF FlagsSame, Flagging
<1>8. 1 - g # g BY DEF Files
<1>9. changed'[1 - g] = changed[1 - g] BY <1>7, <1>8 DEF Files
<1>10. changed'[g] = [changed[g] EXCEPT ![s] = FALSE, ![i] = TRUE] BY <1>7
<1>11. /\ ~changed'[g][s] /\ changed'[g][i]
       /\ \A k \in -1..Len(equivs[g]) : k # s /\ k # i => changed'[g][k] = changed[g][k]
  BY <1>6, <1>7, <1>10
<1> QED BY <1>1, <1>3, <1>4, <1>9, <1>11 DEF MovedDown

LEMMA BackJoined ==
  ASSUME ReadInv, ShiftInv, ShiftInv', JoinInv, ShiftBack
  PROVE  JoinInv'
<1>0. PICK s : s = shift OBVIOUS
<1>1. /\ FlagsSame /\ FlagsSame' /\ s \in Locals /\ stage = "back" /\ equivs' = equivs
      /\ AtRun(s.f, s.start, s.i, s.j) /\ ~changed[s.f][s.start - 1]
  <2>1. stage' \in {"back", "forth"} BY DEF ShiftBack
  <2> QED BY <1>0, <2>1 DEF ShiftInv, RunInv, ShiftBack, Shifting, compared, reading
<1>2. /\ s.f \in Files /\ s.i \in Nat /\ s.j \in Nat /\ s.start \in Nat
      /\ s \in [f : Files, i : Nat, j : Nat, start : Nat, runlength : Nat,
                corresponding : Nat]
  BY <1>1, LocalsTypes
<1>3. PICK g \in Files : g = s.f BY <1>2
<1>4. PICK e : e = equivs[g] OBVIOUS
<1>5. PICK d : d = changed[g] OBVIOUS
<1>6. PICK q : q = Silent(equivs[1 - g], changed[1 - g]) OBVIOUS
<1>7. PICK d2 : d2 = changed'[g] OBVIOUS
<1>8. /\ Flagging(e, d) /\ IsRun(e, d, s.start, s.i)
      /\ s.start < s.i /\ s.i <= Len(e) /\ Len(e) \in Nat
  <2>1. Flagging(e, d) BY <1>1, <1>4, <1>5, FlagsFlagging
  <2>2. IsRun(e, d, s.start, s.i) BY <1>1, <1>3, <1>4, <1>5, RunIsRun
  <2> QED BY <2>1, <2>2 DEF IsRun, Flagging
<1>9. /\ ApartUpto(e, d, q, s.start) /\ Below(e, d, q, s.start, s.i, Len(e) + 1)
      /\ \A f \in Files : f < g => Finished(f)
  <2>1. Moving(e, d, q, s, "back") BY <1>0, <1>1, <1>3, <1>4, <1>5, <1>6 DEF JoinInv, other
  <2>2. \A f \in Files : f < g => Finished(f) BY <1>0, <1>1, <1>3 DEF JoinInv, Shifting
  <2> QED BY <2>1, <2>2 DEF Moving
<1>10. ASSUME NEW s2, s2 = shift', stage' \in {"back", "forth"}
       PROVE  IsRun(equivs[s2.f], changed'[s2.f], s2.start, s2.i)
  <2>1. AtRun(shift.f, shift.start, shift.i, shift.j)' /\ ~changed'[s2.f][s2.start - 1]
    BY <1>10 DEF ShiftInv, RunInv
  <2> QED BY <1>1, <1>10, <2>1 DEF AtRun, IsRun
<1>11. CASE shift.start > 0 /\ Line(shift.start - 1) = Line(shift.i - 1)
  <2>1. PICK from : from = Before(g, s.start - 1) + 1 OBVIOUS
  <2>2. PICK b : b = Before(1 - g, s.j) OBVIOUS
  <2>3. /\ stage' = "back"
        /\ changed' = [changed EXCEPT ![g][s.start - 1] = TRUE, ![g][s.i - 1] = FALSE]
        /\ shift' = [s EXCEPT !.start = from, !.i = s.i - 1, !.j = b]
    BY <1>0, <1>1, <1>3, <1>11, <2>1, <2>2 DEF ShiftBack, MoveUp, other
  <2>4. s.start > 0 BY <1>0, <1>11
  <2>5. MovedUp(e, d, d2, s.start, s.i) /\ changed'[1 - g] = changed[1 - g]
    BY <1>1, <1>3, <1>4, <1>5, <1>7, <2>3, <2>4, UpMoves
  <2>6. ~Unlike(e, s.start - 1, s.i - 1)
    <3>1. equivs[g][(s.start - 1) + 1] = equivs[g][(s.i - 1) + 1]
      BY <1>0, <1>3, <1>11 DEF Line
    <3> QED BY <1>4, <3>1 DEF Unlike
  <2>7. from \in Int /\ from <= s.start - 1 /\ ~d[from - 1]
        /\ \A m \in from..(s.start - 2) : d[m]
    <3> DEFINE k == s.start - 1
    <3>1. k \in 0..(Len(equivs[g]) + 1) /\ Len(equivs[g]) \in Nat
      BY <1>2, <1>4, <1>8, <2>4
    <3>2. Flags(g) BY <1>1 DEF FlagsSame
    <3> HIDE DEF k
    <3>3. /\ Before(g, k) \in -1..(k - 1) /\ ~changed[g][Before(g, k)]
          /\ \A m \in (Before(g, k) + 1)..(k - 1) : changed[g][m]
      BY <3>1, <3>2, BeforeStops
    <3>4. from = Before(g, k) + 1 BY <2>1 DEF k
    <3>5. k \in Int /\ k - 1 = s.start - 2 /\ k = s.start - 1 BY <1>2 DEF k
    <3>6. from \in Int /\ from <= k /\ from - 1 = Before(g, k) BY <3>3, <3>4, <3>5
    <3> QED BY <1>5, <3>3, <3>4, <3>5, <3>6
  <2>8. PICK s2 : s2 = shift' OBVIOUS
  <2>9. s2.f = g /\ s2.start = from /\ s2.i = s.i - 1
    BY <1>2, <1>3, <2>3, <2>8
  <2>10. IsRun(e, d2, from, s.i - 1) BY <1>4, <1>7, <1>10, <2>3, <2>8, <2>9
  <2>11. ApartUpto(e, d2, q, from) BY <1>9, <2>5, <2>7, ApartUp
  <2>12. Below(e, d2, q, from, s.i - 1, Len(e) + 1)
    <3>1. CASE from = s.start - 1
      <4>1. ~d[s.start - 1] BY <1>8 DEF IsRun
      <4>2. Below(e, d2, q, s.start - 1, s.i - 1, Len(e) + 1)
        BY <1>9, <2>5, <2>6, <4>1, BelowUp
      <4> QED BY <3>1, <4>2
    <3>2. CASE from # s.start - 1
      <4>1. IsRun(e, d, from, s.start - 1)
        <5>1. from \in Nat /\ from < s.start - 1 /\ s.start - 1 \in Nat
              /\ s.start - 1 <= Len(e) /\ (s.start - 1) - 1 = s.start - 2
          BY <1>2, <1>8, <2>4, <2>7, <2>10, <3>2 DEF IsRun
        <5>2. ~d[s.start - 1] BY <1>8 DEF IsRun
        <5> QED BY <2>7, <5>1, <5>2 DEF IsRun
      <4> QED BY <1>9, <2>5, <4>1, BelowMerged DEF ApartUpto
    <3> QED BY <3>1, <3>2
  <2>13. Moving(e, d2, q, s2, "back") BY <2>9, <2>10, <2>11, <2>12 DEF Moving
  <2>14. /\ stage' = "back" /\ equivs' = equivs /\ changed'[1 - g] = changed[1 - g]
         /\ s2.f = g
    BY <1>1, <2>3, <2>5, <2>9
  <2>15. \A f \in Files : f < g => Finished(f) BY <1>9
  <2> QED BY <1>4, <1>6, <1>7, <2>8, <2>13, <2>14, <2>15, MovingNext
<1>12. CASE ~(shift.start > 0 /\ Line(shift.start - 1) = Line(shift.i - 1))
  <2>1. PICK p : p = IF changed[1 - g][s.j - 1] THEN s.i ELSE Len(e) OBVIOUS
  <2>2. /\ stage' = "forth" /\ changed' = changed
        /\ shift' = [s EXCEPT !.corresponding = p]
    BY <1>0, <1>1, <1>3, <1>4, <1>12, <2>1 DEF ShiftBack, other, i_end, buffered_lines
  <2>3. s.start > 0 => Unlike(e, s.start - 1, s.i - 1)
    BY <1>0, <1>3, <1>4, <1>12 DEF Line, Unlike
  <2>4. Level(e, d, s.i) \in q <=> ~changed[1 - g][s.j - 1]
    <3>1. /\ Level(e, d, s.i) = Level(equivs[1 - g], changed[1 - g], s.j)
          /\ ~changed[1 - g][s.j] /\ s.j \in Nat /\ s.j <= Len(equivs[1 - g])
      BY <1>1, <1>3, <1>4, <1>5, LevelIsRank DEF AtRun
    <3>2. 1 - g \in Files BY DEF Files
    <3>3. Flagging(equivs[1 - g], changed[1 - g]) BY <1>1, <3>2, FlagsFlagging
    <3>4. s.j \in 0..Len(equivs[1 - g]) BY <3>1, <3>3 DEF Flagging
    <3> QED BY <1>6, <3>1, <3>3, <3>4, SilentAt
  <2>5. PICK n : n = s.i - s.start OBVIOUS
  <2>6. Below(e, d, q, s.start, s.i, p - n) /\ Short(e, d, s.start, n, p) /\ Recent(e, d, q, s.i, p)
    <3>1. \/ p = s.i /\ Level(e, d, s.i) \notin q
          \/ p = Len(e) /\ Level(e, d, s.i) \in q
      BY <2>1, <2>4
    <3> QED BY <1>8, <1>9, <2>3, <2>5, <3>1, TurnForth
  <2>7. PICK s2 : s2 = shift' OBVIOUS
  <2>8. /\ s2.f = g /\ s2.start = s.start /\ s2.i = s.i /\ s2.corresponding = p
        /\ s2.runlength = s.runlength
    BY <1>2, <1>3, <2>2, <2>7
  <2>9. d2 = d BY <1>5, <1>7, <2>2
  <2>10. Moving(e, d2, q, s2, "forth")
    BY <1>8, <1>9, <2>5, <2>6, <2>8, <2>9 DEF Moving, Steady
  <2>11. /\ stage' = "forth" /\ equivs' = equivs /\ changed'[1 - g] = changed[1 - g]
         /\ s2.f = g
    BY <1>1, <2>2, <2>8
  <2>12. \A f \in Files : f < g => Finished(f) BY <1>9
  <2> QED BY <1>4, <1>6, <1>7, <2>7, <2>10, <2>11, <2>12, MovingNext
<1> QED BY <1>11, <1>12

LEMMA ForthJoined ==
  ASSUME ReadInv, ShiftInv, ShiftInv', JoinInv, ShiftForth
  PROVE  JoinInv'
<1>0. PICK s : s = shift OBVIOUS
<1>1. /\ FlagsSame /\ s \in Locals /\ stage = "forth" /\ equivs' = equivs
      /\ AtRun(s.f, s.start, s.i, s.j) /\ ~changed[s.f][s.start - 1]
      /\ s.runlength <= s.i - s.start
  BY <1>0 DEF ShiftInv, RunInv, ShiftForth, Shifting, compared, reading
<1>2. /\ s.f \in Files /\ s.i \in Nat /\ s.j \in Nat /\ s.start \in Nat
      /\ s.runlength \in Nat /\ s.corresponding \in Nat
      /\ s \in [f : Files, i : Nat, j : Nat, start : Nat, runlength : Nat,
                corresponding : Nat]
  BY <1>1, LocalsTypes
<1>3. PICK g \in Files : g = s.f BY <1>2
<1>4. PICK e : e = equivs[g] OBVIOUS
<1>5. PICK d : d = changed[g] OBVIOUS
<1>6. PICK q : q = Silent(equivs[1 - g], changed[1 - g]) OBVIOUS
<1>7. PICK d2 : d2 = changed'[g] OBVIOUS
<1>8. /\ Flagging(e, d) /\ IsRun(e, d, s.start, s.i)
      /\ s.start < s.i /\ s.i <= Len(e) /\ Len(e) \in Nat
  <2>1. Flagging(e, d) BY <1>1, <1>4, <1>5, FlagsFlagging
  <2>2. IsRun(e, d, s.start, s.i) BY <1>1, <1>3, <1>4, <1>5, RunIsRun
  <2> QED BY <2>1, <2>2 DEF IsRun, Flagging
<1>9. PICK n : n = s.i - s.start OBVIOUS
<1>10. PICK p : p = s.corresponding OBVIOUS
<1>11. /\ ApartUpto(e, d, q, s.start) /\ Below(e, d, q, s.start, s.i, Len(e) + 1)
       /\ n = s.runlength =>
            Below(e, d, q, s.start, s.i, p - n) /\ Short(e, d, s.start, n, p)
              /\ Recent(e, d, q, s.i, p)
       /\ \A f \in Files : f < g => Finished(f)
  <2>1. Moving(e, d, q, s, "forth") BY <1>0, <1>1, <1>3, <1>4, <1>5, <1>6 DEF JoinInv, other
  <2>2. \A f \in Files : f < g => Finished(f) BY <1>0, <1>1, <1>3 DEF JoinInv, Shifting
  <2> QED BY <1>9, <1>10, <2>1, <2>2 DEF Moving, Steady
<1>12. CASE /\ shift.i # i_end /\ Line(shift.start) = Line(shift.i)
            /\ MoveDown /\ UNCHANGED stage
  <2>1. PICK to : to = After(g, s.i + 1) OBVIOUS
  <2>2. PICK b : b = After(1 - g, s.j + 1) OBVIOUS
  <2>3. PICK p2 : p2 = IF b > s.j + 1 THEN to ELSE p OBVIOUS
  <2>4. /\ stage' = "forth"
        /\ changed' = [changed EXCEPT ![g][s.start] = FALSE, ![g][s.i] = TRUE]
        /\ shift' = [s EXCEPT !.start = s.start + 1, !.i = to, !.j = b, !.corresponding = p2]
    BY <1>0, <1>1, <1>3, <1>10, <1>12, <2>1, <2>2, <2>3 DEF MoveDown, other
  <2>5. s.i # Len(e) /\ ~Unlike(e, s.start, s.i)
    BY <1>0, <1>3, <1>4, <1>12 DEF Line, Unlike, i_end, buffered_lines
  <2>6. /\ FlagsSame' /\ AtRun(g, s.start + 1, to, b)' /\ ~changed'[g][s.start]
        /\ s.i + 1 <= to
    <3>1. equivs[g][s.start + 1] = equivs[g][s.i + 1] /\ s.i # Len(equivs[g])
      BY <1>4, <2>5 DEF Unlike
    <3> QED BY <1>1, <1>2, <1>3, <2>1, <2>2, <2>4, <3>1, RunDown
  <2>7. MovedDown(e, d, d2, s.start, s.i) /\ changed'[1 - g] = changed[1 - g]
    BY <1>1, <1>3, <1>4, <1>5, <1>7, <2>4, <2>5, <2>6, DownMoves
  <2>8. PICK a : a = s.start + 1 OBVIOUS
  <2>9. IsRun(e, d2, a, to)
    <3>1. a - 1 = s.start BY <1>2, <2>8
    <3> QED BY <1>1, <1>4, <1>7, <2>6, <2>8, <3>1 DEF AtRun, IsRun
  <2>10. a \in Nat /\ to \in Nat BY <2>9 DEF IsRun
  <2>11. /\ Level(e, d, s.i) \in Nat /\ Level(e, d2, to) = Level(e, d, s.i) + 1
    BY <2>7, <2>8, <2>9, LevelDown
  <2>12. /\ b \in Nat /\ s.j + 1 <= b
         /\ b > s.j + 1 => Level(e, d, s.i) + 1 \notin q
         /\ b = s.j + 1 => Level(e, d, s.i) + 1 \in q
    <3>1. 1 - g \in Files BY DEF Files
    <3>2. PICK h \in Files : h = 1 - g BY <3>1
    <3>3. Flagging(equivs[h], changed[h]) BY <1>1, FlagsFlagging
    <3>4. /\ b \in Nat /\ b <= Len(equivs[h]) /\ ~changed[h][b]
          /\ Level(e, d2, to) = Level(equivs[h], changed[h], b)
      <4>1. /\ b \in Nat /\ b <= Len(equivs'[1 - g]) /\ ~changed'[1 - g][b]
            /\ Rank(Unflagged(g)', to) = Rank(Unflagged(1 - g)', b)
        BY <2>6 DEF AtRun
      <4>2. Unflagged(g)' = Open(e, d2) /\ Unflagged(1 - g)' = Open(equivs[h], changed[h])
        BY <1>1, <1>4, <1>7, <2>7, <3>2 DEF Unflagged, Open, buffered_lines
      <4> QED BY <1>1, <2>7, <3>2, <4>1, <4>2 DEF Level
    <3>5. b \in 0..Len(equivs[h]) /\ Len(equivs[h]) \in Nat BY <3>3, <3>4 DEF Flagging
    <3>6. Level(e, d, s.i) + 1 \in q <=> ~changed[h][b - 1]
      <4>1. Level(equivs[h], changed[h], b) \in Silent(equivs[h], changed[h])
              <=> ~changed[h][b - 1]
        BY <3>3, <3>4, <3>5, SilentAt
      <4> QED BY <1>6, <2>11, <3>2, <3>4, <4>1
    <3>7. /\ s.j + 1 <= b /\ ~changed[h][s.j]
          /\ \A m \in (s.j + 1)..(b - 1) : changed[h][m]
      <4>1. ~changed[h][s.j] /\ s.j <= Len(equivs[h]) BY <1>1, <1>3, <3>2 DEF AtRun
      <4>2. Flags(h) BY <1>1 DEF FlagsSame
      <4>3. s.j # Len(equivs[h])
        <5>1. Level(e, d, s.i) = Level(equivs[h], changed[h], s.j)
          BY <1>1, <1>3, <1>4, <1>5, <3>2, LevelIsRank DEF AtRun
        <5>2. SUFFICES ASSUME s.j = Len(equivs[h]) PROVE FALSE OBVIOUS
        <5>3. Within(Open(equivs[h], changed[h]), Len(equivs[h])) BY <3>3, OpenWithin
        <5>4. Level(equivs[h], changed[h], b) <= Level(equivs[h], changed[h], s.j)
          <6>1. b \in Int /\ s.j \in Int /\ b <= s.j BY <1>2, <3>5, <5>2
          <6> QED BY <3>5, <5>3, <6>1, RankMonotone DEF Level
        <5> QED BY <2>11, <3>4, <5>1, <5>4
      <4> DEFINE k == s.j + 1
      <4>4. k \in 0..Len(equivs[h]) BY <1>2, <3>5, <4>1, <4>3
      <4> HIDE DEF k
      <4>5. /\ After(h, k) \in k..Len(equivs[h])
            /\ \A m \in k..(After(h, k) - 1) : changed[h][m]
        BY <3>5, <4>2, <4>4, AfterStops
      <4>6. b = After(h, k) BY <2>2, <3>2 DEF k
      <4>7. k \in Int /\ k <= b BY <1>2, <3>5, <4>4, <4>5, <4>6
      <4> QED BY <4>1, <4>5, <4>6, <4>7 DEF k
    <3>8. ASSUME b > s.j + 1 PROVE changed[h][b - 1]
      <4>1. b - 1 \in (s.j + 1)..(b - 1) BY <1>2, <3>5, <3>8
      <4> QED BY <3>7, <4>1
    <3>9. ASSUME b = s.j + 1 PROVE ~changed[h][b - 1]
      <4>1. b - 1 = s.j BY <1>2, <3>9
      <4> QED BY <3>7, <4>1
    <3> QED BY <3>5, <3>6, <3>7, <3>8, <3>9
  <2>13. \/ p2 = p /\ Level(e, d, s.i) + 1 \in q
         \/ p2 = to /\ Level(e, d, s.i) + 1 \notin q
    <3>1. CASE b > s.j + 1
      <4>1. p2 = to BY <2>3, <3>1
      <4> QED BY <2>12, <3>1, <4>1
    <3>2. CASE ~(b > s.j + 1)
      <4>1. p2 = p BY <2>3, <3>2
      <4>2. b = s.j + 1 BY <1>2, <2>12, <3>2
      <4>3. Level(e, d, s.i) + 1 \in q BY <2>12, <4>2
      <4> QED BY <4>1, <4>3
    <3> QED BY <3>1, <3>2
  <2>14. PICK s2 : s2 = shift' OBVIOUS
  <2>15. /\ s2.f = g /\ s2.start = a /\ s2.i = to /\ s2.corresponding = p2
         /\ s2.runlength = s.runlength
    <3>1. shift' = [s EXCEPT !.start = a, !.i = to, !.j = b, !.corresponding = p2]
      BY <2>4, <2>8
    <3> QED BY <1>2, <1>3, <2>14, <3>1
  <2>16. ApartUpto(e, d2, q, a) BY <1>11, <2>7, <2>8, ApartDown
  <2>17. Below(e, d2, q, a, to, Len(e) + 1)
    <3>1. \A c \in 0..Len(e) :
            c < Len(e) + 1 /\ (c <= s.start \/ Level(e, d, s.i) + 1 \in q) => c < Len(e) + 1
      OBVIOUS
    <3> QED BY <1>11, <2>6, <2>7, <2>8, <2>9, <3>1, BelowDown
  <2>18. ASSUME to - a = s.runlength
         PROVE  Steady(e, d2, q, a, to, s.runlength, p2)
    <3>1. to = s.i + 1 /\ n = s.runlength
      BY <1>1, <1>2, <1>9, <2>6, <2>8, <2>10, <2>18
    <3>2. /\ Below(e, d, q, s.start, s.i, p - n) /\ Short(e, d, s.start, n, p)
          /\ Recent(e, d, q, s.i, p)
      BY <1>11, <3>1
    <3>3. n \in Nat /\ p \in Nat /\ p2 \in Nat BY <1>2, <1>10, <2>10, <2>13, <3>1
    <3>4. Below(e, d2, q, a, to, p2 - n)
      <4>1. SUFFICES ASSUME \A c \in 0..Len(e) :
                              c < p - n /\ (c <= s.start \/ Level(e, d, s.i) + 1 \in q)
                                => c < p2 - n
                     PROVE  Below(e, d2, q, a, to, p2 - n)
        <5>1. ASSUME NEW c \in 0..Len(e), c < p - n,
                     c <= s.start \/ Level(e, d, s.i) + 1 \in q
              PROVE  c < p2 - n
          <6>1. CASE p2 = p BY <5>1, <6>1
          <6>2. CASE p2 # p
            <7>1. p2 = s.i + 1 /\ c <= s.start BY <2>13, <3>1, <5>1, <6>2
            <7>2. c \in Int BY <1>8
            <7>3. PICK x \in Int, i \in Int : x = s.start /\ i = s.i BY <1>2
            <7>4. n = i - x /\ p2 = i + 1 BY <1>9, <7>1, <7>3
            <7>5. c <= x BY <7>1, <7>3
            <7>6. c < (i + 1) - (i - x) BY <7>2, <7>5
            <7> QED BY <7>4, <7>6
          <6> QED BY <6>1, <6>2
        <5> QED BY <5>1
      <4> QED BY <2>6, <2>7, <2>8, <2>9, <3>2, <4>1, BelowDown
    <3>5. Short(e, d2, a, n, p2) BY <1>9, <2>7, <2>8, <2>13, <3>1, <3>2, ShortDown
    <3>6. Recent(e, d2, q, to, p2)
      BY <2>7, <2>8, <2>9, <2>13, <3>1, <3>2, <3>3, RecentDown
    <3> QED BY <3>1, <3>4, <3>5, <3>6 DEF Steady
  <2>19. Moving(e, d2, q, s2, "forth") BY <2>9, <2>15, <2>16, <2>17, <2>18 DEF Moving
  <2>20. /\ stage' = "forth" /\ equivs' = equivs /\ changed'[1 - g] = changed[1 - g]
         /\ s2.f = g
    BY <1>1, <2>4, <2>7, <2>15
  <2>21. \A f \in Files : f < g => Finished(f) BY <1>11
  <2> QED BY <1>4, <1>6, <1>7, <2>14, <2>19, <2>20, <2>21, MovingNext
<1>13. CASE /\ ~(shift.i # i_end /\ Line(shift.start) = Line(shift.i))
            /\ stage' = IF shift.runlength # shift.i - shift.start THEN "back" ELSE "return"
            /\ shift' = [shift EXCEPT !.runlength = shift.i - shift.start]
            /\ UNCHANGED changed
  <2>1. PICK s2 : s2 = shift' OBVIOUS
  <2>2. /\ s2.f = g /\ s2.start = s.start /\ s2.i = s.i /\ s2.corresponding = p
        /\ s2.runlength = n
    BY <1>0, <1>2, <1>3, <1>9, <1>10, <1>13, <2>1
  <2>3. d2 = d /\ changed'[1 - g] = changed[1 - g] BY <1>5, <1>7, <1>13
  <2>4. CASE n # s.runlength
    <3>1. stage' = "back" BY <1>0, <1>9, <1>13, <2>4
    <3>2. Moving(e, d2, q, s2, "back") BY <1>8, <1>11, <2>2, <2>3 DEF Moving
    <3>3. equivs' = equivs /\ changed'[1 - g] = changed[1 - g] /\ s2.f = g
      BY <1>1, <2>2, <2>3
    <3>4. \A f \in Files : f < g => Finished(f) BY <1>11
    <3> QED BY <1>4, <1>6, <1>7, <2>1, <3>1, <3>2, <3>3, <3>4, MovingNext
  <2>5. CASE n = s.runlength
    <3>1. stage' = "return" BY <1>0, <1>9, <1>13, <2>5
    <3>2. s.i # Len(e) => Unlike(e, s.start, s.i)
      BY <1>0, <1>3, <1>4, <1>13 DEF Line, Unlike, i_end, buffered_lines
    <3>3. /\ Below(e, d, q, s.start, s.i, p - n) /\ Short(e, d, s.start, n, p)
          /\ Recent(e, d, q, s.i, p)
      BY <1>11, <2>5
    <3>4. PICK lim \in Int : lim = p - n BY <1>2, <1>9, <1>10
    <3>5. Below(e, d, q, s.start, s.i, Smaller(s.start, lim)) /\ Onward(e, d, q, s.start, s.i)
      BY <1>8, <3>2, <3>3, <3>4, TurnBack
    <3>6. Resting(e, d, q, s.start, s.i, n, p) BY <3>3, <3>4, <3>5 DEF Resting
    <3>7. Moving(e, d2, q, s2, "return") BY <1>8, <1>11, <2>2, <2>3, <3>6 DEF Moving
    <3>8. equivs' = equivs /\ changed'[1 - g] = changed[1 - g] /\ s2.f = g
      BY <1>1, <2>2, <2>3
    <3>9. \A f \in Files : f < g => Finished(f) BY <1>11
    <3> QED BY <1>4, <1>6, <1>7, <2>1, <3>1, <3>7, <3>8, <3>9, MovingNext
  <2> QED BY <2>4, <2>5
<1> QED BY <1>12, <1>13 DEF ShiftForth

LEMMA ReturnJoined ==
  ASSUME ReadInv, ShiftInv, ShiftInv', JoinInv, ReturnToCorresponding
  PROVE  JoinInv'
<1>0. PICK s : s = shift OBVIOUS
<1>1. /\ FlagsSame /\ s \in Locals /\ stage = "return" /\ equivs' = equivs
      /\ AtRun(s.f, s.start, s.i, s.j) /\ s.i - s.start = s.runlength /\ Tracks(s.f, s)
  BY <1>0 DEF ShiftInv, RunInv, ReturnToCorresponding, Shifting, compared, reading
<1>2. /\ s.f \in Files /\ s.i \in Nat /\ s.j \in Nat /\ s.start \in Nat
      /\ s.runlength \in Nat /\ s.corresponding \in Nat
      /\ s \in [f : Files, i : Nat, j : Nat, start : Nat, runlength : Nat,
                corresponding : Nat]
  BY <1>1, LocalsTypes
<1>3. PICK g \in Files : g = s.f BY <1>2
<1>4. PICK e : e = equivs[g] OBVIOUS
<1>5. PICK d : d = changed[g] OBVIOUS
<1>6. PICK q : q = Silent(equivs[1 - g], changed[1 - g]) OBVIOUS
<1>7. PICK d2 : d2 = changed'[g] OBVIOUS
<1>8. PICK n \in Int : n = s.i - s.start BY <1>2
<1>9. PICK p \in Int : p = s.corresponding BY <1>2
<1>10. /\ ApartUpto(e, d, q, s.start) /\ IsRun(e, d, s.start, s.i)
       /\ Below(e, d, q, s.start, s.i, Smaller(s.start, p - n))
       /\ Short(e, d, s.start, n, p)
       /\ Recent(e, d, q, s.i, p) /\ Onward(e, d, q, s.start, s.i)
       /\ \A f \in Files : f < g => Finished(f)
  <2>1. Moving(e, d, q, s, "return") BY <1>0, <1>1, <1>3, <1>4, <1>5, <1>6 DEF JoinInv, other
  <2>2. \A f \in Files : f < g => Finished(f) BY <1>0, <1>1, <1>3 DEF JoinInv, Shifting
  <2>3. Resting(e, d, q, s.start, s.i, n, p) BY <1>1, <1>8, <1>9, <2>1 DEF Moving
  <2> QED BY <2>1, <2>2, <2>3 DEF Moving, Resting
<1>11. Flagging(e, d) BY <1>1, <1>4, <1>5, FlagsFlagging
<1>12. CASE s.corresponding < s.i
  <2>1. PICK b : b = Before(1 - g, s.j) OBVIOUS
  <2>2. /\ stage' = "return"
        /\ changed' = [changed EXCEPT ![g][s.start - 1] = TRUE, ![g][s.i - 1] = FALSE]
        /\ shift' = [s EXCEPT !.start = s.start - 1, !.i = s.i - 1, !.j = b]
    BY <1>0, <1>1, <1>3, <1>12, <2>1 DEF ReturnToCorresponding, other
  <2>3. s.start > 0 /\ equivs[g][s.start] = equivs[g][s.i]
    <3> DEFINE m == s.i - 1
    <3>1. m \in s.corresponding..(s.i - 1) BY <1>2, <1>12
    <3>2. /\ m - s.runlength = s.start - 1 /\ (s.start - 1) + 1 = s.start /\ m + 1 = s.i
      BY <1>1, <1>2
    <3>3. /\ m - s.runlength >= 0
          /\ equivs[g][(m - s.runlength) + 1] = equivs[g][m + 1]
      <4> HIDE DEF m
      <4> QED BY <1>1, <1>3, <3>1 DEF Tracks
    <3> QED BY <1>2, <3>2, <3>3
  <2>4. ~d[s.start - 1] BY <1>10 DEF IsRun
  <2>5. FlagsSame' BY <2>2 DEF ShiftInv, Shifting
  <2>6. MovedUp(e, d, d2, s.start, s.i) /\ changed'[1 - g] = changed[1 - g]
    BY <1>1, <1>3, <1>4, <1>5, <1>7, <2>2, <2>3, <2>4, <2>5, UpMoves
  <2>7. ~Unlike(e, s.start - 1, s.i - 1)
    <3>1. (s.start - 1) + 1 = s.start /\ (s.i - 1) + 1 = s.i BY <1>2
    <3> QED BY <1>4, <2>3, <3>1 DEF Unlike
  <2>8. p < s.i BY <1>9, <1>12
  <2>9. IsRun(e, d2, s.start - 1, s.i - 1)
    <3>1. ~d[s.start - 2] BY <1>8, <1>10, <1>11, <2>3, <2>8, ReturnFree
    <3> QED BY <2>6, <3>1, RunReturned
  <2>10. ApartUpto(e, d2, q, s.start - 1)
    <3>1. PICK x \in Int : x = s.start - 1 BY <1>2
    <3>2. ApartUpto(e, d2, q, x) BY <1>2, <1>10, <2>6, <3>1, ApartUp
    <3> QED BY <3>1, <3>2
  <2>11. Smaller(s.start, p - n) = p - n /\ Smaller(s.start - 1, p - n) = p - n
    <3>1. PICK x \in Int, i \in Int : x = s.start /\ i = s.i BY <1>2
    <3>2. n = i - x /\ p < i BY <1>8, <2>8, <3>1
    <3>3. Smaller(x, p - n) = p - n /\ Smaller(x - 1, p - n) = p - n BY <3>2 DEF Smaller
    <3> QED BY <3>1, <3>3
  <2>12. Below(e, d2, q, s.start - 1, s.i - 1, Smaller(s.start - 1, p - n))
    BY <1>10, <2>4, <2>6, <2>7, <2>11, BelowUp
  <2>13. Short(e, d2, s.start - 1, n, p) BY <1>8, <1>10, <2>4, <2>6, <2>8, ShortUp
  <2>14. Recent(e, d2, q, s.i - 1, p) BY <1>10, <2>4, <2>6, <2>9, RecentUp
  <2>15. Onward(e, d2, q, s.start - 1, s.i - 1)
    BY <1>10, <2>4, <2>6, <2>8, <2>9, OnwardUp
  <2>16. PICK s2 : s2 = shift' OBVIOUS
  <2>17. /\ s2.f = g /\ s2.start = s.start - 1 /\ s2.i = s.i - 1 /\ s2.corresponding = p
         /\ s2.runlength = n
    BY <1>1, <1>2, <1>3, <1>8, <1>9, <2>2, <2>16
  <2>18. Resting(e, d2, q, s2.start, s2.i, s2.runlength, s2.corresponding)
    BY <2>12, <2>13, <2>14, <2>15, <2>17 DEF Resting
  <2>19. Moving(e, d2, q, s2, "return") BY <2>9, <2>10, <2>17, <2>18 DEF Moving
  <2>20. /\ s2.f = g /\ stage' = "return" /\ equivs' = equivs
         /\ changed'[1 - g] = changed[1 - g]
         /\ \A f \in Files : f < g => Finished(f)
    BY <1>1, <1>10, <2>2, <2>6, <2>17
  <2> QED BY <1>4, <1>6, <1>7, <2>16, <2>19, <2>20, MovingNext
<1>13. CASE ~(s.corresponding < s.i)
  <2>1. stage' = "scan" /\ changed' = changed /\ shift' = shift
    BY <1>0, <1>1, <1>13 DEF ReturnToCorresponding
  <2>2. ApartUpto(e, d, q, s.i)
    <3>1. PICK x \in Int : x = s.start BY <1>2
    <3>2. PICK lim \in Int : lim = Smaller(x, p - n) /\ lim <= x BY DEF Smaller
    <3>3. Below(e, d, q, s.start, s.i, lim) /\ lim <= s.start BY <1>10, <3>1, <3>2
    <3> QED BY <1>8, <1>10, <1>11, <3>3, ApartRest
  <2>3. Scanned(e, d, q, s) BY <1>10, <2>2 DEF Scanned
  <2>4. Scanned(equivs[shift.f], changed[shift.f], Silent(equivs[other], changed[other]), shift)'
    BY <1>0, <1>1, <1>3, <1>4, <1>5, <1>6, <2>1, <2>3 DEF other
  <2>5. (\A f \in Files : f < shift.f => Finished(f))'
    BY <1>0, <1>1, <1>3, <1>10, <2>1 DEF Finished
  <2> QED BY <2>1, <2>4, <2>5 DEF JoinInv
<1> QED BY <1>12, <1>13

LEMMA ScanJoined ==
  ASSUME ReadInv, ShiftInv, ShiftInv', JoinInv, Scan
  PROVE  JoinInv'
<1>0. PICK s : s = shift OBVIOUS
<1>1. /\ FlagsSame /\ s \in Locals /\ stage = "scan" /\ UNCHANGED <<equivs, changed>>
      /\ s.i <= Len(equivs[s.f])
  BY <1>0 DEF ShiftInv, ScanInv, Scan, Shifting, compared, reading, buffered_lines
<1>2. /\ s.f \in Files /\ s.i \in Nat /\ s.j \in Nat /\ s.start \in Nat
      /\ s \in [f : Files, i : Nat, j : Nat, start : Nat, runlength : Nat,
                corresponding : Nat]
  BY <1>1, LocalsTypes
<1>3. PICK g \in Files : g = s.f BY <1>2
<1>4. PICK e : e = equivs[g] OBVIOUS
<1>5. PICK d : d = changed[g] OBVIOUS
<1>6. PICK q : q = Silent(equivs[1 - g], changed[1 - g]) OBVIOUS
<1>7. /\ ApartUpto(e, d, q, s.i)
      /\ s.i = 0 \/ (IsRun(e, d, s.start, s.i) /\ Onward(e, d, q, s.start, s.i))
      /\ \A f \in Files : f < g => Finished(f)
  <2>1. Scanned(e, d, q, s) BY <1>0, <1>1, <1>3, <1>4, <1>5, <1>6 DEF JoinInv, other
  <2>2. \A f \in Files : f < g => Finished(f) BY <1>0, <1>1, <1>3 DEF JoinInv, Shifting
  <2> QED BY <2>1, <2>2 DEF Scanned
<1>8. Flagging(e, d) /\ Len(e) \in Nat BY <1>1, <1>4, <1>5, FlagsFlagging DEF Flagging
<1>9. PICK first : first = Least({k \in s.i..Len(e) : k = Len(e) \/ d[k]}) OBVIOUS
<1>10. /\ first \in s.i..Len(e) /\ \A k \in s.i..(first - 1) : ~d[k]
  <2> DEFINE S == {k \in s.i..Len(e) : k = Len(e) \/ d[k]}
  <2>1. Len(e) \in S /\ (\A x \in S : x \in Int /\ s.i <= x) /\ s.i \in Int
    BY <1>1, <1>2, <1>3, <1>4, <1>8
  <2>2. first \in S /\ \A y \in S : first <= y
    <3>1. first = Least(S) BY <1>9
    <3> HIDE DEF S
    <3> QED BY <2>1, <3>1, LeastIsLeast
  <2>3. \A k \in s.i..(first - 1) : k \notin S /\ k \in s.i..Len(e) BY <2>2
  <2> QED BY <2>2, <2>3
<1>11. first \in Nat /\ first <= Len(e) /\ s.i <= first BY <1>2, <1>8, <1>10
<1>12. CASE first = Len(e)
  <2>1. Finished(g)
    <3>1. ApartUpto(e, d, q, Len(e)) BY <1>2, <1>7, <1>8, <1>10, <1>12, ApartScan
    <3> QED BY <1>4, <1>5, <3>1 DEF ApartUpto, Finished
  <2>2. /\ stage' = IF s.f = 0 THEN "scan" ELSE "build"
        /\ shift' = IF s.f = 0 THEN AtFile(1) ELSE shift
    BY <1>0, <1>3, <1>4, <1>5, <1>9, <1>12 DEF Scan, i_end, buffered_lines
  <2>3. \A f \in Files : f <= g => Finished(f)'
    <3>1. \A f \in Files : f < g \/ f = g \/ g < f BY DEF Files
    <3>2. \A f \in Files : f <= g => ~(g < f) BY DEF Files
    <3>3. \A f \in Files : f <= g => Finished(f) BY <1>7, <2>1, <3>1, <3>2
    <3> QED BY <1>1, <3>3 DEF Finished
  <2>4. CASE s.f = 0
    <3>1. stage' = "scan" /\ shift' = AtFile(1) BY <2>2, <2>4
    <3>2. shift'.f = 1 /\ shift'.i = 0 BY <3>1 DEF AtFile
    <3>3. \A f \in Files : f < 1 => Finished(f)' BY <1>3, <2>3, <2>4 DEF Files
    <3>4. \A u, v, w : ApartUpto(u, v, w, 0)
      BY DEF ApartUpto, PartedUpto, HeldUpto, IsRun
    <3>5. Scanned(equivs[shift.f], changed[shift.f], Silent(equivs[other], changed[other]), shift)'
      BY <3>2, <3>4 DEF Scanned
    <3>6. (\A f \in Files : f < shift.f => Finished(f))' BY <3>2, <3>3
    <3> QED BY <3>1, <3>5, <3>6 DEF JoinInv
  <2>5. CASE s.f # 0
    <3>1. stage' = "build" BY <2>2, <2>5
    <3>2. (\A f \in Files : Finished(f)) '
      <4>1. g = 1 /\ \A f \in Files : f <= 1 BY <1>3, <2>5 DEF Files
      <4> QED BY <2>3, <4>1
    <3> QED BY <3>1, <3>2 DEF JoinInv, Shifting
  <2> QED BY <2>4, <2>5
<1>13. CASE first # Len(e)
  <2>1. PICK last : last = After(g, first) OBVIOUS
  <2>2. PICK b : b = After(1 - g, Passed(1 - g, s.j, first - s.i)) OBVIOUS
  <2>3. PICK l : l = last - first OBVIOUS
  <2>4. /\ stage' = "back"
        /\ shift' = [s EXCEPT !.i = last, !.start = first, !.runlength = l, !.j = b]
    <3>1. stage' = "back" /\ shift' = [shift EXCEPT
              !.i = After(shift.f, first), !.start = first,
              !.runlength = After(shift.f, first) - first,
              !.j = After(other, Passed(other, @, first - shift.i))]
      BY <1>0, <1>3, <1>4, <1>5, <1>9, <1>13 DEF Scan, i_end, buffered_lines
    <3> QED BY <1>0, <1>3, <2>1, <2>2, <2>3, <3>1 DEF other
  <2>5. PICK s2 : s2 = shift' OBVIOUS
  <2>6. s2.f = g /\ s2.start = first /\ s2.i = last BY <1>2, <1>3, <2>4, <2>5
  <2>7. IsRun(e, d, first, last)
    <3>1. AtRun(shift.f, shift.start, shift.i, shift.j)' /\ ~changed'[s2.f][s2.start - 1]
      BY <2>4, <2>5 DEF ShiftInv, RunInv
    <3> QED BY <1>1, <1>4, <1>5, <2>5, <2>6, <3>1 DEF AtRun, IsRun
  <2>8. ApartUpto(e, d, q, first) BY <1>2, <1>7, <1>8, <1>10, <1>11, ApartScan
  <2>9. Below(e, d, q, first, last, Len(e) + 1)
    <3>1. s.i <= Len(e) BY <1>1, <1>3, <1>4
    <3> QED BY <1>2, <1>7, <1>8, <1>10, <1>11, <2>7, <3>1, BelowScan
  <2>10. Moving(e, d, q, s2, "back") BY <2>6, <2>7, <2>8, <2>9 DEF Moving
  <2>11. /\ d = changed'[g] /\ equivs' = equivs /\ changed'[1 - g] = changed[1 - g]
         /\ s2.f = g /\ stage' = "back"
    BY <1>1, <1>5, <2>4, <2>6
  <2>12. \A f \in Files : f < g => Finished(f) BY <1>7
  <2> QED BY <1>4, <1>6, <2>5, <2>10, <2>11, <2>12, MovingNext
<1> QED BY <1>12, <1>13

LEMMA JoinInvNext ==
  ReadInv /\ ShiftInv /\ ShiftInv' /\ JoinInv /\ [Next]_vars => JoinInv'
<1> SUFFICES ASSUME ReadInv, ShiftInv, ShiftInv', JoinInv, [Next]_vars
             PROVE  JoinInv'
  OBVIOUS
<1>1. CASE stage' \in Reading \cup Comparing
  <2>1. stage' \notin Shifting
    <3>1. CASE stage' \in Reading BY <3>1 DEF Reading, Shifting
    <3>2. CASE stage' \in Comparing BY <3>2, ZenonT(30) DEF Comparing, Shifting
    <3> QED BY <1>1, <3>1, <3>2
  <2>2. stage' \notin {"build", "done"}
    <3>1. CASE stage' \in Reading BY <3>1 DEF Reading
    <3>2. CASE stage' \in Comparing BY <3>2, ZenonT(30) DEF Comparing
    <3> QED BY <1>1, <3>1, <3>2
  <2>3. stage' # "scan" /\ stage' \notin {"back", "forth", "return"}
    BY <2>1 DEF Shifting
  <2> QED
    BY <2>1, <2>2, <2>3 DEF JoinInv
<1>2. CASE ReadStep
  BY <1>1, <1>2, ReadSteps
<1>3. CASE Discard
  BY <1>1, <1>3 DEF Discard, Comparing
<1>4. CASE SearchStep
  BY <1>1, <1>4, SearchSteps
<1>5. CASE SimpleCase
  <2>1. stage \in Comparing /\ shift' = shift
    BY <1>5, SimpleSteps
  <2>2. CASE stage' = "slide"
    BY <1>1, <2>2 DEF Comparing
  <2>3. CASE stage' = "scan"
    <3>1. shift'.f = 0 /\ shift'.i = 0
      BY <2>1 DEF ShiftInv, AtFile
    <3>2. \A u, v, w : ApartUpto(u, v, w, 0)
      BY DEF ApartUpto, PartedUpto, HeldUpto, IsRun
    <3>3. Scanned(equivs[shift.f], changed[shift.f], Silent(equivs[other], changed[other]), shift)'
      BY <3>1, <3>2 DEF Scanned
    <3>4. \A f \in Files : ~(f < 0)
      BY DEF Files
    <3> QED
      BY <2>3, <3>1, <3>3, <3>4 DEF JoinInv
  <2> QED
    BY <1>5, <2>2, <2>3, SimpleSteps
<1>6. CASE ShiftStep
  <2>1. CASE BuildScript
    <3>1. stage = "build" /\ stage' = "done" /\ UNCHANGED <<equivs, changed>>
      <4>1. stage = "build" BY ZenonT(30), <2>1 DEF BuildScript
      <4>2. stage' = "done" BY ZenonT(30), <2>1 DEF BuildScript
      <4>3. UNCHANGED <<compared, changed>> BY ZenonT(30), <2>1 DEF BuildScript
      <4> QED BY <4>1, <4>2, <4>3 DEF compared, reading
    <3>2. \A f \in Files : Finished(f)'
      BY <3>1 DEF JoinInv, Finished
    <3> QED
      BY <3>1, <3>2 DEF JoinInv, Shifting
  <2> QED
    BY <1>6, <2>1, ScanJoined, BackJoined, ForthJoined, ReturnJoined DEF ShiftStep
<1>7. CASE UNCHANGED vars
  <2>1. UNCHANGED <<stage, equivs, changed, shift>>
    BY <1>7 DEF vars
  <2> QED
    BY <2>1 DEF JoinInv, Finished, other
<1> QED
  BY <1>2, <1>3, <1>4, <1>5, <1>6, <1>7, Steps

(* The n lines from line u on.                                             *)
Piece(e, u, n) == SubSeq(e, u + 1, u + n)
Differing(e, a, b, y, n) ==
    Piece(e, a, n) # Piece(e, b, n) /\ Piece(e, y - n, n) # Piece(e, b, n)

LEMMA PiecesDiffer ==
  ASSUME NEW e \in Seq(Lines), NEW u \in Nat, NEW v \in Nat, NEW n \in Nat,
         u + n <= Len(e), v + n <= Len(e), NEW t \in 1..n, e[u + t] # e[v + t]
  PROVE  Piece(e, u, n) # Piece(e, v, n)
<1>1. SubSeq(e, u + 1, u + n)[t] = e[u + t] /\ SubSeq(e, v + 1, v + n)[t] = e[v + t]
  OBVIOUS
<1> QED BY <1>1 DEF Piece

LEMMA FinishedJoined ==
  ASSUME NEW e, e \in Seq(Lines), NEW d, PartedUpto(e, d, Len(e)),
         NEW a, NEW b, NEW x, NEW y, IsRun(e, d, a, b), IsRun(e, d, x, y), IsGap(d, b, x),
         NEW n, n = x - b
  PROVE  Differing(e, a, b, y, n)
<1>1. /\ a \in Nat /\ b \in Nat /\ x \in Nat /\ y \in Nat /\ y <= Len(e)
      /\ a < b /\ b < x /\ x < y /\ Len(e) \in Nat
  BY DEF IsRun, IsGap
<1>2. Parted(e, a, b, x, y) BY <1>1 DEF PartedUpto
<1>3. n \in Nat /\ b + n = x BY <1>1
<1>4. Piece(e, a, n) # Piece(e, b, n)
  <2>1. PICK c \in b..(x - 1) : Unlike(e, c - (b - a), c) BY <1>2 DEF Parted
  <2>2. PICK t \in Int : t = c - b + 1 BY <1>1
  <2>3. (c - (b - a)) + 1 = a + t /\ c + 1 = b + t /\ t \in 1..n BY <1>1, <1>3, <2>2
  <2>4. e[a + t] # e[b + t] BY <2>1, <2>3 DEF Unlike
  <2>5. a + n <= Len(e) /\ b + n <= Len(e) BY <1>1, <1>3
  <2>6. a \in Nat /\ b \in Nat /\ t \in 1..n BY <1>1, <2>3
  <2> QED BY <1>3, <2>4, <2>5, <2>6, PiecesDiffer
<1>5. Piece(e, y - n, n) # Piece(e, b, n)
  <2>1. PICK c \in b..(x - 1) : Unlike(e, c, c + (y - x)) BY <1>2 DEF Parted
  <2>2. PICK t \in Int, u \in Nat : t = c - b + 1 /\ u = y - n BY <1>1, <1>3
  <2>3. c + 1 = b + t /\ (c + (y - x)) + 1 = u + t BY <1>1, <1>3, <2>2
  <2>4. e[u + t] # e[b + t] BY <2>1, <2>3 DEF Unlike
  <2>5. u + n <= Len(e) /\ b + n <= Len(e) /\ t \in 1..n BY <1>1, <1>3, <2>2
  <2>6. b \in Nat /\ n \in Nat BY <1>1, <1>3
  <2>7. Piece(e, u, n) # Piece(e, b, n) BY <2>4, <2>5, <2>6, PiecesDiffer
  <2> QED BY <2>2, <2>7
<1> QED BY <1>4, <1>5 DEF Differing

(* "Join changes as much as possible": in files of any length, wherever    *)
(* shift_boundaries has moved the runs of flags to, no run can be moved so *)
(* far that it meets the one before it or the one behind it.               *)
THEOREM RunsJoined == Spec => []Joined
<1>1. Init => JoinInv
  BY DEF Init, JoinInv, Shifting
<1>2. ComparingInv => ReadInv
  BY DEF ComparingInv
<1>3. ReadInv /\ JoinInv => Joined
  <2> SUFFICES ASSUME ReadInv, JoinInv, stage = "done" PROVE Joined
    BY DEF Joined
  <2> DEFINE Runs(f) == {r \in (0..buffered_lines(f)) \X (0..buffered_lines(f)) :
                           /\ r[1] < r[2] /\ (\A k \in r[1]..(r[2] - 1) : changed[f][k] = TRUE)
                           /\ ~changed[f][r[1] - 1] /\ ~changed[f][r[2]]}
             Near(f, r, s) ==
               r[2] < s[1] /\ (\A k \in r[2]..(s[1] - 1) : changed[f][k] = FALSE)
             Distant(f, r, s) ==
               LET n == s[1] - r[2]
               IN  /\ ~(SubSeq(equivs[f], r[1] + 1, r[1] + n)
                          = SubSeq(equivs[f], r[2] + 1, r[2] + n))
                   /\ ~(SubSeq(equivs[f], (s[2] - n) + 1, (s[2] - n) + n)
                          = SubSeq(equivs[f], r[2] + 1, r[2] + n))
  <2>1. ASSUME NEW f \in Files, NEW r \in Runs(f)
        PROVE  IsRun(equivs[f], changed[f], r[1], r[2])
    <3>1. PICK a \in Nat, b \in Nat : a = r[1] /\ b = r[2] /\ b <= Len(equivs[f])
      BY DEF ReadInv, buffered_lines
    <3>2. a < b /\ ~changed[f][a - 1] /\ ~changed[f][b] /\ (\A k \in a..(b - 1) : changed[f][k])
      BY <3>1
    <3> QED BY <3>1, <3>2 DEF IsRun
  <2>2. ASSUME NEW f \in Files, NEW r \in Runs(f), NEW s \in Runs(f), Near(f, r, s)
        PROVE  Distant(f, r, s)
    <3>1. IsRun(equivs[f], changed[f], r[1], r[2]) /\ IsRun(equivs[f], changed[f], s[1], s[2])
      BY <2>1
    <3>2. IsGap(changed[f], r[2], s[1]) BY <2>2 DEF IsGap
    <3>3. PartedUpto(equivs[f], changed[f], Len(equivs[f])) /\ equivs[f] \in Seq(Lines)
      BY DEF JoinInv, Finished, ReadInv
    <3>4. PICK n : n = s[1] - r[2] OBVIOUS
    <3>5. PICK e, d, a, b, x, y : /\ e = equivs[f] /\ d = changed[f]
                                  /\ a = r[1] /\ b = r[2] /\ x = s[1] /\ y = s[2]
      BY Zenon
    <3> HIDE DEF Runs
    <3>6. /\ e \in Seq(Lines) /\ PartedUpto(e, d, Len(e))
          /\ IsRun(e, d, a, b) /\ IsRun(e, d, x, y) /\ IsGap(d, b, x) /\ n = x - b
      BY <3>1, <3>2, <3>3, <3>4, <3>5
    <3>7. Piece(e, a, n) # Piece(e, b, n) /\ Piece(e, y - n, n) # Piece(e, b, n)
      <4>1. Differing(e, a, b, y, n) BY <3>6, FinishedJoined
      <4> QED BY <4>1 DEF Differing
    <3>8. /\ Piece(equivs[f], r[1], n) # Piece(equivs[f], r[2], n)
          /\ Piece(equivs[f], s[2] - n, n) # Piece(equivs[f], r[2], n)
      BY <3>5, <3>7
    <3> QED BY <3>4, <3>8, Zenon DEF Piece
  <2>3. \A f \in Files : \A r, s \in Runs(f) : Near(f, r, s) => Distant(f, r, s)
    <3> HIDE DEF Runs, Near, Distant
    <3> QED BY <2>2
  <2> QED BY <2>3, Zenon DEF Joined
<1> QED
  BY <1>1, <1>2, <1>3, ShiftInvariant, JoinInvNext, PTL DEF Spec

-----------------------------------------------------------------------------
(***************************************************************************)
(* What is compared are the classes of the lines between two ends that are *)
(* the same in both files.                                                 *)
(***************************************************************************)
Ends(suffix) ==
    /\ \A f \in Files :
         /\ Len(File(f)) = prefix_lines + Len(equivs[f]) + suffix
         /\ \A k \in 1..Len(equivs[f]) : equivs[f][k] = Class(File(f)[prefix_lines + k])
    /\ \A k \in 1..suffix :
         File(0)[prefix_lines + Len(equivs[0]) + k] = File(1)[prefix_lines + Len(equivs[1]) + k]

EndsInv ==
    /\ stage # "read" =>
         /\ \A f \in Files : prefix_lines <= Len(File(f))
         /\ \A k \in 1..prefix_lines : File(0)[k] = File(1)[k]
    /\ stage = "suffix" =>
         \A f \in Files :
           /\ Len(File(f)) = prefix_lines + Len(equivs[f])
           /\ \A k \in 1..Len(equivs[f]) : equivs[f][k] = File(f)[prefix_lines + k]
    /\ stage \notin {"read", "suffix"} => \E suffix \in Nat : Ends(suffix)

-----------------------------------------------------------------------------
(***************************************************************************)
(* The chain of changes.  Past(s, f, n) is the line behind the first n     *)
(* changes, Until(s, e, f, n) the line where the nth begins, or the end of *)
(* the lines e that are compared.                                           *)
(***************************************************************************)
Changes0 == [line0 : Nat, line1 : Nat, deleted : Nat, inserted : Nat]
LineOf(c, f) == IF f = 0 THEN c.line0 ELSE c.line1
CountOf(c, f) == IF f = 0 THEN c.deleted ELSE c.inserted
Past(s, f, n) == IF n = 0 THEN 0 ELSE LineOf(s[n], f) + CountOf(s[n], f)
Until(s, e, f, n) == IF n = Len(s) + 1 THEN Len(e[f]) ELSE LineOf(s[n], f)

(* Before the nth change lie as many lines in either file, the same ones,  *)
(* and between two changes at least one.                                   *)
Bridged(s, e, n) ==
    \E gap \in Nat :
      /\ \A f \in Files : /\ Past(s, f, n - 1) \in Nat
                          /\ Until(s, e, f, n) = Past(s, f, n - 1) + gap
                          /\ Until(s, e, f, n) <= Len(e[f])
      /\ n \in 2..Len(s) => gap > 0
      /\ \A k \in 1..gap : e[0][Past(s, 0, n - 1) + k] = e[1][Past(s, 1, n - 1) + k]

IsChain(s, e) == s \in Seq(Changes0) /\ \A n \in 1..(Len(s) + 1) : Bridged(s, e, n)

ChainInv == stage = "done" => IsChain(script, equivs)
LEMMA CommonPrefixSame ==
  ASSUME input \in Cases, NEW s, NEW t, Len(s) \in Nat, Len(t) \in Nat
  PROVE  \A k \in 1..Trimmed(CommonPrefix(s, t)) : s[k] = t[k]
<1> DEFINE m == Smaller(Len(s), Len(t))
           P == {n \in 0..m : \A k \in 1..n : s[k] = t[k]}
<1>1. m \in Nat
  BY DEF Smaller
<1> HIDE DEF m
<1>2. 0 \in P /\ (\A n \in P : n \in Int /\ n <= m)
  BY <1>1
<1>3. CommonPrefix(s, t) = Biggest(P)
  BY DEF CommonPrefix, m
<1>4. Biggest(P) \in P
  <2> HIDE DEF P
  <2>1. P # {} /\ m \in Int
    BY <1>1, <1>2
  <2> QED
    BY <1>2, <2>1, BiggestIsBiggest
<1>5. CommonPrefix(s, t) \in Nat /\ \A k \in 1..CommonPrefix(s, t) : s[k] = t[k]
  BY <1>1, <1>3, <1>4
<1>6. input.horizon_lines \in Nat
  BY FileTypes
<1>7. Trimmed(CommonPrefix(s, t)) <= CommonPrefix(s, t) /\ Trimmed(CommonPrefix(s, t)) \in Nat
  BY <1>5, <1>6 DEF Trimmed, Bigger
<1> QED
  BY <1>5, <1>7

LEMMA EndsPrefix ==
  ASSUME ReadInv, FindIdenticalPrefix
  PROVE  EndsInv'
<1> DEFINE prefix == Trimmed(CommonPrefix(input.old, input.new))
<1>1. /\ \A f \in Files : File(f) \in Seq(Lines) /\ Len(File(f)) \in Nat
      /\ File(0) = input.old /\ File(1) = input.new /\ 0 \in Files /\ 1 \in Files
      /\ input \in Cases
  BY FileTypes DEF ReadInv, Files
<1>2. /\ prefix \in Nat /\ \A f \in Files : prefix <= Len(File(f))
      /\ \A k \in 1..prefix : File(0)[k] = File(1)[k]
  <2>1. Len(input.old) \in Nat /\ Len(input.new) \in Nat
    BY <1>1
  <2>2. prefix \in Nat /\ prefix <= Len(input.old) /\ prefix <= Len(input.new)
    BY <1>1, <2>1, CommonPrefixBounds
  <2>3. \A k \in 1..prefix : input.old[k] = input.new[k]
    BY <1>1, <2>1, CommonPrefixSame
  <2>4. \A f \in Files : prefix <= Len(File(f))
    BY <1>1, <2>2 DEF Files
  <2> HIDE DEF prefix
  <2> QED
    BY <1>1, <2>2, <2>3, <2>4
<1>3. /\ prefix_lines' = prefix /\ input' = input /\ stage' = "suffix"
      /\ equivs' = [f \in Files |-> SubSeq(File(f), prefix + 1, Len(File(f)))]
  BY DEF FindIdenticalPrefix
<1> HIDE DEF prefix
<1>4. ASSUME NEW f \in Files
      PROVE  /\ Len(File(f)) = prefix + Len(equivs'[f])
             /\ \A k \in 1..Len(equivs'[f]) : equivs'[f][k] = File(f)[prefix + k]
  <2>1. equivs'[f] = SubSeq(File(f), prefix + 1, Len(File(f)))
    BY <1>3
  <2>2. /\ File(f) \in Seq(Lines) /\ Len(File(f)) \in Nat /\ prefix + 1 \in 1..(Len(File(f)) + 1)
        /\ Len(File(f)) \in (prefix + 1 - 1)..Len(File(f))
    BY <1>1, <1>2
  <2>3. /\ equivs'[f] \in Seq(Lines) /\ Len(equivs'[f]) = Len(File(f)) - prefix
        /\ \A k \in 1..(Len(File(f)) - prefix) : equivs'[f][k] = File(f)[prefix + k]
    BY <1>2, <2>1, <2>2, SubSeqProperties, Z3
  <2> QED
    BY <1>2, <2>2, <2>3
<1>5. File(0)' = File(0) /\ File(1)' = File(1) /\ \A f \in Files : File(f)' = File(f)
  BY <1>3 DEF File
<1> QED
  BY <1>2, <1>3, <1>4, <1>5 DEF EndsInv

LEMMA EndsSuffix ==
  ASSUME ReadInv, EndsInv, FindIdenticalSuffix
  PROVE  EndsInv'
<1> DEFINE suffix == Trimmed(CommonPrefix(Reverse(equivs[0]), Reverse(equivs[1])))
           n(f) == Len(equivs[f]) - suffix
<1>0. stage = "suffix"
  BY DEF FindIdenticalSuffix
<1>1. /\ \A f \in Files : /\ equivs[f] \in Seq(Lines) /\ Len(equivs[f]) \in Nat
                          /\ Len(File(f)) \in Nat
                          /\ Len(File(f)) = prefix_lines + Len(equivs[f])
                          /\ \A k \in 1..Len(equivs[f]) : equivs[f][k] = File(f)[prefix_lines + k]
      /\ input \in Cases /\ 0 \in Files /\ 1 \in Files /\ prefix_lines \in Nat
  <2>1. input \in Cases /\ \A f \in Files : equivs[f] \in Seq(Lines) /\ Len(equivs[f]) \in Nat
    BY DEF ReadInv
  <2>2. \A f \in Files : Len(File(f)) \in Nat
    BY <2>1, FileTypes
  <2>3. prefix_lines \in Nat
    BY <2>1, FileTypes DEF ReadInv
  <2> QED
    BY <1>0, <2>1, <2>2, <2>3 DEF EndsInv, Files
<1>2. /\ suffix \in Nat /\ \A f \in Files : suffix <= Len(equivs[f])
      /\ \A k \in 1..suffix :
           equivs[0][Len(equivs[0]) - suffix + k] = equivs[1][Len(equivs[1]) - suffix + k]
  <2> DEFINE s == Reverse(equivs[0])
             t == Reverse(equivs[1])
  <2>1. /\ Len(s) = Len(equivs[0]) /\ Len(s) \in Nat
        /\ \A k \in 1..Len(equivs[0]) : s[k] = equivs[0][(Len(equivs[0]) - k) + 1]
    BY <1>1 DEF Reverse
  <2>2. /\ Len(t) = Len(equivs[1]) /\ Len(t) \in Nat
        /\ \A k \in 1..Len(equivs[1]) : t[k] = equivs[1][(Len(equivs[1]) - k) + 1]
    BY <1>1 DEF Reverse
  <2> HIDE DEF s, t
  <2>3. suffix = Trimmed(CommonPrefix(s, t))
    BY DEF s, t
  <2> HIDE DEF suffix
  <2>4. suffix \in Nat /\ suffix <= Len(s) /\ suffix <= Len(t)
    BY <1>1, <2>1, <2>2, <2>3, CommonPrefixBounds
  <2>5. \A k \in 1..suffix : s[k] = t[k]
    BY <1>1, <2>1, <2>2, <2>3, CommonPrefixSame
  <2>6. ASSUME NEW k \in 1..suffix
        PROVE  equivs[0][Len(equivs[0]) - suffix + k] = equivs[1][Len(equivs[1]) - suffix + k]
    <3> DEFINE i == suffix - k + 1
    <3>1. /\ i \in 1..suffix /\ i \in 1..Len(equivs[0]) /\ i \in 1..Len(equivs[1])
          /\ (Len(equivs[0]) - i) + 1 = Len(equivs[0]) - suffix + k
          /\ (Len(equivs[1]) - i) + 1 = Len(equivs[1]) - suffix + k
      BY <2>1, <2>2, <2>4
    <3> HIDE DEF i
    <3> QED
      BY <2>1, <2>2, <2>5, <3>1
  <2> QED
    BY <2>1, <2>2, <2>4, <2>6 DEF Files
<1>3. /\ equivs' = [f \in Files |-> [k \in 1..n(f) |-> Class(equivs[f][k])]]
      /\ input' = input /\ prefix_lines' = prefix_lines /\ stage' = "discard"
  BY DEF FindIdenticalSuffix, buffered_lines
<1> HIDE DEF suffix
<1>4. ASSUME NEW f \in Files
      PROVE  /\ Len(equivs'[f]) = n(f) /\ n(f) \in Nat
             /\ Len(File(f)) = prefix_lines + Len(equivs'[f]) + suffix
             /\ \A k \in 1..Len(equivs'[f]) : equivs'[f][k] = Class(File(f)[prefix_lines + k])
  <2>1. n(f) \in Nat /\ n(f) <= Len(equivs[f])
    BY <1>1, <1>2
  <2>2. equivs'[f] = [k \in 1..n(f) |-> Class(equivs[f][k])]
    BY <1>3
  <2>3. Len(equivs'[f]) = n(f)
    <3> HIDE DEF n
    <3> QED
      BY <2>1, <2>2
  <2>4. ASSUME NEW k \in 1..n(f)
        PROVE  equivs'[f][k] = Class(File(f)[prefix_lines + k])
    <3>1. k \in 1..Len(equivs[f])
      BY <1>1, <2>1
    <3>2. equivs'[f][k] = Class(equivs[f][k])
      BY <2>2
    <3>3. equivs[f][k] = File(f)[prefix_lines + k]
      BY <1>1, <3>1
    <3> QED
      BY <3>2, <3>3
  <2>5. Len(File(f)) = prefix_lines + n(f) + suffix
    BY <1>1, <1>2
  <2> HIDE DEF n
  <2> QED
    BY <2>1, <2>3, <2>4, <2>5
<1>5. ASSUME NEW k \in 1..suffix
      PROVE  File(0)[prefix_lines + Len(equivs'[0]) + k] = File(1)[prefix_lines + Len(equivs'[1]) + k]
  <2>1. Len(equivs'[0]) = Len(equivs[0]) - suffix /\ Len(equivs'[1]) = Len(equivs[1]) - suffix
    BY <1>1, <1>4
  <2>2. /\ Len(equivs[0]) - suffix + k \in 1..Len(equivs[0])
        /\ Len(equivs[1]) - suffix + k \in 1..Len(equivs[1])
        /\ prefix_lines + Len(equivs'[0]) + k = prefix_lines + (Len(equivs[0]) - suffix + k)
        /\ prefix_lines + Len(equivs'[1]) + k = prefix_lines + (Len(equivs[1]) - suffix + k)
    BY <1>1, <1>2, <2>1
  <2> QED
    BY <1>1, <1>2, <2>2
<1>6. File(0)' = File(0) /\ File(1)' = File(1) /\ \A f \in Files : File(f)' = File(f)
  BY <1>3 DEF File
<1>7. PICK size \in Nat : size = suffix
  BY <1>2
<1>8. Ends(size)'
  <2>1. ASSUME NEW f \in Files
        PROVE  /\ Len(File(f)') = prefix_lines' + Len(equivs'[f]) + size
               /\ \A k \in 1..Len(equivs'[f]) : equivs'[f][k] = Class((File(f)')[prefix_lines' + k])
    BY <1>3, <1>4, <1>6, <1>7
  <2>2. ASSUME NEW k \in 1..size
        PROVE  File(0)'[prefix_lines' + Len(equivs'[0]) + k]
                 = File(1)'[prefix_lines' + Len(equivs'[1]) + k]
    BY <1>3, <1>5, <1>6, <1>7
  <2> QED
    BY <2>1, <2>2 DEF Ends
<1>9. /\ \A f \in Files : prefix_lines <= Len(File(f))
      /\ \A k \in 1..prefix_lines : File(0)[k] = File(1)[k]
  BY <1>0 DEF EndsInv
<1> QED
  BY <1>3, <1>6, <1>8, <1>9 DEF EndsInv

LEMMA EndsInvNext == ReadInv /\ EndsInv /\ [Next]_vars => EndsInv'
<1> SUFFICES ASSUME ReadInv, EndsInv, [Next]_vars PROVE EndsInv'
  OBVIOUS
<1>1. CASE FindIdenticalPrefix
  BY <1>1, EndsPrefix
<1>2. CASE FindIdenticalSuffix
  BY <1>2, EndsSuffix
<1>3. CASE /\ UNCHANGED <<input, prefix_lines, equivs>>
           /\ \/ UNCHANGED stage
              \/ stage \notin {"read", "suffix"} /\ stage' \notin {"read", "suffix"}
  <2>1. \A f \in Files : File(f)' = File(f)
    BY <1>3 DEF File
  <2>2. File(0)' = File(0) /\ File(1)' = File(1)
    BY <1>3 DEF File
  <2>3. ASSUME NEW suffix \in Nat, Ends(suffix) PROVE Ends(suffix)'
    BY <1>3, <2>1, <2>2, <2>3 DEF Ends
  <2> QED
    BY <1>3, <2>1, <2>2, <2>3 DEF EndsInv
<1>4. ASSUME ~FindIdenticalPrefix, ~FindIdenticalSuffix
      PROVE  /\ UNCHANGED <<input, prefix_lines, equivs>>
             /\ \/ UNCHANGED stage
                \/ stage \notin {"read", "suffix"} /\ stage' \notin {"read", "suffix"}
  <2>1. CASE MarkDiscardable
    BY <2>1 DEF MarkDiscardable, reading
  <2>2. CASE Discard
    BY <2>2 DEF Discard, reading
  <2>3. CASE SearchStep
    BY <2>3, SearchSteps DEF Comparing
  <2>4. CASE SimpleCase
    BY <2>4, SimpleSteps DEF Comparing
  <2>5. CASE ShiftStep
    BY <2>5, ShiftSteps DEF Shifting
  <2>6. CASE UNCHANGED vars
    BY <2>6 DEF vars
  <2> QED
    BY <1>4, <2>1, <2>2, <2>3, <2>4, <2>5, <2>6, Steps DEF ReadStep
<1> QED
  BY <1>1, <1>2, <1>3, <1>4

LEMMA Consecutive ==
  ASSUME NEW u, NEW a \in Int, NEW b \in Int, a <= b, \A k \in a..b : u[k] \in Int,
         \A k \in a..(b - 1) : u[k + 1] = u[k] + 1
  PROVE  \A j \in a..b : u[j] = u[a] + (j - a)
<1> DEFINE S == {i \in Nat : a + i <= b /\ u[a + i] # u[a] + i}
<1>1. S = {}
  <2> SUFFICES ASSUME S # {} PROVE FALSE
    OBVIOUS
  <2>1. PICK x \in S : \A y \in S : x <= y
    BY LeastNat
  <2>2. x \in Nat /\ a + x <= b /\ u[a + x] # u[a] + x /\ u[a] \in Int
    BY <2>1
  <2>3. x # 0
    BY <2>2
  <2>4. x - 1 \in Nat /\ a + (x - 1) <= b /\ ~(x <= x - 1) /\ a + (x - 1) \in a..(b - 1)
        /\ (a + (x - 1)) + 1 = a + x
    BY <2>2, <2>3
  <2>5. u[a + (x - 1)] = u[a] + (x - 1)
    BY <2>1, <2>4
  <2>6. u[a + x] = u[a + (x - 1)] + 1
    BY <2>4
  <2> QED
    BY <2>2, <2>5, <2>6
<1>2. ASSUME NEW j \in a..b PROVE u[j] = u[a] + (j - a)
  <2>1. j - a \in Nat /\ a + (j - a) = j /\ j <= b
    OBVIOUS
  <2> QED
    BY <1>1, <2>1
<1> QED
  BY <1>2

(* The places where build_script may stop: before the file, at each line   *)
(* that is not flagged, and behind the file.                               *)
StopsAt(f) == <<-1>> \o Unchanged(f) \o <<buffered_lines(f)>>

LEMMA StopsAtLines ==
  ASSUME ReadInv, NEW f \in Files, NEW m, m = Cardinality(Unflagged(f)) + 2
  PROVE  /\ m \in Nat /\ m >= 2 /\ Len(StopsAt(f)) = m
         /\ StopsAt(f)[1] = -1 /\ StopsAt(f)[m] = Len(equivs[f])
         /\ \A k \in 2..(m - 1) : /\ StopsAt(f)[k] \in Unflagged(f)
                                  /\ Rank(Unflagged(f), StopsAt(f)[k]) = k - 2
         /\ \A k \in 1..m : StopsAt(f)[k] \in Int /\ -1 <= StopsAt(f)[k]
         /\ \A k \in 1..(m - 1) : /\ StopsAt(f)[k] < StopsAt(f)[k + 1]
                                  /\ StopsAt(f)[k] < Len(equivs[f])
<1> DEFINE S == Unflagged(f)
           U == Unchanged(f)
           c == Cardinality(S)
           n == Len(equivs[f])
           u == StopsAt(f)
<1>1. Within(S, n) /\ n \in Nat
  BY UnflaggedWithin
<1>2. /\ U = InOrder(S) /\ U \in Seq(S) /\ Len(U) = c /\ c \in Nat /\ m = c + 2
      /\ \A k \in 1..c : U[k] \in S /\ Rank(S, U[k]) = k - 1
  BY UnchangedListed
<1>3. u = <<-1>> \o U \o <<n>>
  BY DEF StopsAt, buffered_lines
<1>4. \A j, k \in DOMAIN U : j < k <=> U[j] < U[k]
  <2> HIDE DEF S, U, n
  <2> QED
    BY <1>1, <1>2, InOrderIncreasing
<1> HIDE DEF S, U, c, n, u
<1>5. \A x \in S : x \in Int /\ 0 <= x /\ x < n
  BY <1>1 DEF Within
<1>6. U \in Seq(Int) /\ DOMAIN U = 1..c
  BY <1>2, <1>5
<1>7. /\ Len(u) = m /\ u[1] = -1 /\ u[m] = n
      /\ \A k \in 2..(m - 1) : u[k] = U[k - 1] /\ k - 1 \in 1..c
  <2> DEFINE v == <<-1>> \o U
  <2>1. v \in Seq(Int) /\ Len(v) = c + 1 /\ v[1] = -1 /\ \A k \in 2..(c + 1) : v[k] = U[k - 1]
    BY <1>2, <1>6
  <2>2. u = v \o <<n>>
    BY <1>3
  <2> HIDE DEF v
  <2>3. /\ Len(u) = c + 2 /\ u[c + 2] = n
        /\ \A k \in 1..(c + 1) : u[k] = v[k]
    BY <1>1, <1>2, <2>1, <2>2
  <2> QED
    BY <1>2, <2>1, <2>3
<1>8. \A k \in 2..(m - 1) : u[k] \in S /\ Rank(S, u[k]) = k - 2
  <2> TAKE k \in 2..(m - 1)
  <2>1. u[k] = U[k - 1] /\ k - 1 \in 1..c /\ (k - 1) - 1 = k - 2
    BY <1>2, <1>7
  <2>2. Rank(S, U[k - 1]) = (k - 1) - 1 /\ U[k - 1] \in S
    BY <1>2, <2>1
  <2> QED
    BY <2>1, <2>2
<1>9. \A k \in 1..m : u[k] \in Int /\ -1 <= u[k]
  <2> TAKE k \in 1..m
  <2>1. k = 1 \/ k = m \/ k \in 2..(m - 1)
    BY <1>2
  <2> QED
    BY <1>1, <1>5, <1>7, <1>8, <2>1
<1>10. ASSUME NEW k \in 1..(m - 1) PROVE u[k] < u[k + 1]
  <2>1. CASE k = 1
    <3>1. CASE m = 2
      BY <1>1, <1>7, <2>1, <3>1
    <3>2. CASE m # 2
      <4>1. 2 \in 2..(m - 1)
        BY <1>2, <3>2
      <4>2. u[2] \in S
        BY <1>8, <4>1
      <4> QED
        BY <1>5, <1>7, <2>1, <4>2
    <3> QED
      BY <3>1, <3>2
  <2>2. CASE k # 1 /\ k + 1 = m
    <3>1. k \in 2..(m - 1)
      BY <1>2, <2>2
    <3>2. u[k] \in S
      BY <1>8, <3>1
    <3> QED
      BY <1>5, <1>7, <2>2, <3>2
  <2>3. CASE k # 1 /\ k + 1 # m
    <3>1. k \in 2..(m - 1) /\ k + 1 \in 2..(m - 1) /\ k - 1 < (k + 1) - 1
      BY <1>2, <2>3
    <3>2. u[k] = U[k - 1] /\ u[k + 1] = U[(k + 1) - 1] /\ k - 1 \in 1..c /\ (k + 1) - 1 \in 1..c
      BY <1>7, <3>1
    <3> QED
      BY <1>4, <1>6, <3>1, <3>2
  <2> QED
    BY <2>1, <2>2, <2>3
<1>11. ASSUME NEW k \in 1..(m - 1) PROVE u[k] < n
  <2>1. k = 1 \/ k \in 2..(m - 1)
    BY <1>2
  <2> QED
    BY <1>1, <1>5, <1>7, <1>8, <2>1
<1> QED
  BY <1>2, <1>7, <1>8, <1>9, <1>10, <1>11 DEF S, u, n

(* A change for each pair of stops in a row that are apart.                *)
Stops(u, m) ==
    /\ m \in Nat /\ m >= 2
    /\ \A f \in Files :
         /\ u[f][1] = -1 /\ u[f][m] = Len(equivs[f])
         /\ \A k \in 1..m : u[f][k] \in Int /\ -1 <= u[f][k]
         /\ \A k \in 1..(m - 1) : u[f][k] < u[f][k + 1] /\ u[f][k] < Len(equivs[f])
    /\ \A k \in 2..(m - 1) : equivs[0][u[0][k] + 1] = equivs[1][u[1][k] + 1]

BetweenStops(u, k) == Change(u[0][k] + 1, u[1][k] + 1,
                             u[0][k + 1] - u[0][k] - 1, u[1][k + 1] - u[1][k] - 1)
ApartStops(u, m) == {k \in 1..(m - 1) : BetweenStops(u, k).deleted + BetweenStops(u, k).inserted > 0}

LEMMA ChainOfStops ==
  ASSUME NEW u, NEW m, Stops(u, m), NEW c, c = InOrder(ApartStops(u, m)),
         NEW s, s = [n \in DOMAIN c |-> BetweenStops(u, c[n])]
  PROVE  IsChain(s, equivs)
<1> DEFINE N == Len(c)
           S == ApartStops(u, m)
<1>1. /\ m \in Nat /\ m >= 2 /\ 0 \in Files /\ 1 \in Files
      /\ \A f \in Files : f = 0 \/ f = 1
      /\ \A f \in Files : /\ u[f][1] = -1 /\ u[f][m] = Len(equivs[f])
                          /\ \A k \in 1..m : u[f][k] \in Int /\ -1 <= u[f][k]
                          /\ \A k \in 1..(m - 1) : /\ u[f][k] < u[f][k + 1]
                                                   /\ u[f][k] < Len(equivs[f])
      /\ \A k \in 2..(m - 1) : equivs[0][u[0][k] + 1] = equivs[1][u[1][k] + 1]
  BY DEF Stops, Files
<1>2. ASSUME NEW k \in 1..(m - 1)
      PROVE  /\ BetweenStops(u, k) \in Changes0
             /\ \A f \in Files : /\ LineOf(BetweenStops(u, k), f) = u[f][k] + 1
                                 /\ CountOf(BetweenStops(u, k), f) = u[f][k + 1] - u[f][k] - 1
             /\ k \notin S => \A f \in Files : u[f][k + 1] = u[f][k] + 1
  <2>1. k \in 1..m /\ k + 1 \in 1..m
    BY <1>1
  <2>2. /\ u[0][k] \in Int /\ -1 <= u[0][k] /\ u[0][k + 1] \in Int /\ u[0][k] < u[0][k + 1]
        /\ u[1][k] \in Int /\ -1 <= u[1][k] /\ u[1][k + 1] \in Int /\ u[1][k] < u[1][k + 1]
    BY <1>1, <2>1
  <2>3. BetweenStops(u, k) \in Changes0
    BY <2>2 DEF BetweenStops, Change, Changes0
  <2>4. \A f \in Files : /\ LineOf(BetweenStops(u, k), f) = u[f][k] + 1
                         /\ CountOf(BetweenStops(u, k), f) = u[f][k + 1] - u[f][k] - 1
    BY <1>1 DEF BetweenStops, Change, LineOf, CountOf
  <2>5. ASSUME k \notin S PROVE u[0][k + 1] = u[0][k] + 1 /\ u[1][k + 1] = u[1][k] + 1
    <3>1. ~(BetweenStops(u, k).deleted + BetweenStops(u, k).inserted > 0)
      BY <2>5 DEF ApartStops
    <3>2. /\ BetweenStops(u, k).deleted = u[0][k + 1] - u[0][k] - 1
          /\ BetweenStops(u, k).inserted = u[1][k + 1] - u[1][k] - 1
      BY DEF BetweenStops, Change
    <3>3. ~((u[0][k + 1] - u[0][k] - 1) + (u[1][k + 1] - u[1][k] - 1) > 0)
      BY <3>1, <3>2
    <3> QED
      BY <2>2, <3>3
  <2> QED
    BY <1>1, <2>3, <2>4, <2>5
<1>3. /\ N \in Nat /\ DOMAIN c = 1..N
      /\ \A n \in 1..N : c[n] \in S /\ c[n] \in 1..(m - 1)
      /\ \A j, k \in 1..N : j < k <=> c[j] < c[k]
      /\ \A x \in S : \E n \in 1..N : x = c[n]
  <2>1. Within(S, m) /\ \A x \in S : x \in 1..(m - 1)
    BY <1>1 DEF Within, ApartStops
  <2> HIDE DEF S
  <2>2. /\ \A j, k \in DOMAIN c : j < k <=> c[j] < c[k]
        /\ S = {c[k] : k \in DOMAIN c}
        /\ Len(c) \in Nat /\ DOMAIN c = 1..Len(c)
    <3>1. c = InOrder(S)
      BY DEF S
    <3> QED
      BY <1>1, <2>1, <3>1, InOrderIncreasing
  <2> QED
    BY <2>1, <2>2
<1> HIDE DEF N, S
<1>4. /\ s \in Seq(Changes0) /\ Len(s) = N
      /\ \A n \in 1..N, f \in Files : /\ LineOf(s[n], f) = u[f][c[n]] + 1
                                      /\ LineOf(s[n], f) + CountOf(s[n], f) = u[f][c[n] + 1]
  <2>1. \A n \in 1..N : s[n] = BetweenStops(u, c[n]) /\ s[n] \in Changes0
    BY <1>2, <1>3
  <2>2. s \in Seq(Changes0) /\ Len(s) = N
    BY <1>3, <2>1
  <2>3. ASSUME NEW n \in 1..N, NEW f \in Files
        PROVE  /\ LineOf(s[n], f) = u[f][c[n]] + 1
               /\ LineOf(s[n], f) + CountOf(s[n], f) = u[f][c[n] + 1]
    <3>1. c[n] \in 1..(m - 1) /\ c[n] \in 1..m /\ c[n] + 1 \in 1..m
      BY <1>1, <1>3
    <3>2. /\ LineOf(s[n], f) = u[f][c[n]] + 1
          /\ CountOf(s[n], f) = u[f][c[n] + 1] - u[f][c[n]] - 1
      BY <1>2, <2>1, <3>1
    <3>3. u[f][c[n]] \in Int /\ u[f][c[n] + 1] \in Int
      BY <1>1, <3>1
    <3> QED
      BY <3>2, <3>3
  <2> QED
    BY <2>2, <2>3
<1>5. ASSUME NEW n \in 1..(N + 1) PROVE Bridged(s, equivs, n)
  <2> DEFINE a == IF n = 1 THEN 1 ELSE c[n - 1] + 1
             b == IF n = N + 1 THEN m ELSE c[n]
             z == IF n = 1 THEN 1 ELSE 0
             w == IF n = N + 1 THEN 0 ELSE 1
             gap == (b - a) + w - z
  <2>1. n \in Nat /\ (n # 1 => n - 1 \in 1..N) /\ (n # N + 1 => n \in 1..N)
    BY <1>3
  <2>2. a \in 1..m /\ b \in 1..m /\ a <= b /\ (n # 1 => a >= 2) /\ (n # N + 1 => b <= m - 1)
    <3>1. CASE n # 1 /\ n # N + 1
      <4>1. n - 1 \in 1..N /\ n \in 1..N /\ n - 1 < n
        BY <2>1, <3>1
      <4>2. c[n - 1] < c[n] /\ c[n - 1] \in 1..(m - 1) /\ c[n] \in 1..(m - 1)
        BY <1>3, <4>1
      <4> QED
        BY <1>1, <3>1, <4>2
    <3>2. CASE n = 1 \/ n = N + 1
      <4>1. (n # 1 => c[n - 1] \in 1..(m - 1)) /\ (n # N + 1 => c[n] \in 1..(m - 1))
        BY <1>3, <2>1
      <4> QED
        BY <1>1, <3>2, <4>1
    <3> QED
      BY <3>1, <3>2
  <2>3. ASSUME NEW k \in a..(b - 1) PROVE k \in 1..(m - 1) /\ k \notin S
    <3>1. k \in 1..(m - 1)
      BY <1>1, <2>2
    <3>2. ASSUME NEW j \in 1..N, k = c[j] PROVE FALSE
      <4>1. n # 1 => c[n - 1] < c[j]
        BY <1>3, <2>1, <3>2
      <4>2. n # N + 1 => c[j] < c[n]
        BY <1>3, <2>1, <3>2
      <4>3. n # 1 => n - 1 < j
        BY <1>3, <2>1, <4>1
      <4>4. n # N + 1 => j < n
        BY <1>3, <2>1, <4>2
      <4> QED
        BY <1>3, <2>1, <4>3, <4>4
    <3> QED
      BY <1>3, <3>1, <3>2
  <2>4. gap \in Nat /\ (n \in 2..N => gap > 0)
    <3> HIDE DEF a, b
    <3>1. gap \in Int /\ b - a >= 0
      BY <2>2
    <3>2. CASE n = 1 /\ n = N + 1
      <4>1. a = 1 /\ b = m
        BY <3>2 DEF a, b
      <4> QED
        BY <1>1, <1>3, <3>1, <3>2, <4>1
    <3>3. CASE n = 1 /\ n # N + 1
      <4>1. gap = (b - a) + 1 - 1 /\ ~(n \in 2..N)
        BY <3>3
      <4> QED
        BY <2>2, <3>1, <4>1
    <3>4. CASE n # 1
      <4>1. gap = (b - a) + w - 0 /\ (w = 0 \/ w = 1)
        BY <3>4
      <4>2. n \in 2..N => w = 1
        BY <1>3
      <4> HIDE DEF gap, w
      <4> QED
        BY <2>2, <3>1, <4>1, <4>2
    <3> QED
      BY <3>2, <3>3, <3>4
  <2> HIDE DEF a, b
  <2>5. ASSUME NEW f \in Files PROVE \A j \in a..b : u[f][j] = u[f][a] + (j - a) /\ u[f][a] \in Int
    <3> DEFINE v == u[f]
    <3>1. \A k \in a..b : v[k] \in Int
      BY <1>1, <2>2
    <3>2. \A k \in a..(b - 1) : v[k + 1] = v[k] + 1
      BY <1>2, <2>3
    <3>3. a \in Int /\ b \in Int /\ a <= b
      BY <2>2
    <3> HIDE DEF v
    <3>4. \A j \in a..b : v[j] = v[a] + (j - a)
      BY <3>1, <3>2, <3>3, Consecutive
    <3> QED
      BY <2>2, <3>1, <3>4 DEF v
  <2>6. ASSUME NEW f \in Files
        PROVE  /\ Past(s, f, n - 1) = u[f][a] + z /\ Past(s, f, n - 1) \in Nat
               /\ Until(s, equivs, f, n) = u[f][b] + w /\ Until(s, equivs, f, n) = Past(s, f, n - 1) + gap
               /\ Until(s, equivs, f, n) <= Len(equivs[f])
    <3>1. Past(s, f, n - 1) = u[f][a] + z
      <4>1. CASE n = 1
        BY <1>1, <4>1 DEF Past, a
      <4>2. CASE n # 1
        <5>1. n - 1 # 0 /\ n - 1 \in 1..N
          BY <2>1, <4>2
        <5>2. Past(s, f, n - 1) = u[f][c[n - 1] + 1]
          BY <1>4, <5>1 DEF Past
        <5>3. u[f][a] \in Int
          BY <1>1, <2>2
        <5> QED
          BY <4>2, <5>2, <5>3 DEF a
      <4> QED
        BY <4>1, <4>2
    <3>2. Until(s, equivs, f, n) = u[f][b] + w
      <4>0. u[f][b] \in Int
        BY <1>1, <2>2
      <4>1. CASE n = N + 1
        BY <1>1, <1>4, <4>0, <4>1 DEF Until, b
      <4>2. CASE n # N + 1
        BY <1>4, <2>1, <4>0, <4>2 DEF Until, b
      <4> QED
        BY <4>1, <4>2
    <3>3. u[f][b] = u[f][a] + (b - a) /\ u[f][a] \in Int
      BY <2>2, <2>5
    <3>4. Past(s, f, n - 1) \in Nat
      <4>1. CASE n = 1
        BY <4>1 DEF Past
      <4>2. CASE n # 1
        <5>1. a - 1 \in 1..(m - 1) /\ (a - 1) + 1 = a /\ a - 1 \in 1..m
          BY <1>1, <2>2, <4>2
        <5>2. u[f][a - 1] < u[f][a] /\ u[f][a - 1] \in Int /\ -1 <= u[f][a - 1]
          BY <1>1, <5>1
        <5> QED
          BY <3>1, <3>3, <4>2, <5>2
      <4> QED
        BY <4>1, <4>2
    <3>5. u[f][b] + w <= Len(equivs[f])
      <4>0. u[f][b] \in Int
        BY <1>1, <2>2
      <4>1. CASE n = N + 1
        BY <1>1, <4>0, <4>1 DEF b
      <4>2. CASE n # N + 1
        <5>1. b \in 1..(m - 1)
          BY <1>1, <2>2, <4>2
        <5>2. u[f][b] < Len(equivs[f])
          BY <1>1, <5>1
        <5>3. Len(equivs[f]) \in Int
          BY <1>1
        <5> QED
          BY <4>0, <4>2, <5>2, <5>3
      <4> QED
        BY <4>1, <4>2
    <3> QED
      BY <2>2, <3>1, <3>2, <3>3, <3>4, <3>5
  <2>7. ASSUME NEW k \in 1..gap
        PROVE  equivs[0][Past(s, 0, n - 1) + k] = equivs[1][Past(s, 1, n - 1) + k]
    <3> DEFINE j == a + z + k - 1
    <3>1. j \in a..b /\ j \in 2..(m - 1) /\ j - a = z + k - 1
      <4>1. CASE n = 1
        BY <1>1, <2>2, <2>4, <4>1 DEF a
      <4>2. CASE n # 1
        BY <1>1, <2>2, <2>4, <4>2
      <4> QED
        BY <4>1, <4>2
    <3>2. equivs[0][u[0][j] + 1] = equivs[1][u[1][j] + 1]
      BY <1>1, <3>1
    <3>3. ASSUME NEW f \in Files PROVE u[f][j] + 1 = Past(s, f, n - 1) + k
      <4>1. u[f][j] = u[f][a] + (j - a) /\ u[f][a] \in Int
        BY <2>5, <3>1
      <4>2. Past(s, f, n - 1) = u[f][a] + z
        BY <2>6
      <4> HIDE DEF j
      <4> QED
        BY <3>1, <4>1, <4>2
    <3> HIDE DEF j
    <3> QED
      BY <1>1, <3>2, <3>3
  <2> HIDE DEF gap, z, w
  <2>8. n \in 2..Len(s) => gap > 0
    BY <1>4, <2>4
  <2> QED
    BY <2>4, <2>6, <2>7, <2>8 DEF Bridged
<1> QED
  BY <1>4, <1>5 DEF IsChain

LEMMA BuildChain ==
  ASSUME ReadInv, FlagsSame, BuildScript
  PROVE  IsChain(script', equivs)
<1> DEFINE stops == [f \in Files |-> StopsAt(f)]
           m == Len(stops[0])
<1>1. script' = [n \in DOMAIN InOrder(ApartStops(stops, m)) |->
                   BetweenStops(stops, InOrder(ApartStops(stops, m))[n])]
  <2>1. PICK stop \in {stops} :
          LET Between(k) == Change(stop[0][k] + 1, stop[1][k] + 1,
                                   stop[0][k + 1] - stop[0][k] - 1,
                                   stop[1][k + 1] - stop[1][k] - 1)
          IN  \E changes \in {InOrder({k \in 1..(Len(stop[0]) - 1) :
                                     Between(k).deleted + Between(k).inserted > 0})} :
                 script' = [n \in DOMAIN changes |-> Between(changes[n])]
    BY DEF BuildScript, StopsAt
  <2> QED
    BY <2>1 DEF BetweenStops, ApartStops
<1>2. 0 \in Files /\ 1 \in Files /\ 1 - 0 = 1 /\ stops[0] = StopsAt(0) /\ stops[1] = StopsAt(1)
  BY DEF Files
<1>3. Alike(0, 1)
  BY <1>2 DEF FlagsSame
<1>4. Cardinality(Unflagged(0)) = Cardinality(Unflagged(1))
  BY <1>3 DEF Alike
<1>5. \A f \in Files : Cardinality(Unflagged(f)) = Cardinality(Unflagged(0))
  BY <1>4 DEF Files
<1> DEFINE c == Cardinality(Unflagged(0))
<1>6. ASSUME NEW f \in Files
      PROVE  /\ c + 2 \in Nat /\ c + 2 >= 2 /\ Len(StopsAt(f)) = c + 2
             /\ StopsAt(f)[1] = -1 /\ StopsAt(f)[c + 2] = Len(equivs[f])
             /\ \A k \in 2..((c + 2) - 1) : /\ StopsAt(f)[k] \in Unflagged(f)
                                            /\ Rank(Unflagged(f), StopsAt(f)[k]) = k - 2
             /\ \A k \in 1..(c + 2) : StopsAt(f)[k] \in Int /\ -1 <= StopsAt(f)[k]
             /\ \A k \in 1..((c + 2) - 1) : /\ StopsAt(f)[k] < StopsAt(f)[k + 1]
                                            /\ StopsAt(f)[k] < Len(equivs[f])
  <2>1. c + 2 = Cardinality(Unflagged(f)) + 2
    BY <1>5
  <2> HIDE DEF c
  <2> QED
    BY <2>1, StopsAtLines
<1>7. m = c + 2
  BY <1>2, <1>6
<1> HIDE DEF m, c
<1>8. ASSUME NEW k \in 2..(m - 1)
      PROVE  equivs[0][stops[0][k] + 1] = equivs[1][stops[1][k] + 1]
  <2>1. /\ StopsAt(0)[k] \in Unflagged(0) /\ StopsAt(1)[k] \in Unflagged(1)
        /\ Rank(Unflagged(0), StopsAt(0)[k]) = Rank(Unflagged(1), StopsAt(1)[k])
    BY <1>2, <1>6, <1>7
  <2> QED
    BY <1>2, <1>3, <2>1 DEF Alike
<1>9. \A f \in Files : stops[f] = StopsAt(f)
  OBVIOUS
<1> HIDE DEF stops
<1>10. Stops(stops, m)
  BY <1>2, <1>6, <1>7, <1>8, <1>9 DEF Stops
<1> QED
  BY <1>1, <1>10, ChainOfStops

LEMMA ChainInvNext ==
  ReadInv /\ ShiftInv /\ ChainInv /\ [Next]_vars => ChainInv'
<1> SUFFICES ASSUME ReadInv, ShiftInv, ChainInv, [Next]_vars, stage' = "done" PROVE IsChain(script', equivs')
  BY DEF ChainInv
<1>1. CASE BuildScript
  <2>1. equivs' = equivs /\ stage = "build"
    BY <1>1 DEF BuildScript, compared, reading
  <2>2. FlagsSame
    BY <2>1 DEF ShiftInv
  <2>3. IsChain(script', equivs)
    BY <1>1, <2>2, BuildChain
  <2> QED
    BY <2>1, <2>3
<1>2. CASE UNCHANGED <<equivs, script, stage>>
  <2>1. IsChain(script, equivs) /\ script' = script /\ equivs' = equivs
    BY <1>2 DEF ChainInv
  <2> QED
    BY <2>1
<1>3. ~BuildScript => UNCHANGED <<equivs, script, stage>>
  <2>1. CASE ReadStep \/ SearchStep
    BY <2>1, ReadSteps, SearchSteps DEF Reading, Comparing
  <2>2. CASE Discard \/ SimpleCase
    BY <2>2, SimpleSteps DEF Discard
  <2>3. CASE Scan \/ ShiftBack \/ ShiftForth \/ ReturnToCorresponding
    <3>1. stage' \in {"scan", "build", "back", "forth", "return"}
      BY <2>3 DEF Scan, ShiftBack, ShiftForth, ReturnToCorresponding
    <3> QED
      BY <3>1
  <2>4. CASE UNCHANGED vars
    BY <2>4 DEF vars
  <2> QED
    BY <2>1, <2>2, <2>3, <2>4, Steps DEF ShiftStep
<1> QED
  BY <1>1, <1>2, <1>3

LEMMA ChainInvariant == Spec => []EndsInv /\ []ChainInv
<1>1. Init => EndsInv /\ ChainInv
  BY DEF Init, EndsInv, ChainInv
<1>2. ComparingInv => ReadInv
  BY DEF ComparingInv
<1> QED
  BY <1>1, <1>2, ShiftInvariant, EndsInvNext, ChainInvNext, PTL DEF Spec

-----------------------------------------------------------------------------
(***************************************************************************)
(* What wdiff reads: the directives of the chain, numbered from 1 and in   *)
(* the whole file.                                                         *)
(***************************************************************************)
Flat == INSTANCE EditScript_proof

FileOf(side) == IF side = "left" THEN 0 ELSE 1

LEMMA FlattenWords ==
  ASSUME NEW S, NEW f \in Seq(Seq(S))
  PROVE  E!FlattenSeq(f) \in Seq(S)
<1>1. E!FlattenSeq(f) = Flat!FlattenSeq(f)
  BY DEF E!FlattenSeq, Flat!FlattenSeq
<1> QED
  BY <1>1, Flat!FlattenType

LEMMA InOrderAll ==
  ASSUME NEW n \in Nat
  PROVE  InOrder(1..n) = [k \in 1..n |-> k]
<1> DEFINE S == 1..n
<1>1. Within(S, n + 1) /\ n + 1 \in Nat
  BY DEF Within
<1>2. Cardinality(S) = n
  BY FS_Interval
<1>3. ASSUME NEW x \in S PROVE Rank(S, x) = x - 1
  <2>1. {y \in S : y < x} = 1..(x - 1)
    OBVIOUS
  <2>2. Cardinality(1..(x - 1)) = x - 1
    <3>1. 1 \in Int /\ x - 1 \in Int /\ ~(1 > x - 1) => x - 1 - 1 + 1 = x - 1
      OBVIOUS
    <3>2. Cardinality(1..(x - 1)) = IF 1 > x - 1 THEN 0 ELSE x - 1 - 1 + 1
      BY FS_Interval
    <3> QED
      BY <3>1, <3>2
  <2> QED
    BY <2>1, <2>2 DEF Rank
<1> HIDE DEF S
<1>4. /\ InOrder(S) \in Seq(S) /\ Len(InOrder(S)) = n
      /\ \A x \in S : InOrder(S)[Rank(S, x) + 1] = x
  BY <1>1, <1>2, InOrderListed
<1>5. \A k \in 1..n : InOrder(S)[k] = k
  <2> TAKE k \in 1..n
  <2>1. k \in S /\ (k - 1) + 1 = k
    BY DEF S
  <2>2. Rank(S, k) = k - 1
    BY <1>3, <2>1
  <2> QED
    BY <1>4, <2>1, <2>2
<1> QED
  BY <1>4, <1>5 DEF S

(* The directive of a change.                                              *)
DirectiveOf(c) ==
    [letter |-> Kinds(c.deleted, c.inserted),
     left |-> NumberRange(c.line0, c.line0 + c.deleted - 1),
     right |-> NumberRange(c.line1, c.line1 + c.inserted - 1)]

LEMMA NormalIs ==
  ASSUME script \in Seq(Changes0)
  PROVE  Normal(FALSE) = [n \in 1..Len(script) |-> DirectiveOf(script[n])]
<1> DEFINE hunk == [n \in DOMAIN script |-> AnalyzeHunk(script[n], FALSE)]
           shown == {n \in DOMAIN script : hunk[n].changes # "unchanged"}
           N == Len(script)
           Directive(h) == [letter |-> h.changes, left |-> NumberRange(h.first0, h.last0),
                            right |-> NumberRange(h.first1, h.last1)]
<1>1. N \in Nat /\ DOMAIN script = 1..N
  OBVIOUS
<1>2. \A n \in 1..N : /\ hunk[n] = AnalyzeHunk(script[n], FALSE)
                      /\ hunk[n].changes = Kinds(script[n].deleted, script[n].inserted)
                      /\ hunk[n].changes # "unchanged"
                      /\ hunk[n].first0 = script[n].line0
                      /\ hunk[n].last0 = script[n].line0 + script[n].deleted - 1
                      /\ hunk[n].first1 = script[n].line1
                      /\ hunk[n].last1 = script[n].line1 + script[n].inserted - 1
  BY <1>1 DEF AnalyzeHunk, Kinds
<1>3. Hunks(FALSE) = [k \in DOMAIN InOrder(shown) |-> hunk[InOrder(shown)[k]]]
  BY DEF Hunks
<1>4. Normal(FALSE) = [n \in DOMAIN Hunks(FALSE) |-> Directive(Hunks(FALSE)[n])]
  BY DEF Normal
<1> HIDE DEF hunk
<1>5. shown = 1..N
  BY <1>1, <1>2
<1> HIDE DEF shown
<1>6. Hunks(FALSE) = [k \in 1..N |-> hunk[k]]
  <2>1. InOrder(1..N) = [k \in 1..N |-> k]
    BY <1>1, InOrderAll
  <2> QED
    BY <1>3, <1>5, <2>1
<1>7. \A n \in 1..N : Directive(hunk[n]) = DirectiveOf(script[n])
  BY <1>2 DEF DirectiveOf
<1> HIDE DEF Directive
<1>8. DOMAIN Hunks(FALSE) = 1..N /\ \A n \in 1..N : Hunks(FALSE)[n] = hunk[n]
  BY <1>6
<1> QED
  BY <1>4, <1>7, <1>8

(* The words of a directive are the lines of its change.                   *)
LEMMA DirectiveReads ==
  ASSUME NEW c \in Changes0, c.deleted + c.inserted > 0, prefix_lines \in Nat, NEW s \in E!Side
  PROVE  LET h == DirectiveOf(c) IN
         /\ E!FirstWord(h, s) = prefix_lines + LineOf(c, FileOf(s)) + 1
         /\ E!LastWord(h, s) = prefix_lines + LineOf(c, FileOf(s)) + CountOf(c, FileOf(s))
         /\ h[s][1] <= h[s][2]
<1> DEFINE h == DirectiveOf(c)
           line == LineOf(c, FileOf(s))
           count == CountOf(c, FileOf(s))
<1>1. /\ c.line0 \in Nat /\ c.line1 \in Nat /\ c.deleted \in Nat /\ c.inserted \in Nat
      /\ line \in Nat /\ count \in Nat
  BY DEF Changes0, LineOf, CountOf, FileOf
<1>2. h[s] = NumberRange(line, line + count - 1)
  BY DEF E!Side, DirectiveOf, LineOf, CountOf, FileOf
<1>3. h.letter = (IF s = "left" THEN "a" ELSE "d") <=> count = 0
  <2>1. h.letter = Kinds(c.deleted, c.inserted)
    BY DEF DirectiveOf
  <2>2. CASE s = "left"
    <3>1. count = c.deleted
      BY <2>2 DEF CountOf, FileOf
    <3> QED
      BY <1>1, <2>1, <2>2, <3>1 DEF Kinds
  <2>3. CASE s = "right"
    <3>1. count = c.inserted
      BY <2>3 DEF CountOf, FileOf
    <3> QED
      BY <1>1, <2>1, <2>3, <3>1 DEF Kinds
  <2> QED
    BY <2>2, <2>3 DEF E!Side
<1> HIDE DEF h, line, count
<1>4. CASE count = 0
  <2>1. h[s] = <<line + prefix_lines, line + prefix_lines>>
    BY <1>1, <1>2, <1>4 DEF NumberRange, Real
  <2> QED
    BY <1>1, <1>3, <1>4, <2>1 DEF E!FirstWord, E!LastWord, h, line, count
<1>5. CASE count # 0
  <2>1. h[s] = <<line + prefix_lines + 1, line + count + prefix_lines>>
    <3>1. CASE count = 1
      BY <1>1, <1>2, <3>1 DEF NumberRange, Real
    <3>2. CASE count > 1
      BY <1>1, <1>2, <3>2 DEF NumberRange, Real
    <3> QED
      BY <1>1, <1>5, <3>1, <3>2
  <2>2. h[s][1] = line + prefix_lines + 1 /\ h[s][2] = line + count + prefix_lines
    BY <2>1
  <2>3. E!FirstWord(h, s) = h[s][1] /\ E!LastWord(h, s) = h[s][2]
    BY <1>3, <1>5 DEF E!FirstWord, E!LastWord
  <2>4. h[s][1] <= h[s][2] /\ E!FirstWord(h, s) = prefix_lines + line + 1
        /\ E!LastWord(h, s) = prefix_lines + line + count
    BY <1>1, <1>5, <2>2, <2>3
  <2> QED
    BY <2>4 DEF h, line, count
<1> QED
  BY <1>4, <1>5

(* What a script accounts for before its nth hunk, and the common lines    *)
(* between there and the lines that are compared.                          *)
Lead(n) == IF n = 1 THEN prefix_lines ELSE 0
From(f, n) == prefix_lines + Past(script, f, n - 1) - Lead(n)

ReadSame == ReadInv /\ EndsInv /\ ScriptInv /\ stage = "done" /\ IsChain(script, equivs)

LEMMA ReadTypes ==
  ASSUME ReadSame
  PROVE  /\ prefix_lines \in Nat /\ Len(script) \in Nat /\ script \in Seq(Changes0)
         /\ 0 \in Files /\ 1 \in Files /\ File(0) = input.old /\ File(1) = input.new
         /\ \A f \in Files : Len(File(f)) \in Nat /\ Len(equivs[f]) \in Nat
         /\ \A s \in E!Side : FileOf(s) \in Files /\ Total[s] = Len(File(FileOf(s)))
         /\ \E suffix \in Nat : Ends(suffix)
<1>1. input \in Cases
  BY DEF ReadSame, ReadInv
<1>2. \A f \in Files : Len(File(f)) \in Nat
  BY <1>1, FileTypes
<1>3. File(0) = input.old /\ File(1) = input.new /\ 0 \in Files /\ 1 \in Files
  BY DEF File, Files
<1>4. prefix_lines \in Nat
  BY <1>2, <1>3 DEF ReadSame, ReadInv
<1>5. \A f \in Files : Len(equivs[f]) \in Nat
  BY DEF ReadSame, ReadInv
<1>6. script \in Seq(Changes0) /\ Len(script) \in Nat
  BY DEF ReadSame, IsChain
<1>7. \A s \in E!Side : FileOf(s) \in Files /\ Total[s] = Len(File(FileOf(s)))
  BY <1>3 DEF FileOf, E!Side, Total
<1>8. \E suffix \in Nat : Ends(suffix)
  BY DEF ReadSame, EndsInv
<1> QED
  BY <1>2, <1>3, <1>4, <1>5, <1>6, <1>7, <1>8

LEMMA DirectivesRead ==
  ASSUME ReadSame
  PROVE  /\ Len(Normal(FALSE)) = Len(script) /\ DOMAIN Normal(FALSE) = 1..Len(script)
         /\ \A n \in 1..Len(script), s \in E!Side :
              LET h == Normal(FALSE)[n] IN
              /\ E!FirstWord(h, s) = prefix_lines + LineOf(script[n], FileOf(s)) + 1
              /\ E!LastWord(h, s) = prefix_lines + Past(script, FileOf(s), n)
              /\ LineOf(script[n], FileOf(s)) \in Nat /\ CountOf(script[n], FileOf(s)) \in Nat
              /\ Past(script, FileOf(s), n)
                   = LineOf(script[n], FileOf(s)) + CountOf(script[n], FileOf(s))
              /\ h[s][1] <= h[s][2]
<1> DEFINE D == Normal(FALSE)
           N == Len(script)
<1>1. /\ prefix_lines \in Nat /\ N \in Nat /\ script \in Seq(Changes0)
      /\ \A n \in 1..N : script[n] \in Changes0
  BY ReadTypes
<1>2. D = [n \in 1..N |-> DirectiveOf(script[n])]
  BY <1>1, NormalIs
<1>3. \A n \in 1..N : script[n].deleted + script[n].inserted > 0
  BY <1>1 DEF ReadSame, ScriptInv
<1> HIDE DEF D, N
<1>4. Len(D) = N /\ DOMAIN D = 1..N
  BY <1>1, <1>2
<1>5. ASSUME NEW n \in 1..N, NEW s \in E!Side
      PROVE  /\ E!FirstWord(D[n], s) = prefix_lines + LineOf(script[n], FileOf(s)) + 1
             /\ E!LastWord(D[n], s) = prefix_lines + Past(script, FileOf(s), n)
             /\ LineOf(script[n], FileOf(s)) \in Nat /\ CountOf(script[n], FileOf(s)) \in Nat
             /\ Past(script, FileOf(s), n)
                  = LineOf(script[n], FileOf(s)) + CountOf(script[n], FileOf(s))
             /\ D[n][s][1] <= D[n][s][2]
  <2> DEFINE c == script[n]
  <2>1. c \in Changes0 /\ c.deleted + c.inserted > 0 /\ D[n] = DirectiveOf(c)
    BY <1>1, <1>2, <1>3
  <2>2. n # 0
    BY <1>1
  <2>3. Past(script, FileOf(s), n) = LineOf(c, FileOf(s)) + CountOf(c, FileOf(s))
    BY <2>2 DEF Past
  <2> HIDE DEF c
  <2>4. LineOf(c, FileOf(s)) \in Nat /\ CountOf(c, FileOf(s)) \in Nat
    BY <2>1 DEF Changes0, LineOf, CountOf
  <2>5. /\ E!FirstWord(D[n], s) = prefix_lines + LineOf(c, FileOf(s)) + 1
        /\ E!LastWord(D[n], s) = prefix_lines + LineOf(c, FileOf(s)) + CountOf(c, FileOf(s))
        /\ D[n][s][1] <= D[n][s][2]
    BY <1>1, <2>1, DirectiveReads
  <2> QED
    BY <1>1, <2>3, <2>4, <2>5 DEF c
<1> QED
  BY <1>4, <1>5 DEF D, N

LEMMA GapsRead ==
  ASSUME ReadSame, NEW n \in 1..(Len(script) + 1)
  PROVE  \E gap \in Nat :
           /\ n \in 2..Len(script) => gap > 0
           /\ \A s \in E!Side :
                /\ E!Accounted(Normal(FALSE), n - 1, s) = From(FileOf(s), n)
                /\ From(FileOf(s), n) \in Nat
                /\ n <= Len(script) => E!Gap(Normal(FALSE), n, s) = gap + Lead(n)
           /\ \A f \in Files : /\ Past(script, f, n - 1) \in Nat
                               /\ Past(script, f, n - 1) + gap <= Len(equivs[f])
                               /\ n = Len(script) + 1 =>
                                    Past(script, f, n - 1) + gap = Len(equivs[f])
           /\ \A k \in 1..gap : equivs[0][Past(script, 0, n - 1) + k]
                                  = equivs[1][Past(script, 1, n - 1) + k]
<1> DEFINE D == Normal(FALSE)
           N == Len(script)
<1>1. /\ prefix_lines \in Nat /\ N \in Nat /\ \A s \in E!Side : FileOf(s) \in Files
      /\ \A f \in Files : Len(equivs[f]) \in Nat
  BY ReadTypes
<1>2. PICK gap \in Nat :
        /\ \A f \in Files : /\ Past(script, f, n - 1) \in Nat
                            /\ Until(script, equivs, f, n) = Past(script, f, n - 1) + gap
                            /\ Until(script, equivs, f, n) <= Len(equivs[f])
        /\ n \in 2..N => gap > 0
        /\ \A k \in 1..gap : equivs[0][Past(script, 0, n - 1) + k]
                               = equivs[1][Past(script, 1, n - 1) + k]
  BY DEF ReadSame, IsChain, Bridged
<1>3. /\ DOMAIN D = 1..N
      /\ \A k \in 1..N, s \in E!Side :
           /\ E!FirstWord(D[k], s) = prefix_lines + LineOf(script[k], FileOf(s)) + 1
           /\ E!LastWord(D[k], s) = prefix_lines + Past(script, FileOf(s), k)
           /\ LineOf(script[k], FileOf(s)) \in Nat
  BY DirectivesRead
<1> HIDE DEF D, N
<1>4. ASSUME NEW s \in E!Side
      PROVE  /\ E!Accounted(D, n - 1, s) = From(FileOf(s), n) /\ From(FileOf(s), n) \in Nat
             /\ n <= N => E!Gap(D, n, s) = gap + Lead(n)
  <2> DEFINE f == FileOf(s)
  <2>1. f \in Files /\ Past(script, f, n - 1) \in Nat
    BY <1>1, <1>2
  <2>2. E!Accounted(D, n - 1, s) = From(f, n) /\ From(f, n) \in Nat
    <3>1. CASE n = 1
      <4>1. Past(script, f, n - 1) = 0
        BY <3>1 DEF Past
      <4>2. From(f, n) = 0
        BY <1>1, <3>1, <4>1 DEF From, Lead
      <4> QED
        BY <3>1, <4>2 DEF E!Accounted
    <3>2. CASE n # 1
      <4>1. n - 1 \in 1..N /\ n - 1 # 0
        BY <1>1, <3>2 DEF N
      <4>2. From(f, n) = prefix_lines + Past(script, f, n - 1)
        BY <1>1, <2>1, <3>2 DEF From, Lead
      <4>3. E!Accounted(D, n - 1, s) = prefix_lines + Past(script, f, n - 1)
        BY <1>3, <4>1 DEF E!Accounted
      <4> QED
        BY <1>1, <2>1, <4>2, <4>3
    <3> QED
      BY <3>1, <3>2
  <2>3. ASSUME n <= N PROVE E!Gap(D, n, s) = gap + Lead(n)
    <3>1. n \in 1..N /\ n # N + 1
      BY <1>1, <2>3
    <3>2. LineOf(script[n], f) = Past(script, f, n - 1) + gap
      BY <1>2, <2>1, <3>1 DEF Until, N
    <3>3. /\ E!FirstWord(D[n], s) = prefix_lines + LineOf(script[n], f) + 1
          /\ LineOf(script[n], f) \in Nat
      BY <1>3, <3>1
    <3>4. E!Gap(D, n, s) = E!FirstWord(D[n], s) - E!Accounted(D, n - 1, s) - 1
      BY DEF E!Gap
    <3>5. From(f, n) = prefix_lines + Past(script, f, n - 1) - Lead(n) /\ Lead(n) \in Nat
      BY <1>1 DEF From, Lead
    <3> DEFINE x == Past(script, f, n - 1)
    <3>6. x \in Nat /\ prefix_lines \in Nat
      BY <1>1, <2>1
    <3>7. E!Gap(D, n, s) = (prefix_lines + (x + gap) + 1) - (prefix_lines + x - Lead(n)) - 1
      BY <2>2, <3>2, <3>3, <3>4, <3>5
    <3> HIDE DEF x
    <3> QED
      BY <3>5, <3>6, <3>7
  <2> QED
    BY <2>2, <2>3
<1>5. ASSUME NEW f \in Files
      PROVE  /\ Past(script, f, n - 1) \in Nat /\ Past(script, f, n - 1) + gap <= Len(equivs[f])
             /\ n = N + 1 => Past(script, f, n - 1) + gap = Len(equivs[f])
  BY <1>2 DEF Until, N
<1> QED
  BY <1>2, <1>4, <1>5 DEF D, N

(* Behind the nth - 1 hunk: the end of the prefix, lines of the same class *)
(* and, behind the last hunk, the suffix.                                  *)
LEMMA CommonBehind ==
  ASSUME ReadSame, NEW n \in 1..(Len(script) + 1), NEW gap \in Nat, NEW more \in Nat,
         \A f \in Files : Past(script, f, n - 1) \in Nat
                          /\ Past(script, f, n - 1) + gap <= Len(equivs[f]),
         \A k \in 1..gap : equivs[0][Past(script, 0, n - 1) + k]
                             = equivs[1][Past(script, 1, n - 1) + k],
         more > 0 => Ends(more) /\ \A f \in Files : Past(script, f, n - 1) + gap = Len(equivs[f])
  PROVE  \A k \in 1..(Lead(n) + gap + more) :
           Class(File(0)[From(0, n) + k]) = Class(File(1)[From(1, n) + k])
<1> DEFINE p == prefix_lines
           q(f) == Past(script, f, n - 1)
<1>1. /\ p \in Nat /\ 0 \in Files /\ 1 \in Files /\ \A f \in Files : Len(equivs[f]) \in Nat
      /\ \A f \in Files : q(f) \in Nat /\ q(f) + gap <= Len(equivs[f])
      /\ Lead(n) \in Nat /\ \A f \in Files : From(f, n) = p + q(f) - Lead(n)
  BY ReadTypes DEF From, Lead
<1>2. n = 1 => Lead(n) = p /\ q(0) = 0 /\ q(1) = 0
  BY DEF Lead, Past
<1>3. n # 1 => Lead(n) = 0
  BY DEF Lead
<1>4. \A f \in Files : \A k \in 1..Len(equivs[f]) : equivs[f][k] = Class(File(f)[p + k])
  BY ReadTypes DEF Ends
<1>5. \A k \in 1..p : File(0)[k] = File(1)[k]
  BY DEF ReadSame, EndsInv
<1>6. more > 0 => /\ q(0) + gap = Len(equivs[0]) /\ q(1) + gap = Len(equivs[1])
                  /\ \A k \in 1..more : File(0)[p + Len(equivs[0]) + k]
                                          = File(1)[p + Len(equivs[1]) + k]
  BY <1>1 DEF Ends
<1> DEFINE l == Lead(n)
           q0 == q(0)
           q1 == q(1)
           e0 == Len(equivs[0])
           e1 == Len(equivs[1])
           b0 == From(0, n)
           b1 == From(1, n)
<1>7. /\ p \in Nat /\ l \in Nat /\ q0 \in Nat /\ q1 \in Nat /\ e0 \in Nat /\ e1 \in Nat
      /\ q0 + gap <= e0 /\ q1 + gap <= e1 /\ b0 = p + q0 - l /\ b1 = p + q1 - l
      /\ (n = 1 => l = p /\ q0 = 0 /\ q1 = 0) /\ (n # 1 => l = 0)
      /\ (more > 0 => q0 + gap = e0 /\ q1 + gap = e1)
  BY <1>1, <1>2, <1>3, <1>6
<1>8. /\ \A i \in 1..e0 : equivs[0][i] = Class(File(0)[p + i])
      /\ \A i \in 1..e1 : equivs[1][i] = Class(File(1)[p + i])
  BY <1>1, <1>4
<1>9. \A i \in 1..gap : equivs[0][q0 + i] = equivs[1][q1 + i]
  OBVIOUS
<1>10. more > 0 => \A i \in 1..more : File(0)[p + e0 + i] = File(1)[p + e1 + i]
  BY <1>6
<1> SUFFICES ASSUME NEW k \in 1..(l + gap + more)
             PROVE  Class(File(0)[b0 + k]) = Class(File(1)[b1 + k])
  OBVIOUS
<1> HIDE DEF p, q, l, q0, q1, e0, e1, b0, b1
<1>11. CASE k <= l
  <2>1. n = 1 /\ k \in 1..p
    BY <1>7, <1>11
  <2>2. b0 + k = k /\ b1 + k = k
    BY <1>7, <2>1
  <2> QED
    BY <1>5, <2>1, <2>2
<1>12. CASE k > l /\ k <= l + gap
  <2> DEFINE i == k - l
  <2>1. i \in 1..gap /\ k = l + i
    BY <1>7, <1>12
  <2> HIDE DEF i
  <2>2. /\ q0 + i \in 1..e0 /\ q1 + i \in 1..e1
        /\ b0 + k = p + (q0 + i) /\ b1 + k = p + (q1 + i)
    BY <1>7, <2>1
  <2>3. equivs[0][q0 + i] = equivs[1][q1 + i]
    BY <1>9, <2>1
  <2> QED
    BY <1>8, <2>2, <2>3
<1>13. CASE k > l + gap
  <2> DEFINE i == k - (l + gap)
  <2>1. i \in 1..more /\ more > 0 /\ k = l + gap + i
    BY <1>7, <1>13
  <2> HIDE DEF i
  <2>2. b0 + k = p + e0 + i /\ b1 + k = p + e1 + i
    BY <1>7, <2>1
  <2> QED
    BY <1>10, <2>1, <2>2
<1>14. k <= l \/ (k > l /\ k <= l + gap) \/ k > l + gap
  BY <1>7
<1> QED
  BY <1>11, <1>12, <1>13, <1>14

(* A column of the transcript that is right: common words are common.      *)
Right == {w \in [kind : {"common", "deleted", "inserted"}, left : Int, right : Int] :
            w.kind = "common" => Class(input.old[w.left]) = Class(input.new[w.right])}

LEMMA CommonRight ==
  ASSUME NEW i \in Int, NEW j \in Int, NEW n \in Nat,
         \A k \in 1..n : Class(input.old[i + k]) = Class(input.new[j + k])
  PROVE  E!CommonWords(i, j, n) \in Seq(Right)
<1>1. \A k \in 1..n : E!Column("common", i + k, j + k) \in Right
  BY DEF E!Column, Right
<1> QED
  BY <1>1 DEF E!CommonWords

LEMMA HunkRight ==
  ASSUME NEW h, \A s \in E!Side : /\ E!FirstWord(h, s) \in Int /\ E!LastWord(h, s) \in Int
                                  /\ E!LastWord(h, s) - E!FirstWord(h, s) + 1 \in Nat
  PROVE  E!HunkWords(h) \in Seq(Right)
<1> DEFINE a == E!FirstWord(h, "left")
           b == E!FirstWord(h, "right")
           m == E!LastWord(h, "left") - E!FirstWord(h, "left") + 1
           n == E!LastWord(h, "right") - E!FirstWord(h, "right") + 1
           left == [k \in 1..m |-> E!Column("deleted", a + k - 1, 0)]
           right == [k \in 1..n |-> E!Column("inserted", 0, b + k - 1)]
<1>1. a \in Int /\ b \in Int /\ m \in Nat /\ n \in Nat
  BY DEF E!Side
<1>2. E!HunkWords(h) = left \o right
  BY DEF E!HunkWords
<1> HIDE DEF a, b, m, n
<1>3. /\ \A k \in 1..m : E!Column("deleted", a + k - 1, 0) \in Right
      /\ \A k \in 1..n : E!Column("inserted", 0, b + k - 1) \in Right
  BY <1>1 DEF E!Column, Right
<1>4. left \in Seq(Right) /\ right \in Seq(Right)
  BY <1>1, <1>3
<1> HIDE DEF left, right
<1> QED
  BY <1>2, <1>4

LEMMA ScriptReads ==
  ASSUME ReadSame
  PROVE  E!IsScript(Normal(FALSE), Total)
<1> DEFINE D == Normal(FALSE)
           N == Len(script)
<1>1. /\ N \in Nat /\ Len(D) = N /\ DOMAIN D = 1..N
      /\ prefix_lines \in Nat /\ "left" \in E!Side /\ "right" \in E!Side
  BY ReadTypes, DirectivesRead DEF E!Side
<1>2. ASSUME NEW n \in 1..N
      PROVE  /\ E!WellFormed(D[n])
             /\ E!Gap(D, n, "left") = E!Gap(D, n, "right")
             /\ E!Gap(D, n, "left") >= (IF n = 1 THEN 0 ELSE 1)
  <2>1. E!WellFormed(D[n])
    BY DirectivesRead DEF E!WellFormed
  <2>2. n \in 1..(N + 1) /\ n <= N
    BY <1>1
  <2>3. PICK gap \in Nat : /\ n \in 2..N => gap > 0
                           /\ \A s \in E!Side : E!Gap(D, n, s) = gap + Lead(n)
    BY <2>2, GapsRead
  <2>4. Lead(n) \in Nat
    BY <1>1 DEF Lead
  <2>5. E!Gap(D, n, "left") = gap + Lead(n) /\ E!Gap(D, n, "right") = gap + Lead(n)
    BY <1>1, <2>3
  <2>6. gap + Lead(n) >= (IF n = 1 THEN 0 ELSE 1)
    BY <1>1, <2>2, <2>3, <2>4
  <2> QED
    BY <2>1, <2>5, <2>6
<1>3. /\ Total["left"] - E!Accounted(D, N, "left") = Total["right"] - E!Accounted(D, N, "right")
      /\ Total["left"] >= E!Accounted(D, N, "left")
  <2> DEFINE n == N + 1
  <2>1. n \in 1..(N + 1) /\ n - 1 = N /\ ~(n <= N)
    BY <1>1
  <2>2. PICK gap \in Nat :
          /\ \A s \in E!Side : E!Accounted(D, n - 1, s) = From(FileOf(s), n)
          /\ \A f \in Files : /\ Past(script, f, n - 1) \in Nat
                              /\ Past(script, f, n - 1) + gap = Len(equivs[f])
    BY <2>1, GapsRead
  <2>3. PICK suffix \in Nat : Ends(suffix)
    BY ReadTypes
  <2>4. ASSUME NEW s \in E!Side
        PROVE  /\ Total[s] - E!Accounted(D, N, s) = gap + suffix + Lead(n)
               /\ E!Accounted(D, N, s) <= Total[s]
    <3> DEFINE f == FileOf(s)
    <3>1. f \in Files /\ Total[s] = Len(File(f))
      BY ReadTypes
    <3>2. Len(File(f)) = prefix_lines + Len(equivs[f]) + suffix
      BY <2>3, <3>1 DEF Ends
    <3>3. /\ Past(script, f, n - 1) \in Nat
          /\ Past(script, f, n - 1) + gap = Len(equivs[f])
      BY <2>2, <3>1
    <3>4. E!Accounted(D, N, s) = prefix_lines + Past(script, f, n - 1) - Lead(n)
      BY <2>1, <2>2 DEF From
    <3>5. Lead(n) \in Nat
      BY <1>1 DEF Lead
    <3> DEFINE x == Past(script, f, n - 1)
    <3>6. /\ x \in Nat /\ Total[s] = prefix_lines + (x + gap) + suffix
          /\ E!Accounted(D, N, s) = prefix_lines + x - Lead(n)
      BY <3>1, <3>2, <3>3, <3>4
    <3> DEFINE a == E!Accounted(D, N, s)
               t == Total[s]
               l == Lead(n)
    <3>7. /\ x \in Nat /\ l \in Nat /\ prefix_lines \in Nat
          /\ t = prefix_lines + (x + gap) + suffix /\ a = prefix_lines + x - l
      BY <1>1, <3>5, <3>6
    <3> HIDE DEF x, a, t, l
    <3>8. t - a = gap + suffix + l /\ a <= t
      BY <3>7
    <3> QED
      BY <3>8 DEF a, t, l
  <2>5. Lead(n) \in Nat
    BY <1>1 DEF Lead
  <2> HIDE DEF n, D, N
  <2> QED
    BY <1>1, <2>4
<1> HIDE DEF D, N
<1>4. E!IsScript(D, Total)
  BY <1>1, <1>2, <1>3 DEF E!IsScript
<1> QED
  BY <1>4 DEF D

LEMMA TranscriptRight ==
  ASSUME ReadSame
  PROVE  E!Transcript(Normal(FALSE), Total) \in Seq(Right)
<1> DEFINE D == Normal(FALSE)
           N == Len(script)
           Shared(n) == E!CommonWords(E!Accounted(D, n - 1, "left"),
                                      E!Accounted(D, n - 1, "right"), E!Gap(D, n, "left"))
           parts == [n \in DOMAIN D |-> Shared(n) \o E!HunkWords(D[n])]
           rest == E!CommonWords(E!Accounted(D, Len(D), "left"), E!Accounted(D, Len(D), "right"),
                                 Total["left"] - E!Accounted(D, Len(D), "left"))
<1>1. /\ N \in Nat /\ Len(D) = N /\ DOMAIN D = 1..N
      /\ prefix_lines \in Nat /\ "left" \in E!Side /\ "right" \in E!Side
      /\ FileOf("left") = 0 /\ FileOf("right") = 1 /\ 0 \in Files
      /\ File(0) = input.old /\ File(1) = input.new
  BY ReadTypes, DirectivesRead DEF E!Side, FileOf
<1>2. E!Transcript(D, Total) = E!FlattenSeq(parts) \o rest
  BY DEF E!Transcript
<1>3. ASSUME NEW n \in 1..N PROVE Shared(n) \in Seq(Right)
  <2>1. n \in 1..(N + 1) /\ n <= N
    BY <1>1
  <2>2. PICK gap \in Nat :
          /\ \A s \in E!Side : /\ E!Accounted(D, n - 1, s) = From(FileOf(s), n)
                               /\ From(FileOf(s), n) \in Nat
                               /\ E!Gap(D, n, s) = gap + Lead(n)
          /\ \A f \in Files : /\ Past(script, f, n - 1) \in Nat
                              /\ Past(script, f, n - 1) + gap <= Len(equivs[f])
          /\ \A k \in 1..gap : equivs[0][Past(script, 0, n - 1) + k]
                                 = equivs[1][Past(script, 1, n - 1) + k]
    BY <2>1, GapsRead
  <2> HIDE DEF D
  <2>3. \A k \in 1..(Lead(n) + gap + 0) :
          Class(File(0)[From(0, n) + k]) = Class(File(1)[From(1, n) + k])
    <3>1. 0 \in Nat /\ ~(0 > 0)
      OBVIOUS
    <3>2. n \in 1..(Len(script) + 1)
      BY <2>1
    <3> QED
      BY <2>2, <3>1, <3>2, CommonBehind, Zenon
  <2>4. Lead(n) \in Nat /\ gap + Lead(n) \in Nat /\ Lead(n) + gap + 0 = gap + Lead(n)
    BY <1>1 DEF Lead
  <2>5. \A k \in 1..(gap + Lead(n)) :
          Class(input.old[From(0, n) + k]) = Class(input.new[From(1, n) + k])
    BY <1>1, <2>3, <2>4
  <2>6. /\ E!Accounted(D, n - 1, "left") = From(0, n)
        /\ E!Accounted(D, n - 1, "right") = From(1, n)
        /\ E!Gap(D, n, "left") = gap + Lead(n) /\ From(0, n) \in Int /\ From(1, n) \in Int
    BY <1>1, <2>2
  <2>7. E!CommonWords(From(0, n), From(1, n), gap + Lead(n)) \in Seq(Right)
    BY <2>4, <2>5, <2>6, CommonRight
  <2> QED
    BY <2>6, <2>7
<1>4. ASSUME NEW n \in 1..N PROVE E!HunkWords(D[n]) \in Seq(Right)
  <2>1. ASSUME NEW s \in E!Side
        PROVE  /\ E!FirstWord(D[n], s) \in Int /\ E!LastWord(D[n], s) \in Int
               /\ E!LastWord(D[n], s) - E!FirstWord(D[n], s) + 1 \in Nat
    <3> DEFINE x == LineOf(script[n], FileOf(s))
               y == CountOf(script[n], FileOf(s))
               a == E!FirstWord(D[n], s)
               b == E!LastWord(D[n], s)
    <3>1. a = prefix_lines + x + 1 /\ b = prefix_lines + (x + y) /\ x \in Nat /\ y \in Nat
      BY DirectivesRead
    <3>2. prefix_lines \in Nat
      BY <1>1
    <3> HIDE DEF x, y, a, b
    <3>3. a \in Int /\ b \in Int /\ b - a + 1 \in Nat
      BY <3>1, <3>2
    <3> QED
      BY <3>3 DEF a, b
  <2> QED
    BY <2>1, HunkRight
<1>5. rest \in Seq(Right)
  <2> DEFINE n == N + 1
  <2>1. n \in 1..(N + 1) /\ n - 1 = N /\ ~(n <= N)
    BY <1>1
  <2>2. PICK gap \in Nat :
          /\ \A s \in E!Side : /\ E!Accounted(D, n - 1, s) = From(FileOf(s), n)
                               /\ From(FileOf(s), n) \in Nat
          /\ \A f \in Files : /\ Past(script, f, n - 1) \in Nat
                              /\ Past(script, f, n - 1) + gap <= Len(equivs[f])
                              /\ Past(script, f, n - 1) + gap = Len(equivs[f])
          /\ \A k \in 1..gap : equivs[0][Past(script, 0, n - 1) + k]
                                 = equivs[1][Past(script, 1, n - 1) + k]
    BY <2>1, GapsRead
  <2>3. PICK suffix \in Nat : Ends(suffix)
    BY ReadTypes
  <2>4. \A k \in 1..(Lead(n) + gap + suffix) :
          Class(File(0)[From(0, n) + k]) = Class(File(1)[From(1, n) + k])
    BY <2>1, <2>2, <2>3, CommonBehind
  <2>5. /\ Total["left"] = prefix_lines + Len(equivs[0]) + suffix
        /\ Past(script, 0, n - 1) + gap = Len(equivs[0]) /\ Past(script, 0, n - 1) \in Nat
    BY <1>1, <2>2, <2>3, ReadTypes DEF Ends
  <2>6. From(0, n) = prefix_lines + Past(script, 0, n - 1) - Lead(n) /\ Lead(n) \in Nat
    BY <1>1 DEF From, Lead
  <2> DEFINE x == Past(script, 0, n - 1)
  <2> HIDE DEF n
  <2>7. Total["left"] - From(0, n) = Lead(n) + gap + suffix /\ Lead(n) + gap + suffix \in Nat
    <3>1. x \in Nat /\ From(0, n) = prefix_lines + x - Lead(n)
          /\ Total["left"] = prefix_lines + (x + gap) + suffix
      BY <2>5, <2>6
    <3> HIDE DEF x
    <3> QED
      BY <1>1, <2>6, <3>1
  <2>8. \A k \in 1..(Lead(n) + gap + suffix) :
          Class(input.old[From(0, n) + k]) = Class(input.new[From(1, n) + k])
    BY <1>1, <2>4
  <2>9. /\ From(0, n) \in Int /\ From(1, n) \in Int
        /\ E!Accounted(D, n - 1, "left") = From(0, n)
        /\ E!Accounted(D, n - 1, "right") = From(1, n)
    <3> HIDE DEF D
    <3> QED
      BY <1>1, <2>2
  <2>10. E!CommonWords(From(0, n), From(1, n), Lead(n) + gap + suffix) \in Seq(Right)
    BY <2>7, <2>8, <2>9, CommonRight
  <2>11. rest = E!CommonWords(From(0, n), From(1, n), Lead(n) + gap + suffix)
    BY <1>1, <2>1, <2>7, <2>9
  <2> QED
    BY <2>10, <2>11
<1> HIDE DEF Shared, D, N, rest
<1>6. parts \in Seq(Seq(Right))
  <2>1. \A n \in 1..N : Shared(n) \o E!HunkWords(D[n]) \in Seq(Right)
    <3> TAKE n \in 1..N
    <3>1. Shared(n) \in Seq(Right) /\ E!HunkWords(D[n]) \in Seq(Right)
      BY <1>3, <1>4
    <3> QED
      BY <3>1
  <2> QED
    BY <1>1, <2>1
<1> HIDE DEF parts
<1>7. E!FlattenSeq(parts) \in Seq(Right)
  BY <1>6, FlattenWords
<1>8. E!FlattenSeq(parts) \o rest \in Seq(Right)
  BY <1>5, <1>7
<1> QED
  BY <1>2, <1>8 DEF D

(* What wdiff reads of diff is a script as WdiffReformat assumes it, and   *)
(* the words that no hunk names are the same, for files of any length: of  *)
(* lines that are not flagged there are as many in both files, they match, *)
(* and between two changes of the chain there is one.                      *)
THEOREM RunsReadable == Spec => []WdiffReads
<1>1. ComparingInv => ReadInv
  BY DEF ComparingInv
<1>2. ReadInv /\ ScriptInv /\ EndsInv /\ ChainInv => WdiffReads
  <2> SUFFICES ASSUME ReadInv, ScriptInv, EndsInv, ChainInv, stage = "done" PROVE WdiffReads
    BY DEF WdiffReads
  <2>1. ReadSame
    BY DEF ReadSame, ChainInv
  <2> DEFINE words == E!Transcript(Normal(FALSE), Total)
  <2>2. E!IsScript(Normal(FALSE), Total) /\ words \in Seq(Right)
    BY <2>1, ScriptReads, TranscriptRight
  <2> HIDE DEF words
  <2>3. \A k \in DOMAIN words : words[k].kind = "common" =>
          Class(input.old[words[k].left]) = Class(input.new[words[k].right])
    <3>1. \A k \in DOMAIN words : words[k] \in Right
      BY <2>2
    <3> QED
      BY <3>1 DEF Right
  <2> QED
    BY <2>2, <2>3 DEF WdiffReads, words
<1>3. Init => ScriptInv
  BY DEF Init, ScriptInv
<1>4. Spec => []ScriptInv
  BY <1>1, <1>3, ComparingInvariant, ScriptInvNext, PTL DEF Spec
<1> QED
  BY <1>1, <1>2, <1>4, ComparingInvariant, ChainInvariant, PTL

-----------------------------------------------------------------------------
(***************************************************************************)
(* Side by side: what the columns of a listing hold.                       *)
(***************************************************************************)
Marks == {" ", "|", "<", ">", "(", ")"}
SideRow == [left : Seq(Lines), mark : Marks, right : Seq(Lines)]

LEMMA FlattenSame == \A f : FlattenSeq(f) = Flat!FlattenSeq(f)
BY DEF FlattenSeq, Flat!FlattenSeq

LEMMA IsJoin ==
  ASSUME NEW S, NEW c \in Seq(S), NEW d \in Seq(S), NEW e \in Seq(S),
         Len(e) = Len(c) + Len(d),
         \A k \in 1..Len(c) : e[k] = c[k], \A k \in 1..Len(d) : e[Len(c) + k] = d[k]
  PROVE  e = c \o d
<1> DEFINE w == c \o d
           m == Len(c)
           n == Len(d)
<1>1. w \in Seq(S) /\ Len(w) = m + n /\ m \in Nat /\ n \in Nat
  BY Flat!Joining
<1>2. \A k \in 1..m : w[k] = c[k]
  BY Flat!Joining
<1>3. \A k \in 1..n : w[m + k] = d[k]
  BY Flat!Joining
<1> HIDE DEF w, m, n
<1>4. ASSUME NEW k \in 1..(m + n) PROVE e[k] = w[k]
  <2>1. CASE k <= m
    BY <1>1, <1>2, <2>1 DEF m
  <2>2. CASE k > m
    <3>1. k - m \in 1..n /\ m + (k - m) = k
      BY <1>1, <2>2
    <3> QED
      BY <1>3, <3>1 DEF m, n
  <2> QED
    BY <1>1, <2>1, <2>2
<1>5. Len(e) = m + n
  BY DEF m, n
<1>6. e = w
  BY <1>1, <1>4, <1>5, Flat!SameSequence
<1> QED
  BY <1>6 DEF w

LEMMA RowCells ==
  ASSUME NEW u, NEW m, NEW v, NEW r, r = Row(u, m, v), NEW s
  PROVE  (s = "left" => r[s] = u) /\ (s = "right" => r[s] = v)
BY DEF Row

LEMMA ColumnType ==
  ASSUME NEW rows \in Seq(SideRow), NEW side \in E!Side
  PROVE  /\ [k \in DOMAIN rows |-> rows[k][side]] \in Seq(Seq(Lines))
         /\ ColumnOf(rows, side) \in Seq(Lines)
<1> DEFINE cells == [k \in DOMAIN rows |-> rows[k][side]]
<1>1. ASSUME NEW k \in DOMAIN rows PROVE rows[k][side] \in Seq(Lines)
  <2>1. rows[k] \in SideRow
    OBVIOUS
  <2>2. rows[k].left \in Seq(Lines) /\ rows[k].right \in Seq(Lines)
    BY <2>1 DEF SideRow
  <2>3. side = "left" \/ side = "right"
    BY DEF E!Side
  <2> QED
    BY <2>2, <2>3
<1>2. cells \in Seq(Seq(Lines))
  BY <1>1
<1>3. ColumnOf(rows, side) = Flat!FlattenSeq(cells)
  BY FlattenSame DEF ColumnOf
<1> HIDE DEF cells
<1>4. Flat!FlattenSeq(cells) \in Seq(Lines)
  BY <1>2, Flat!FlattenType
<1> QED
  BY <1>2, <1>3, <1>4 DEF cells

LEMMA ColumnBoth ==
  ASSUME NEW a \in Seq(SideRow), NEW b \in Seq(SideRow), NEW side \in E!Side
  PROVE  /\ a \o b \in Seq(SideRow)
         /\ ColumnOf(a \o b, side) = ColumnOf(a, side) \o ColumnOf(b, side)
<1> DEFINE Cells(r) == [k \in DOMAIN r |-> r[k][side]]
<1>1. a \o b \in Seq(SideRow)
  OBVIOUS
<1>2. /\ ColumnOf(a, side) = Flat!FlattenSeq(Cells(a))
      /\ ColumnOf(b, side) = Flat!FlattenSeq(Cells(b))
      /\ ColumnOf(a \o b, side) = Flat!FlattenSeq(Cells(a \o b))
  BY FlattenSame, Zenon DEF ColumnOf
<1>3. Cells(a) \in Seq(Seq(Lines)) /\ Cells(b) \in Seq(Seq(Lines))
      /\ Cells(a \o b) \in Seq(Seq(Lines))
  BY <1>1, ColumnType
<1>4. /\ Len(Cells(a)) = Len(a) /\ Len(Cells(b)) = Len(b)
      /\ Len(Cells(a \o b)) = Len(a) + Len(b)
      /\ Len(a) \in Nat /\ Len(b) \in Nat
  OBVIOUS
<1>5. \A k \in 1..Len(a) : Cells(a)[k] = a[k][side] /\ Cells(a \o b)[k] = a[k][side]
  OBVIOUS
<1>6. \A k \in 1..Len(b) : Cells(b)[k] = b[k][side] /\ Cells(a \o b)[Len(a) + k] = b[k][side]
  OBVIOUS
<1> HIDE DEF Cells
<1>7. Cells(a \o b) = Cells(a) \o Cells(b)
  <2> DEFINE c == Cells(a)
             d == Cells(b)
             e == Cells(a \o b)
             m == Len(a)
             n == Len(b)
  <2>5. /\ c \in Seq(Seq(Lines)) /\ d \in Seq(Seq(Lines)) /\ e \in Seq(Seq(Lines))
        /\ Len(c) = m /\ Len(d) = n /\ Len(e) = m + n /\ m \in Nat /\ n \in Nat
    BY <1>3, <1>4
  <2>6. /\ \A k \in 1..m : e[k] = c[k]
        /\ \A k \in 1..n : e[m + k] = d[k]
    BY <1>5, <1>6
  <2> HIDE DEF c, d, e, m, n
  <2>4. e = c \o d
    <3>1. /\ Len(e) = Len(c) + Len(d)
          /\ \A k \in 1..Len(c) : e[k] = c[k]
          /\ \A k \in 1..Len(d) : e[Len(c) + k] = d[k]
      BY <2>5, <2>6
    <3> QED
      BY <2>5, <3>1, IsJoin
  <2> QED
    BY <2>4 DEF c, d, e
<1>8. Flat!FlattenSeq(Cells(a) \o Cells(b))
        = Flat!FlattenSeq(Cells(a)) \o Flat!FlattenSeq(Cells(b))
  BY <1>3, Flat!FlattenBoth
<1> QED
  BY <1>1, <1>2, <1>7, <1>8, Zenon

LEMMA ColumnWhole ==
  ASSUME NEW rows \in Seq(SideRow), NEW side \in E!Side, NEW text \in Seq(Lines),
         Len(text) = Len(rows), \A k \in 1..Len(rows) : rows[k][side] = <<text[k]>>
  PROVE  ColumnOf(rows, side) = text
<1> DEFINE cells == [k \in DOMAIN rows |-> rows[k][side]]
<1>1. ColumnOf(rows, side) = Flat!FlattenSeq(cells)
  BY FlattenSame DEF ColumnOf
<1>2. cells \in Seq(Seq(Lines))
  BY ColumnType
<1>3. Len(cells) = Len(rows) /\ \A k \in 1..Len(rows) : cells[k] = rows[k][side]
  OBVIOUS
<1> HIDE DEF cells
<1>4. Flat!FlattenSeq(cells) = text
  BY <1>2, <1>3, Flat!FlattenSingles
<1> QED
  BY <1>1, <1>4

LEMMA ColumnNone ==
  ASSUME NEW rows \in Seq(SideRow), NEW side \in E!Side,
         \A k \in 1..Len(rows) : rows[k][side] = <<>>
  PROVE  ColumnOf(rows, side) = <<>>
<1> DEFINE cells == [k \in DOMAIN rows |-> rows[k][side]]
<1>1. ColumnOf(rows, side) = Flat!FlattenSeq(cells)
  BY FlattenSame DEF ColumnOf
<1>2. cells \in Seq(Seq(Lines))
  BY ColumnType
<1>3. Len(cells) = Len(rows) /\ \A k \in 1..Len(rows) : cells[k] = rows[k][side]
  OBVIOUS
<1> HIDE DEF cells
<1>4. Flat!FlattenSeq(cells) = <<>>
  BY <1>2, <1>3, Flat!FlattenNothing
<1> QED
  BY <1>1, <1>4

LEMMA ColumnEmpty ==
  ASSUME NEW side \in E!Side
  PROVE  <<>> \in Seq(SideRow) /\ ColumnOf(<<>>, side) = <<>>
<1>1. <<>> \in Seq(SideRow) /\ \A k \in 1..Len(<<>>) : <<>>[k][side] = <<>>
  OBVIOUS
<1> QED
  BY <1>1, ColumnNone

(* Two texts beside each other, the rest of the longer one below.          *)
Columns(left, right, m, m1, m2) ==
    LET both == Smaller(Len(left), Len(right))
    IN  [k \in 1..both |-> Row(<<left[k]>>, m, <<right[k]>>)] \o
        [k \in 1..(Len(right) - both) |-> Row(None, m1, <<right[both + k]>>)] \o
        [k \in 1..(Len(left) - both) |-> Row(<<left[both + k]>>, m2, None)]

Firsts(t, n) == [k \in 1..n |-> t[k]]
Others(t, n, l) == [k \in 1..l |-> t[n + k]]

LEMMA Parted2 ==
  ASSUME NEW t \in Seq(Lines), NEW n \in Nat, NEW l \in Nat, Len(t) = n + l
  PROVE  /\ Firsts(t, n) \in Seq(Lines) /\ Len(Firsts(t, n)) = n
         /\ \A k \in 1..n : Firsts(t, n)[k] = t[k]
         /\ Others(t, n, l) \in Seq(Lines) /\ Len(Others(t, n, l)) = l
         /\ \A k \in 1..l : Others(t, n, l)[k] = t[n + k]
         /\ Firsts(t, n) \o Others(t, n, l) = t
<1> DEFINE h == Firsts(t, n)
           u == Others(t, n, l)
<1>1. \A k \in 1..(n + l) : t[k] \in Lines
  OBVIOUS
<1>2. /\ h \in Seq(Lines) /\ Len(h) = n /\ \A k \in 1..n : h[k] = t[k]
  <2>1. \A k \in 1..n : t[k] \in Lines
    BY <1>1
  <2> QED
    BY <2>1 DEF Firsts
<1>3. /\ u \in Seq(Lines) /\ Len(u) = l /\ \A k \in 1..l : u[k] = t[n + k]
  <2>1. \A k \in 1..l : t[n + k] \in Lines
    BY <1>1
  <2> QED
    BY <2>1 DEF Others
<1> HIDE DEF h, u
<1>4. h \o u = t
  BY <1>2, <1>3, IsJoin
<1> QED
  BY <1>2, <1>3, <1>4 DEF h, u

LEMMA ThreeColumns ==
  ASSUME NEW x \in Seq(SideRow), NEW y \in Seq(SideRow), NEW z \in Seq(SideRow),
         NEW s \in E!Side
  PROVE  ColumnOf((x \o y) \o z, s) = (ColumnOf(x, s) \o ColumnOf(y, s)) \o ColumnOf(z, s)
<1> DEFINE w == x \o y
<1>1. w \in Seq(SideRow) /\ ColumnOf(w, s) = ColumnOf(x, s) \o ColumnOf(y, s)
  BY ColumnBoth
<1> HIDE DEF w
<1>2. ColumnOf(w \o z, s) = ColumnOf(w, s) \o ColumnOf(z, s)
  BY <1>1, ColumnBoth
<1> QED
  BY <1>1, <1>2 DEF w

LEMMA TwoColumns ==
  ASSUME NEW left \in Seq(Lines), NEW right \in Seq(Lines),
         NEW m \in Marks, NEW m1 \in Marks, NEW m2 \in Marks
  PROVE  /\ Columns(left, right, m, m1, m2) \in Seq(SideRow)
         /\ ColumnOf(Columns(left, right, m, m1, m2), "left") = left
         /\ ColumnOf(Columns(left, right, m, m1, m2), "right") = right
<1> DEFINE a == Len(left)
           b == Len(right)
           n == Smaller(a, b)
           x == [k \in 1..n |-> Row(<<left[k]>>, m, <<right[k]>>)]
           y == [k \in 1..(b - n) |-> Row(None, m1, <<right[n + k]>>)]
           z == [k \in 1..(a - n) |-> Row(<<left[n + k]>>, m2, None)]
           d == a - n
           e == b - n
<1>1. /\ a \in Nat /\ b \in Nat /\ n \in Nat /\ n <= a /\ n <= b
      /\ d \in Nat /\ e \in Nat /\ d = a - n /\ e = b - n
  BY DEF Smaller
<1>2. /\ \A k \in 1..a : left[k] \in Lines /\ <<left[k]>> \in Seq(Lines)
      /\ \A k \in 1..b : right[k] \in Lines /\ <<right[k]>> \in Seq(Lines)
      /\ None \in Seq(Lines) /\ None = <<>>
  BY DEF None
<1>3. Columns(left, right, m, m1, m2) = (x \o y) \o z
  BY DEF Columns
<1> HIDE DEF a, b, n, d, e
<1>4. x \in Seq(SideRow) /\ Len(x) = n
  <2>1. \A k \in 1..n : Row(<<left[k]>>, m, <<right[k]>>) \in SideRow
    <3> TAKE k \in 1..n
    <3>1. k \in 1..a /\ k \in 1..b
      BY <1>1
    <3> QED
      BY <1>2, <3>1 DEF Row, SideRow
  <2> QED
    BY <1>1, <2>1
<1>5. y \in Seq(SideRow) /\ Len(y) = e
  <2>1. \A k \in 1..e : Row(None, m1, <<right[n + k]>>) \in SideRow
    <3> TAKE k \in 1..e
    <3>1. n + k \in 1..b
      BY <1>1
    <3> QED
      BY <1>2, <3>1 DEF Row, SideRow
  <2>2. y = [k \in 1..e |-> Row(None, m1, <<right[n + k]>>)]
    BY DEF e
  <2> HIDE DEF x, y
  <2>3. [k \in 1..e |-> Row(None, m1, <<right[n + k]>>)] \in Seq(SideRow)
    <3> DEFINE Cell(k) == Row(None, m1, <<right[n + k]>>)
    <3>1. \A k \in 1..e : Cell(k) \in SideRow
      BY <2>1
    <3> HIDE DEF Cell
    <3>2. [k \in 1..e |-> Cell(k)] \in Seq(SideRow)
      BY <1>1, <3>1
    <3> QED
      BY <3>2 DEF Cell
  <2>4. Len([k \in 1..e |-> Row(None, m1, <<right[n + k]>>)]) = e
    BY <1>1
  <2> QED
    BY <2>2, <2>3, <2>4
<1>6. z \in Seq(SideRow) /\ Len(z) = d
  <2>1. \A k \in 1..d : Row(<<left[n + k]>>, m2, None) \in SideRow
    <3> TAKE k \in 1..d
    <3>1. n + k \in 1..a
      BY <1>1
    <3> QED
      BY <1>2, <3>1 DEF Row, SideRow
  <2>2. z = [k \in 1..d |-> Row(<<left[n + k]>>, m2, None)]
    BY DEF d
  <2> HIDE DEF x, y, z
  <2>3. [k \in 1..d |-> Row(<<left[n + k]>>, m2, None)] \in Seq(SideRow)
    <3> DEFINE Cell(k) == Row(<<left[n + k]>>, m2, None)
    <3>1. \A k \in 1..d : Cell(k) \in SideRow
      BY <2>1
    <3> HIDE DEF Cell
    <3>2. [k \in 1..d |-> Cell(k)] \in Seq(SideRow)
      BY <1>1, <3>1
    <3> QED
      BY <3>2 DEF Cell
  <2>4. Len([k \in 1..d |-> Row(<<left[n + k]>>, m2, None)]) = d
    BY <1>1
  <2> QED
    BY <2>2, <2>3, <2>4
<1>7. /\ \A k \in 1..n : x[k] = Row(<<left[k]>>, m, <<right[k]>>)
      /\ \A k \in 1..e : y[k] = Row(<<>>, m1, <<right[n + k]>>)
      /\ \A k \in 1..d : z[k] = Row(<<left[n + k]>>, m2, <<>>)
  BY <1>1 DEF None, d, e
<1> HIDE DEF x, y, z
<1>8. ASSUME NEW text \in Seq(Lines), NEW l \in Nat, Len(text) = n + l
      PROVE  /\ Firsts(text, n) \in Seq(Lines) /\ Len(Firsts(text, n)) = n
             /\ \A k \in 1..n : Firsts(text, n)[k] = text[k]
             /\ Others(text, n, l) \in Seq(Lines) /\ Len(Others(text, n, l)) = l
             /\ \A k \in 1..l : Others(text, n, l)[k] = text[n + k]
             /\ Firsts(text, n) \o Others(text, n, l) = text
  BY <1>1, <1>8, Parted2
<1>9. ColumnOf((x \o y) \o z, "left") = left
  <2> DEFINE h == Firsts(left, n)
             t == Others(left, n, d)
  <2>1. PICK s \in E!Side : s = "left"
    BY DEF E!Side
  <2>2. /\ h \in Seq(Lines) /\ Len(h) = n /\ \A k \in 1..n : h[k] = left[k]
        /\ t \in Seq(Lines) /\ Len(t) = d /\ \A k \in 1..d : t[k] = left[n + k]
        /\ h \o t = left
    <3>1. Len(left) = n + d
      BY <1>1 DEF a
    <3> QED
      BY <1>1, <1>8, <3>1
  <2> HIDE DEF h, t
  <2>3. /\ \A k \in 1..n : x[k][s] = <<h[k]>>
        /\ \A k \in 1..e : y[k][s] = <<>>
        /\ \A k \in 1..d : z[k][s] = <<t[k]>>
    <3>2. ASSUME NEW k \in 1..n PROVE x[k][s] = <<left[k]>>
      <4>1. x[k] = Row(<<left[k]>>, m, <<right[k]>>)
        BY <1>7
      <4> QED
        BY <2>1, <4>1, RowCells
    <3>3. ASSUME NEW k \in 1..e PROVE y[k][s] = <<>>
      <4>1. y[k] = Row(<<>>, m1, <<right[n + k]>>)
        BY <1>7
      <4> QED
        BY <2>1, <4>1, RowCells
    <3>4. ASSUME NEW k \in 1..d PROVE z[k][s] = <<left[n + k]>>
      <4>1. z[k] = Row(<<left[n + k]>>, m2, <<>>)
        BY <1>7
      <4> QED
        BY <2>1, <4>1, RowCells
    <3> QED
      BY <2>2, <3>2, <3>3, <3>4
  <2>4. ColumnOf(x, s) = h /\ ColumnOf(y, s) = <<>> /\ ColumnOf(z, s) = t
    <3>1. ColumnOf(x, s) = h
      <4>1. h \in Seq(Lines) /\ Len(h) = Len(x) /\ \A k \in 1..Len(x) : x[k][s] = <<h[k]>>
        BY <1>4, <2>2, <2>3
      <4> QED
        BY <1>4, <4>1, ColumnWhole
    <3>2. ColumnOf(y, s) = <<>>
      BY <1>5, <2>2, <2>3, ColumnNone
    <3>3. ColumnOf(z, s) = t
      <4>1. t \in Seq(Lines) /\ Len(t) = Len(z) /\ \A k \in 1..Len(z) : z[k][s] = <<t[k]>>
        BY <1>6, <2>2, <2>3
      <4> QED
        BY <1>6, <4>1, ColumnWhole
    <3> QED
      BY <3>1, <3>2, <3>3
  <2>5. ColumnOf((x \o y) \o z, s) = (ColumnOf(x, s) \o ColumnOf(y, s)) \o ColumnOf(z, s)
    BY <1>4, <1>5, <1>6, ThreeColumns
  <2>6. (h \o <<>>) \o t = h \o t
    BY <2>2
  <2> QED
    BY <2>1, <2>2, <2>4, <2>5, <2>6
<1>10. ColumnOf((x \o y) \o z, "right") = right
  <2> DEFINE h == Firsts(right, n)
             t == Others(right, n, e)
  <2>1. PICK s \in E!Side : s = "right"
    BY DEF E!Side
  <2>2. /\ h \in Seq(Lines) /\ Len(h) = n /\ \A k \in 1..n : h[k] = right[k]
        /\ t \in Seq(Lines) /\ Len(t) = e /\ \A k \in 1..e : t[k] = right[n + k]
        /\ h \o t = right
    <3>1. Len(right) = n + e
      BY <1>1 DEF b
    <3> QED
      BY <1>1, <1>8, <3>1
  <2> HIDE DEF h, t
  <2>3. /\ \A k \in 1..n : x[k][s] = <<h[k]>>
        /\ \A k \in 1..e : y[k][s] = <<t[k]>>
        /\ \A k \in 1..d : z[k][s] = <<>>
    <3>2. ASSUME NEW k \in 1..n PROVE x[k][s] = <<right[k]>>
      <4>1. x[k] = Row(<<left[k]>>, m, <<right[k]>>)
        BY <1>7
      <4> QED
        BY <2>1, <4>1, RowCells
    <3>3. ASSUME NEW k \in 1..e PROVE y[k][s] = <<right[n + k]>>
      <4>1. y[k] = Row(<<>>, m1, <<right[n + k]>>)
        BY <1>7
      <4> QED
        BY <2>1, <4>1, RowCells
    <3>4. ASSUME NEW k \in 1..d PROVE z[k][s] = <<>>
      <4>1. z[k] = Row(<<left[n + k]>>, m2, <<>>)
        BY <1>7
      <4> QED
        BY <2>1, <4>1, RowCells
    <3> QED
      BY <2>2, <3>2, <3>3, <3>4
  <2>4. ColumnOf(x, s) = h /\ ColumnOf(y, s) = t /\ ColumnOf(z, s) = <<>>
    <3>1. ColumnOf(x, s) = h
      <4>1. h \in Seq(Lines) /\ Len(h) = Len(x) /\ \A k \in 1..Len(x) : x[k][s] = <<h[k]>>
        BY <1>4, <2>2, <2>3
      <4> QED
        BY <1>4, <4>1, ColumnWhole
    <3>2. ColumnOf(y, s) = t
      <4>1. t \in Seq(Lines) /\ Len(t) = Len(y) /\ \A k \in 1..Len(y) : y[k][s] = <<t[k]>>
        BY <1>5, <2>2, <2>3
      <4> QED
        BY <1>5, <4>1, ColumnWhole
    <3>3. ColumnOf(z, s) = <<>>
      BY <1>6, <2>2, <2>3, ColumnNone
    <3> QED
      BY <3>1, <3>2, <3>3
  <2>5. ColumnOf((x \o y) \o z, s) = (ColumnOf(x, s) \o ColumnOf(y, s)) \o ColumnOf(z, s)
    BY <1>4, <1>5, <1>6, ThreeColumns
  <2>6. (h \o t) \o <<>> = h \o t
    BY <2>2
  <2> QED
    BY <2>1, <2>2, <2>4, <2>5, <2>6
<1>11. (x \o y) \o z \in Seq(SideRow)
  BY <1>4, <1>5, <1>6
<1> QED
  BY <1>3, <1>9, <1>10, <1>11

(* The rows of common lines and of a hunk.                                 *)
LEMMA CommonIs ==
  ASSUME NEW left \in Seq(Lines), NEW right \in Seq(Lines)
  PROVE  /\ left = <<>> /\ right = <<>> => SdiffCommon(left, right, FALSE, FALSE) = <<>>
         /\ ~(left = <<>> /\ right = <<>>) =>
              SdiffCommon(left, right, FALSE, FALSE) = Columns(left, right, " ", ")", "(")
<1> DEFINE rows == Columns(left, right, " ", ")", "(")
           n == Smaller(Len(left), Len(right))
           x == [k \in 1..n |-> Row(<<left[k]>>, " ", <<right[k]>>)]
           y == [k \in 1..(Len(right) - n) |-> Row(None, ")", <<right[n + k]>>)]
           z == [k \in 1..(Len(left) - n) |-> Row(<<left[n + k]>>, "(", None)]
<1>1. CommonRows(left, right, FALSE) = x \o y \o z
  BY Zenon DEF CommonRows
<1>2. rows = x \o y \o z
  BY Zenon DEF Columns
<1>3. rows \in Seq(SideRow)
  <2>1. " " \in Marks /\ ")" \in Marks /\ "(" \in Marks
    BY Zenon DEF Marks
  <2>2. \A m, m1, m2 \in Marks : Columns(left, right, m, m1, m2) \in Seq(SideRow)
    BY TwoColumns
  <2> QED
    BY <2>1, <2>2, Zenon
<1>4. SdiffCommon(left, right, FALSE, FALSE)
        = IF left = <<>> /\ right = <<>> THEN <<>> ELSE <<>> \o CommonRows(left, right, FALSE)
  BY Zenon DEF SdiffCommon
<1>5. CommonRows(left, right, FALSE) = rows
  BY <1>1, <1>2, Zenon
<1> HIDE DEF rows
<1>6. <<>> \o rows = rows
  BY <1>3
<1>7. /\ left = <<>> /\ right = <<>> => SdiffCommon(left, right, FALSE, FALSE) = <<>>
      /\ ~(left = <<>> /\ right = <<>>) => SdiffCommon(left, right, FALSE, FALSE) = rows
  BY <1>4, <1>5, <1>6
<1> QED
  BY <1>7, Zenon DEF rows

LEMMA HunkIs ==
  ASSUME NEW h, Old(h) \in Seq(Lines), New(h) \in Seq(Lines)
  PROVE  SdiffHunk(h, FALSE) = Columns(Old(h), New(h), "|", ">", "<")
<1> DEFINE rows == Columns(Old(h), New(h), "|", ">", "<")
           n == Smaller(Len(Old(h)), Len(New(h)))
           x == [k \in 1..n |-> Row(<<Old(h)[k]>>, "|", <<New(h)[k]>>)]
           y == [k \in 1..(Len(New(h)) - n) |-> Row(None, ">", <<New(h)[n + k]>>)]
           z == [k \in 1..(Len(Old(h)) - n) |-> Row(<<Old(h)[n + k]>>, "<", None)]
<1>1. rows = x \o y \o z
  BY Zenon DEF Columns
<1>2. SdiffHunk(h, FALSE) = <<>> \o x \o y \o z
  BY Zenon DEF SdiffHunk
<1>3. <<>> \o x = x
  <2> DEFINE Cell(k) == Row(<<Old(h)[k]>>, "|", <<New(h)[k]>>)
  <2> HIDE DEF Cell
  <2>1. <<>> \o [k \in 1..n |-> Cell(k)] = [k \in 1..n |-> Cell(k)]
    <3> HIDE DEF n
    <3>1. [k \in 1..n |-> Cell(k)] = <<>> \o [k \in 1..n |-> Cell(k)]
      OBVIOUS
    <3> QED
      BY <3>1
  <2> QED
    BY <2>1, Zenon DEF Cell
<1> QED
  BY <1>1, <1>2, <1>3, Zenon

LEMMA CommonColumns ==
  ASSUME NEW left \in Seq(Lines), NEW right \in Seq(Lines), NEW side \in E!Side
  PROVE  /\ SdiffCommon(left, right, FALSE, FALSE) \in Seq(SideRow)
         /\ ColumnOf(SdiffCommon(left, right, FALSE, FALSE), side)
              = IF side = "left" THEN left ELSE right
<1> DEFINE rows == Columns(left, right, " ", ")", "(")
<1>1. rows \in Seq(SideRow) /\ ColumnOf(rows, "left") = left /\ ColumnOf(rows, "right") = right
  <2>1. " " \in Marks /\ ")" \in Marks /\ "(" \in Marks
    BY Zenon DEF Marks
  <2>2. \A m, m1, m2 \in Marks :
          /\ Columns(left, right, m, m1, m2) \in Seq(SideRow)
          /\ ColumnOf(Columns(left, right, m, m1, m2), "left") = left
          /\ ColumnOf(Columns(left, right, m, m1, m2), "right") = right
    BY TwoColumns
  <2> QED
    BY <2>1, <2>2, Zenon
<1>2. /\ left = <<>> /\ right = <<>> => SdiffCommon(left, right, FALSE, FALSE) = <<>>
      /\ ~(left = <<>> /\ right = <<>>) => SdiffCommon(left, right, FALSE, FALSE) = rows
  BY CommonIs, Zenon
<1> HIDE DEF rows
<1>3. <<>> \in Seq(SideRow) /\ ColumnOf(<<>>, side) = <<>>
  BY ColumnEmpty
<1>4. side = "left" \/ side = "right"
  BY DEF E!Side
<1> QED
  BY <1>1, <1>2, <1>3, <1>4

LEMMA HunkColumns ==
  ASSUME NEW h, Old(h) \in Seq(Lines), New(h) \in Seq(Lines), NEW side \in E!Side
  PROVE  /\ SdiffHunk(h, FALSE) \in Seq(SideRow)
         /\ ColumnOf(SdiffHunk(h, FALSE), side) = IF side = "left" THEN Old(h) ELSE New(h)
<1> DEFINE rows == Columns(Old(h), New(h), "|", ">", "<")
<1>1. rows \in Seq(SideRow) /\ ColumnOf(rows, "left") = Old(h) /\ ColumnOf(rows, "right") = New(h)
  <2>1. "|" \in Marks /\ ">" \in Marks /\ "<" \in Marks
    BY Zenon DEF Marks
  <2>2. \A m, m1, m2 \in Marks :
          /\ Columns(Old(h), New(h), m, m1, m2) \in Seq(SideRow)
          /\ ColumnOf(Columns(Old(h), New(h), m, m1, m2), "left") = Old(h)
          /\ ColumnOf(Columns(Old(h), New(h), m, m1, m2), "right") = New(h)
    BY TwoColumns
  <2> QED
    BY <2>1, <2>2, Zenon
<1>2. SdiffHunk(h, FALSE) = rows
  BY HunkIs, Zenon
<1> HIDE DEF rows
<1>3. side = "left" \/ side = "right"
  BY DEF E!Side
<1> QED
  BY <1>1, <1>2, <1>3

-----------------------------------------------------------------------------
(***************************************************************************)
(* The hunks that are printed, in the order of the chain: the lines of     *)
(* either file between them, and in them, follow each other to its end.    *)
(***************************************************************************)
FirstOf(h, f) == IF f = 0 THEN h.first0 ELSE h.first1
LastOf(h, f) == IF f = 0 THEN h.last0 ELSE h.last1
NextOf(hunks, f, n) == IF f = 0 THEN Next0(hunks, n) ELSE Next1(hunks, n)

(* The changes follow each other in either file.                           *)
LEMMA ChangesFollow ==
  ASSUME ReadSame, NEW f \in Files, NEW i \in 1..Len(script), NEW j \in 1..Len(script), i < j
  PROVE  Past(script, f, i) <= LineOf(script[j], f)
<1> DEFINE N == Len(script)
           P == {d \in Nat : i + d + 1 <= N =>
                   Past(script, f, i) <= LineOf(script[i + d + 1], f)}
<1>1. /\ N \in Nat /\ i \in Nat /\ i > 0
      /\ \A n \in 1..N : /\ LineOf(script[n], f) \in Nat /\ CountOf(script[n], f) \in Nat
                         /\ Past(script, f, n) = LineOf(script[n], f) + CountOf(script[n], f)
  <2>1. N \in Nat /\ \A n \in 1..N : script[n] \in Changes0
    BY ReadTypes
  <2>2. ASSUME NEW n \in 1..N
        PROVE  /\ LineOf(script[n], f) \in Nat /\ CountOf(script[n], f) \in Nat
               /\ Past(script, f, n) = LineOf(script[n], f) + CountOf(script[n], f)
    <3>1. script[n] \in Changes0 /\ n # 0
      BY <2>1
    <3> QED
      BY <3>1 DEF Changes0, LineOf, CountOf, Past
  <2> QED
    BY <2>1, <2>2
<1>2. ASSUME NEW n \in 1..N, n + 1 <= N PROVE Past(script, f, n) <= LineOf(script[n + 1], f)
  <2>1. n + 1 \in 1..(N + 1) /\ n + 1 # N + 1 /\ (n + 1) - 1 = n
    BY <1>1, <1>2
  <2>2. PICK gap \in Nat : Until(script, equivs, f, n + 1) = Past(script, f, (n + 1) - 1) + gap
    BY <2>1 DEF ReadSame, IsChain, Bridged
  <2>3. LineOf(script[n + 1], f) = Past(script, f, n) + gap
    BY <2>1, <2>2 DEF Until
  <2> QED
    BY <1>1, <2>3
<1>3. 0 \in P
  <2>1. i + 0 + 1 = i + 1
    BY <1>1
  <2> QED
    BY <1>1, <1>2, <2>1
<1>4. ASSUME NEW d \in Nat, d \in P PROVE d + 1 \in P
  <2>1. SUFFICES ASSUME i + (d + 1) + 1 <= N
                 PROVE  Past(script, f, i) <= LineOf(script[i + (d + 1) + 1], f)
    OBVIOUS
  <2> DEFINE n == i + d + 1
  <2>2. n \in 1..N /\ n + 1 <= N /\ i + (d + 1) + 1 = n + 1
    BY <1>1, <2>1
  <2>3. Past(script, f, i) <= LineOf(script[n], f)
    BY <1>4, <2>2
  <2> HIDE DEF n
  <2>4. Past(script, f, n) <= LineOf(script[n + 1], f)
    BY <1>2, <2>2
  <2>5. /\ LineOf(script[n], f) \in Nat /\ CountOf(script[n], f) \in Nat
        /\ Past(script, f, n) = LineOf(script[n], f) + CountOf(script[n], f)
        /\ Past(script, f, i) \in Nat /\ LineOf(script[n + 1], f) \in Nat
    <3>1. n + 1 \in 1..N
      BY <1>1, <2>2
    <3> QED
      BY <1>1, <2>2, <3>1
  <2> QED
    BY <2>2, <2>3, <2>4, <2>5
<1> HIDE DEF P
<1>5. Nat \subseteq P
  BY <1>3, <1>4, Flat!AllNumbers
<1>6. j - i - 1 \in Nat /\ i + (j - i - 1) + 1 = j /\ j <= N
  BY <1>1
<1>7. j - i - 1 \in P
  BY <1>5, <1>6
<1> QED
  BY <1>6, <1>7 DEF P

(* Where the hunks lie.  source[k] is the change that the kth is made of.  *)
Lies(hunks, ignore, source) ==
    /\ Len(hunks) \in Nat /\ DOMAIN hunks = 1..Len(hunks)
    /\ \A k \in 1..Len(hunks) :
         /\ source[k] \in 1..Len(script)
         /\ hunks[k] = AnalyzeHunk(script[source[k]], ignore)
    /\ \A j, k \in 1..Len(hunks) : j < k => source[j] < source[k]

LEMMA HunksLie ==
  ASSUME ReadSame, NEW ignore \in BOOLEAN
  PROVE  \E source : Lies(Hunks(ignore), ignore, source)
<1> DEFINE hunk == [n \in DOMAIN script |-> AnalyzeHunk(script[n], ignore)]
           shown == {n \in DOMAIN script : hunk[n].changes # "unchanged"}
           source == InOrder(shown)
           N == Len(script)
<1>1. N \in Nat /\ DOMAIN script = 1..N
  BY ReadTypes
<1>2. Hunks(ignore) = [k \in DOMAIN source |-> hunk[source[k]]]
  BY DEF Hunks
<1>3. \A n \in 1..N : hunk[n] = AnalyzeHunk(script[n], ignore)
  BY <1>1
<1>4. shown \subseteq 1..N
  BY <1>1
<1> HIDE DEF hunk, shown
<1>5. Within(shown, N + 1) /\ N + 1 \in Nat
  BY <1>1, <1>4 DEF Within
<1>6. /\ \A j, k \in DOMAIN source : j < k <=> source[j] < source[k]
      /\ shown = {source[k] : k \in DOMAIN source}
      /\ Len(source) \in Nat /\ DOMAIN source = 1..Len(source)
  BY <1>5, InOrderIncreasing
<1> HIDE DEF source
<1>7. \A k \in DOMAIN source : source[k] \in 1..N
  BY <1>4, <1>6
<1>8. DOMAIN Hunks(ignore) = 1..Len(source) /\ Len(Hunks(ignore)) = Len(source)
  BY <1>2, <1>6
<1>9. ASSUME NEW k \in 1..Len(source) PROVE Hunks(ignore)[k] = AnalyzeHunk(script[source[k]], ignore)
  BY <1>2, <1>3, <1>6, <1>7
<1>10. Lies(Hunks(ignore), ignore, source)
  BY <1>6, <1>7, <1>8, <1>9 DEF Lies, N
<1> QED
  BY <1>10

LEMMA HunksFollow ==
  ASSUME ReadSame, NEW ignore \in BOOLEAN, NEW f \in Files
  PROVE  LET hunks == Hunks(ignore) IN
         /\ Len(hunks) \in Nat /\ DOMAIN hunks = 1..Len(hunks)
         /\ NextOf(hunks, f, 1) = -prefix_lines
         /\ \A n \in 1..Len(hunks) :
              /\ NextOf(hunks, f, n) \in Int /\ FirstOf(hunks[n], f) \in Nat
              /\ LastOf(hunks[n], f) \in Int
              /\ NextOf(hunks, f, n) <= FirstOf(hunks[n], f)
              /\ FirstOf(hunks[n], f) <= LastOf(hunks[n], f) + 1
              /\ NextOf(hunks, f, n + 1) = LastOf(hunks[n], f) + 1
              /\ NextOf(hunks, f, n + 1) <= valid_lines(f)
<1> DEFINE hunks == Hunks(ignore)
           H == Len(hunks)
           p == prefix_lines
<1>1. PICK source : Lies(hunks, ignore, source)
  BY HunksLie
<1>2. /\ p \in Nat /\ Len(script) \in Nat /\ Len(File(f)) \in Nat /\ Len(equivs[f]) \in Nat
      /\ \A n \in 1..Len(script) : script[n] \in Changes0
  BY ReadTypes
<1>3. Len(equivs[f]) <= valid_lines(f) /\ valid_lines(f) \in Nat
  <2>1. PICK suffix \in Nat : Ends(suffix)
    BY ReadTypes
  <2>2. Len(File(f)) = p + Len(equivs[f]) + suffix
    BY <2>1 DEF Ends
  <2> QED
    BY <1>2, <2>2 DEF valid_lines
<1>4. H \in Nat /\ DOMAIN hunks = 1..H
  BY <1>1 DEF Lies
<1> HIDE DEF hunks, H, p
<1>5. ASSUME NEW n \in 1..H
      PROVE  /\ source[n] \in 1..Len(script)
             /\ FirstOf(hunks[n], f) = LineOf(script[source[n]], f)
             /\ LastOf(hunks[n], f) = Past(script, f, source[n]) - 1
             /\ FirstOf(hunks[n], f) \in Nat /\ Past(script, f, source[n]) \in Nat
             /\ FirstOf(hunks[n], f) <= Past(script, f, source[n])
             /\ Past(script, f, source[n]) <= Len(equivs[f])
  <2> DEFINE m == source[n]
             c == script[m]
  <2>1. m \in 1..Len(script) /\ hunks[n] = AnalyzeHunk(c, ignore)
    BY <1>1 DEF Lies, H
  <2>2. c \in Changes0 /\ m # 0
    BY <1>2, <2>1
  <2>3. LineOf(c, f) \in Nat /\ CountOf(c, f) \in Nat
        /\ Past(script, f, m) = LineOf(c, f) + CountOf(c, f)
    BY <2>2 DEF Changes0, LineOf, CountOf, Past
  <2>4. /\ FirstOf(hunks[n], f) = LineOf(c, f)
        /\ LastOf(hunks[n], f) = LineOf(c, f) + CountOf(c, f) - 1
    BY <2>1 DEF AnalyzeHunk, FirstOf, LastOf, LineOf, CountOf
  <2>5. Past(script, f, m) <= Len(equivs[f])
    <3>1. m + 1 \in 1..(Len(script) + 1) /\ (m + 1) - 1 = m
      BY <1>2, <2>1
    <3>2. PICK gap \in Nat : /\ Until(script, equivs, f, m + 1) = Past(script, f, (m + 1) - 1) + gap
                             /\ Until(script, equivs, f, m + 1) <= Len(equivs[f])
      BY <3>1 DEF ReadSame, IsChain, Bridged
    <3> DEFINE x == Past(script, f, m)
    <3>3. x + gap <= Len(equivs[f]) /\ x \in Nat
      BY <2>3, <3>1, <3>2
    <3> HIDE DEF x, m
    <3> QED
      BY <1>2, <3>3 DEF x
  <2> QED
    BY <2>1, <2>3, <2>4, <2>5
<1>6. NextOf(hunks, f, 1) = -p
  BY DEF NextOf, Next0, Next1, p
<1>7. ASSUME NEW n \in 1..H PROVE NextOf(hunks, f, n + 1) = LastOf(hunks[n], f) + 1
  <2>1. n + 1 # 1 /\ (n + 1) - 1 = n
    BY <1>4
  <2> QED
    BY <2>1 DEF NextOf, Next0, Next1, LastOf
<1>8. ASSUME NEW n \in 1..H
      PROVE  NextOf(hunks, f, n) \in Int /\ NextOf(hunks, f, n) <= FirstOf(hunks[n], f)
  <2>1. CASE n = 1
    BY <1>2, <1>5, <1>6, <2>1
  <2>2. CASE n # 1
    <3> DEFINE m == n - 1
    <3>1. m \in 1..H /\ m + 1 = n /\ m < n
      BY <1>4, <2>2
    <3> HIDE DEF m
    <3>2. NextOf(hunks, f, n) = LastOf(hunks[m], f) + 1
      BY <1>7, <3>1
    <3>3. /\ LastOf(hunks[m], f) = Past(script, f, source[m]) - 1
          /\ Past(script, f, source[m]) \in Nat /\ source[m] \in 1..Len(script)
          /\ source[n] \in 1..Len(script)
          /\ FirstOf(hunks[n], f) = LineOf(script[source[n]], f)
      BY <1>5, <3>1
    <3>4. source[m] < source[n]
      BY <1>1, <3>1 DEF Lies, H
    <3>5. Past(script, f, source[m]) <= LineOf(script[source[n]], f)
      BY <3>3, <3>4, ChangesFollow
    <3> QED
      BY <3>2, <3>3, <3>5
  <2> QED
    BY <2>1, <2>2
<1>9. ASSUME NEW n \in 1..H
      PROVE  /\ FirstOf(hunks[n], f) \in Nat /\ LastOf(hunks[n], f) \in Int
             /\ FirstOf(hunks[n], f) <= LastOf(hunks[n], f) + 1
             /\ NextOf(hunks, f, n + 1) <= valid_lines(f)
  <2> DEFINE x == Past(script, f, source[n])
             y == FirstOf(hunks[n], f)
             z == LastOf(hunks[n], f)
             w == NextOf(hunks, f, n + 1)
  <2>1. z = x - 1 /\ x \in Nat /\ y \in Nat /\ y <= x /\ x <= Len(equivs[f]) /\ w = z + 1
    BY <1>5, <1>7
  <2> HIDE DEF x, y, z, w
  <2>2. y \in Nat /\ z \in Int /\ y <= z + 1 /\ w <= valid_lines(f)
    BY <1>2, <1>3, <2>1
  <2> QED
    BY <2>2 DEF y, z, w
<1> QED
  BY <1>4, <1>6, <1>7, <1>8, <1>9 DEF hunks, H, p

-----------------------------------------------------------------------------
(* What a column holds grows by the lines up to the next place.            *)
LEMMA TextGrows ==
  ASSUME NEW f \in Files, File(f) \in Seq(Lines), prefix_lines \in Nat,
         NEW from \in Int, NEW upto \in Int, prefix_lines + from >= 0, from <= upto,
         upto <= valid_lines(f)
  PROVE  /\ LinesOf(f, from, upto) \in Seq(Lines) /\ Len(LinesOf(f, from, upto)) = upto - from
         /\ \A k \in 1..(upto - from) : LinesOf(f, from, upto)[k] = File(f)[prefix_lines + from + k]
         /\ Firsts(File(f), prefix_lines + from) \in Seq(Lines)
         /\ Firsts(File(f), prefix_lines + from) \o LinesOf(f, from, upto)
              = Firsts(File(f), prefix_lines + upto)
<1> DEFINE p == prefix_lines
           t == File(f)
           m == p + from
           n == upto - from
           l == LinesOf(f, from, upto)
           c == Firsts(t, m)
           e == Firsts(t, p + upto)
<1>1. /\ p \in Nat /\ m \in Nat /\ n \in Nat /\ p + upto = m + n /\ Len(t) \in Nat
      /\ m + n <= Len(t)
  BY DEF valid_lines
<1>2. \A k \in 1..(m + n) : t[k] \in Lines
  BY <1>1
<1>3. /\ l \in Seq(Lines) /\ Len(l) = n /\ \A k \in 1..n : l[k] = t[m + k]
  <2>1. l = [k \in 1..n |-> t[(from + k - 1) + p + 1]]
    BY DEF LinesOf, LineAt
  <2>2. ASSUME NEW k \in 1..n PROVE (from + k - 1) + p + 1 = m + k /\ m + k \in 1..(m + n)
    BY <1>1
  <2> HIDE DEF t, m, n, l, p
  <2>3. l = [k \in 1..n |-> t[m + k]]
    BY <2>1, <2>2
  <2>4. \A k \in 1..n : t[m + k] \in Lines
    BY <1>2, <2>2
  <2> QED
    BY <1>1, <2>3, <2>4
<1>4. /\ c \in Seq(Lines) /\ Len(c) = m /\ \A k \in 1..m : c[k] = t[k]
  <2> HIDE DEF t, m
  <2>1. \A k \in 1..m : t[k] \in Lines
    BY <1>1, <1>2
  <2> QED
    BY <1>1, <2>1 DEF Firsts
<1>5. /\ e \in Seq(Lines) /\ Len(e) = m + n /\ \A k \in 1..(m + n) : e[k] = t[k]
  <2>1. e = [k \in 1..(m + n) |-> t[k]]
    BY <1>1 DEF Firsts
  <2> HIDE DEF t, m, n, e
  <2> QED
    BY <1>1, <1>2, <2>1
<1> HIDE DEF p, t, m, n, l, c, e
<1>6. e = c \o l
  <2>1. /\ Len(e) = Len(c) + Len(l)
        /\ \A k \in 1..Len(c) : e[k] = c[k]
        /\ \A k \in 1..Len(l) : e[Len(c) + k] = l[k]
    <3>1. Len(e) = Len(c) + Len(l)
      BY <1>3, <1>4, <1>5
    <3>2. \A k \in 1..Len(c) : e[k] = c[k]
      BY <1>1, <1>4, <1>5
    <3>3. \A k \in 1..Len(l) : e[Len(c) + k] = l[k]
      <4>1. \A k \in 1..n : m + k \in 1..(m + n)
        BY <1>1
      <4> QED
        BY <1>3, <1>4, <1>5, <4>1
    <3> QED
      BY <3>1, <3>2, <3>3
  <2> QED
    BY <1>3, <1>4, <1>5, <2>1, IsJoin
<1>7. /\ l \in Seq(Lines) /\ Len(l) = n /\ c \in Seq(Lines)
      /\ \A k \in 1..n : l[k] = t[m + k]
  BY <1>3, <1>4
<1> QED
  BY <1>6, <1>7 DEF p, t, m, n, l, c, e

LEMMA SdiffColumns ==
  ASSUME ReadSame, NEW ignore \in BOOLEAN, NEW side \in E!Side
  PROVE  ColumnOf(Sdiff(ignore, FALSE, FALSE, FALSE), side) = File(FileOf(side))
<1> DEFINE f == FileOf(side)
           p == prefix_lines
           hunks == Hunks(ignore)
           H == Len(hunks)
           Leading(g, n, limit) == LinesOf(g, NextOf(hunks, g, n), limit)
           Inside(g, n) == LinesOf(g, FirstOf(hunks[n], g), LastOf(hunks[n], g) + 1)
           Common(n, limit0, limit1) ==
             SdiffCommon(Leading(0, n, limit0), Leading(1, n, limit1), FALSE, FALSE)
           RowsAt(n) == Common(n, hunks[n].first0, hunks[n].first1) \o SdiffHunk(hunks[n], FALSE)
           parts == [n \in DOMAIN hunks |-> RowsAt(n)]
           rest == Common(H + 1, valid_lines(0), valid_lines(1))
<1>1. Sdiff(ignore, FALSE, FALSE, FALSE) = FlattenSeq(parts) \o rest
  <2> DEFINE Shared(n, limit0, limit1) ==
               SdiffCommon(LinesOf(0, Next0(hunks, n), limit0),
                           LinesOf(1, Next1(hunks, n), limit1), FALSE, FALSE)
             shown == [n \in DOMAIN hunks |->
                         Shared(n, hunks[n].first0, hunks[n].first1) \o SdiffHunk(hunks[n], FALSE)]
  <2>1. \A n : NextOf(hunks, 0, n) = Next0(hunks, n) /\ NextOf(hunks, 1, n) = Next1(hunks, n)
    BY DEF NextOf
  <2>2. Sdiff(ignore, FALSE, FALSE, FALSE)
          = FlattenSeq(shown) \o Shared(H + 1, valid_lines(0), valid_lines(1))
    BY Zenon DEF Sdiff
  <2>3. \A n, l0, l1 : Shared(n, l0, l1) = Common(n, l0, l1)
    BY <2>1
  <2> HIDE DEF Shared, Common
  <2>4. shown = parts
    BY <2>3
  <2> HIDE DEF shown, parts
  <2> QED
    BY <2>2, <2>3, <2>4
<1>2. /\ p \in Nat /\ 0 \in Files /\ 1 \in Files /\ f \in Files
      /\ \A g \in Files : Len(File(g)) \in Nat /\ File(g) \in Seq(Lines)
  <2>1. input \in Cases
    BY DEF ReadSame, ReadInv
  <2> QED
    BY <2>1, ReadTypes, FileTypes
<1>3. f = IF side = "left" THEN 0 ELSE 1
  BY DEF FileOf
<1>4. H \in Nat /\ DOMAIN hunks = 1..H
  BY <1>2, HunksFollow
<1>5. ASSUME NEW g \in Files
      PROVE  /\ NextOf(hunks, g, 1) = -p
             /\ \A n \in 1..H :
                  /\ NextOf(hunks, g, n) \in Int /\ FirstOf(hunks[n], g) \in Nat
                  /\ LastOf(hunks[n], g) \in Int
                  /\ NextOf(hunks, g, n) <= FirstOf(hunks[n], g)
                  /\ FirstOf(hunks[n], g) <= LastOf(hunks[n], g) + 1
                  /\ NextOf(hunks, g, n + 1) = LastOf(hunks[n], g) + 1
                  /\ NextOf(hunks, g, n + 1) <= valid_lines(g)
  BY HunksFollow
<1> HIDE DEF hunks, H, p, f
<1>6. ASSUME NEW g \in Files, NEW n \in 1..(H + 1)
      PROVE  /\ NextOf(hunks, g, n) \in Int /\ p + NextOf(hunks, g, n) \in Nat
             /\ NextOf(hunks, g, n) <= valid_lines(g) /\ valid_lines(g) \in Int
             /\ p + valid_lines(g) = Len(File(g))
  <2>1. valid_lines(g) = Len(File(g)) - p
    BY DEF valid_lines, p
  <2>2. CASE n = 1
    BY <1>2, <1>5, <2>1, <2>2
  <2>3. CASE n # 1
    <3> DEFINE m == n - 1
    <3>1. m \in 1..H /\ m + 1 = n
      BY <1>4, <2>3
    <3> HIDE DEF m
    <3>2. /\ FirstOf(hunks[m], g) \in Nat /\ LastOf(hunks[m], g) \in Int
          /\ FirstOf(hunks[m], g) <= LastOf(hunks[m], g) + 1
          /\ NextOf(hunks, g, n) = LastOf(hunks[m], g) + 1
          /\ NextOf(hunks, g, n) <= valid_lines(g)
      BY <1>5, <3>1
    <3> QED
      BY <1>2, <2>1, <3>2
  <2> QED
    BY <2>2, <2>3
<1> DEFINE Text(g, n) == Firsts(File(g), p + NextOf(hunks, g, n))
<1>7. ASSUME NEW g \in Files, NEW n \in 1..H
      PROVE  /\ Leading(g, n, FirstOf(hunks[n], g)) \in Seq(Lines) /\ Inside(g, n) \in Seq(Lines)
             /\ Text(g, n) \in Seq(Lines)
             /\ (Text(g, n) \o Leading(g, n, FirstOf(hunks[n], g))) \o Inside(g, n) = Text(g, n + 1)
  <2> DEFINE a == NextOf(hunks, g, n)
             b == FirstOf(hunks[n], g)
             c == LastOf(hunks[n], g) + 1
  <2>1. /\ a \in Int /\ b \in Int /\ c \in Int /\ a <= b /\ b <= c /\ c <= valid_lines(g)
        /\ p + a >= 0 /\ p + b >= 0 /\ b <= valid_lines(g) /\ NextOf(hunks, g, n + 1) = c
    <3>1. n \in 1..(H + 1)
      BY <1>4
    <3>2. valid_lines(g) \in Int /\ p + a \in Nat
      BY <1>6, <3>1
    <3>3. a \in Int /\ b \in Nat /\ c \in Int /\ a <= b /\ b <= c /\ c <= valid_lines(g)
          /\ NextOf(hunks, g, n + 1) = c
      BY <1>5
    <3> HIDE DEF a, b, c
    <3> QED
      BY <1>2, <3>2, <3>3
  <2> HIDE DEF a, b, c
  <2>2. /\ LinesOf(g, a, b) \in Seq(Lines) /\ Firsts(File(g), p + a) \in Seq(Lines)
        /\ Firsts(File(g), p + a) \o LinesOf(g, a, b) = Firsts(File(g), p + b)
    BY <1>2, <2>1, TextGrows DEF p
  <2>3. /\ LinesOf(g, b, c) \in Seq(Lines)
        /\ Firsts(File(g), p + b) \o LinesOf(g, b, c) = Firsts(File(g), p + c)
    BY <1>2, <2>1, TextGrows DEF p
  <2>4. NextOf(hunks, g, n + 1) = c
    BY <2>1
  <2>5. (Firsts(File(g), p + a) \o LinesOf(g, a, b)) \o LinesOf(g, b, c) = Firsts(File(g), p + c)
    BY <2>2, <2>3
  <2> QED
    BY <2>2, <2>3, <2>4, <2>5 DEF a, b, c
<1>8. ASSUME NEW n \in 1..H
      PROVE  /\ RowsAt(n) \in Seq(SideRow)
             /\ ColumnOf(RowsAt(n), side) = Leading(f, n, FirstOf(hunks[n], f)) \o Inside(f, n)
  <2> DEFINE b0 == Leading(0, n, FirstOf(hunks[n], 0))
             b1 == Leading(1, n, FirstOf(hunks[n], 1))
             old == Old(hunks[n])
             new == New(hunks[n])
             c == SdiffCommon(b0, b1, FALSE, FALSE)
             h == SdiffHunk(hunks[n], FALSE)
  <2>1. RowsAt(n) = c \o h
    BY DEF FirstOf
  <2>2. old = Inside(0, n) /\ new = Inside(1, n)
    BY DEF Old, New, FirstOf, LastOf
  <2>3. b0 \in Seq(Lines) /\ b1 \in Seq(Lines) /\ old \in Seq(Lines) /\ new \in Seq(Lines)
    BY <1>2, <1>7, <2>2
  <2>4. h \in Seq(SideRow) /\ ColumnOf(h, side) = IF side = "left" THEN old ELSE new
    BY <2>3, HunkColumns
  <2> HIDE DEF b0, b1, old, new, h
  <2>5. c \in Seq(SideRow) /\ ColumnOf(c, side) = IF side = "left" THEN b0 ELSE b1
    BY <2>3, CommonColumns
  <2> HIDE DEF c
  <2>6. c \o h \in Seq(SideRow) /\ ColumnOf(c \o h, side) = ColumnOf(c, side) \o ColumnOf(h, side)
    BY <2>4, <2>5, ColumnBoth
  <2>7. /\ (IF side = "left" THEN b0 ELSE b1) = Leading(f, n, FirstOf(hunks[n], f))
        /\ (IF side = "left" THEN old ELSE new) = Inside(f, n)
    BY <1>3, <2>2 DEF b0, b1
  <2> HIDE DEF RowsAt, Leading, Inside
  <2> QED
    BY <2>1, <2>4, <2>5, <2>6, <2>7
<1>9. /\ rest \in Seq(SideRow)
      /\ ColumnOf(rest, side) = Leading(f, H + 1, valid_lines(f))
      /\ Text(f, H + 1) \o Leading(f, H + 1, valid_lines(f)) = File(f)
  <2> DEFINE b0 == Leading(0, H + 1, valid_lines(0))
             b1 == Leading(1, H + 1, valid_lines(1))
  <2>1. H + 1 \in 1..(H + 1)
    BY <1>4
  <2>2. ASSUME NEW g \in Files
        PROVE  /\ Leading(g, H + 1, valid_lines(g)) \in Seq(Lines)
               /\ Text(g, H + 1) \o Leading(g, H + 1, valid_lines(g))
                    = Firsts(File(g), p + valid_lines(g))
               /\ Firsts(File(g), p + valid_lines(g)) = File(g)
    <3> DEFINE a == NextOf(hunks, g, H + 1)
    <3>1. /\ a \in Int /\ p + a \in Nat /\ a <= valid_lines(g) /\ valid_lines(g) \in Int
          /\ p + valid_lines(g) = Len(File(g)) /\ File(g) \in Seq(Lines)
      BY <1>2, <1>6, <2>1
    <3>2. Firsts(File(g), p + valid_lines(g)) = File(g)
      BY <3>1 DEF Firsts
    <3> HIDE DEF a
    <3>3. /\ LinesOf(g, a, valid_lines(g)) \in Seq(Lines)
          /\ Firsts(File(g), p + a) \o LinesOf(g, a, valid_lines(g))
               = Firsts(File(g), p + valid_lines(g))
      <4>1. valid_lines(g) <= valid_lines(g) /\ p + a >= 0
        BY <3>1
      <4> QED
        BY <1>2, <3>1, <4>1, TextGrows DEF p
    <3> QED
      BY <3>2, <3>3 DEF a
  <2>3. b0 \in Seq(Lines) /\ b1 \in Seq(Lines) /\ rest = SdiffCommon(b0, b1, FALSE, FALSE)
    BY <1>2, <2>2
  <2>4. (IF side = "left" THEN b0 ELSE b1) = Leading(f, H + 1, valid_lines(f))
    BY <1>3
  <2> HIDE DEF b0, b1, rest, Leading
  <2>5. rest \in Seq(SideRow) /\ ColumnOf(rest, side) = IF side = "left" THEN b0 ELSE b1
    BY <2>3, CommonColumns
  <2>6. Text(f, H + 1) \o Leading(f, H + 1, valid_lines(f)) = File(f)
    BY <1>2, <2>2, Zenon
  <2> HIDE DEF Text
  <2> QED
    BY <2>4, <2>5, <2>6
<1> HIDE DEF RowsAt, Leading, Inside, rest
<1>10. /\ parts \in Seq(Seq(SideRow)) /\ Len(parts) = H
       /\ \A n \in 1..H : parts[n] = RowsAt(n)
  <2>1. \A n \in 1..H : RowsAt(n) \in Seq(SideRow)
    BY <1>8
  <2> QED
    BY <1>4, <2>1
<1> HIDE DEF parts
<1> DEFINE Out(n) == Flat!FlattenSeq(Flat!Members(parts, n))
           P == {n \in Nat : n <= H => Out(n) \in Seq(SideRow) /\ ColumnOf(Out(n), side) = Text(f, n + 1)}
<1>11. 0 \in P
  <2>1. Flat!Members(parts, 0) = <<>>
    BY DEF Flat!Members
  <2>2. Out(0) = <<>>
    BY <2>1, Flat!FlattenEmpty
  <2>3. Text(f, 0 + 1) = <<>>
    <3>1. p + NextOf(hunks, f, 0 + 1) = 0
      BY <1>2, <1>5
    <3> QED
      BY <3>1 DEF Firsts
  <2> HIDE DEF Text, Out
  <2> QED
    BY <2>2, <2>3, ColumnEmpty
<1>12. ASSUME NEW n \in Nat, n \in P PROVE n + 1 \in P
  <2>1. SUFFICES ASSUME n + 1 <= H
                 PROVE  Out(n + 1) \in Seq(SideRow) /\ ColumnOf(Out(n + 1), side) = Text(f, (n + 1) + 1)
    OBVIOUS
  <2>2. n + 1 \in 1..H /\ n <= H /\ n \in 0..(Len(parts) - 1)
    BY <1>4, <1>10, <2>1
  <2>3. Out(n) \in Seq(SideRow) /\ ColumnOf(Out(n), side) = Text(f, n + 1)
    BY <1>12, <2>2
  <2>4. Out(n + 1) = Out(n) \o parts[n + 1]
    BY <1>10, <2>2, Flat!FlattenNext
  <2> HIDE DEF Out, Text
  <2>5. parts[n + 1] = RowsAt(n + 1) /\ RowsAt(n + 1) \in Seq(SideRow)
        /\ ColumnOf(RowsAt(n + 1), side)
             = Leading(f, n + 1, FirstOf(hunks[n + 1], f)) \o Inside(f, n + 1)
    BY <1>8, <1>10, <2>2
  <2>6. /\ Out(n) \o RowsAt(n + 1) \in Seq(SideRow)
        /\ ColumnOf(Out(n) \o RowsAt(n + 1), side) = ColumnOf(Out(n), side) \o ColumnOf(RowsAt(n + 1), side)
    BY <2>3, <2>5, ColumnBoth
  <2> DEFINE a == Text(f, n + 1)
             b == Leading(f, n + 1, FirstOf(hunks[n + 1], f))
             c == Inside(f, n + 1)
  <2>7. /\ a \in Seq(Lines) /\ b \in Seq(Lines) /\ c \in Seq(Lines)
        /\ (a \o b) \o c = Text(f, (n + 1) + 1)
    BY <1>2, <1>7, <2>2
  <2>8. ColumnOf(Out(n) \o RowsAt(n + 1), side) = a \o (b \o c)
    BY <2>3, <2>5, <2>6
  <2> HIDE DEF a, b, c
  <2>9. a \o (b \o c) = (a \o b) \o c
    <3>1. a \in Seq(Lines) /\ b \in Seq(Lines) /\ c \in Seq(Lines)
      BY <2>7
    <3> QED
      BY <3>1
  <2> QED
    BY <2>4, <2>5, <2>6, <2>7, <2>8, <2>9
<1> HIDE DEF P
<1>13. Nat \subseteq P
  BY <1>11, <1>12, Flat!AllNumbers
<1>14. H \in P
  BY <1>4, <1>13
<1>15. Out(H) \in Seq(SideRow) /\ ColumnOf(Out(H), side) = Text(f, H + 1)
  BY <1>4, <1>14 DEF P
<1>16. Out(H) = FlattenSeq(parts)
  <2>1. H \in 0..Len(parts)
    BY <1>4, <1>10
  <2>2. Flat!Members(parts, Len(parts)) = parts
    BY <1>10, <2>1, Flat!MembersOf
  <2> QED
    BY <1>10, <2>2, FlattenSame
<1> HIDE DEF Out, Text
<1>17. ColumnOf(FlattenSeq(parts) \o rest, side) = Text(f, H + 1) \o Leading(f, H + 1, valid_lines(f))
  BY <1>9, <1>15, <1>16, ColumnBoth
<1> QED
  BY <1>1, <1>9, <1>17 DEF f

-----------------------------------------------------------------------------
(***************************************************************************)
(* Side by side, without ignored changes: what the marks tell.             *)
(***************************************************************************)
Bare == " "
PlainMarks == {" ", "|", "<", ">"}
SameClass(r) == Class(r.left[1]) = Class(r.right[1])
FineRow == {r \in [left : Seq(Lines), mark : PlainMarks, right : Seq(Lines)] :
              r.mark = Bare => SameClass(r)}

LEMMA FineMarks ==
  /\ " " \in PlainMarks /\ "|" \in PlainMarks /\ "<" \in PlainMarks /\ ">" \in PlainMarks
  /\ "|" # Bare /\ "<" # Bare /\ ">" # Bare
BY Zenon DEF PlainMarks, Bare

LEMMA FineIs ==
  ASSUME NEW u \in Seq(Lines), NEW m \in PlainMarks, NEW v \in Seq(Lines),
         m = Bare => Class(u[1]) = Class(v[1])
  PROVE  Row(u, m, v) \in FineRow
<1>1. /\ Row(u, m, v).left = u /\ Row(u, m, v).mark = m /\ Row(u, m, v).right = v
      /\ Row(u, m, v) \in [left : Seq(Lines), mark : PlainMarks, right : Seq(Lines)]
  <2> HIDE DEF PlainMarks
  <2> QED
    BY DEF Row
<1> QED
  BY <1>1, Zenon DEF FineRow, SameClass

LEMMA ColumnsOf ==
  ASSUME NEW S, NEW left \in Seq(Lines), NEW right \in Seq(Lines), NEW m, NEW m1, NEW m2,
         NEW n \in Nat, n = Smaller(Len(left), Len(right)),
         \A k \in 1..n : Row(<<left[k]>>, m, <<right[k]>>) \in S,
         \A k \in 1..(Len(right) - n) : Row(None, m1, <<right[n + k]>>) \in S,
         \A k \in 1..(Len(left) - n) : Row(<<left[n + k]>>, m2, None) \in S
  PROVE  Columns(left, right, m, m1, m2) \in Seq(S)
<1> DEFINE d == Len(left) - n
           e == Len(right) - n
           X(k) == Row(<<left[k]>>, m, <<right[k]>>)
           Y(k) == Row(None, m1, <<right[n + k]>>)
           Z(k) == Row(<<left[n + k]>>, m2, None)
<1>1. d \in Nat /\ e \in Nat
  BY DEF Smaller
<1>2. Columns(left, right, m, m1, m2)
        = ([k \in 1..n |-> X(k)] \o [k \in 1..e |-> Y(k)]) \o [k \in 1..d |-> Z(k)]
  BY Zenon DEF Columns
<1>3. (\A k \in 1..n : X(k) \in S) /\ (\A k \in 1..e : Y(k) \in S) /\ (\A k \in 1..d : Z(k) \in S)
  OBVIOUS
<1> HIDE DEF d, e, X, Y, Z
<1>4. /\ [k \in 1..n |-> X(k)] \in Seq(S)
      /\ [k \in 1..e |-> Y(k)] \in Seq(S)
      /\ [k \in 1..d |-> Z(k)] \in Seq(S)
  BY <1>1, <1>3
<1>5. \A x, y, z \in Seq(S) : (x \o y) \o z \in Seq(S)
  OBVIOUS
<1> QED
  BY <1>2, <1>4, <1>5, Zenon

(* Common lines of the same classes, as many in either column.             *)
LEMMA CommonFine ==
  ASSUME NEW left \in Seq(Lines), NEW right \in Seq(Lines), Len(left) = Len(right),
         \A k \in 1..Len(left) : Class(left[k]) = Class(right[k])
  PROVE  SdiffCommon(left, right, FALSE, FALSE) \in Seq(FineRow)
<1> DEFINE n == Len(left)
<1>1. n \in Nat /\ n = Smaller(Len(left), Len(right)) /\ Len(right) - n = 0 /\ Len(left) - n = 0
  BY DEF Smaller
<1>2. ASSUME NEW m, m = " ", NEW k \in 1..n PROVE Row(<<left[k]>>, m, <<right[k]>>) \in FineRow
  <2>1. m \in PlainMarks
    BY <1>2, FineMarks, Zenon
  <2>2. left[k] \in Lines /\ right[k] \in Lines /\ Class(left[k]) = Class(right[k])
    OBVIOUS
  <2>3. /\ <<left[k]>> \in Seq(Lines) /\ <<right[k]>> \in Seq(Lines)
        /\ <<left[k]>>[1] = left[k] /\ <<right[k]>>[1] = right[k]
    BY <2>2
  <2> QED
    BY <2>1, <2>2, <2>3, FineIs, Zenon
<1>3. ASSUME NEW m, m = " ", NEW m1, NEW m2
      PROVE  Columns(left, right, m, m1, m2) \in Seq(FineRow)
  <2>1. \A k \in 1..n : Row(<<left[k]>>, m, <<right[k]>>) \in FineRow
    BY <1>2, <1>3
  <2> HIDE DEF n
  <2>2. /\ \A k \in 1..(Len(right) - n) : Row(None, m1, <<right[n + k]>>) \in FineRow
        /\ \A k \in 1..(Len(left) - n) : Row(<<left[n + k]>>, m2, None) \in FineRow
    BY <1>1
  <2> QED
    BY <1>1, <2>1, <2>2, ColumnsOf
<1>4. Columns(left, right, " ", ")", "(") \in Seq(FineRow)
  BY <1>3, Zenon
<1>5. <<>> \in Seq(FineRow)
  OBVIOUS
<1> QED
  BY <1>4, <1>5, CommonIs, Zenon

LEMMA HunkFine ==
  ASSUME NEW h, Old(h) \in Seq(Lines), New(h) \in Seq(Lines)
  PROVE  SdiffHunk(h, FALSE) \in Seq(FineRow)
<1> DEFINE left == Old(h)
           right == New(h)
           n == Smaller(Len(left), Len(right))
<1>1. /\ n \in Nat /\ n <= Len(left) /\ n <= Len(right)
      /\ left \in Seq(Lines) /\ right \in Seq(Lines)
  BY DEF Smaller
<1> HIDE DEF left, right
<1>2. ASSUME NEW m \in PlainMarks, NEW m1 \in PlainMarks, NEW m2 \in PlainMarks,
             m # Bare, m1 # Bare, m2 # Bare
      PROVE  Columns(left, right, m, m1, m2) \in Seq(FineRow)
  <2>1. /\ \A k \in 1..Len(left) : <<left[k]>> \in Seq(Lines)
        /\ \A k \in 1..Len(right) : <<right[k]>> \in Seq(Lines)
        /\ None \in Seq(Lines)
    BY <1>1 DEF None
  <2>2. \A k \in 1..n : Row(<<left[k]>>, m, <<right[k]>>) \in FineRow
    <3> TAKE k \in 1..n
    <3>1. k \in 1..Len(left) /\ k \in 1..Len(right)
      BY <1>1
    <3> QED
      BY <1>2, <2>1, <3>1, FineIs
  <2>3. \A k \in 1..(Len(right) - n) : Row(None, m1, <<right[n + k]>>) \in FineRow
    <3> TAKE k \in 1..(Len(right) - n)
    <3>1. n + k \in 1..Len(right)
      BY <1>1
    <3> QED
      BY <1>2, <2>1, <3>1, FineIs
  <2>4. \A k \in 1..(Len(left) - n) : Row(<<left[n + k]>>, m2, None) \in FineRow
    <3> TAKE k \in 1..(Len(left) - n)
    <3>1. n + k \in 1..Len(left)
      BY <1>1
    <3> QED
      BY <1>2, <2>1, <3>1, FineIs
  <2>5. n = Smaller(Len(left), Len(right))
    OBVIOUS
  <2> HIDE DEF n
  <2> QED
    BY <1>1, <2>2, <2>3, <2>4, <2>5, ColumnsOf
<1>3. Columns(left, right, "|", ">", "<") \in Seq(FineRow)
  BY <1>2, FineMarks, Zenon
<1>4. SdiffHunk(h, FALSE) = Columns(left, right, "|", ">", "<")
  BY <1>1, HunkIs, Zenon DEF left, right
<1> QED
  BY <1>3, <1>4, Zenon

(* Without ignored changes a hunk is printed of every one.                 *)
LEMMA HunksAll ==
  ASSUME ReadSame
  PROVE  Hunks(FALSE) = [n \in 1..Len(script) |-> AnalyzeHunk(script[n], FALSE)]
<1> DEFINE hunk == [n \in DOMAIN script |-> AnalyzeHunk(script[n], FALSE)]
           shown == {n \in DOMAIN script : hunk[n].changes # "unchanged"}
           N == Len(script)
<1>1. N \in Nat /\ DOMAIN script = 1..N
  BY ReadTypes
<1>2. \A n \in 1..N : hunk[n].changes # "unchanged"
  BY <1>1 DEF AnalyzeHunk, Kinds
<1>3. Hunks(FALSE) = [k \in DOMAIN InOrder(shown) |-> hunk[InOrder(shown)[k]]]
  BY DEF Hunks
<1>4. shown = 1..N
  BY <1>1, <1>2
<1>5. \A n \in 1..N : hunk[n] = AnalyzeHunk(script[n], FALSE)
  BY <1>1
<1> HIDE DEF hunk, shown
<1>6. InOrder(1..N) = [k \in 1..N |-> k]
  BY <1>1, InOrderAll
<1> QED
  BY <1>1, <1>3, <1>4, <1>5, <1>6

(* The lines before the nth hunk, or behind the last one.                  *)
(* Behind the nth - 1 hunk gap lines of the same classes, and more of the  *)
(* suffix.                                                                 *)
SameBehind(n, gap, more) ==
    /\ n \in 1..(Len(script) + 1) /\ gap \in Nat /\ more \in Nat
    /\ \A f \in Files : Past(script, f, n - 1) \in Nat
                        /\ Past(script, f, n - 1) + gap <= Len(equivs[f])
    /\ \A k \in 1..gap : equivs[0][Past(script, 0, n - 1) + k]
                           = equivs[1][Past(script, 1, n - 1) + k]
    /\ more > 0 => Ends(more) /\ \A f \in Files : Past(script, f, n - 1) + gap = Len(equivs[f])

LEMMA TextAt ==
  ASSUME NEW f \in Files, File(f) \in Seq(Lines), prefix_lines \in Nat,
         NEW from \in Int, NEW upto \in Int, NEW length, length = upto - from,
         prefix_lines + from >= 0, from <= upto, upto <= valid_lines(f)
  PROVE  /\ LinesOf(f, from, upto) \in Seq(Lines) /\ Len(LinesOf(f, from, upto)) = length
         /\ \A k \in 1..length : LinesOf(f, from, upto)[k] = File(f)[prefix_lines + from + k]
BY TextGrows

LEMMA AheadFine ==
  ASSUME ReadSame, NEW n \in Nat, NEW gap \in Nat, NEW more \in Nat, SameBehind(n, gap, more),
         NEW b0, NEW b1, NEW u0, NEW u1,
         b0 = Past(script, 0, n - 1) - Lead(n), b1 = Past(script, 1, n - 1) - Lead(n),
         u0 = (Past(script, 0, n - 1) + gap) + more, u1 = (Past(script, 1, n - 1) + gap) + more,
         u0 <= valid_lines(0), u1 <= valid_lines(1)
  PROVE  SdiffCommon(LinesOf(0, b0, u0), LinesOf(1, b1, u1), FALSE, FALSE) \in Seq(FineRow)
<1> DEFINE p == prefix_lines
           l == Lead(n)
           x0 == Past(script, 0, n - 1)
           x1 == Past(script, 1, n - 1)
<1>1. /\ p \in Nat /\ 0 \in Files /\ 1 \in Files
      /\ File(0) \in Seq(Lines) /\ File(1) \in Seq(Lines)
  <2>1. input \in Cases
    BY DEF ReadSame, ReadInv
  <2> QED
    BY <2>1, ReadTypes, FileTypes
<1>2. x0 \in Nat /\ x1 \in Nat /\ l \in Nat /\ (n # 1 => l = 0) /\ (n = 1 => l = p)
  BY <1>1 DEF Lead, SameBehind
<1>3. From(0, n) = p + b0 /\ From(1, n) = p + b1
  <2>1. From(0, n) = p + x0 - l /\ From(1, n) = p + x1 - l
    BY DEF From
  <2>2. b0 = x0 - l /\ b1 = x1 - l
    OBVIOUS
  <2> HIDE DEF p, l, x0, x1
  <2> QED
    BY <1>1, <1>2, <2>1, <2>2 DEF p
<1>4. \A k \in 1..(l + gap + more) : Class(File(0)[From(0, n) + k]) = Class(File(1)[From(1, n) + k])
  BY CommonBehind DEF SameBehind
<1>5. b0 = x0 - l /\ b1 = x1 - l /\ u0 = x0 + gap + more /\ u1 = x1 + gap + more
  OBVIOUS
<1> HIDE DEF p, l, x0, x1
<1>6. /\ p + b0 >= 0 /\ p + b1 >= 0 /\ b0 <= u0 /\ b1 <= u1
      /\ u0 - b0 = l + gap + more /\ u1 - b1 = l + gap + more
      /\ b0 \in Int /\ b1 \in Int /\ u0 \in Int /\ u1 \in Int
  <2>1. l <= p
    BY <1>1, <1>2
  <2>2. ASSUME NEW x \in Nat
        PROVE  LET b == x - l
                   u == x + gap + more
               IN  p + b >= 0 /\ b <= u /\ u - b = l + gap + more /\ b \in Int /\ u \in Int
    BY <1>1, <1>2, <2>1
  <2>3. p + b0 >= 0 /\ b0 <= u0 /\ u0 - b0 = l + gap + more /\ b0 \in Int /\ u0 \in Int
    BY <1>2, <1>5, <2>2
  <2>4. p + b1 >= 0 /\ b1 <= u1 /\ u1 - b1 = l + gap + more /\ b1 \in Int /\ u1 \in Int
    BY <1>2, <1>5, <2>2
  <2> QED
    BY <2>3, <2>4
<1> DEFINE left == LinesOf(0, b0, u0)
           right == LinesOf(1, b1, u1)
<1>7. /\ left \in Seq(Lines) /\ Len(left) = l + gap + more
      /\ \A k \in 1..(l + gap + more) : left[k] = File(0)[p + b0 + k]
  <2>1. PICK f \in Files : f = 0
    BY <1>1
  <2>2. File(f) \in Seq(Lines) /\ u0 <= valid_lines(f)
    BY <1>1, <2>1
  <2>3. PICK b \in Int, u \in Int : b = b0 /\ u = u0
    BY <1>6
  <2>4. /\ p + b >= 0 /\ b <= u /\ u <= valid_lines(f) /\ l + gap + more = u - b
        /\ prefix_lines \in Nat
    BY <1>1, <1>6, <2>2, <2>3 DEF p
  <2>5. /\ LinesOf(f, b, u) \in Seq(Lines) /\ Len(LinesOf(f, b, u)) = l + gap + more
        /\ \A k \in 1..(l + gap + more) : LinesOf(f, b, u)[k] = File(f)[p + b + k]
    BY <2>2, <2>4, TextAt DEF p
  <2> QED
    BY <2>1, <2>3, <2>5, Zenon
<1>8. /\ right \in Seq(Lines) /\ Len(right) = l + gap + more
      /\ \A k \in 1..(l + gap + more) : right[k] = File(1)[p + b1 + k]
  <2>1. PICK f \in Files : f = 1
    BY <1>1
  <2>2. File(f) \in Seq(Lines) /\ u1 <= valid_lines(f)
    BY <1>1, <2>1
  <2>3. PICK b \in Int, u \in Int : b = b1 /\ u = u1
    BY <1>6
  <2>4. /\ p + b >= 0 /\ b <= u /\ u <= valid_lines(f) /\ l + gap + more = u - b
        /\ prefix_lines \in Nat
    BY <1>1, <1>6, <2>2, <2>3 DEF p
  <2>5. /\ LinesOf(f, b, u) \in Seq(Lines) /\ Len(LinesOf(f, b, u)) = l + gap + more
        /\ \A k \in 1..(l + gap + more) : LinesOf(f, b, u)[k] = File(f)[p + b + k]
    BY <2>2, <2>4, TextAt DEF p
  <2> QED
    BY <2>1, <2>3, <2>5, Zenon
<1> HIDE DEF left, right
<1>9. Len(left) = Len(right) /\ \A k \in 1..Len(left) : Class(left[k]) = Class(right[k])
  <2>1. Len(left) = l + gap + more /\ Len(right) = l + gap + more
    BY <1>6, <1>7, <1>8
  <2>2. ASSUME NEW k \in 1..(l + gap + more) PROVE Class(left[k]) = Class(right[k])
    <3>1. left[k] = File(0)[From(0, n) + k] /\ right[k] = File(1)[From(1, n) + k]
      BY <1>3, <1>6, <1>7, <1>8
    <3> QED
      BY <1>4, <3>1
  <2> QED
    BY <2>1, <2>2
<1>10. SdiffCommon(left, right, FALSE, FALSE) \in Seq(FineRow)
  BY <1>7, <1>8, <1>9, CommonFine
<1> QED
  BY <1>10 DEF left, right

LEMMA SdiffFine ==
  ASSUME ReadSame
  PROVE  Sdiff(FALSE, FALSE, FALSE, FALSE) \in Seq(FineRow)
<1> DEFINE hunks == Hunks(FALSE)
           N == Len(script)
           H == Len(hunks)
           Common(n, limit0, limit1) ==
             SdiffCommon(LinesOf(0, Next0(hunks, n), limit0),
                         LinesOf(1, Next1(hunks, n), limit1), FALSE, FALSE)
           RowsAt(n) == Common(n, hunks[n].first0, hunks[n].first1) \o SdiffHunk(hunks[n], FALSE)
           parts == [n \in DOMAIN hunks |-> RowsAt(n)]
           rest == Common(H + 1, valid_lines(0), valid_lines(1))
<1>1. Sdiff(FALSE, FALSE, FALSE, FALSE) = FlattenSeq(parts) \o rest
  BY Zenon DEF Sdiff
<1>2. /\ N \in Nat /\ prefix_lines \in Nat /\ 0 \in Files /\ 1 \in Files
      /\ \A n \in 1..N : script[n] \in Changes0
      /\ \A f \in Files : Len(equivs[f]) \in Nat
  BY ReadTypes
<1>3. /\ H = N /\ DOMAIN hunks = 1..N
      /\ \A n \in 1..N : hunks[n] = AnalyzeHunk(script[n], FALSE)
  <2> DEFINE A(n) == AnalyzeHunk(script[n], FALSE)
  <2>1. hunks = [n \in 1..N |-> A(n)]
    BY HunksAll, Zenon
  <2> HIDE DEF A, hunks, N
  <2>2. Len(hunks) = N /\ DOMAIN hunks = 1..N /\ \A n \in 1..N : hunks[n] = A(n)
    BY <1>2, <2>1
  <2> QED
    BY <2>2, Zenon DEF A
<1>4. ASSUME NEW n \in 1..N
      PROVE  /\ hunks[n].first0 = LineOf(script[n], 0) /\ hunks[n].first1 = LineOf(script[n], 1)
             /\ hunks[n].last0 + 1 = Past(script, 0, n) /\ hunks[n].last1 + 1 = Past(script, 1, n)
  <2> HIDE DEF hunks, N
  <2>1. PICK no : no = FALSE
    OBVIOUS
  <2>3. hunks[n] = AnalyzeHunk(script[n], no)
    BY <1>3, <2>1, Zenon
  <2>4. script[n] \in Changes0 /\ n # 0
    BY <1>2
  <2>2. /\ script[n].line0 \in Nat /\ script[n].line1 \in Nat
        /\ script[n].deleted \in Nat /\ script[n].inserted \in Nat
    BY <2>4 DEF Changes0
  <2> QED
    BY <2>2, <2>3, <2>4 DEF AnalyzeHunk, LineOf, CountOf, Past
<1> HIDE DEF hunks, H, N
<1>5. ASSUME NEW n \in 1..(N + 1)
      PROVE  /\ Next0(hunks, n) = Past(script, 0, n - 1) - Lead(n)
             /\ Next1(hunks, n) = Past(script, 1, n - 1) - Lead(n)
  <2>1. CASE n = 1
    BY <1>2, <2>1 DEF Next0, Next1, Past, Lead
  <2>2. CASE n # 1
    <3> DEFINE m == n - 1
    <3>1. m \in 1..N
      BY <1>2, <2>2
    <3>2. script[m] \in Changes0 /\ m # 0
      BY <1>2, <3>1
    <3>3. Past(script, 0, m) \in Nat /\ Past(script, 1, m) \in Nat
      BY <3>2 DEF Past, LineOf, CountOf, Changes0
    <3>4. Next0(hunks, n) = hunks[m].last0 + 1 /\ Next1(hunks, n) = hunks[m].last1 + 1
      BY <2>2 DEF Next0, Next1
    <3>5. hunks[m].last0 + 1 = Past(script, 0, m) /\ hunks[m].last1 + 1 = Past(script, 1, m)
      BY <1>4, <3>1
    <3>6. Lead(n) = 0
      BY <2>2 DEF Lead
    <3> QED
      BY <3>3, <3>4, <3>5, <3>6
  <2> QED
    BY <2>1, <2>2
<1>6. ASSUME NEW n \in 1..(N + 1)
      PROVE  \E gap \in Nat : /\ SameBehind(n, gap, 0)
                              /\ \A f \in Files : Until(script, equivs, f, n) = Past(script, f, n - 1) + gap
  <2>1. PICK gap \in Nat :
          /\ \A f \in Files : /\ Past(script, f, n - 1) \in Nat
                              /\ Until(script, equivs, f, n) = Past(script, f, n - 1) + gap
                              /\ Until(script, equivs, f, n) <= Len(equivs[f])
          /\ \A k \in 1..gap : equivs[0][Past(script, 0, n - 1) + k]
                                 = equivs[1][Past(script, 1, n - 1) + k]
    BY DEF ReadSame, IsChain, Bridged, N
  <2>2. SameBehind(n, gap, 0)
    <3>1. \A f \in Files : /\ Past(script, f, n - 1) \in Nat
                           /\ Past(script, f, n - 1) + gap <= Len(equivs[f])
      BY <2>1
    <3>2. n \in 1..(Len(script) + 1) /\ 0 \in Nat /\ ~(0 > 0)
      BY DEF N
    <3> QED
      BY <2>1, <3>1, <3>2 DEF SameBehind
  <2> QED
    BY <2>1, <2>2
<1>7. /\ \A f \in Files : valid_lines(f) \in Nat /\ Len(equivs[f]) <= valid_lines(f)
      /\ \E suffix \in Nat : /\ Ends(suffix)
                             /\ \A f \in Files : valid_lines(f) = Len(equivs[f]) + suffix
  <2>1. PICK suffix \in Nat : Ends(suffix)
    BY ReadTypes
  <2>2. \A f \in Files : Len(File(f)) = prefix_lines + Len(equivs[f]) + suffix
    BY <2>1 DEF Ends
  <2>3. \A f \in Files : valid_lines(f) = Len(equivs[f]) + suffix
    BY <1>2, <2>2 DEF valid_lines
  <2> QED
    BY <1>2, <2>1, <2>3
<1>8. ASSUME NEW n \in 1..N PROVE Common(n, hunks[n].first0, hunks[n].first1) \in Seq(FineRow)
  <2>1. n \in 1..(N + 1) /\ n # Len(script) + 1 /\ n \in Nat
    BY <1>2 DEF N
  <2>2. PICK gap \in Nat :
          /\ SameBehind(n, gap, 0)
          /\ \A f \in Files : Until(script, equivs, f, n) = Past(script, f, n - 1) + gap
    BY <1>6, <2>1
  <2> DEFINE x0 == Past(script, 0, n - 1)
             x1 == Past(script, 1, n - 1)
             u0 == (x0 + gap) + 0
             u1 == (x1 + gap) + 0
  <2>3. \A f \in Files : Past(script, f, n - 1) \in Nat /\ Past(script, f, n - 1) + gap <= Len(equivs[f])
    BY <2>2 DEF SameBehind
  <2>4. /\ u0 = x0 + gap /\ u1 = x1 + gap
        /\ u0 <= valid_lines(0) /\ u1 <= valid_lines(1)
    <3>1. x0 \in Nat /\ x0 + gap <= Len(equivs[0]) /\ x1 \in Nat /\ x1 + gap <= Len(equivs[1])
      BY <1>2, <2>3
    <3>2. /\ Len(equivs[0]) \in Nat /\ Len(equivs[0]) <= valid_lines(0) /\ valid_lines(0) \in Nat
          /\ Len(equivs[1]) \in Nat /\ Len(equivs[1]) <= valid_lines(1) /\ valid_lines(1) \in Nat
      BY <1>2, <1>7
    <3> HIDE DEF x0, x1
    <3> QED
      BY <3>1, <3>2
  <2>5. hunks[n].first0 = u0 /\ hunks[n].first1 = u1
    <3>1. Until(script, equivs, 0, n) = x0 + gap /\ Until(script, equivs, 1, n) = x1 + gap
      BY <1>2, <2>2
    <3>2. /\ Until(script, equivs, 0, n) = LineOf(script[n], 0)
          /\ Until(script, equivs, 1, n) = LineOf(script[n], 1)
      BY <2>1 DEF Until
    <3>3. hunks[n].first0 = LineOf(script[n], 0) /\ hunks[n].first1 = LineOf(script[n], 1)
      BY <1>4
    <3> HIDE DEF u0, u1, x0, x1
    <3> QED
      BY <2>4, <3>1, <3>2, <3>3
  <2>6. Next0(hunks, n) = x0 - Lead(n) /\ Next1(hunks, n) = x1 - Lead(n)
    BY <1>5, <2>1
  <2>7. SdiffCommon(LinesOf(0, x0 - Lead(n), u0), LinesOf(1, x1 - Lead(n), u1), FALSE, FALSE)
          \in Seq(FineRow)
    BY <2>1, <2>2, <2>4, AheadFine
  <2> HIDE DEF x0, x1, u0, u1
  <2> QED
    BY <2>5, <2>6, <2>7, Zenon
<1>9. rest \in Seq(FineRow)
  <2> DEFINE n == N + 1
  <2>1. n \in 1..(N + 1) /\ n = Len(script) + 1 /\ n \in Nat
    BY <1>2 DEF N
  <2>2. PICK gap \in Nat :
          /\ SameBehind(n, gap, 0)
          /\ \A f \in Files : Until(script, equivs, f, n) = Past(script, f, n - 1) + gap
    BY <1>6, <2>1
  <2>3. PICK suffix \in Nat : Ends(suffix) /\ \A f \in Files : valid_lines(f) = Len(equivs[f]) + suffix
    BY <1>7
  <2> HIDE DEF n
  <2>4. \A f \in Files : Past(script, f, n - 1) + gap = Len(equivs[f])
    BY <2>1, <2>2 DEF Until
  <2>5. SameBehind(n, gap, suffix)
    BY <2>2, <2>3, <2>4 DEF SameBehind
  <2> DEFINE x0 == Past(script, 0, n - 1)
             x1 == Past(script, 1, n - 1)
             u0 == (x0 + gap) + suffix
             u1 == (x1 + gap) + suffix
  <2>6. u0 = valid_lines(0) /\ u1 = valid_lines(1)
    BY <1>2, <2>3, <2>4
  <2>7. u0 <= valid_lines(0) /\ u1 <= valid_lines(1)
    <3>1. valid_lines(0) <= valid_lines(0) /\ valid_lines(1) <= valid_lines(1)
      BY <1>2, <1>7
    <3> HIDE DEF u0, u1
    <3> QED
      BY <2>6, <3>1
  <2>8. Next0(hunks, n) = x0 - Lead(n) /\ Next1(hunks, n) = x1 - Lead(n)
    BY <1>5, <2>1
  <2>9. SdiffCommon(LinesOf(0, x0 - Lead(n), u0), LinesOf(1, x1 - Lead(n), u1), FALSE, FALSE)
          \in Seq(FineRow)
    BY <2>1, <2>5, <2>7, AheadFine
  <2>10. rest = Common(n, valid_lines(0), valid_lines(1))
    BY <1>3 DEF n
  <2> HIDE DEF x0, x1, u0, u1, rest
  <2> QED
    BY <2>6, <2>8, <2>9, <2>10, Zenon
<1>10. ASSUME NEW n \in 1..N PROVE SdiffHunk(hunks[n], FALSE) \in Seq(FineRow)
  <2>1. \A f \in Files : Len(File(f)) \in Nat /\ File(f) \in Seq(Lines)
    <3>1. input \in Cases
      BY DEF ReadSame, ReadInv
    <3> QED
      BY <3>1, FileTypes
  <2> DEFINE s0 == hunks[n].first0
             t0 == hunks[n].last0 + 1
             s1 == hunks[n].first1
             t1 == hunks[n].last1 + 1
  <2>2. ASSUME NEW f \in Files
        PROVE  /\ FirstOf(hunks[n], f) \in Nat /\ LastOf(hunks[n], f) \in Int
               /\ FirstOf(hunks[n], f) <= LastOf(hunks[n], f) + 1
               /\ LastOf(hunks[n], f) + 1 <= valid_lines(f)
    BY <1>3, HunksFollow DEF hunks, H
  <2>3. ASSUME NEW f \in Files
        PROVE  LinesOf(f, FirstOf(hunks[n], f), LastOf(hunks[n], f) + 1) \in Seq(Lines)
    <3> DEFINE s == FirstOf(hunks[n], f)
               t == LastOf(hunks[n], f) + 1
    <3>1. s \in Int /\ t \in Int /\ s >= 0 /\ s <= t /\ t <= valid_lines(f)
      BY <2>2
    <3> HIDE DEF s, t
    <3>2. prefix_lines + s >= 0
      BY <1>2, <3>1
    <3>3. LinesOf(f, s, t) \in Seq(Lines)
      BY <1>2, <2>1, <3>1, <3>2, TextGrows
    <3> QED
      BY <3>3 DEF s, t
  <2>4. Old(hunks[n]) \in Seq(Lines) /\ New(hunks[n]) \in Seq(Lines)
    BY <1>2, <2>3 DEF Old, New, FirstOf, LastOf
  <2> QED
    BY <2>4, HunkFine
<1> HIDE DEF Common, rest
<1>11. parts \in Seq(Seq(FineRow))
  <2>1. \A n \in 1..N : RowsAt(n) \in Seq(FineRow)
    <3> TAKE n \in 1..N
    <3>1. /\ Common(n, hunks[n].first0, hunks[n].first1) \in Seq(FineRow)
          /\ SdiffHunk(hunks[n], FALSE) \in Seq(FineRow)
      BY <1>8, <1>10
    <3>2. \A x, y \in Seq(FineRow) : x \o y \in Seq(FineRow)
      OBVIOUS
    <3> QED
      BY <3>1, <3>2
  <2> HIDE DEF RowsAt
  <2> QED
    BY <1>2, <1>3, <2>1
<1> HIDE DEF parts
<1>12. FlattenSeq(parts) \in Seq(FineRow)
  BY <1>11, FlattenSame, Flat!FlattenType
<1>13. FlattenSeq(parts) \o rest \in Seq(FineRow)
  BY <1>9, <1>12
<1> QED
  BY <1>1, <1>13

(* The columns of a side by side listing hold both files and, if no change *)
(* is ignored, lines without a mark are the same, for files of any length: *)
(* behind every hunk the common lines of both files are as many, so that   *)
(* no line of one column is left without one beside it.                    *)
THEOREM SideBySide == Spec => []SdiffTells
<1>1. ComparingInv => ReadInv
  BY DEF ComparingInv
<1>2. ReadInv /\ ScriptInv /\ EndsInv /\ ChainInv => SdiffTells
  <2> SUFFICES ASSUME ReadInv, ScriptInv, EndsInv, ChainInv, stage = "done" PROVE SdiffTells
    BY DEF SdiffTells
  <2>1. ReadSame
    BY DEF ReadSame, ChainInv
  <2>2. ASSUME NEW ignore \in BOOLEAN
        PROVE  /\ ColumnOf(Sdiff(ignore, FALSE, FALSE, FALSE), "left") = input.old
               /\ ColumnOf(Sdiff(ignore, FALSE, FALSE, FALSE), "right") = input.new
    <3>1. /\ "left" \in E!Side /\ "right" \in E!Side /\ FileOf("left") = 0 /\ FileOf("right") = 1
          /\ File(0) = input.old /\ File(1) = input.new
      BY <2>1, ReadTypes DEF E!Side, FileOf
    <3> QED
      BY <2>1, <3>1, SdiffColumns
  <2>3. ASSUME NEW rows, rows = Sdiff(FALSE, FALSE, FALSE, FALSE), NEW k \in DOMAIN rows
        PROVE  /\ rows[k].mark \in {" ", "|", "<", ">"}
               /\ rows[k].mark = " " => Class(rows[k].left[1]) = Class(rows[k].right[1])
    <3>1. rows \in Seq(FineRow)
      BY <2>1, <2>3, SdiffFine
    <3>2. rows[k] \in FineRow
      BY <3>1
    <3>3. /\ rows[k] \in [left : Seq(Lines), mark : PlainMarks, right : Seq(Lines)]
          /\ rows[k].mark = Bare => SameClass(rows[k])
      BY <3>2 DEF FineRow
    <3>4. rows[k].mark \in PlainMarks
      <4> HIDE DEF PlainMarks
      <4> QED
        BY <3>3
    <3> QED
      BY <3>3, <3>4, Zenon DEF PlainMarks, Bare, SameClass
  <2>4. ASSUME NEW ignore \in BOOLEAN, ~ignore PROVE ignore = FALSE
    BY <2>4
  <2> QED
    BY <2>2, <2>3, <2>4, Zenon DEF SdiffTells
<1>3. Init => ScriptInv
  BY DEF Init, ScriptInv
<1>4. Spec => []ScriptInv
  BY <1>1, <1>3, ComparingInvariant, ScriptInvNext, PTL DEF Spec
<1> QED
  BY <1>1, <1>2, <1>4, ComparingInvariant, ChainInvariant, PTL
=============================================================================
