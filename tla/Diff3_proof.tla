----------------------------- MODULE Diff3_proof -----------------------------
(***************************************************************************)
(* Whatever two scripts of diff are combined, the blocks of make_3way_diff *)
(* are in order, in step and apart in all three files.                     *)
(***************************************************************************)
EXTENDS Diff3, SequenceTheorems, TLAPS

IsSeq(s) == s \in Seq({s[k] : k \in DOMAIN s})

(* The numbers of a hunk, and a hunk and the next one of its thread.       *)
IsHunk(h) ==
    /\ LowLine(h, FC) \in Int /\ HighLine(h, FC) \in Int
    /\ LowLine(h, FO) \in Int /\ HighLine(h, FO) \in Int
    /\ LowLine(h, FC) <= HighLine(h, FC) + 1
    /\ LowLine(h, FO) <= HighLine(h, FO) + 1
Precedes(g, h) ==
    /\ LowLine(h, FC) - HighLine(g, FC) = LowLine(h, FO) - HighLine(g, FO)
    /\ LowLine(h, FC) >= HighLine(g, FC) + 2
Thread(s) ==
    /\ IsSeq(s)
    /\ \A k \in 1..Len(s) : IsHunk(s[k])
    /\ \A k \in 1..(Len(s) - 1) : Precedes(s[k], s[k + 1])

(* The lines between the last block and a hunk.                            *)
InStep(t, h) == LowLine(h, FC) - LowLine(h, FO) = LastHigh(FILEC) - LastHigh(t)
Room == IF diff3 = <<>> THEN 1 ELSE 2
Comes(t, n) ==
    current[t] # <<>> =>
        InStep(t, Head(current[t])) /\ LowLine(Head(current[t]), FC) >= n

TypeInv ==
    /\ current = [t \in Threads |-> current[t]]
    /\ using = [t \in Threads |-> using[t]]
    /\ \A t \in Threads : Thread(current[t]) /\ IsSeq(using[t])
    /\ high_water_thread \in Threads /\ base_water_thread \in Threads
    /\ high_water_mark \in Int
    /\ IsSeq(diff3)
    /\ \A m \in 0..2 : LastHigh(m) \in Int

(* The hunks used of a thread.                                             *)
Used(t) ==
    /\ IsHunk(Head(using[t])) /\ IsHunk(Last(using[t]))
    /\ LowLine(Head(using[t]), FO) <= HighLine(Last(using[t]), FO) + 1
    /\ LowLine(Head(using[t]), FC) <= HighLine(Last(using[t]), FC) + 1
    /\ InStep(t, Head(using[t]))
    /\ LowLine(Head(using[t]), FC) >= lowc
    /\ HighLine(Last(using[t]), FC) <= high_water_mark
    /\ current[t] # <<>> => Precedes(Last(using[t]), Head(current[t]))

BetweenBlocks ==
    stage # "shuffle" => \A t \in Threads : Comes(t, LastHigh(FILEC) + Room)

(* "HIGH_WATER_DIFF should always be equal to                              *)
(* LAST_USING[HIGH_WATER_THREAD]", and the mark is its last line.          *)
WithinBlock ==
    stage = "shuffle" =>
        /\ using[base_water_thread] # <<>> /\ using[high_water_thread] # <<>>
        /\ lowc >= LastHigh(FILEC) + Room
        /\ high_water_mark = highc
        /\ \A t \in Threads : using[t] = <<>> => Comes(t, lowc)
        /\ \A t \in Threads : using[t] # <<>> => Used(t)

IInv == TypeInv /\ BetweenBlocks /\ WithinBlock /\ BlocksInOrder

-----------------------------------------------------------------------------
(* Sequences whose elements are of no particular set.                      *)
LEMMA SeqFacts ==
  ASSUME NEW s, IsSeq(s)
  PROVE  Len(s) \in Nat /\ DOMAIN s = 1..Len(s) /\ (s # <<>> <=> Len(s) >= 1)
  <1>1. PICK S : s \in Seq(S)
    BY DEF IsSeq
  <1> QED
    BY <1>1

LEMMA ElementsOfSeq ==
  ASSUME NEW S, NEW s \in Seq(S), NEW T, \A k \in 1..Len(s) : s[k] \in T
  PROVE  s \in Seq(T)
  <1>1. Len(s) \in Nat /\ s = [k \in 1..Len(s) |-> s[k]]
    OBVIOUS
  <1>2. [k \in 1..Len(s) |-> s[k]] \in Seq(T)
    BY <1>1
  <1> QED
    BY <1>1, <1>2

LEMMA IsSeqOf ==
  ASSUME NEW S, NEW s \in Seq(S)
  PROVE  IsSeq(s)
  <1> DEFINE T == {s[k] : k \in DOMAIN s}
  <1>1. \A k \in 1..Len(s) : s[k] \in T
    OBVIOUS
  <1> HIDE DEF T
  <1>2. s \in Seq(T)
    BY <1>1, ElementsOfSeq
  <1> QED
    BY <1>2 DEF IsSeq, T

LEMMA EmptyIsSeq == IsSeq(<<>>)
  <1>1. <<>> \in Seq({})
    OBVIOUS
  <1> QED
    BY <1>1, IsSeqOf

LEMMA AppendFacts ==
  ASSUME NEW s, IsSeq(s), NEW e
  PROVE  /\ IsSeq(Append(s, e))
         /\ Len(Append(s, e)) = Len(s) + 1
         /\ \A k \in 1..Len(s) : Append(s, e)[k] = s[k]
         /\ Append(s, e)[Len(s) + 1] = e
         /\ Append(s, e) # <<>>
  <1> DEFINE S == {s[k] : k \in DOMAIN s} \cup {e}
             a == Append(s, e)
  <1>1. s \in Seq(S)
    <2>1. s \in Seq({s[k] : k \in DOMAIN s}) /\ DOMAIN s = 1..Len(s)
      BY SeqFacts DEF IsSeq
    <2>2. \A k \in 1..Len(s) : s[k] \in S
      BY <2>1
    <2> QED
      BY <2>1, <2>2, ElementsOfSeq
  <1>2. e \in S
    OBVIOUS
  <1> HIDE DEF S
  <1>3. /\ a \in Seq(S) /\ Len(a) = Len(s) + 1 /\ a # <<>>
        /\ \A k \in 1..Len(s) : a[k] = s[k]
        /\ a[Len(s) + 1] = e
    BY <1>1, <1>2, AppendProperties
  <1>4. IsSeq(a)
    BY <1>3, IsSeqOf
  <1> QED
    BY <1>3, <1>4

LEMMA AppendEnds ==
  ASSUME NEW s, IsSeq(s), NEW e
  PROVE  /\ Last(Append(s, e)) = e
         /\ s # <<>> => Head(Append(s, e)) = Head(s)
         /\ s = <<>> => Head(Append(s, e)) = e
  <1>1. Len(s) \in Nat /\ (s # <<>> <=> Len(s) >= 1)
    BY SeqFacts
  <1>2. Last(Append(s, e)) = e
    BY <1>1, AppendFacts DEF Last
  <1>3. Head(Append(s, e)) = Append(s, e)[1]
    OBVIOUS
  <1>4. ASSUME s # <<>> PROVE Head(Append(s, e)) = Head(s)
    BY <1>1, <1>3, <1>4, AppendFacts
  <1>5. ASSUME s = <<>> PROVE Head(Append(s, e)) = e
    BY <1>1, <1>3, <1>5, AppendFacts
  <1> QED
    BY <1>2, <1>4, <1>5

LEMMA Singleton ==
  ASSUME NEW e
  PROVE  IsSeq(<<e>>) /\ <<e>> # <<>> /\ Head(<<e>>) = e /\ Last(<<e>>) = e
  <1>1. <<e>> \in Seq({e}) /\ {<<e>>[k] : k \in DOMAIN <<e>>} = {e}
    OBVIOUS
  <1> QED
    BY <1>1 DEF IsSeq, Last

(* The hunks behind the first one of a thread.                             *)
LEMMA TailOfThread ==
  ASSUME NEW s, Thread(s), s # <<>>
  PROVE  /\ IsHunk(Head(s))
         /\ Thread(Tail(s))
         /\ Tail(s) # <<>> => Precedes(Head(s), Head(Tail(s)))
  <1>1. /\ Len(s) \in Nat /\ Len(s) >= 1
        /\ s \in Seq({s[k] : k \in DOMAIN s})
    BY SeqFacts DEF Thread, IsSeq
  <1>2. Head(s) = s[1]
    OBVIOUS
  <1>3. /\ Tail(s) \in Seq({s[k] : k \in DOMAIN s})
        /\ Len(Tail(s)) = Len(s) - 1
        /\ \A k \in 1..(Len(s) - 1) : Tail(s)[k] = s[k + 1]
    BY <1>1
  <1>4. IsSeq(Tail(s))
    BY <1>3, IsSeqOf
  <1>5. \A k \in 1..Len(Tail(s)) : IsHunk(Tail(s)[k])
    BY <1>1, <1>3 DEF Thread
  <1>6. \A k \in 1..(Len(Tail(s)) - 1) : Precedes(Tail(s)[k], Tail(s)[k + 1])
    BY <1>1, <1>3 DEF Thread
  <1>7. ASSUME Tail(s) # <<>> PROVE Precedes(Head(s), Head(Tail(s)))
    <2>1. Len(Tail(s)) >= 1
      BY <1>4, <1>7, SeqFacts
    <2>2. Head(Tail(s)) = s[2]
      BY <1>1, <1>3, <2>1
    <2> QED
      BY <1>1, <1>2, <1>3, <2>1, <2>2 DEF Thread
  <1>8. IsHunk(Head(s))
    BY <1>1, <1>2 DEF Thread
  <1> QED
    BY <1>4, <1>5, <1>6, <1>7, <1>8 DEF Thread

LEMMA HeadOfThread ==
  ASSUME NEW s, Thread(s), s # <<>>
  PROVE  IsHunk(Head(s))
  BY TailOfThread

(* What diff's scripts promise of the hunks.                               *)
LEMMA HunkNumbers ==
  ASSUME NEW a \in Nat, NEW b \in Nat, NEW h \in E!Hunks(a, b), E!WellFormed(h)
  PROVE  IsHunk(h)
  <1>1. /\ h["left"][1] <= h["left"][2] /\ h["right"][1] <= h["right"][2]
    BY DEF E!WellFormed, E!Side
  <1>2. /\ h.letter \in {"a", "d", "c"}
        /\ h["left"][1] \in Nat /\ h["left"][2] \in Nat
        /\ h["right"][1] \in Nat /\ h["right"][2] \in Nat
    <2>1. CASE \E i \in 0..a, j \in 1..b, k \in 1..b : h = E!Hunk("a", i, i, j, k)
      <3>1. PICK i \in 0..a, j \in 1..b, k \in 1..b : h = E!Hunk("a", i, i, j, k)
        BY <2>1
      <3>2. h = [letter |-> "a", left |-> <<i, i>>, right |-> <<j, k>>]
        BY <3>1 DEF E!Hunk
      <3> QED
        BY <3>2
    <2>2. CASE \E i \in 1..a, j \in 1..a, k \in 0..b : h = E!Hunk("d", i, j, k, k)
      <3>1. PICK i \in 1..a, j \in 1..a, k \in 0..b : h = E!Hunk("d", i, j, k, k)
        BY <2>2
      <3>2. h = [letter |-> "d", left |-> <<i, j>>, right |-> <<k, k>>]
        BY <3>1 DEF E!Hunk
      <3> QED
        BY <3>2
    <2>3. CASE \E i \in 1..a, j \in 1..a, k \in 1..b, l \in 1..b :
                 h = E!Hunk("c", i, j, k, l)
      <3>1. PICK i \in 1..a, j \in 1..a, k \in 1..b, l \in 1..b :
                 h = E!Hunk("c", i, j, k, l)
        BY <2>3
      <3>2. h = [letter |-> "c", left |-> <<i, j>>, right |-> <<k, l>>]
        BY <3>1 DEF E!Hunk
      <3> QED
        BY <3>2
    <2> QED
      BY <2>1, <2>2, <2>3 DEF E!Hunks
  <1>3. /\ HighLine(h, FC) = h["right"][2] /\ HighLine(h, FO) = h["left"][2]
        /\ LowLine(h, FC) \in {h["right"][1], h["right"][1] + 1}
        /\ LowLine(h, FO) \in {h["left"][1], h["left"][1] + 1}
    BY DEF HighLine, LowLine, FC, FO, E!FirstWord, E!LastWord
  <1> QED
    BY <1>1, <1>2, <1>3 DEF IsHunk

LEMMA PrecedesIf ==
  ASSUME NEW g, NEW h, IsHunk(g), IsHunk(h),
         LowLine(h, FO) - HighLine(g, FO) - 1 = LowLine(h, FC) - HighLine(g, FC) - 1,
         LowLine(h, FO) - HighLine(g, FO) - 1 >= 1
  PROVE  Precedes(g, h)
  <1>1. /\ LowLine(h, FC) \in Int /\ HighLine(g, FC) \in Int
        /\ LowLine(h, FO) \in Int /\ HighLine(g, FO) \in Int
    BY DEF IsHunk
  <1>2. LowLine(h, FC) - HighLine(g, FC) = LowLine(h, FO) - HighLine(g, FO)
    BY <1>1
  <1>3. LowLine(h, FC) - HighLine(g, FC) >= 2
    BY <1>1
  <1> QED
    BY <1>1, <1>2, <1>3 DEF Precedes

LEMMA ScriptIsThread ==
  ASSUME NEW c \in Comparisons
  PROVE  /\ Thread(c.script)
         /\ c.script # <<>> =>
              /\ LowLine(c.script[1], FC) = LowLine(c.script[1], FO)
              /\ LowLine(c.script[1], FC) >= 1
  <1> DEFINE s == c.script
             a == Len(c.other)
             b == Len(c.common)
             total == [left |-> a, right |-> b]
  <1>1. a \in Nat /\ b \in Nat /\ s \in Seq(E!Hunks(a, b)) /\ E!IsScript(s, total)
    BY ComparisonsAssumption
  <1> HIDE DEF s, a, b, total
  <1>2. /\ Len(s) \in Nat /\ DOMAIN s = 1..Len(s)
        /\ \A k \in 1..Len(s) : s[k] \in E!Hunks(a, b)
    BY <1>1
  <1>3. \A k \in 1..Len(s) :
          /\ E!WellFormed(s[k])
          /\ E!Gap(s, k, "left") = E!Gap(s, k, "right")
          /\ E!Gap(s, k, "left") >= (IF k = 1 THEN 0 ELSE 1)
    BY <1>1, <1>2 DEF E!IsScript
  <1>4. \A k \in 1..Len(s) : IsHunk(s[k])
    BY <1>1, <1>2, <1>3, HunkNumbers
  <1>5. \A k \in 1..Len(s) :
          /\ E!Gap(s, k, "left")
               = LowLine(s[k], FO) - (IF k = 1 THEN 0 ELSE HighLine(s[k - 1], FO)) - 1
          /\ E!Gap(s, k, "right")
               = LowLine(s[k], FC) - (IF k = 1 THEN 0 ELSE HighLine(s[k - 1], FC)) - 1
    <2>1. ASSUME NEW k \in 1..Len(s), NEW side
          PROVE  E!Accounted(s, k - 1, side) = IF k = 1 THEN 0 ELSE E!LastWord(s[k - 1], side)
      BY <1>2 DEF E!Accounted
    <2> QED
      BY <2>1 DEF E!Gap, LowLine, HighLine, FC, FO
  <1>6. ASSUME NEW k \in 1..(Len(s) - 1) PROVE Precedes(s[k], s[k + 1])
    <2>1. k + 1 \in 1..Len(s) /\ k \in 1..Len(s) /\ (k + 1) - 1 = k /\ k + 1 # 1
      BY <1>2
    <2>2. LowLine(s[k + 1], FO) - HighLine(s[k], FO) - 1
            = LowLine(s[k + 1], FC) - HighLine(s[k], FC) - 1
      BY <1>3, <1>5, <2>1
    <2>3. LowLine(s[k + 1], FO) - HighLine(s[k], FO) - 1 >= 1
      BY <1>3, <1>5, <2>1
    <2>4. IsHunk(s[k]) /\ IsHunk(s[k + 1])
      BY <1>4, <2>1
    <2> QED
      BY <2>2, <2>3, <2>4, PrecedesIf
  <1>7. ASSUME s # <<>>
        PROVE  LowLine(s[1], FC) = LowLine(s[1], FO) /\ LowLine(s[1], FC) >= 1
    <2>1. 1 \in 1..Len(s)
      BY <1>1, <1>7
    <2>2. LowLine(s[1], FO) - 0 - 1 = LowLine(s[1], FC) - 0 - 1
          /\ LowLine(s[1], FO) - 0 - 1 >= 0
      BY <1>3, <1>5, <2>1
    <2> QED
      BY <1>4, <2>1, <2>2 DEF IsHunk
  <1>8. Thread(s)
    BY <1>1, <1>4, <1>6, IsSeqOf DEF Thread
  <1> QED
    BY <1>7, <1>8 DEF s

LEMMA InitIInv == Init => IInv
  <1> SUFFICES ASSUME Init PROVE IInv
    OBVIOUS
  <1>1. PICK mine \in Comparisons, other \in Comparisons :
          input.threads = [t \in Threads |-> IF t = 0 THEN mine.script ELSE other.script]
    BY DEF Init
  <1>2. \A t \in Threads : \E c \in Comparisons : current[t] = c.script
    BY <1>1 DEF Init, Threads
  <1>3. \A t \in Threads : Thread(current[t])
    BY <1>2, ScriptIsThread
  <1>4. diff3 = <<>> /\ \A m \in 0..2 : LastHigh(m) = 0
    BY DEF Init, LastHigh
  <1>5. TypeInv
    <2>1. current = [t \in Threads |-> current[t]]
      BY <1>1 DEF Init
    <2>2. \A t \in Threads : using[t] = <<>>
      BY DEF Init
    <2>3. IsSeq(<<>>)
      BY EmptyIsSeq
    <2>4. using = [t \in Threads |-> using[t]]
      BY DEF Init
    <2> QED
      BY <1>3, <1>4, <2>1, <2>2, <2>3, <2>4 DEF TypeInv, Init, Threads
  <1>6. BetweenBlocks
    <2>1. ASSUME NEW t \in Threads, current[t] # <<>>
          PROVE  LowLine(current[t][1], FC) = LowLine(current[t][1], FO)
                 /\ LowLine(current[t][1], FC) >= 1
      BY <1>2, <2>1, ScriptIsThread
    <2>2. ASSUME NEW t \in Threads, current[t] # <<>>
          PROVE  IsHunk(Head(current[t])) /\ Head(current[t]) = current[t][1]
      BY <1>3, <2>2, HeadOfThread
    <2>3. ASSUME NEW t \in Threads PROVE Comes(t, 0 + 1)
      <3>1. LastHigh(t) = 0 /\ LastHigh(FILEC) = 0
        BY <1>4 DEF Threads, FILEC
      <3> QED
        BY <2>1, <2>2, <3>1 DEF Comes, InStep, IsHunk
    <2>4. Room = 1 /\ LastHigh(FILEC) = 0
      BY <1>4 DEF Room, FILEC
    <2> QED
      BY <2>3, <2>4 DEF BetweenBlocks
  <1>7. WithinBlock /\ BlocksInOrder
    BY <1>4 DEF Init, WithinBlock, BlocksInOrder
  <1> QED
    BY <1>5, <1>6, <1>7 DEF IInv

-----------------------------------------------------------------------------
LEMMA BeginBlockIInv == IInv /\ BeginBlock => IInv'
  <1> SUFFICES ASSUME IInv, BeginBlock PROVE IInv'
    OBVIOUS
  <1> PICK f, h : f = FirstThread /\ h = Head(current[f])
    OBVIOUS
  <1>1. f \in Threads /\ current[f] # <<>> /\ (current[1 - f] # <<>> =>
          LowLine(h, FC) <= LowLine(Head(current[1 - f]), FC))
    <2>1. \A t \in Threads : current[t] # <<>> => IsHunk(Head(current[t]))
      BY HeadOfThread DEF IInv, TypeInv
    <2>2. current[0] # <<>> \/ current[1] # <<>>
      BY DEF BeginBlock, Threads
    <2>3. CASE current[0] = <<>>
      <3>1. f = 1
        BY <2>2, <2>3 DEF FirstThread
      <3> QED
        BY <2>2, <2>3, <3>1 DEF Threads
    <2>4. CASE current[0] # <<>> /\ current[1] = <<>>
      <3>1. f = 0
        BY <2>4 DEF FirstThread
      <3> QED
        BY <2>4, <3>1 DEF Threads
    <2>5. CASE current[0] # <<>> /\ current[1] # <<>>
      <3>1. /\ LowLine(Head(current[0]), FC) \in Int
            /\ LowLine(Head(current[1]), FC) \in Int
        BY <2>1, <2>5 DEF IsHunk, Threads
      <3>2. f = IF LowLine(Head(current[0]), FC) > LowLine(Head(current[1]), FC) THEN 1 ELSE 0
        BY <2>5 DEF FirstThread
      <3> QED
        BY <2>5, <3>1, <3>2 DEF Threads
    <2> QED
      BY <2>3, <2>4, <2>5
  <1>2. /\ IsHunk(h) /\ Thread(Tail(current[f]))
        /\ Tail(current[f]) # <<>> => Precedes(h, Head(Tail(current[f])))
    BY <1>1, TailOfThread DEF IInv, TypeInv
  <1>3. /\ base_water_thread' = f /\ high_water_thread' = f
        /\ high_water_mark' = HighLine(h, FC)
        /\ using' = [t \in Threads |-> IF t = f THEN <<h>> ELSE <<>>]
        /\ current' = [current EXCEPT ![f] = Tail(@)]
        /\ stage' = "shuffle" /\ stage = "next" /\ diff3' = diff3
    BY DEF BeginBlock
  <1>4. /\ current' = [t \in Threads |-> IF t = f THEN Tail(current[f]) ELSE current[t]]
        /\ \A t \in Threads : Comes(t, LastHigh(FILEC) + Room)
        /\ \A t \in Threads : Thread(current[t])
        /\ \A m \in 0..2 : LastHigh(m) \in Int /\ LastHigh(m)' = LastHigh(m)
        /\ IsSeq(diff3) /\ BlocksInOrder
        /\ Room \in Int /\ Room' = Room
    <2>1. current = [t \in Threads |-> current[t]]
      BY DEF IInv, TypeInv
    <2>2. current' = [t \in Threads |-> IF t = f THEN Tail(current[f]) ELSE current[t]]
      BY <1>3, <2>1
    <2>3. /\ \A t \in Threads : Comes(t, LastHigh(FILEC) + Room)
          /\ \A t \in Threads : Thread(current[t])
          /\ IsSeq(diff3) /\ BlocksInOrder
      BY <1>3 DEF IInv, TypeInv, BetweenBlocks
    <2>4. \A m \in 0..2 : LastHigh(m) \in Int /\ LastHigh(m)' = LastHigh(m)
      BY <1>3 DEF IInv, TypeInv, LastHigh
    <2>5. Room \in Int /\ Room' = Room
      BY <1>3 DEF Room
    <2> QED
      BY <2>2, <2>3, <2>4, <2>5
  <1>5. <<h>> # <<>> /\ Head(<<h>>) = h /\ Last(<<h>>) = h /\ IsSeq(<<h>>) /\ IsSeq(<<>>)
    BY Singleton, EmptyIsSeq
  <1>6. InStep(f, h) /\ LowLine(h, FC) >= LastHigh(FILEC) + Room
    BY <1>1, <1>4 DEF Comes
  <1>7. TypeInv'
    <2>1. \A t \in Threads : Thread(current'[t]) /\ IsSeq(using'[t])
      BY <1>2, <1>3, <1>4, <1>5
    <2>2. current' = [t \in Threads |-> current'[t]] /\ using' = [t \in Threads |-> using'[t]]
      BY <1>3, <1>4
    <2>3. high_water_mark' \in Int
      BY <1>2, <1>3 DEF IsHunk
    <2> QED
      BY <1>1, <1>3, <1>4, <2>1, <2>2, <2>3 DEF TypeInv
  <1>8. WithinBlock'
    <2>1. using'[f] = <<h>> /\ lowc' = LowLine(h, FC) /\ highc' = HighLine(h, FC)
      BY <1>1, <1>3, <1>5 DEF lowc, highc
    <2>2. LastHigh(FILEC)' = LastHigh(FILEC)
      BY <1>4 DEF FILEC
    <2>3. ASSUME NEW t \in Threads, using'[t] = <<>> PROVE Comes(t, lowc)'
      <3>1. t = 1 - f /\ current'[t] = current[t]
        BY <1>1, <1>3, <1>4, <1>5, <2>1, <2>3 DEF Threads
      <3>2. ASSUME current[t] # <<>>
            PROVE  InStep(t, Head(current[t])) /\ LowLine(Head(current[t]), FC) >= LowLine(h, FC)
        <4>1. InStep(t, Head(current[t]))
          BY <1>4, <3>2 DEF Comes
        <4>2. LowLine(h, FC) <= LowLine(Head(current[t]), FC)
          BY <1>1, <3>1, <3>2
        <4>3. LowLine(h, FC) \in Int /\ LowLine(Head(current[t]), FC) \in Int
          BY <1>2, <1>4, <3>2, HeadOfThread DEF IsHunk
        <4> QED
          BY <4>1, <4>2, <4>3
      <3>3. LastHigh(t)' = LastHigh(t)
        BY <1>4 DEF Threads
      <3> QED
        BY <2>1, <2>2, <3>1, <3>2, <3>3 DEF Comes, InStep
    <2>4. ASSUME NEW t \in Threads, using'[t] # <<>> PROVE Used(t)'
      <3>1. t = f
        BY <1>3, <2>4
      <3>2. current'[t] = Tail(current[f]) /\ using'[t] = <<h>>
        BY <1>1, <1>4, <2>1, <3>1
      <3>3. InStep(t, h)'
        <4>1. LastHigh(t)' = LastHigh(t)
          BY <1>4 DEF Threads
        <4> QED
          BY <1>6, <2>2, <3>1, <4>1 DEF InStep
      <3>4. /\ LowLine(h, FO) <= HighLine(h, FO) + 1 /\ LowLine(h, FC) <= HighLine(h, FC) + 1
            /\ LowLine(h, FC) >= lowc' /\ HighLine(h, FC) <= high_water_mark'
        BY <1>2, <1>3, <2>1 DEF IsHunk
      <3>5. Head(using'[t]) = h /\ Last(using'[t]) = h
        BY <1>5, <3>2
      <3> QED
        BY <1>2, <3>2, <3>3, <3>4, <3>5 DEF Used, InStep
    <2> QED
      BY <1>3, <1>4, <1>5, <1>6, <2>1, <2>2, <2>3, <2>4 DEF WithinBlock
  <1>9. BetweenBlocks' /\ BlocksInOrder'
    BY <1>3, <1>4 DEF BetweenBlocks, BlocksInOrder, BlockHigh
  <1> QED
    BY <1>7, <1>8, <1>9 DEF IInv

(* A hunk and one that follows it in its thread.                           *)
LEMMA LaterHunk ==
  ASSUME NEW g, NEW l, NEW h, IsHunk(g), IsHunk(l), IsHunk(h), Precedes(l, h),
         LowLine(g, FC) <= HighLine(l, FC) + 1, LowLine(g, FO) <= HighLine(l, FO) + 1
  PROVE  /\ LowLine(h, FC) >= LowLine(g, FC)
         /\ LowLine(g, FC) <= HighLine(h, FC) + 1 /\ LowLine(g, FO) <= HighLine(h, FO) + 1
  <1>1. /\ LowLine(g, FC) \in Int /\ LowLine(g, FO) \in Int
        /\ HighLine(l, FC) \in Int /\ HighLine(l, FO) \in Int
        /\ LowLine(h, FC) \in Int /\ LowLine(h, FO) \in Int
        /\ HighLine(h, FC) \in Int /\ HighLine(h, FO) \in Int
        /\ LowLine(h, FC) <= HighLine(h, FC) + 1 /\ LowLine(h, FO) <= HighLine(h, FO) + 1
    BY DEF IsHunk
  <1>2. /\ LowLine(h, FC) - HighLine(l, FC) = LowLine(h, FO) - HighLine(l, FO)
        /\ LowLine(h, FC) >= HighLine(l, FC) + 2
    BY DEF Precedes
  <1>3. LowLine(h, FC) >= LowLine(g, FC) /\ LowLine(g, FC) <= HighLine(h, FC) + 1
    BY <1>1, <1>2
  <1>4. LowLine(h, FO) >= HighLine(l, FO) + 2
    BY <1>1, <1>2
  <1>5. LowLine(g, FO) <= HighLine(h, FO) + 1
    BY <1>1, <1>4
  <1> QED
    BY <1>3, <1>5

LEMMA IncorporateIInv == IInv /\ Incorporate => IInv'
  <1> SUFFICES ASSUME IInv, Incorporate PROVE IInv'
    OBVIOUS
  <1> PICK o, h : o = other_thread /\ h = Head(current[o])
    OBVIOUS
  <1>1. /\ high_water_thread \in Threads /\ base_water_thread \in Threads
        /\ o = 1 - high_water_thread /\ o \in Threads /\ o # high_water_thread
        /\ current[o] # <<>>
    BY DEF IInv, TypeInv, Incorporate, Reaches, other_thread, Threads
  <1>2. /\ IsHunk(h) /\ Thread(Tail(current[o]))
        /\ Tail(current[o]) # <<>> => Precedes(h, Head(Tail(current[o])))
    BY <1>1, TailOfThread DEF IInv, TypeInv
  <1>3. /\ high_water_mark' = IF high_water_mark < HighLine(h, FC)
                              THEN HighLine(h, FC) ELSE high_water_mark
        /\ high_water_thread' = IF high_water_mark < HighLine(h, FC)
                                THEN o ELSE high_water_thread
        /\ base_water_thread' = base_water_thread
        /\ stage = "shuffle" /\ stage' = "shuffle" /\ diff3' = diff3
    BY DEF Incorporate
  <1>4. /\ using' = [using EXCEPT ![o] = Append(@, h)]
        /\ current' = [current EXCEPT ![o] = Tail(@)]
    BY DEF Incorporate
  <1>5. /\ using' = [t \in Threads |-> IF t = o THEN Append(using[o], h) ELSE using[t]]
        /\ current' = [t \in Threads |-> IF t = o THEN Tail(current[o]) ELSE current[t]]
    <2>1. current = [t \in Threads |-> current[t]] /\ using = [t \in Threads |-> using[t]]
      BY DEF IInv, TypeInv
    <2> QED
      BY <1>4, <2>1
  <1>6. /\ IsSeq(Append(using[o], h)) /\ Append(using[o], h) # <<>>
        /\ Last(Append(using[o], h)) = h
        /\ using[o] # <<>> => Head(Append(using[o], h)) = Head(using[o])
        /\ using[o] = <<>> => Head(Append(using[o], h)) = h
    BY <1>1, AppendFacts, AppendEnds DEF IInv, TypeInv
  <1>7. /\ high_water_mark \in Int /\ high_water_mark' \in Int
        /\ high_water_mark <= high_water_mark' /\ HighLine(h, FC) <= high_water_mark'
    BY <1>2, <1>3 DEF IInv, TypeInv, IsHunk
  <1>8. \A m \in 0..2 : LastHigh(m)' = LastHigh(m) /\ LastHigh(m) \in Int
    BY <1>3 DEF IInv, TypeInv, LastHigh
  <1>9. /\ using[base_water_thread] # <<>> /\ using[high_water_thread] # <<>>
        /\ lowc >= LastHigh(FILEC) + Room
        /\ high_water_mark = highc
        /\ \A t \in Threads : using[t] = <<>> => Comes(t, lowc)
        /\ \A t \in Threads : using[t] # <<>> => Used(t)
    BY <1>3 DEF IInv, WithinBlock
  <1>10. lowc' = lowc /\ lowc \in Int
    <2>1. Head(using'[base_water_thread]) = Head(using[base_water_thread])
      BY <1>1, <1>5, <1>6, <1>9
    <2>2. IsHunk(Head(using[base_water_thread]))
      BY <1>1, <1>9 DEF Used
    <2> QED
      BY <1>3, <2>1, <2>2 DEF lowc, IsHunk
  <1>11. TypeInv'
    <2>1. \A t \in Threads : Thread(current'[t]) /\ IsSeq(using'[t])
      BY <1>2, <1>5, <1>6 DEF IInv, TypeInv
    <2>2. current' = [t \in Threads |-> current'[t]] /\ using' = [t \in Threads |-> using'[t]]
      BY <1>5
    <2>3. high_water_thread' \in Threads
      BY <1>1, <1>3
    <2>4. IsSeq(diff3)
      BY DEF IInv, TypeInv
    <2> QED
      BY <1>1, <1>3, <1>7, <1>8, <2>1, <2>2, <2>3, <2>4 DEF TypeInv
  <1>12. /\ LowLine(h, FC) >= lowc
         /\ using[o] = <<>> => InStep(o, h)
         /\ using[o] # <<>> =>
              /\ Used(o)
              /\ LowLine(Head(using[o]), FO) <= HighLine(h, FO) + 1
              /\ LowLine(Head(using[o]), FC) <= HighLine(h, FC) + 1
    <2>1. CASE using[o] = <<>>
      BY <1>1, <1>9, <2>1 DEF Comes
    <2>2. CASE using[o] # <<>>
      <3>1. Used(o) /\ Precedes(Last(using[o]), h)
        BY <1>1, <1>9, <2>2 DEF Used
      <3> PICK g, l : g = Head(using[o]) /\ l = Last(using[o])
        OBVIOUS
      <3>2. /\ IsHunk(g) /\ IsHunk(l) /\ LowLine(g, FC) >= lowc /\ Precedes(l, h)
            /\ LowLine(g, FC) <= HighLine(l, FC) + 1 /\ LowLine(g, FO) <= HighLine(l, FO) + 1
        BY <3>1 DEF Used
      <3>3. /\ LowLine(h, FC) >= LowLine(g, FC)
            /\ LowLine(g, FC) <= HighLine(h, FC) + 1 /\ LowLine(g, FO) <= HighLine(h, FO) + 1
        BY <1>2, <3>2, LaterHunk
      <3>4. LowLine(h, FC) \in Int /\ LowLine(g, FC) \in Int
        BY <1>2, <3>2 DEF IsHunk
      <3>5. LowLine(h, FC) >= lowc
        BY <1>10, <3>2, <3>3, <3>4
      <3> QED
        BY <2>2, <3>1, <3>3, <3>5
    <2> QED
      BY <2>1, <2>2
  <1>13. \A t \in Threads : LastHigh(t)' = LastHigh(t) /\ LastHigh(FILEC)' = LastHigh(FILEC)
    BY <1>8 DEF Threads, FILEC
  <1>14. using'[o] = Append(using[o], h) /\ current'[o] = Tail(current[o])
    BY <1>1, <1>5
  <1>15. Used(o)'
    <2> PICK g, u : u = using'[o] /\ g = Head(u)
      OBVIOUS
    <2>1. Last(u) = h /\ g = IF using[o] = <<>> THEN h ELSE Head(using[o])
      BY <1>6, <1>14
    <2>2. /\ IsHunk(g) /\ InStep(o, g) /\ LowLine(g, FC) >= lowc
          /\ LowLine(g, FC) <= HighLine(h, FC) + 1 /\ LowLine(g, FO) <= HighLine(h, FO) + 1
      <3>1. CASE using[o] = <<>>
        BY <1>2, <1>12, <2>1, <3>1 DEF IsHunk
      <3>2. CASE using[o] # <<>>
        BY <1>12, <2>1, <3>2 DEF Used
      <3> QED
        BY <3>1, <3>2
    <2>3. InStep(o, g)'
      BY <1>1, <1>13, <2>2 DEF InStep
    <2>4. current'[o] # <<>> => Precedes(h, Head(current'[o]))
      BY <1>2, <1>14
    <2> QED
      BY <1>2, <1>7, <1>10, <2>1, <2>2, <2>3, <2>4 DEF Used, InStep
  <1>16. ASSUME NEW t \in Threads, t # o
         PROVE  /\ using'[t] # <<>> => Used(t)'
                /\ using'[t] = <<>> => Comes(t, lowc)'
    <2>1. using'[t] = using[t] /\ current'[t] = current[t]
      BY <1>5, <1>16
    <2>2. LastHigh(t)' = LastHigh(t) /\ LastHigh(FILEC)' = LastHigh(FILEC)
      BY <1>13
    <2>3. ASSUME using[t] # <<>> PROVE Used(t)'
      <3>1. Used(t)
        BY <1>9, <2>3
      <3>2. HighLine(Last(using[t]), FC) <= high_water_mark'
        <4>1. HighLine(Last(using[t]), FC) \in Int /\ HighLine(Last(using[t]), FC) <= high_water_mark
          BY <3>1 DEF Used, IsHunk
        <4> QED
          BY <1>7, <4>1
      <3> QED
        BY <1>10, <2>1, <2>2, <3>1, <3>2 DEF Used, InStep
    <2>4. ASSUME using[t] = <<>> PROVE Comes(t, lowc)'
      BY <1>9, <1>10, <2>1, <2>2, <2>4 DEF Comes, InStep
    <2> QED
      BY <2>1, <2>3, <2>4
  <1>17. high_water_mark' = highc'
    <2>1. CASE high_water_mark < HighLine(h, FC)
      BY <1>3, <1>6, <1>14, <2>1 DEF highc
    <2>2. CASE ~(high_water_mark < HighLine(h, FC))
      <3>1. using'[high_water_thread] = using[high_water_thread]
        BY <1>1, <1>5
      <3> QED
        BY <1>3, <1>9, <2>2, <3>1 DEF highc
    <2> QED
      BY <2>1, <2>2
  <1>18. WithinBlock'
    <2>1. using'[base_water_thread'] # <<>> /\ using'[high_water_thread'] # <<>>
      <3>1. \A t \in Threads : using[t] # <<>> => using'[t] # <<>>
        BY <1>5, <1>6
      <3>2. using'[o] # <<>>
        BY <1>6, <1>14
      <3> QED
        BY <1>1, <1>3, <1>9, <3>1, <3>2
    <2>2. lowc' >= LastHigh(FILEC)' + Room'
      BY <1>1, <1>3, <1>9, <1>10, <1>13 DEF Room
    <2>3. \A t \in Threads : (using'[t] # <<>> => Used(t)') /\ (using'[t] = <<>> => Comes(t, lowc)')
      <3>1. using'[o] # <<>>
        BY <1>6, <1>14
      <3> QED
        BY <1>15, <1>16, <3>1
    <2> QED
      BY <1>17, <2>1, <2>2, <2>3 DEF WithinBlock
  <1>19. BetweenBlocks' /\ BlocksInOrder'
    BY <1>3 DEF IInv, BetweenBlocks, BlocksInOrder, BlockHigh
  <1> QED
    BY <1>11, <1>18, <1>19 DEF IInv

(* Where a block lies: behind the last block as far in every file, and     *)
(* ended, as far as a thread is used for it, with that thread's last hunk. *)
LEMMA Ranges ==
  ASSUME IInv, stage = "shuffle", NEW d \in Threads
  PROVE  /\ low(d) \in Int /\ high(d) \in Int /\ lowc \in Int /\ highc \in Int
         /\ low(d) = lowc - LastHigh(FILEC) + LastHigh(d)
         /\ low(d) <= high(d) + 1 /\ lowc <= highc + 1
         /\ IF using[d] # <<>>
            THEN highc - high(d) = HighLine(Last(using[d]), FC) - HighLine(Last(using[d]), FO)
            ELSE highc - high(d) = LastHigh(FILEC) - LastHigh(d)
  <1>1. LastHigh(d) \in Int /\ LastHigh(FILEC) \in Int
    BY DEF IInv, TypeInv, Threads, FILEC
  <1>2. lowc \in Int /\ highc \in Int /\ lowc <= highc + 1
    <2>1. Used(base_water_thread) /\ Used(high_water_thread) /\ high_water_mark = highc
      BY DEF IInv, TypeInv, WithinBlock
    <2> PICK g, l, u : /\ g = Head(using[base_water_thread])
                       /\ l = Last(using[base_water_thread])
                       /\ u = Last(using[high_water_thread])
      OBVIOUS
    <2>2. /\ lowc = LowLine(g, FC) /\ highc = HighLine(u, FC)
          /\ IsHunk(g) /\ IsHunk(l) /\ IsHunk(u)
          /\ LowLine(g, FC) <= HighLine(l, FC) + 1 /\ HighLine(l, FC) <= highc
      BY <2>1 DEF Used, lowc, highc
    <2>3. /\ LowLine(g, FC) \in Int /\ HighLine(l, FC) \in Int /\ HighLine(u, FC) \in Int
      BY <2>2 DEF IsHunk
    <2> QED
      BY <2>2, <2>3
  <1>3. CASE using[d] = <<>>
    <2>1. /\ low(d) = lowc - LastHigh(FILEC) + LastHigh(d)
          /\ high(d) = highc - LastHigh(FILEC) + LastHigh(d)
      BY <1>3 DEF low, high
    <2> QED
      BY <1>1, <1>2, <1>3, <2>1
  <1>4. CASE using[d] # <<>>
    <2>1. Used(d) /\ high_water_mark = highc
      BY <1>4 DEF IInv, WithinBlock
    <2> PICK g, l : g = Head(using[d]) /\ l = Last(using[d])
      OBVIOUS
    <2>2. /\ low(d) = lowc - LowLine(g, FC) + LowLine(g, FO)
          /\ high(d) = highc - HighLine(l, FC) + HighLine(l, FO)
      BY <1>4 DEF low, high
    <2>3. /\ LowLine(g, FC) \in Int /\ LowLine(g, FO) \in Int
          /\ HighLine(l, FC) \in Int /\ HighLine(l, FO) \in Int
      BY <2>1 DEF Used, IsHunk
    <2>4. /\ LowLine(g, FO) <= HighLine(l, FO) + 1
          /\ LowLine(g, FC) >= lowc /\ HighLine(l, FC) <= highc
          /\ LowLine(g, FC) - LowLine(g, FO) = LastHigh(FILEC) - LastHigh(d)
      BY <2>1 DEF Used, InStep
    <2>5. low(d) \in Int /\ high(d) \in Int
      BY <1>2, <2>2, <2>3
    <2>6. low(d) = lowc - LastHigh(FILEC) + LastHigh(d)
      BY <1>1, <1>2, <2>2, <2>3, <2>4
    <2>7. low(d) <= high(d) + 1
      BY <1>2, <2>2, <2>3, <2>4
    <2>8. highc - high(d) = HighLine(l, FC) - HighLine(l, FO)
      BY <1>2, <2>2, <2>3
    <2> QED
      BY <1>2, <1>4, <2>5, <2>6, <2>7, <2>8
  <1> QED
    BY <1>3, <1>4

LEMMA MakeBlockIInv == IInv /\ MakeBlock => IInv'
  <1> SUFFICES ASSUME IInv, MakeBlock PROVE IInv'
    OBVIOUS
  <1>1. /\ stage = "shuffle" /\ stage' = "next" /\ ~Reaches
        /\ current' = current /\ using' = using /\ high_water_mark' = high_water_mark
        /\ high_water_thread' = high_water_thread /\ base_water_thread' = base_water_thread
        /\ diff3' = Append(diff3, Block)
    BY DEF MakeBlock
  <1> PICK b : b = Block
    OBVIOUS
  <1>2. /\ b.low[FILEC] = lowc /\ b.high[FILEC] = highc
        /\ \A d \in Threads : b.low[d] = low(d) /\ b.high[d] = high(d)
    BY DEF Block, FILEC, Threads
  <1>3. /\ IsSeq(diff3') /\ diff3' # <<>> /\ Last(diff3') = b
        /\ Len(diff3) \in Nat /\ Len(diff3') = Len(diff3) + 1
        /\ diff3'[Len(diff3) + 1] = b
        /\ \A k \in 1..Len(diff3) : diff3'[k] = diff3[k]
        /\ DOMAIN diff3' = 1..(Len(diff3) + 1) /\ DOMAIN diff3 = 1..Len(diff3)
    <2>1. IsSeq(diff3)
      BY DEF IInv, TypeInv
    <2>2. diff3' = Append(diff3, b)
      BY <1>1
    <2>3. Len(diff3) \in Nat /\ DOMAIN diff3 = 1..Len(diff3)
      BY <2>1, SeqFacts
    <2>4. /\ IsSeq(diff3') /\ diff3' # <<>> /\ Last(diff3') = b
          /\ Len(diff3') = Len(diff3) + 1
          /\ diff3'[Len(diff3) + 1] = b
          /\ \A k \in 1..Len(diff3) : diff3'[k] = diff3[k]
      BY <2>1, <2>2, AppendFacts, AppendEnds
    <2>5. DOMAIN diff3' = 1..(Len(diff3) + 1)
      BY <2>4, SeqFacts
    <2> QED
      BY <2>3, <2>4, <2>5
  <1>4. \A m \in 0..2 : LastHigh(m)' = b.high[m]
    BY <1>3 DEF LastHigh
  <1>5. \A m \in 0..2 : LastHigh(m)' \in Int
    BY SMTT(30), <1>1, <1>2, <1>4, Ranges DEF Threads, FILEC
  <1>6. TypeInv'
    <2>1. \A t \in Threads : Thread(current[t]) /\ IsSeq(using[t])
      BY DEF IInv, TypeInv
    <2>2. /\ current = [t \in Threads |-> current[t]] /\ using = [t \in Threads |-> using[t]]
          /\ high_water_thread \in Threads /\ base_water_thread \in Threads
          /\ high_water_mark \in Int
      BY DEF IInv, TypeInv
    <2> QED
      BY <1>1, <1>3, <1>5, <2>1, <2>2 DEF TypeInv
  <1>7. BetweenBlocks'
    <2>1. LastHigh(FILEC)' = highc /\ Room' = 2
      BY <1>2, <1>3, <1>4 DEF FILEC, Room
    <2>2. ASSUME NEW t \in Threads, current[t] # <<>>, NEW h, h = Head(current[t])
          PROVE  /\ LowLine(h, FC) - LowLine(h, FO) = highc - high(t)
                 /\ LowLine(h, FC) >= highc + 2
      <3>1. IsHunk(h)
        BY <2>2, HeadOfThread DEF IInv, TypeInv
      <3>2. LowLine(h, FC) \in Int /\ LowLine(h, FO) \in Int
        BY <3>1 DEF IsHunk
      <3>3. /\ highc \in Int /\ high(t) \in Int
            /\ IF using[t] # <<>>
               THEN highc - high(t) = HighLine(Last(using[t]), FC) - HighLine(Last(using[t]), FO)
               ELSE highc - high(t) = LastHigh(FILEC) - LastHigh(t)
        BY <1>1, Ranges
      <3>4. LowLine(h, FC) - LowLine(h, FO) = highc - high(t)
        <4>1. CASE using[t] = <<>>
          <5>1. InStep(t, h)
            BY <1>1, <2>2, <4>1 DEF IInv, WithinBlock, Comes
          <5> QED
            BY <3>3, <4>1, <5>1 DEF InStep
        <4>2. CASE using[t] # <<>>
          <5> PICK l : l = Last(using[t])
            OBVIOUS
          <5>1. IsHunk(l) /\ Precedes(l, h)
            BY <1>1, <2>2, <4>2 DEF IInv, WithinBlock, Used
          <5>2. /\ LowLine(h, FC) - HighLine(l, FC) = LowLine(h, FO) - HighLine(l, FO)
                /\ HighLine(l, FC) \in Int /\ HighLine(l, FO) \in Int
            BY <5>1 DEF Precedes, IsHunk
          <5>3. highc - high(t) = HighLine(l, FC) - HighLine(l, FO)
            BY <3>3, <4>2
          <5> QED
            BY <3>2, <5>2, <5>3
        <4> QED
          BY <4>1, <4>2
      <3>5. LowLine(h, FC) >= highc + 2
        <4>1. /\ high_water_thread \in Threads /\ high_water_mark = highc
              /\ using[high_water_thread] # <<>>
          BY <1>1 DEF IInv, TypeInv, WithinBlock
        <4>2. CASE t = high_water_thread
          <5>1. Precedes(Last(using[t]), h)
            BY <1>1, <2>2, <4>1, <4>2 DEF IInv, WithinBlock, Used
          <5> QED
            BY <4>2, <5>1 DEF Precedes, highc
        <4>3. CASE t # high_water_thread
          <5>1. t = other_thread
            BY <2>2, <4>1, <4>3 DEF other_thread, Threads
          <5>2. ~(LowLine(h, FC) <= highc + 1)
            BY <1>1, <2>2, <4>1, <5>1 DEF Reaches
          <5> QED
            BY <3>2, <3>3, <5>2
        <4> QED
          BY <4>2, <4>3
      <3> QED
        BY <3>4, <3>5
    <2>3. ASSUME NEW t \in Threads PROVE Comes(t, highc + 2)'
      <3>1. LastHigh(t)' = high(t)
        BY <1>2, <1>4 DEF Threads
      <3>2. current'[t] = current[t] /\ highc' = highc
        BY <1>1 DEF highc
      <3> QED
        BY <2>1, <2>2, <3>1, <3>2 DEF Comes, InStep
    <2>4. highc' = highc
      BY <1>1 DEF highc
    <2> QED
      BY <1>1, <2>1, <2>3, <2>4 DEF BetweenBlocks
  <1>8. BlocksInOrder'
    <2>1. ASSUME NEW n \in 1..Len(diff3), NEW m \in 0..2
          PROVE  /\ diff3'[n].low[m] = diff3[n].low[m] /\ diff3'[n].high[m] = diff3[n].high[m]
                 /\ BlockHigh(n - 1, m)' = BlockHigh(n - 1, m)
      <3>1. n = 1 \/ n - 1 \in 1..Len(diff3)
        BY <1>3
      <3> QED
        BY <1>3, <3>1 DEF BlockHigh
    <2> PICK k : k = Len(diff3)
      OBVIOUS
    <2>2. ASSUME NEW m \in 0..2
          PROVE  BlockHigh(k, m)' = LastHigh(m)
      <3>1. diff3 = <<>> <=> Len(diff3) = 0
        BY SeqFacts DEF IInv, TypeInv
      <3>2. k = 0 \/ k \in 1..Len(diff3)
        BY <1>3
      <3>3. CASE k = 0
        BY <3>1, <3>3 DEF BlockHigh, LastHigh
      <3>4. CASE k # 0
        BY <1>3, <3>1, <3>2, <3>4 DEF BlockHigh, LastHigh, Last
      <3> QED
        BY <3>3, <3>4
    <2>3. /\ lowc \in Int /\ LastHigh(FILEC) \in Int /\ lowc >= LastHigh(FILEC) + Room
          /\ lowc <= highc + 1
      BY <1>1, Ranges DEF IInv, TypeInv, WithinBlock, Threads, FILEC
    <2>4. ASSUME NEW m \in 0..2
          PROVE  /\ b.low[m] <= b.high[m] + 1
                 /\ b.low[m] - LastHigh(m) = lowc - LastHigh(FILEC)
                 /\ b.low[m] - LastHigh(m) >= Room
      <3>1. CASE m = FILEC
        BY <1>2, <2>3, <3>1 DEF Room
      <3>2. CASE m \in Threads
        <4>1. /\ b.low[m] = low(m) /\ b.high[m] = high(m)
              /\ low(m) \in Int /\ low(m) = lowc - LastHigh(FILEC) + LastHigh(m)
              /\ low(m) <= high(m) + 1
          BY <1>1, <1>2, <3>2, Ranges
        <4>2. LastHigh(m) \in Int
          BY DEF IInv, TypeInv
        <4> QED
          BY <2>3, <4>1, <4>2 DEF Room
      <3> QED
        BY <3>1, <3>2 DEF Threads, FILEC
    <2>5. Room = IF Len(diff3) + 1 = 1 THEN 1 ELSE 2
      <3>1. diff3 = <<>> <=> Len(diff3) = 0
        BY SeqFacts DEF IInv, TypeInv
      <3> QED
        BY <1>3, <3>1 DEF Room
    <2>6. ASSUME NEW n \in 1..(Len(diff3) + 1), NEW m \in 0..2
          PROVE  /\ diff3'[n].low[m] <= diff3'[n].high[m] + 1
                 /\ diff3'[n].low[m] - BlockHigh(n - 1, m)'
                      = diff3'[n].low[FILEC] - BlockHigh(n - 1, FILEC)'
                 /\ diff3'[n].low[m] - BlockHigh(n - 1, m)' >= (IF n = 1 THEN 1 ELSE 2)
      <3>1. CASE n \in 1..Len(diff3)
        <4>1. /\ diff3[n].low[m] <= diff3[n].high[m] + 1
              /\ diff3[n].low[m] - BlockHigh(n - 1, m)
                   = diff3[n].low[FILEC] - BlockHigh(n - 1, FILEC)
              /\ diff3[n].low[m] - BlockHigh(n - 1, m) >= (IF n = 1 THEN 1 ELSE 2)
          BY <1>3, <3>1 DEF IInv, BlocksInOrder
        <4>2. FILEC \in 0..2
          BY DEF FILEC
        <4> QED
          BY <2>1, <3>1, <4>1, <4>2
      <3>2. CASE n = Len(diff3) + 1
        <4>1. diff3'[n] = b /\ n - 1 = Len(diff3)
          BY <1>3, <3>2
        <4>2. BlockHigh(k, m)' = LastHigh(m) /\ BlockHigh(k, FILEC)' = LastHigh(FILEC)
          BY <2>2 DEF FILEC
        <4>3. Room = IF n = 1 THEN 1 ELSE 2
          BY <2>5, <3>2
        <4> QED
          BY <1>2, <2>4, <4>1, <4>2, <4>3
      <3> QED
        BY <1>3, <3>1, <3>2
    <2> QED
      BY <1>3, <2>6 DEF BlocksInOrder
  <1>9. WithinBlock'
    BY <1>1 DEF WithinBlock
  <1> QED
    BY <1>6, <1>7, <1>8, <1>9 DEF IInv

LEMMA IdleIInv == IInv /\ (Output \/ UNCHANGED vars) => IInv'
  <1> SUFFICES ASSUME IInv, Output \/ UNCHANGED vars PROVE IInv'
    OBVIOUS
  <1>1. /\ current' = current /\ using' = using /\ high_water_mark' = high_water_mark
        /\ high_water_thread' = high_water_thread /\ base_water_thread' = base_water_thread
        /\ diff3' = diff3
        /\ stage' = stage \/ (stage = "next" /\ stage' = "output")
    BY DEF Output, vars
  <1>2. TypeInv' /\ BlocksInOrder'
    BY <1>1 DEF IInv, TypeInv, LastHigh, BlocksInOrder, BlockHigh
  <1>3. BetweenBlocks' /\ WithinBlock'
    BY <1>1 DEF IInv, BetweenBlocks, WithinBlock, Comes, Used, InStep, LastHigh, Room,
                lowc, highc
  <1> QED
    BY <1>2, <1>3 DEF IInv

(* Whatever two scripts are combined, the blocks are in order and apart    *)
(* and the three files in step between them (make_3way_diff,               *)
(* using_to_diff3_block).                                                  *)
THEOREM InOrder == Spec => []BlocksInOrder
  <1>1. Init => IInv
    BY InitIInv
  <1>2. IInv /\ [Next]_vars => IInv'
    <2> SUFFICES ASSUME IInv, [Next]_vars PROVE IInv'
      OBVIOUS
    <2>1. CASE BeginBlock
      BY <2>1, BeginBlockIInv
    <2>2. CASE Incorporate
      BY <2>2, IncorporateIInv
    <2>3. CASE MakeBlock
      BY <2>3, MakeBlockIInv
    <2>4. CASE Output \/ Done \/ UNCHANGED vars
      BY <2>4, IdleIInv DEF Done
    <2> QED
      BY <2>1, <2>2, <2>3, <2>4 DEF Next
  <1>3. IInv => BlocksInOrder
    BY DEF IInv
  <1> QED
    BY <1>1, <1>2, <1>3, PTL DEF Spec

(* As the comment of make_3way_diff has it, HIGH_WATER_DIFF is always      *)
(* LAST_USING[HIGH_WATER_THREAD], and no hunk used lies outside the marks. *)
THEOREM Marks == Spec => []WaterMarks
  <1>1. Init => IInv
    BY InitIInv
  <1>2. IInv /\ [Next]_vars => IInv'
    BY BeginBlockIInv, IncorporateIInv, MakeBlockIInv, IdleIInv DEF Next, Done
  <1>3. IInv => WaterMarks
    BY DEF IInv, WithinBlock, Used, WaterMarks
  <1> QED
    BY <1>1, <1>2, <1>3, PTL DEF Spec
=============================================================================
