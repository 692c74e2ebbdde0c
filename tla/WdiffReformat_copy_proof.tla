---------------------- MODULE WdiffReformat_copy_proof ----------------------
(***************************************************************************)
(* WdiffReformat implements AnnotatedCopy: for files that keep their       *)
(* length, of any length, the words it prints are those of the comparison  *)
(* that the options ask for, in order, each once, and all of them when no  *)
(* signal stops it.                                                        *)
(***************************************************************************)
EXTENDS WdiffReformat_proof, EditScript_proof, SequenceTheorems

-----------------------------------------------------------------------------
(***************************************************************************)
(* The words that are wanted: those of the transcript, hunk by hunk, that  *)
(* the options do not inhibit.                                             *)
(***************************************************************************)
Kinds == {"common", "deleted", "inserted"}
ColumnType == [kind : Kinds, left : Int, right : Int]
EntryType == [kind : Kinds, from : Side, ordinal : Int]

OptionOf(c) ==
    IF c.kind = "common" THEN "common" ELSE IF c.kind = "deleted" THEN "left" ELSE "right"
FromOf(c) == IF c.kind = "common" THEN Source ELSE OptionOf(c)
EntryOf(c) == [kind |-> c.kind, from |-> FromOf(c), ordinal |-> c[FromOf(c)]]
AskedAt(c) == When(~inhibited(OptionOf(c)), <<EntryOf(c)>>)
Asked(t) == FlattenSeq([k \in DOMAIN t |-> AskedAt(t[k])])

LEMMA WantedIs == Wanted(Transcript(script, total)) = Asked(Transcript(script, total))
BY DEF Wanted, Asked, AskedAt, EntryOf, FromOf, OptionOf

LEMMA EntryIsTyped ==
    ASSUME NEW c \in ColumnType
    PROVE  EntryOf(c) \in EntryType /\ AskedAt(c) \in Seq(EntryType)
<1>1. FromOf(c) \in Side BY DEF FromOf, OptionOf, Source, Side
<1>2. c[FromOf(c)] \in Int /\ c.kind \in Kinds
  <2>1. c["left"] \in Int /\ c["right"] \in Int /\ c.kind \in Kinds BY DEF ColumnType
  <2> QED BY <1>1, <2>1 DEF Side
<1>3. EntryOf(c) \in EntryType BY <1>1, <1>2 DEF EntryOf, EntryType
<1> QED BY <1>3 DEF AskedAt, When

LEMMA AskedIsTyped ==
    ASSUME NEW t \in Seq(ColumnType)
    PROVE  /\ [k \in DOMAIN t |-> AskedAt(t[k])] \in Seq(Seq(EntryType))
           /\ Len([k \in DOMAIN t |-> AskedAt(t[k])]) = Len(t)
           /\ Asked(t) \in Seq(EntryType)
<1> DEFINE f == [k \in DOMAIN t |-> AskedAt(t[k])]
<1>1. DOMAIN t = 1..Len(t) /\ Len(t) \in Nat /\ \A k \in 1..Len(t) : t[k] \in ColumnType OBVIOUS
<1>2. \A k \in 1..Len(t) : AskedAt(t[k]) \in Seq(EntryType) BY <1>1, EntryIsTyped
<1>3. f \in Seq(Seq(EntryType)) /\ Len(f) = Len(t) BY <1>1, <1>2
<1>4. FlattenSeq(f) \in Seq(EntryType)
  <2> HIDE DEF f
  <2> QED BY <1>3, FlattenType
<1> QED BY <1>3, <1>4 DEF Asked

LEMMA AskedBoth ==
    ASSUME NEW a \in Seq(ColumnType), NEW b \in Seq(ColumnType)
    PROVE  Asked(a \o b) = Asked(a) \o Asked(b)
<1> DEFINE c == a \o b
           f == [k \in DOMAIN a |-> AskedAt(a[k])]
           g == [k \in DOMAIN b |-> AskedAt(b[k])]
           h == [k \in DOMAIN c |-> AskedAt(c[k])]
<1>1. /\ f \in Seq(Seq(EntryType)) /\ Len(f) = Len(a)
      /\ g \in Seq(Seq(EntryType)) /\ Len(g) = Len(b)
  BY AskedIsTyped
<1>2. /\ c \in Seq(ColumnType) /\ Len(c) = Len(a) + Len(b) /\ DOMAIN c = 1..Len(c)
      /\ Len(a) \in Nat /\ Len(b) \in Nat /\ DOMAIN a = 1..Len(a) /\ DOMAIN b = 1..Len(b)
      /\ \A k \in 1..Len(a) : c[k] = a[k]
      /\ \A k \in 1..Len(b) : c[Len(a) + k] = b[k]
  OBVIOUS
<1> HIDE DEF c
<1>3. h \in Seq(Seq(EntryType)) /\ Len(h) = Len(c) BY <1>2, AskedIsTyped
<1>4. \A k \in 1..Len(a) : k \in 1..Len(c) /\ h[k] = f[k]
  <2>1. \A k \in 1..Len(a) : k \in 1..Len(c) BY <1>2
  <2> QED BY <1>2, <2>1
<1>5. \A k \in 1..Len(b) : h[Len(a) + k] = g[k]
  <2>1. \A k \in 1..Len(b) : Len(a) + k \in 1..Len(c) BY <1>2
  <2> QED BY <1>2, <2>1
<1> HIDE DEF f, g, h
<1>6. h = f \o g
  <2>1. /\ f \o g \in Seq(Seq(EntryType)) /\ Len(f \o g) = Len(h)
        /\ \A k \in 1..Len(f) : (f \o g)[k] = f[k]
        /\ \A k \in 1..Len(g) : (f \o g)[Len(f) + k] = g[k]
    <3>1. Len(f \o g) = Len(f) + Len(g) BY <1>1, Joining
    <3>2. Len(f \o g) = Len(h) BY <1>1, <1>2, <1>3, <3>1
    <3>3. f \o g \in Seq(Seq(EntryType)) BY <1>1, Joining
    <3>4. \A k \in 1..Len(f) : (f \o g)[k] = f[k] BY <1>1, Joining
    <3>5. \A k \in 1..Len(g) : (f \o g)[Len(f) + k] = g[k] BY <1>1, Joining
    <3> QED BY <3>2, <3>3, <3>4, <3>5
  <2>2. ASSUME NEW k \in 1..Len(h) PROVE h[k] = (f \o g)[k]
    <3>1. CASE k <= Len(a)
      <4>1. k \in 1..Len(a) BY <1>2, <3>1
      <4> QED BY <1>1, <1>4, <2>1, <4>1
    <3>2. CASE ~(k <= Len(a))
      <4>1. k - Len(a) \in 1..Len(b) /\ Len(a) + (k - Len(a)) = k BY <1>2, <1>3, <3>2
      <4>2. PICK j \in 1..Len(b) : Len(a) + j = k BY <4>1
      <4> QED BY <1>1, <1>5, <2>1, <4>2
    <3> QED BY <3>1, <3>2
  <2> QED BY <1>3, <2>1, <2>2, SameSequence
<1>7. FlattenSeq(f \o g) = FlattenSeq(f) \o FlattenSeq(g) BY <1>1, FlattenBoth
<1> QED BY <1>6, <1>7 DEF Asked, c, f, g, h

(* Columns that one option is about.                                       *)
LEMMA AskedAlike ==
    ASSUME NEW t \in Seq(ColumnType), NEW x, \A k \in 1..Len(t) : OptionOf(t[k]) = x
    PROVE  Asked(t) = IF inhibited(x) THEN <<>> ELSE [k \in 1..Len(t) |-> EntryOf(t[k])]
<1> DEFINE f == [k \in DOMAIN t |-> AskedAt(t[k])]
           e == [k \in 1..Len(t) |-> EntryOf(t[k])]
<1>1. f \in Seq(Seq(EntryType)) /\ Len(f) = Len(t) BY AskedIsTyped
<1>2. DOMAIN t = 1..Len(t) /\ Len(t) \in Nat /\ \A k \in 1..Len(t) : t[k] \in ColumnType OBVIOUS
<1>3. \A k \in 1..Len(t) : f[k] = IF inhibited(x) THEN <<>> ELSE <<EntryOf(t[k])>>
  BY <1>2 DEF AskedAt, When
<1>4. e \in Seq(EntryType) /\ Len(e) = Len(t) /\ \A k \in 1..Len(t) : e[k] = EntryOf(t[k])
  BY <1>2, EntryIsTyped
<1> HIDE DEF f, e
<1>5. CASE inhibited(x)
  <2>1. FlattenSeq(f) = <<>> BY <1>1, <1>3, <1>5, FlattenNothing
  <2> QED BY <1>5, <2>1 DEF Asked, f
<1>6. CASE ~inhibited(x)
  <2>1. \A k \in 1..Len(f) : f[k] = <<e[k]>> BY <1>1, <1>3, <1>4, <1>6
  <2>2. FlattenSeq(f) = e BY <1>1, <1>4, <2>1, FlattenSingles
  <2> QED BY <1>6, <2>2 DEF Asked, f, e
<1> QED BY <1>5, <1>6

(* n words of side s behind its word o, and how many of a hunk are asked.  *)
Word(kind, s, o) == [kind |-> kind, from |-> s, ordinal |-> o]
Stretch(kind, s, o, n) == [j \in 1..n |-> Word(kind, s, o + j)]

Of(option, n) == IF inhibited(option) THEN 0 ELSE n
Commons(n) == Of("common", Gap(script, n, "left"))
Own(n, s) == LastWord(script[n], s) - FirstWord(script[n], s) + 1
Owns(n, s) == Of(s, Own(n, s))
Left == total["left"] - Accounted(script, Len(script), "left")
Lasts == Of("common", Left)

LEMMA StretchIsTyped ==
    ASSUME NEW kind \in Kinds, NEW s \in Side, NEW o \in Int, NEW n \in Nat
    PROVE  /\ Stretch(kind, s, o, n) \in Seq(EntryType) /\ Len(Stretch(kind, s, o, n)) = n
           /\ \A j \in 1..n : Stretch(kind, s, o, n)[j] = Word(kind, s, o + j)
<1>1. \A j \in 1..n : Word(kind, s, o + j) \in EntryType BY DEF Word, EntryType
<1> QED BY <1>1 DEF Stretch

AsksCommons(i, j, n, o) ==
    Asked(CommonWords(i, j, n)) = Stretch("common", Source, o, Of("common", n))

LEMMA AskedCommons ==
    ASSUME NEW i \in Int, NEW j \in Int, NEW n \in Nat,
           NEW o \in Int, Source = "left" => o = i, Source # "left" => o = j
    PROVE  /\ CommonWords(i, j, n) \in Seq(ColumnType)
           /\ AsksCommons(i, j, n, o)
<1> DEFINE t == CommonWords(i, j, n)
<1>1. \A k \in 1..n : Column("common", i + k, j + k) \in ColumnType
  BY DEF Column, ColumnType, Kinds
<1>2. /\ t \in Seq(ColumnType) /\ Len(t) = n
      /\ \A k \in 1..n : t[k] = Column("common", i + k, j + k)
  BY <1>1 DEF CommonWords
<1>3. ASSUME NEW k \in 1..n
      PROVE  OptionOf(t[k]) = "common" /\ EntryOf(t[k]) = Word("common", Source, o + k)
  <2>1. t[k].kind = "common" /\ t[k]["left"] = i + k /\ t[k]["right"] = j + k
    BY <1>2 DEF Column
  <2>2. Source = "left" \/ Source = "right" BY DEF Source
  <2>3. t[k][Source] = o + k BY <2>1, <2>2
  <2> HIDE DEF t
  <2> QED BY <2>1, <2>3 DEF OptionOf, EntryOf, FromOf, Word
<1> HIDE DEF t
<1>4. Asked(t) = IF inhibited("common") THEN <<>> ELSE [k \in 1..n |-> EntryOf(t[k])]
  BY <1>2, <1>3, AskedAlike
<1>5. CASE inhibited("common")
  <2>1. Stretch("common", Source, o, 0) = <<>> BY DEF Stretch
  <2> QED BY <1>2, <1>4, <1>5, <2>1 DEF Of, AsksCommons, t
<1>6. CASE ~inhibited("common")
  <2>1. [k \in 1..n |-> EntryOf(t[k])] = [k \in 1..n |-> Word("common", Source, o + k)]
    BY <1>3
  <2> QED BY <1>2, <1>4, <1>6, <2>1 DEF Of, Stretch, AsksCommons, t
<1> QED BY <1>5, <1>6

(* A hunk's own words of one side.                                         *)
OwnWords(kind, s, o, n) ==
    [k \in 1..n |-> IF s = "left" THEN Column(kind, o + k, 0) ELSE Column(kind, 0, o + k)]

LEMMA AskedOwn ==
    ASSUME NEW kind, NEW s, \/ kind = "deleted" /\ s = "left"
                            \/ kind = "inserted" /\ s = "right",
           NEW o \in Int, NEW n \in Nat
    PROVE  /\ OwnWords(kind, s, o, n) \in Seq(ColumnType)
           /\ Asked(OwnWords(kind, s, o, n)) = Stretch(kind, s, o, Of(s, n))
<1> DEFINE t == OwnWords(kind, s, o, n)
<1>1. \A k \in 1..n : Column(kind, o + k, 0) \in ColumnType /\ Column(kind, 0, o + k) \in ColumnType
  BY DEF Column, ColumnType, Kinds
<1>2. /\ t \in Seq(ColumnType) /\ Len(t) = n
      /\ \A k \in 1..n : t[k] = IF s = "left" THEN Column(kind, o + k, 0) ELSE Column(kind, 0, o + k)
  BY <1>1 DEF OwnWords
<1>3. ASSUME NEW k \in 1..n
      PROVE  OptionOf(t[k]) = s /\ EntryOf(t[k]) = Word(kind, s, o + k)
  <2>1. t[k].kind = kind /\ (s = "left" => t[k]["left"] = o + k)
        /\ (s = "right" => t[k]["right"] = o + k)
    BY <1>2 DEF Column
  <2>2. t[k][s] = o + k BY <2>1
  <2> HIDE DEF t
  <2> QED BY <2>1, <2>2 DEF OptionOf, EntryOf, FromOf, Word
<1> HIDE DEF t
<1>4. Asked(t) = IF inhibited(s) THEN <<>> ELSE [k \in 1..n |-> EntryOf(t[k])]
  BY <1>2, <1>3, AskedAlike
<1>5. CASE inhibited(s)
  <2>1. Stretch(kind, s, o, 0) = <<>> BY DEF Stretch
  <2> QED BY <1>2, <1>4, <1>5, <2>1 DEF Of, t
<1>6. CASE ~inhibited(s)
  <2>1. [k \in 1..n |-> EntryOf(t[k])] = [k \in 1..n |-> Word(kind, s, o + k)]
    BY <1>3
  <2> QED BY <1>2, <1>4, <1>6, <2>1 DEF Of, Stretch, t
<1> QED BY <1>5, <1>6

(* The numbers of any hunk of the script.                                  *)
LEMMA HunkNumbers ==
    ASSUME CountsInv, NEW n \in 1..Len(script), NEW s \in Side
    PROVE  /\ FirstWord(script[n], s) \in Int /\ LastWord(script[n], s) \in Int
           /\ Accounted(script, n, s) = LastWord(script[n], s)
           /\ Accounted(script, n - 1, s) \in Int
           /\ Own(n, s) \in Nat
           /\ Gap(script, n, s) = Gap(script, n, "left") /\ Gap(script, n, "left") \in Nat
           /\ FirstWord(script[n], s) - 1 = Accounted(script, n - 1, s) + Gap(script, n, "left")
<1>1. script \in Seq(HunkType) /\ Len(script) \in Nat /\ DOMAIN script = 1..Len(script)
  BY DEF CountsInv, CountsType
<1>2. \A k \in 1..Len(script), r \in Side :
        FirstWord(script[k], r) \in Int /\ LastWord(script[k], r) \in Int
  <2> SUFFICES ASSUME NEW k \in 1..Len(script), NEW r \in Side
               PROVE  FirstWord(script[k], r) \in Int /\ LastWord(script[k], r) \in Int
    OBVIOUS
  <2>1. script[k] \in HunkType BY <1>1
  <2> QED BY <2>1 DEF FirstWord, LastWord, HunkType, Side
<1>3. Accounted(script, n, s) = LastWord(script[n], s) BY DEF Accounted
<1>4. \A r \in Side : Accounted(script, n - 1, r) \in Int
  <2> SUFFICES ASSUME NEW r \in Side PROVE Accounted(script, n - 1, r) \in Int
    OBVIOUS
  <2>1. CASE n = 1
    <3>1. n - 1 = 0 BY <2>1
    <3>2. Accounted(script, n - 1, r) = 0 BY <3>1 DEF Accounted
    <3> QED BY <3>2
  <2>2. CASE n # 1
    <3>1. n - 1 \in 1..Len(script) /\ n - 1 # 0 BY <1>1, <2>2
    <3>2. Accounted(script, n - 1, r) = LastWord(script[n - 1], r) BY <3>1 DEF Accounted
    <3>3. LastWord(script[n - 1], r) \in Int BY <1>2, <3>1
    <3> QED BY <3>2, <3>3
  <2> QED BY <2>1, <2>2
<1>5. Own(n, s) \in Nat
  <2> DEFINE h == script[n]
  <2>1. h[s][1] \in Int /\ h[s][2] \in Int /\ h[s][1] <= h[s][2]
    <3>1. h \in HunkType /\ WellFormed(h) BY <1>1 DEF CountsInv, IsScript
    <3> QED BY <3>1 DEF HunkType, WellFormed, Side
  <2>2. FirstWord(h, s) <= LastWord(h, s) + 1 BY <2>1 DEF FirstWord, LastWord
  <2> HIDE DEF h
  <2>3. FirstWord(h, s) \in Int /\ LastWord(h, s) \in Int BY <1>2 DEF h
  <2> QED BY <2>2, <2>3 DEF Own, h
<1>6. /\ Gap(script, n, "left") = Gap(script, n, "right")
      /\ Gap(script, n, "left") >= (IF n = 1 THEN 0 ELSE 1)
  BY <1>1 DEF CountsInv, IsScript
<1>7. Gap(script, n, s) = Gap(script, n, "left") BY <1>6 DEF Side
<1>8. Gap(script, n, s) \in Int BY <1>2, <1>4 DEF Gap
<1>9. Gap(script, n, s) = FirstWord(script[n], s) - Accounted(script, n - 1, s) - 1 BY DEF Gap
<1> QED BY <1>2, <1>3, <1>4, <1>5, <1>6, <1>7, <1>8, <1>9

Part(n) ==
    CommonWords(Accounted(script, n - 1, "left"), Accounted(script, n - 1, "right"),
                Gap(script, n, "left")) \o HunkWords(script[n])
AskedPart(n) ==
    Stretch("common", Source, Accounted(script, n - 1, Source), Commons(n)) \o
    (Stretch("deleted", "left", FirstWord(script[n], "left") - 1, Owns(n, "left")) \o
     Stretch("inserted", "right", FirstWord(script[n], "right") - 1, Owns(n, "right")))

LEMMA HunkWordsAre ==
    ASSUME CountsInv, NEW n \in 1..Len(script)
    PROVE  HunkWords(script[n]) =
             OwnWords("deleted", "left", FirstWord(script[n], "left") - 1, Own(n, "left")) \o
             OwnWords("inserted", "right", FirstWord(script[n], "right") - 1, Own(n, "right"))
<1> DEFINE h == script[n]
           f == FirstWord(h, "left")
           g == FirstWord(h, "right")
           x == Own(n, "left")
           y == Own(n, "right")
<1>1. f \in Int /\ g \in Int /\ x \in Nat /\ y \in Nat
  <2>1. "left" \in Side /\ "right" \in Side BY DEF Side
  <2> QED BY <2>1, HunkNumbers
<1>2. HunkWords(h) = [k \in 1..x |-> Column("deleted", f + k - 1, 0)] \o
                     [k \in 1..y |-> Column("inserted", 0, g + k - 1)]
  BY DEF HunkWords, Own
<1> HIDE DEF f, g, x, y
<1>3. \A k \in Nat : f + k - 1 = (f - 1) + k /\ g + k - 1 = (g - 1) + k BY <1>1
<1>4. [k \in 1..x |-> Column("deleted", f + k - 1, 0)] = OwnWords("deleted", "left", f - 1, x)
  <2>1. \A k \in 1..x : Column("deleted", f + k - 1, 0) = Column("deleted", (f - 1) + k, 0)
    BY <1>1, <1>3
  <2> QED BY <2>1 DEF OwnWords
<1>5. [k \in 1..y |-> Column("inserted", 0, g + k - 1)] = OwnWords("inserted", "right", g - 1, y)
  <2>1. \A k \in 1..y : Column("inserted", 0, g + k - 1) = Column("inserted", 0, (g - 1) + k)
    BY <1>1, <1>3
  <2> QED BY <2>1 DEF OwnWords
<1> QED BY <1>2, <1>4, <1>5 DEF f, g, x, y

LEMMA PartIsAsked ==
    ASSUME CountsInv, NEW n \in 1..Len(script)
    PROVE  Part(n) \in Seq(ColumnType) /\ Asked(Part(n)) = AskedPart(n)
<1> DEFINE a == CommonWords(Accounted(script, n - 1, "left"), Accounted(script, n - 1, "right"),
                            Gap(script, n, "left"))
           b == OwnWords("deleted", "left", FirstWord(script[n], "left") - 1, Own(n, "left"))
           c == OwnWords("inserted", "right", FirstWord(script[n], "right") - 1, Own(n, "right"))
<1>0. "left" \in Side /\ "right" \in Side BY DEF Side
<1>1. /\ Accounted(script, n - 1, "left") \in Int /\ Accounted(script, n - 1, "right") \in Int
      /\ Gap(script, n, "left") \in Nat
      /\ FirstWord(script[n], "left") - 1 \in Int /\ FirstWord(script[n], "right") - 1 \in Int
      /\ Own(n, "left") \in Nat /\ Own(n, "right") \in Nat
  BY SMTT(30), <1>0, HunkNumbers
<1>2. a \in Seq(ColumnType)
      /\ Asked(a) = Stretch("common", Source, Accounted(script, n - 1, Source), Commons(n))
  <2>1. Accounted(script, n - 1, Source) =
          IF Source = "left" THEN Accounted(script, n - 1, "left")
          ELSE Accounted(script, n - 1, "right")
    BY DEF Source
  <2>2. PICK i \in Int, j \in Int, m \in Nat, o \in Int :
               /\ i = Accounted(script, n - 1, "left")
               /\ j = Accounted(script, n - 1, "right")
               /\ m = Gap(script, n, "left") /\ o = Accounted(script, n - 1, Source)
    BY <1>1, <2>1
  <2>3. (Source = "left" => o = i) /\ (Source # "left" => o = j) BY <2>1, <2>2
  <2>4. /\ CommonWords(i, j, m) \in Seq(ColumnType)
        /\ Asked(CommonWords(i, j, m)) = Stretch("common", Source, o, Of("common", m))
    <3>1. Source = "left" => o = i BY <2>3
    <3>2. Source # "left" => o = j BY <2>3
    <3>3. CommonWords(i, j, m) \in Seq(ColumnType) BY <3>1, <3>2, AskedCommons
    <3>4. AsksCommons(i, j, m, o) BY <3>1, <3>2, AskedCommons
    <3> QED BY <3>3, <3>4 DEF AsksCommons
  <2> QED BY <2>2, <2>4 DEF Commons
<1>3. b \in Seq(ColumnType)
      /\ Asked(b) = Stretch("deleted", "left", FirstWord(script[n], "left") - 1, Owns(n, "left"))
  BY <1>1, AskedOwn DEF Owns
<1>4. c \in Seq(ColumnType)
      /\ Asked(c) = Stretch("inserted", "right", FirstWord(script[n], "right") - 1, Owns(n, "right"))
  BY <1>1, AskedOwn DEF Owns
<1>5. Part(n) = a \o (b \o c) BY HunkWordsAre DEF Part
<1> HIDE DEF a, b, c
<1>6. b \o c \in Seq(ColumnType) /\ Asked(b \o c) = Asked(b) \o Asked(c)
  BY <1>3, <1>4, AskedBoth, Joining
<1>7. a \o (b \o c) \in Seq(ColumnType) /\ Asked(a \o (b \o c)) = Asked(a) \o Asked(b \o c)
  BY <1>2, <1>6, AskedBoth, Joining
<1> QED BY <1>2, <1>3, <1>4, <1>5, <1>6, <1>7 DEF AskedPart

(* The transcript of the first n hunks, and what is behind the last.       *)
Parts == [n \in 1..Len(script) |-> Part(n)]
Upto(n) == FlattenSeq(Members(Parts, n))
Rest ==
    CommonWords(Accounted(script, Len(script), "left"), Accounted(script, Len(script), "right"), Left)
AskedRest == Stretch("common", Source, Accounted(script, Len(script), Source), Lasts)

LEMMA PartsAreTyped ==
    ASSUME CountsInv
    PROVE  Parts \in Seq(Seq(ColumnType)) /\ Len(Parts) = Len(script) /\ Len(script) \in Nat
           /\ \A n \in 1..Len(script) : Parts[n] = Part(n)
<1>1. Len(script) \in Nat BY DEF CountsInv, CountsType
<1>2. \A n \in 1..Len(script) : Part(n) \in Seq(ColumnType) BY PartIsAsked
<1> QED BY <1>1, <1>2 DEF Parts

LEMMA UptoNext ==
    ASSUME CountsInv
    PROVE  /\ Upto(0) = <<>>
           /\ \A n \in 0..Len(script) : Upto(n) \in Seq(ColumnType)
           /\ \A n \in 1..Len(script) : Upto(n) = Upto(n - 1) \o Part(n)
<1>1. /\ Parts \in Seq(Seq(ColumnType)) /\ Len(Parts) = Len(script) /\ Len(script) \in Nat
      /\ \A n \in 1..Len(script) : Parts[n] = Part(n)
  BY PartsAreTyped
<1>2. Upto(0) = <<>>
  <2>1. Members(Parts, 0) = <<>> BY DEF Members
  <2> QED BY <2>1, FlattenEmpty DEF Upto
<1>3. ASSUME NEW n \in 0..Len(script) PROVE Upto(n) \in Seq(ColumnType)
  <2>1. Members(Parts, n) \in Seq(Seq(ColumnType)) BY <1>1, MembersOf
  <2> QED BY <2>1, FlattenType DEF Upto
<1>4. ASSUME NEW n \in 1..Len(script) PROVE Upto(n) = Upto(n - 1) \o Part(n)
  <2>1. n - 1 \in 0..(Len(Parts) - 1) /\ (n - 1) + 1 = n BY <1>1
  <2>2. FlattenSeq(Members(Parts, (n - 1) + 1)) = FlattenSeq(Members(Parts, n - 1)) \o Parts[(n - 1) + 1]
    BY <1>1, <2>1, FlattenNext
  <2> QED BY <1>1, <2>1, <2>2 DEF Upto
<1> QED BY <1>2, <1>3, <1>4

LEMMA LeftNumbers ==
    ASSUME CountsInv
    PROVE  /\ \A s \in Side : Accounted(script, Len(script), s) \in Int
           /\ Left \in Nat /\ \A s \in Side : total[s] = Accounted(script, Len(script), s) + Left
<1>1. Len(script) \in Nat /\ \A s \in Side : total[s] \in Nat BY DEF CountsInv, CountsType
<1>2. \A s \in Side : Accounted(script, Len(script), s) \in Int
  <2>1. CASE Len(script) = 0 BY <2>1 DEF Accounted
  <2>2. CASE Len(script) # 0
    <3>1. Len(script) \in 1..Len(script) BY <1>1, <2>2
    <3> QED BY <3>1, HunkNumbers
  <2> QED BY <2>1, <2>2
<1>3. /\ total["left"] - Accounted(script, Len(script), "left")
           = total["right"] - Accounted(script, Len(script), "right")
      /\ total["left"] >= Accounted(script, Len(script), "left")
  BY DEF CountsInv, IsScript
<1>4. /\ total["left"] \in Nat /\ total["right"] \in Nat
      /\ Accounted(script, Len(script), "left") \in Int
      /\ Accounted(script, Len(script), "right") \in Int
  BY <1>1, <1>2 DEF Side
<1> QED BY <1>2, <1>3, <1>4 DEF Left, Side

AskedUpto(n) == Asked(Upto(n))
Begins(n) == AskedUpto(n) \in Seq(EntryType) /\ Len(AskedUpto(n)) <= Len(wanted)
              /\ \A k \in 1..Len(AskedUpto(n)) : wanted[k] = AskedUpto(n)[k]

LEMMA RestIsAsked ==
    ASSUME CountsInv
    PROVE  Rest \in Seq(ColumnType) /\ Asked(Rest) = AskedRest
<1>1. PICK i \in Int, j \in Int, m \in Nat, o \in Int :
             /\ i = Accounted(script, Len(script), "left")
             /\ j = Accounted(script, Len(script), "right")
             /\ m = Left /\ o = Accounted(script, Len(script), Source)
  <2>1. Source \in Side /\ "left" \in Side /\ "right" \in Side BY DEF Source, Side
  <2> QED BY <2>1, LeftNumbers
<1>2. (Source = "left" => o = i) /\ (Source # "left" => o = j)
  BY <1>1 DEF Source
<1>3. CommonWords(i, j, m) \in Seq(ColumnType) /\ AsksCommons(i, j, m, o)
  BY <1>2, AskedCommons
<1> QED BY <1>1, <1>3 DEF Rest, AskedRest, AsksCommons, Lasts

LEMMA TranscriptIs ==
    ASSUME CountsInv
    PROVE  Wanted(Transcript(script, total)) = AskedUpto(Len(script)) \o AskedRest
<1>1. DOMAIN script = 1..Len(script) BY DEF CountsInv, CountsType
<1>2. Parts = [n \in DOMAIN script |->
                 CommonWords(Accounted(script, n - 1, "left"), Accounted(script, n - 1, "right"),
                             Gap(script, n, "left")) \o HunkWords(script[n])]
  BY <1>1 DEF Parts, Part
<1>3. Transcript(script, total) = FlattenSeq(Parts) \o Rest
  BY <1>2 DEF Transcript, Rest, Left
<1>4. Members(Parts, Len(script)) = Parts
  <2>1. Parts \in Seq(Seq(ColumnType)) /\ Len(Parts) = Len(script) /\ Len(script) \in Nat
    BY PartsAreTyped
  <2>2. Len(script) \in 0..Len(Parts) BY <2>1
  <2>3. Members(Parts, Len(Parts)) = Parts BY <2>1, <2>2, MembersOf
  <2> QED BY <2>1, <2>3
<1>5. Transcript(script, total) = Upto(Len(script)) \o Rest BY <1>3, <1>4 DEF Upto
<1>6. Upto(Len(script)) \in Seq(ColumnType)
  <2>1. Len(script) \in 0..Len(script) BY PartsAreTyped
  <2> QED BY <2>1, UptoNext
<1> QED BY <1>5, <1>6, WantedIs, RestIsAsked, AskedBoth DEF AskedUpto

LEMMA AskedUptoNext ==
    ASSUME CountsInv
    PROVE  /\ AskedUpto(0) = <<>>
           /\ \A n \in 0..Len(script) : AskedUpto(n) \in Seq(EntryType)
           /\ \A n \in 1..Len(script) : AskedUpto(n) = AskedUpto(n - 1) \o AskedPart(n)
<1>1. Len(script) \in Nat BY PartsAreTyped
<1>2. AskedUpto(0) = <<>>
  <2>1. [k \in DOMAIN <<>> |-> AskedAt(<<>>[k])] = <<>> OBVIOUS
  <2>2. Asked(<<>>) = <<>> BY <2>1, FlattenEmpty DEF Asked
  <2> QED BY <2>2, UptoNext DEF AskedUpto
<1>3. \A n \in 0..Len(script) : AskedUpto(n) \in Seq(EntryType)
  BY UptoNext, AskedIsTyped DEF AskedUpto
<1>4. ASSUME NEW n \in 1..Len(script) PROVE AskedUpto(n) = AskedUpto(n - 1) \o AskedPart(n)
  <2>1. n - 1 \in 0..Len(script) BY <1>1
  <2>2. Upto(n - 1) \in Seq(ColumnType) BY <2>1, UptoNext
  <2>3. Part(n) \in Seq(ColumnType) /\ Asked(Part(n)) = AskedPart(n) BY PartIsAsked
  <2>4. Upto(n) = Upto(n - 1) \o Part(n) BY UptoNext
  <2> QED BY <2>2, <2>3, <2>4, AskedBoth DEF AskedUpto
<1> QED BY <1>2, <1>3, <1>4

LEMMA WantedStarts ==
    ASSUME CountsInv, wanted = Wanted(Transcript(script, total))
    PROVE  /\ wanted \in Seq(EntryType)
           /\ \A n \in 0..Len(script) : Begins(n)
<1> DEFINE N == Len(script)
           P == {d \in Nat : d <= N => Begins(N - d)}
<1>1. N \in Nat BY PartsAreTyped
<1>2. AskedRest \in Seq(EntryType) BY RestIsAsked, AskedIsTyped
<1>3. AskedUpto(N) \in Seq(EntryType) /\ wanted = AskedUpto(N) \o AskedRest
  BY <1>1, AskedUptoNext, TranscriptIs
<1>4. wanted \in Seq(EntryType) BY <1>2, <1>3, Joining
<1>5. Begins(N)
  <2> DEFINE a == AskedUpto(N)
             b == AskedRest
  <2>1. a \in Seq(EntryType) /\ b \in Seq(EntryType) /\ wanted = a \o b BY <1>2, <1>3
  <2> HIDE DEF a, b
  <2>2. Len(a) <= Len(wanted) /\ \A k \in 1..Len(a) : wanted[k] = a[k] BY <2>1, Joining
  <2> QED BY <2>1, <2>2 DEF Begins, a
<1> HIDE DEF N
<1>6. 0 \in P
  <2>1. N - 0 = N BY <1>1
  <2> QED BY <1>5, <2>1
<1>7. ASSUME NEW d \in Nat, d \in P PROVE d + 1 \in P
  <2> SUFFICES ASSUME d + 1 <= N PROVE Begins(N - (d + 1)) OBVIOUS
  <2>1. PICK m \in Nat : m = N - d BY <1>1
  <2>2. Begins(m) /\ m \in 1..N /\ m - 1 = N - (d + 1) /\ m - 1 \in 0..N BY <1>1, <1>7, <2>1
  <2> DEFINE a == AskedUpto(m)
             b == AskedUpto(m - 1)
             c == AskedPart(m)
  <2>3. a = b \o c /\ b \in Seq(EntryType) BY <2>2, AskedUptoNext DEF N
  <2>4. c \in Seq(EntryType) BY <2>2, PartIsAsked, AskedIsTyped DEF N
  <2>5. Len(a) <= Len(wanted) /\ \A k \in 1..Len(a) : wanted[k] = a[k] BY <2>2 DEF Begins
  <2> HIDE DEF a, b, c
  <2>6. /\ Len(a) = Len(b) + Len(c) /\ Len(b) \in Nat /\ Len(c) \in Nat
        /\ \A k \in 1..Len(b) : a[k] = b[k]
    BY <2>3, <2>4, Joining
  <2>7. Len(wanted) \in Nat BY <1>4
  <2>8. Len(b) <= Len(wanted) /\ \A k \in 1..Len(b) : wanted[k] = b[k]
    BY <2>5, <2>6, <2>7
  <2>9. Begins(m - 1) BY <2>3, <2>8 DEF Begins, b
  <2> QED BY <2>2, <2>9
<1> HIDE DEF P
<1>8. Nat \subseteq P BY <1>6, <1>7, AllNumbers
<1>9. ASSUME NEW n \in 0..N PROVE Begins(n)
  <2>1. N - n \in Nat /\ N - n <= N /\ N - (N - n) = n BY <1>1
  <2> QED BY <1>8, <2>1 DEF P
<1> QED BY <1>4, <1>9 DEF N

(* From at on, n words of side s behind its word o are wanted.             *)
Lists(at, kind, s, o, n) ==
    at + n <= Len(wanted) /\ \A j \in 1..n : wanted[at + j] = Word(kind, s, o + j)

(* W[n] words are wanted of the first n hunks and what is before them.     *)
LaidAt(W, n) ==
    /\ W[n] = W[n - 1] + Commons(n) + Owns(n, "left") + Owns(n, "right")
    /\ Lists(W[n - 1], "common", Source, Accounted(script, n - 1, Source), Commons(n))
    /\ Lists(W[n - 1] + Commons(n), "deleted", "left", FirstWord(script[n], "left") - 1,
             Owns(n, "left"))
    /\ Lists(W[n - 1] + Commons(n) + Owns(n, "left"), "inserted", "right",
             FirstWord(script[n], "right") - 1, Owns(n, "right"))

Laid(W) ==
    /\ wanted \in Seq(EntryType)
    /\ W \in [0..Len(script) -> Nat] /\ W[0] = 0
    /\ \A n \in 1..Len(script) : LaidAt(W, n)
    /\ Len(wanted) = W[Len(script)] + Lasts
    /\ Lists(W[Len(script)], "common", Source, Accounted(script, Len(script), Source), Lasts)

LEMMA Amounts ==
    ASSUME CountsInv
    PROVE  /\ \A n \in 1..Len(script) : Commons(n) \in Nat /\ Owns(n, "left") \in Nat
                                        /\ Owns(n, "right") \in Nat
           /\ Lasts \in Nat
<1>1. "left" \in Side /\ "right" \in Side BY DEF Side
<1>2. \A n \in 1..Len(script) :
        Gap(script, n, "left") \in Nat /\ Own(n, "left") \in Nat /\ Own(n, "right") \in Nat
  BY <1>1, HunkNumbers
<1>3. Left \in Nat BY LeftNumbers
<1> QED BY <1>2, <1>3 DEF Commons, Owns, Lasts, Of

LEMMA WantedIsLaid ==
    ASSUME CountsInv, wanted = Wanted(Transcript(script, total))
    PROVE  \E W : Laid(W)
<1> DEFINE N == Len(script)
           W == [n \in 0..N |-> Len(AskedUpto(n))]
<1>1. N \in Nat BY PartsAreTyped
<1>2. wanted \in Seq(EntryType) /\ \A n \in 0..N : Begins(n) BY WantedStarts
<1>3. \A n \in 0..N : AskedUpto(n) \in Seq(EntryType) BY AskedUptoNext
<1>4. W \in [0..N -> Nat] /\ \A n \in 0..N : W[n] = Len(AskedUpto(n))
  BY <1>3
<1>5. W[0] = 0
  <2>1. 0 \in 0..N /\ AskedUpto(0) = <<>> BY <1>1, AskedUptoNext
  <2> QED BY <1>4, <2>1
<1> HIDE DEF W, N
<1>0. Source \in Side /\ "left" \in Side /\ "right" \in Side BY DEF Source, Side
<1>6. ASSUME NEW n \in 1..N PROVE LaidAt(W, n)
  <2>0. n \in 1..Len(script) BY DEF N
  <2> DEFINE u == AskedUpto(n - 1)
             a == Stretch("common", Source, Accounted(script, n - 1, Source), Commons(n))
             b == Stretch("deleted", "left", FirstWord(script[n], "left") - 1, Owns(n, "left"))
             c == Stretch("inserted", "right", FirstWord(script[n], "right") - 1, Owns(n, "right"))
             x == Commons(n)
             y == Owns(n, "left")
             z == Owns(n, "right")
             o == Accounted(script, n - 1, Source)
             l == FirstWord(script[n], "left") - 1
             r == FirstWord(script[n], "right") - 1
  <2>1. x \in Nat /\ y \in Nat /\ z \in Nat BY <2>0, Amounts
  <2>2. o \in Int /\ l \in Int /\ r \in Int
    <3>1. o \in Int BY <1>0, <2>0, HunkNumbers
    <3>2. FirstWord(script[n], "left") \in Int BY <1>0, <2>0, HunkNumbers
    <3>3. FirstWord(script[n], "right") \in Int BY <1>0, <2>0, HunkNumbers
    <3> QED BY <3>1, <3>2, <3>3
  <2>3. AskedUpto(n) = u \o (a \o (b \o c)) BY <2>0, AskedUptoNext DEF AskedPart
  <2> HIDE DEF x, y, z, o, l, r, u
  <2>4. /\ a \in Seq(EntryType) /\ Len(a) = x
        /\ \A j \in 1..x : a[j] = Word("common", Source, o + j)
    BY <1>0, <2>1, <2>2, StretchIsTyped DEF x, o, Kinds
  <2>5. /\ b \in Seq(EntryType) /\ Len(b) = y
        /\ \A j \in 1..y : b[j] = Word("deleted", "left", l + j)
    BY <1>0, <2>1, <2>2, StretchIsTyped DEF y, l, Kinds
  <2>6. /\ c \in Seq(EntryType) /\ Len(c) = z
        /\ \A j \in 1..z : c[j] = Word("inserted", "right", r + j)
    BY <1>0, <2>1, <2>2, StretchIsTyped DEF z, r, Kinds
  <2>7. n \in 0..N /\ n - 1 \in 0..N BY <1>1
  <2>8. u \in Seq(EntryType) /\ W[n - 1] = Len(u) /\ W[n] = Len(AskedUpto(n))
    BY <1>3, <1>4, <2>7 DEF u
  <2>9. /\ Len(AskedUpto(n)) <= Len(wanted)
        /\ \A k \in 1..Len(AskedUpto(n)) : wanted[k] = AskedUpto(n)[k]
    BY <1>2, <2>7 DEF Begins
  <2> HIDE DEF a, b, c
  <2> DEFINE bc == b \o c
             abc == a \o bc
             v == u \o abc
  <2>10. /\ bc \in Seq(EntryType) /\ Len(bc) = y + z
         /\ \A j \in 1..y : bc[j] = b[j]
         /\ \A j \in 1..z : bc[y + j] = c[j]
    <3>1. b \o c \in Seq(EntryType) BY <2>5, <2>6, Joining
    <3>2. Len(b \o c) = Len(b) + Len(c) BY <2>5, <2>6, Joining
    <3>3. \A j \in 1..Len(b) : (b \o c)[j] = b[j] BY <2>5, <2>6, Joining
    <3>4. \A j \in 1..Len(c) : (b \o c)[Len(b) + j] = c[j] BY <2>5, <2>6, Joining
    <3> QED BY <2>5, <2>6, <3>1, <3>2, <3>3, <3>4
  <2> HIDE DEF bc
  <2>11. /\ abc \in Seq(EntryType) /\ Len(abc) = x + (y + z)
         /\ \A j \in 1..x : abc[j] = a[j]
         /\ \A j \in 1..(y + z) : abc[x + j] = bc[j]
    <3>1. a \o bc \in Seq(EntryType) BY <2>4, <2>10, Joining
    <3>2. Len(a \o bc) = Len(a) + Len(bc) BY <2>4, <2>10, Joining
    <3>3. \A j \in 1..Len(a) : (a \o bc)[j] = a[j] BY <2>4, <2>10, Joining
    <3>4. \A j \in 1..Len(bc) : (a \o bc)[Len(a) + j] = bc[j] BY <2>4, <2>10, Joining
    <3> QED BY <2>4, <2>10, <3>1, <3>2, <3>3, <3>4
  <2> HIDE DEF abc
  <2>12. /\ v \in Seq(EntryType) /\ Len(v) = Len(u) + (x + (y + z)) /\ Len(u) \in Nat
         /\ \A j \in 1..(x + (y + z)) : v[Len(u) + j] = abc[j]
    <3>1. u \o abc \in Seq(EntryType) /\ Len(u) \in Nat BY <2>8, <2>11, Joining
    <3>2. Len(u \o abc) = Len(u) + Len(abc) BY <2>8, <2>11, Joining
    <3>3. \A j \in 1..Len(abc) : (u \o abc)[Len(u) + j] = abc[j] BY SMTT(30), <2>8, <2>11, Joining
    <3> QED BY <2>11, <3>1, <3>2, <3>3
  <2>13. AskedUpto(n) = v BY <2>3 DEF v, abc, bc
  <2> HIDE DEF v
  <2>14. \A j \in 1..(x + (y + z)) : wanted[Len(u) + j] = abc[j]
    <3> SUFFICES ASSUME NEW j \in 1..(x + (y + z)) PROVE wanted[Len(u) + j] = abc[j] OBVIOUS
    <3>1. Len(u) + j \in 1..Len(v) BY <2>1, <2>12
    <3> QED BY <2>9, <2>12, <2>13, <3>1
  <2>15. Len(wanted) \in Nat /\ Len(u) + (x + (y + z)) <= Len(wanted)
    BY <1>2, <2>9, <2>12, <2>13
  <2>16. W[n] = W[n - 1] + x + y + z BY <2>1, <2>8, <2>12, <2>13
  <2>17. Lists(Len(u), "common", Source, o, x)
    <3>1. ASSUME NEW j \in 1..x PROVE wanted[Len(u) + j] = Word("common", Source, o + j)
      <4>1. j \in 1..(x + (y + z)) BY <2>1
      <4> QED BY <2>4, <2>11, <2>14, <4>1
    <3> QED BY <2>1, <2>12, <2>15, <3>1 DEF Lists
  <2>18. Lists(Len(u) + x, "deleted", "left", l, y)
    <3>1. ASSUME NEW j \in 1..y PROVE wanted[(Len(u) + x) + j] = Word("deleted", "left", l + j)
      <4>1. x + j \in 1..(x + (y + z)) /\ j \in 1..(y + z) BY <2>1
      <4>2. (Len(u) + x) + j = Len(u) + (x + j) BY <2>1, <2>12
      <4> QED BY <2>5, <2>10, <2>11, <2>14, <4>1, <4>2
    <3> QED BY <2>1, <2>12, <2>15, <3>1 DEF Lists
  <2>19. Lists(Len(u) + x + y, "inserted", "right", r, z)
    <3>1. ASSUME NEW j \in 1..z
          PROVE  wanted[(Len(u) + x + y) + j] = Word("inserted", "right", r + j)
      <4>1. x + (y + j) \in 1..(x + (y + z)) /\ y + j \in 1..(y + z) BY <2>1
      <4>2. (Len(u) + x + y) + j = Len(u) + (x + (y + j)) BY <2>1, <2>12
      <4> QED BY <2>6, <2>10, <2>11, <2>14, <4>1, <4>2
    <3> QED BY <2>1, <2>12, <2>15, <3>1 DEF Lists
  <2> QED BY <2>8, <2>16, <2>17, <2>18, <2>19 DEF LaidAt, x, y, z, o, l, r
<1>7. /\ Len(wanted) = W[N] + Lasts
      /\ Lists(W[N], "common", Source, Accounted(script, N, Source), Lasts)
  <2> DEFINE u == AskedUpto(N)
             a == AskedRest
             o == Accounted(script, N, Source)
  <2>1. Lasts \in Nat BY Amounts
  <2>2. o \in Int BY <1>0, LeftNumbers DEF N
  <2>3. a = Stretch("common", Source, o, Lasts) BY DEF AskedRest, N
  <2> HIDE DEF o, a
  <2>4. /\ a \in Seq(EntryType) /\ Len(a) = Lasts
        /\ \A j \in 1..Lasts : a[j] = Word("common", Source, o + j)
    BY <1>0, <2>1, <2>2, <2>3, StretchIsTyped DEF Kinds
  <2>5. u \in Seq(EntryType) /\ W[N] = Len(u) /\ wanted = u \o a
    <3>1. N \in 0..N BY <1>1
    <3> QED BY <1>3, <1>4, <3>1, TranscriptIs DEF N, a
  <2> HIDE DEF u
  <2>6. /\ Len(wanted) = Len(u) + Lasts /\ Len(u) \in Nat
        /\ \A j \in 1..Lasts : wanted[Len(u) + j] = a[j]
    <3>1. Len(u) \in Nat BY <2>4, <2>5, Joining
    <3>2. Len(u \o a) = Len(u) + Len(a) BY <2>4, <2>5, Joining
    <3>3. \A j \in 1..Len(a) : (u \o a)[Len(u) + j] = a[j] BY <2>4, <2>5, Joining
    <3> QED BY <2>4, <2>5, <3>1, <3>2, <3>3
  <2>7. W[N] + Lasts <= Len(wanted) BY <2>1, <2>5, <2>6
  <2>8. Lists(Len(u), "common", Source, o, Lasts)
    BY <2>1, <2>4, <2>5, <2>6, <2>7 DEF Lists
  <2> QED BY <2>5, <2>6, <2>8 DEF o
<1> QED BY <1>2, <1>4, <1>5, <1>6, <1>7 DEF Laid, N

LEMMA LaidInit == Init => \E W : Laid(W)
<1>1. Init => CountsInv BY CountsInit
<1>2. Init => wanted = Wanted(Transcript(script, total)) BY DEF Init
<1> QED BY <1>1, <1>2, WantedIsLaid

(* Nothing of this changes.                                                *)
LEMMA LaidFrame ==
    ASSUME UNCHANGED <<options, script, total, wanted>>
    PROVE  \A W : Laid(W)' <=> Laid(W)
<1>1. Commons(0)' = Commons(0) /\ Source' = Source
  BY DEF Commons, Of, Source, inhibited, Gap, Accounted, FirstWord, LastWord
<1>2. \A n : Commons(n)' = Commons(n) /\ Owns(n, "left")' = Owns(n, "left")
            /\ Owns(n, "right")' = Owns(n, "right")
  BY DEF Commons, Owns, Own, Of, inhibited, Gap, Accounted, FirstWord, LastWord
<1>3. Lasts' = Lasts BY DEF Lasts, Left, Of, inhibited, Accounted, LastWord
<1>4. \A W, n : LaidAt(W, n)' <=> LaidAt(W, n)
  BY <1>1, <1>2 DEF LaidAt, Lists, Accounted, FirstWord, LastWord
<1> QED BY <1>1, <1>3, <1>4 DEF Laid, Lists, Accounted, LastWord

-----------------------------------------------------------------------------
(***************************************************************************)
(* The calls, followed by both readers at once: where each is, whether it  *)
(* is in front of a word, the mode and how many words have been shown.     *)
(* The words that a call shows have to be the next that are wanted.        *)
(***************************************************************************)
Spot == [at : [Side -> Int], ready : [Side -> BOOLEAN], mode : Modes, seen : Int]

(* What the reader takes a word of side s for, as TakenFor.                *)
KindIn(mode, s) ==
    IF mode = "DELETED" THEN "deleted" ELSE IF mode = "INSERTED" THEN "inserted"
    ELSE IF ~inhibited("common") THEN "common"
    ELSE IF s = "left" THEN "deleted" ELSE "inserted"

Offers(p, s, o) ==
    /\ p.at[s] <= o /\ o <= total[s]
    /\ Lists(p.seen, KindIn(p.mode, s), s, p.at[s], o - p.at[s])

Moved(p, s, o, ready, seen) ==
    [at |-> [p.at EXCEPT ![s] = o], ready |-> [p.ready EXCEPT ![s] = ready],
     mode |-> p.mode, seen |-> seen]

Switched(p, mode) ==
    [at |-> p.at, ready |-> p.ready, mode |-> IF Useless THEN p.mode ELSE mode, seen |-> p.seen]

DoesCopyWord(p, s, q) ==
    /\ p.ready[s] /\ Offers(p, s, p.at[s] + 1)
    /\ q = Moved(p, s, p.at[s] + 1, FALSE, p.seen + 1)
DoesCopyUntil(p, s, o, q) ==
    /\ Offers(p, s, o)
    /\ q = Moved(p, s, o, FALSE, p.seen + (o - p.at[s]))
DoesSkipUntil(p, s, o, q) ==
    /\ p.at[s] <= o
    /\ q = Moved(p, s, o, FALSE, p.seen)

Does(c, p, q) ==
    /\ c.fn = "copy_whitespace" => q = Moved(p, c.side, p.at[c.side], TRUE, p.seen)
    /\ c.fn = "copy_word" => DoesCopyWord(p, c.side, q)
    /\ c.fn = "copy_until_ordinal" => DoesCopyUntil(p, c.side, c.ordinal, q)
    /\ c.fn = "skip_until_ordinal" => DoesSkipUntil(p, c.side, c.ordinal, q)
    /\ c.fn = "start" => q = Switched(p, c.mode)
    /\ c.fn = "end" => q = Switched(p, "NORMAL")
    /\ c.fn = "separator" => q = p

Track(cs, f) == \A i \in 1..Len(cs) : Does(cs[i], f[i - 1], f[i])

Goes(cs, p, q) ==
    \E f \in [0..Len(cs) -> Spot] : f[0] = p /\ f[Len(cs)] = q /\ Track(cs, f)

LEMMA GoesNowhere ==
    ASSUME NEW p \in Spot
    PROVE  Goes(<<>>, p, p)
<1> DEFINE f == [i \in 0..Len(<<>>) |-> p]
<1>1. f \in [0..Len(<<>>) -> Spot] /\ f[0] = p /\ f[Len(<<>>)] = p OBVIOUS
<1>2. Track(<<>>, f) BY DEF Track
<1> QED BY <1>1, <1>2 DEF Goes

LEMMA WentNowhere ==
    ASSUME NEW p, NEW q, Goes(<<>>, p, q)
    PROVE  q = p
BY DEF Goes

LEMMA GoesByOne ==
    ASSUME NEW c, NEW p \in Spot, NEW q \in Spot, Does(c, p, q)
    PROVE  Goes(<<c>>, p, q)
<1> DEFINE f == [i \in 0..1 |-> IF i = 0 THEN p ELSE q]
<1>1. Len(<<c>>) = 1 /\ <<c>>[1] = c OBVIOUS
<1>2. f \in [0..1 -> Spot] /\ f[0] = p /\ f[1] = q OBVIOUS
<1>3. Track(<<c>>, f)
  <2> SUFFICES ASSUME NEW i \in 1..1 PROVE Does(<<c>>[i], f[i - 1], f[i])
    BY <1>1 DEF Track
  <2>1. i = 1 /\ i - 1 = 0 OBVIOUS
  <2> QED BY <1>1, <1>2, <2>1
<1> HIDE DEF f
<1> QED BY <1>1, <1>2, <1>3 DEF Goes

LEMMA GoesOn ==
    ASSUME NEW a \in Seq(CallSet), NEW b \in Seq(CallSet),
           NEW p, NEW r, NEW q, Goes(a, p, r), Goes(b, r, q)
    PROVE  Goes(a \o b, p, q)
<1>1. PICK f \in [0..Len(a) -> Spot] : f[0] = p /\ f[Len(a)] = r /\ Track(a, f)
  BY DEF Goes
<1>2. PICK g \in [0..Len(b) -> Spot] : g[0] = r /\ g[Len(b)] = q /\ Track(b, g)
  BY DEF Goes
<1> DEFINE c == a \o b
           h == [i \in 0..(Len(a) + Len(b)) |-> IF i <= Len(a) THEN f[i] ELSE g[i - Len(a)]]
<1>3. /\ Len(a) \in Nat /\ Len(b) \in Nat /\ Len(c) = Len(a) + Len(b)
      /\ \A i \in 1..Len(a) : c[i] = a[i]
      /\ \A i \in 1..Len(b) : c[Len(a) + i] = b[i]
  OBVIOUS
<1> HIDE DEF c
<1>4. ASSUME NEW i \in 0..(Len(a) + Len(b)) PROVE h[i] \in Spot
  <2>1. CASE i <= Len(a)
    <3>1. i \in 0..Len(a) /\ h[i] = f[i] BY <1>3, <2>1
    <3> QED BY <3>1
  <2>2. CASE ~(i <= Len(a))
    <3>1. i - Len(a) \in 0..Len(b) /\ h[i] = g[i - Len(a)] BY <1>3, <2>2
    <3> QED BY <3>1
  <2> QED BY <2>1, <2>2
<1>5. \A i \in 0..Len(a) : h[i] = f[i] BY <1>3
<1>6. ASSUME NEW i \in 0..Len(b) PROVE h[Len(a) + i] = g[i]
  <2>1. Len(a) + i \in 0..(Len(a) + Len(b)) /\ (Len(a) + i) - Len(a) = i BY <1>3
  <2>2. CASE i = 0
    <3>1. Len(a) + i = Len(a) /\ Len(a) \in 0..Len(a) BY <1>3, <2>2
    <3> QED BY <1>1, <1>2, <1>5, <2>2, <3>1
  <2>3. CASE i # 0
    <3>1. ~(Len(a) + i <= Len(a)) BY <1>3, <2>3
    <3> QED BY <2>1, <3>1
  <2> QED BY <2>2, <2>3
<1>7. h \in [0..Len(c) -> Spot] BY <1>3, <1>4
<1> HIDE DEF h
<1>8. h[0] = p BY <1>1, <1>3, <1>5
<1>9. h[Len(c)] = q BY <1>2, <1>3, <1>6
<1>10. ASSUME NEW i \in 1..Len(c) PROVE Does(c[i], h[i - 1], h[i])
  <2>1. CASE i \in 1..Len(a)
    <3>1. i - 1 \in 0..Len(a) /\ i \in 0..Len(a) BY <1>3, <2>1
    <3>2. Does(a[i], f[i - 1], f[i]) BY <1>1, <2>1 DEF Track
    <3> QED BY <1>3, <1>5, <2>1, <3>1, <3>2
  <2>2. CASE i \notin 1..Len(a)
    <3> DEFINE j == i - Len(a)
    <3>1. j \in 1..Len(b) /\ j - 1 \in 0..Len(b) /\ j \in 0..Len(b) BY <1>3, <2>2
    <3>2. Len(a) + j = i /\ Len(a) + (j - 1) = i - 1 BY <1>3
    <3> HIDE DEF j
    <3>3. Does(b[j], g[j - 1], g[j]) BY <1>2, <3>1 DEF Track
    <3>4. c[i] = b[j] /\ h[i] = g[j] /\ h[i - 1] = g[j - 1] BY <1>3, <1>6, <3>1, <3>2
    <3> QED BY <3>3, <3>4
  <2> QED BY <2>1, <2>2
<1> QED BY <1>7, <1>8, <1>9, <1>10 DEF Goes, Track, c

LEMMA WentByHead ==
    ASSUME NEW c \in Seq(CallSet), c # <<>>, NEW p, NEW q, Goes(c, p, q)
    PROVE  \E r \in Spot : Does(Head(c), p, r) /\ Goes(Tail(c), r, q)
<1>1. PICK f \in [0..Len(c) -> Spot] : f[0] = p /\ f[Len(c)] = q /\ Track(c, f)
  BY DEF Goes
<1> DEFINE t == Tail(c)
           g == [i \in 0..(Len(c) - 1) |-> f[i + 1]]
<1>2. /\ Len(c) \in Nat \ {0} /\ Head(c) = c[1] /\ Len(t) = Len(c) - 1
      /\ \A i \in 1..(Len(c) - 1) : t[i] = c[i + 1]
  OBVIOUS
<1> HIDE DEF t
<1>3. g \in [0..Len(t) -> Spot]
  <2>1. \A i \in 0..(Len(c) - 1) : i + 1 \in 0..Len(c) BY <1>2
  <2> QED BY <1>2, <2>1
<1>4. g[0] = f[1] /\ g[Len(t)] = q
  <2>1. 0 \in 0..(Len(c) - 1) /\ Len(t) \in 0..(Len(c) - 1) /\ Len(t) + 1 = Len(c) BY <1>2
  <2> QED BY <1>1, <2>1
<1>5. ASSUME NEW i \in 1..Len(t) PROVE Does(t[i], g[i - 1], g[i])
  <2>1. i + 1 \in 1..Len(c) /\ (i + 1) - 1 = i /\ t[i] = c[i + 1] BY <1>2
  <2>2. g[i - 1] = f[i] /\ g[i] = f[i + 1] BY <1>2
  <2>3. Does(c[i + 1], f[(i + 1) - 1], f[i + 1]) BY <1>1, <2>1 DEF Track
  <2> QED BY <2>1, <2>2, <2>3
<1>6. Does(c[1], f[0], f[1]) /\ f[1] \in Spot
  <2>1. 1 \in 1..Len(c) /\ 1 \in 0..Len(c) /\ 1 - 1 = 0 BY <1>2
  <2>2. Does(c[1], f[1 - 1], f[1]) BY <1>1, <2>1 DEF Track
  <2> QED BY <2>1, <2>2
<1> HIDE DEF g
<1>7. Goes(t, f[1], q) BY <1>3, <1>4, <1>5 DEF Goes, Track
<1> QED BY <1>1, <1>2, <1>6, <1>7 DEF t

LEMMA GoesByFive ==
    ASSUME NEW c1, NEW c2, NEW c3, NEW c4, NEW c5,
           NEW p0 \in Spot, NEW p1 \in Spot, NEW p2 \in Spot,
           NEW p3 \in Spot, NEW p4 \in Spot, NEW p5 \in Spot,
           Does(c1, p0, p1), Does(c2, p1, p2), Does(c3, p2, p3),
           Does(c4, p3, p4), Does(c5, p4, p5)
    PROVE  Goes(<<c1, c2, c3, c4, c5>>, p0, p5)
<1> DEFINE c == <<c1, c2, c3, c4, c5>>
           f == [i \in 0..5 |-> IF i = 0 THEN p0 ELSE IF i = 1 THEN p1 ELSE IF i = 2 THEN p2
                                ELSE IF i = 3 THEN p3 ELSE IF i = 4 THEN p4 ELSE p5]
<1>1. /\ Len(c) = 5 /\ c[1] = c1 /\ c[2] = c2 /\ c[3] = c3 /\ c[4] = c4 /\ c[5] = c5
  OBVIOUS
<1>2. /\ f \in [0..5 -> Spot] /\ f[0] = p0 /\ f[1] = p1 /\ f[2] = p2
      /\ f[3] = p3 /\ f[4] = p4 /\ f[5] = p5
  OBVIOUS
<1> HIDE DEF c, f
<1>3. ASSUME NEW i \in 1..5 PROVE Does(c[i], f[i - 1], f[i])
  <2>1. i \in {1, 2, 3, 4, 5} OBVIOUS
  <2>2. 1 - 1 = 0 /\ 2 - 1 = 1 /\ 3 - 1 = 2 /\ 4 - 1 = 3 /\ 5 - 1 = 4 OBVIOUS
  <2> QED BY <1>1, <1>2, <2>1, <2>2
<1>4. Goes(c, p0, p5) BY <1>1, <1>2, <1>3 DEF Goes, Track
<1> QED BY <1>4 DEF c

LEMMA GoesByThree ==
    ASSUME NEW c1, NEW c2, NEW c3,
           NEW p0 \in Spot, NEW p1 \in Spot, NEW p2 \in Spot, NEW p3 \in Spot,
           Does(c1, p0, p1), Does(c2, p1, p2), Does(c3, p2, p3)
    PROVE  Goes(<<c1, c2, c3>>, p0, p3)
<1> DEFINE c == <<c1, c2, c3>>
           f == [i \in 0..3 |-> IF i = 0 THEN p0 ELSE IF i = 1 THEN p1
                                ELSE IF i = 2 THEN p2 ELSE p3]
<1>1. Len(c) = 3 /\ c[1] = c1 /\ c[2] = c2 /\ c[3] = c3 OBVIOUS
<1>2. f \in [0..3 -> Spot] /\ f[0] = p0 /\ f[1] = p1 /\ f[2] = p2 /\ f[3] = p3
  OBVIOUS
<1> HIDE DEF c, f
<1>3. ASSUME NEW i \in 1..3 PROVE Does(c[i], f[i - 1], f[i])
  <2>1. i \in {1, 2, 3} OBVIOUS
  <2>2. 1 - 1 = 0 /\ 2 - 1 = 1 /\ 3 - 1 = 2 OBVIOUS
  <2> QED BY <1>1, <1>2, <2>1, <2>2
<1>4. Goes(c, p0, p3) BY <1>1, <1>2, <1>3 DEF Goes, Track
<1> QED BY <1>4 DEF c

(* Spots that are reached are spots.                                       *)
IsMoved(p, s, o, ready, seen, q) ==
    /\ q \in Spot /\ q.at[s] = o /\ q.ready[s] = ready /\ q.seen = seen /\ q.mode = p.mode
    /\ \A r \in Side \ {s} : q.at[r] = p.at[r] /\ q.ready[r] = p.ready[r]

LEMMA MovedIsSpot ==
    ASSUME NEW p \in Spot, NEW s \in Side, NEW o \in Int, NEW ready \in BOOLEAN, NEW seen \in Int
    PROVE  IsMoved(p, s, o, ready, seen, Moved(p, s, o, ready, seen))
BY DEF IsMoved, Moved, Spot

LEMMA SwitchedIsSpot ==
    ASSUME NEW p \in Spot, NEW mode \in Modes
    PROVE  /\ Switched(p, mode) \in Spot
           /\ Switched(p, mode).at = p.at /\ Switched(p, mode).ready = p.ready
           /\ Switched(p, mode).mode = (IF Useless THEN p.mode ELSE mode)
           /\ Switched(p, mode).seen = p.seen
BY DEF Switched, Spot

LEMMA ListsWithin ==
    ASSUME wanted \in Seq(EntryType), NEW at \in Int, NEW kind, NEW s, NEW o \in Int,
           NEW n \in Int, Lists(at, kind, s, o, n),
           NEW i \in Nat, NEW m \in Nat, i + m <= n
    PROVE  Lists(at + i, kind, s, o + i, m)
<1>1. Len(wanted) \in Nat OBVIOUS
<1>2. at + n <= Len(wanted) /\ \A j \in 1..n : wanted[at + j] = Word(kind, s, o + j)
  BY DEF Lists
<1>3. (at + i) + m <= Len(wanted) BY <1>1, <1>2
<1>4. ASSUME NEW j \in 1..m PROVE wanted[(at + i) + j] = Word(kind, s, (o + i) + j)
  <2>1. i + j \in 1..n /\ at + (i + j) = (at + i) + j /\ o + (i + j) = (o + i) + j OBVIOUS
  <2>2. wanted[at + (i + j)] = Word(kind, s, o + (i + j)) BY <1>2, <2>1
  <2> QED BY <2>1, <2>2
<1> QED BY <1>3, <1>4 DEF Lists

(* One call, that copies words or skips them.                              *)
LEMMA CopyGoes ==
    ASSUME NEW p \in Spot, NEW s \in Side, NEW o \in Int, Offers(p, s, o)
    PROVE  /\ Moved(p, s, o, FALSE, p.seen + (o - p.at[s])) \in Spot
           /\ Goes(<<copy_until_ordinal(s, o)>>, p, Moved(p, s, o, FALSE, p.seen + (o - p.at[s])))
<1> DEFINE c == copy_until_ordinal(s, o)
           q == Moved(p, s, o, FALSE, p.seen + (o - p.at[s]))
<1>1. p.at[s] \in Int /\ p.seen \in Int BY DEF Spot
<1>2. q \in Spot
  <2>1. p.seen + (o - p.at[s]) \in Int BY <1>1
  <2>2. PICK n \in Int : n = p.seen + (o - p.at[s]) BY <2>1
  <2>3. IsMoved(p, s, o, FALSE, n, Moved(p, s, o, FALSE, n)) BY MovedIsSpot
  <2> QED BY <2>2, <2>3 DEF IsMoved
<1>3. c.fn = "copy_until_ordinal" /\ c.side = s /\ c.ordinal = o BY DEF copy_until_ordinal
<1>4. DoesCopyUntil(p, s, o, q) BY DEF DoesCopyUntil
<1> HIDE DEF c, q
<1>5. Does(c, p, q) BY <1>3, <1>4 DEF Does
<1>6. Goes(<<c>>, p, q) BY <1>2, <1>5, GoesByOne
<1> QED BY <1>2, <1>6 DEF c, q

LEMMA SkipGoes ==
    ASSUME NEW p \in Spot, NEW s \in Side, NEW o \in Int, p.at[s] <= o
    PROVE  /\ Moved(p, s, o, FALSE, p.seen) \in Spot
           /\ Goes(<<skip_until_ordinal(s, o)>>, p, Moved(p, s, o, FALSE, p.seen))
<1> DEFINE c == skip_until_ordinal(s, o)
           q == Moved(p, s, o, FALSE, p.seen)
<1>1. p.seen \in Int BY DEF Spot
<1>2. q \in Spot
  <2>1. IsMoved(p, s, o, FALSE, p.seen, q) BY <1>1, MovedIsSpot
  <2> QED BY <2>1 DEF IsMoved
<1>3. c.fn = "skip_until_ordinal" /\ c.side = s /\ c.ordinal = o BY DEF skip_until_ordinal
<1>4. DoesSkipUntil(p, s, o, q) BY DEF DoesSkipUntil
<1> HIDE DEF c, q
<1>5. Does(c, p, q) BY <1>3, <1>4 DEF Does
<1>6. Goes(<<c>>, p, q) BY <1>2, <1>5, GoesByOne
<1> QED BY <1>2, <1>6 DEF c, q

LEMMA SeparatorGoes ==
    ASSUME NEW p \in Spot, NEW cond
    PROVE  Goes(When(cond, <<separator>>), p, p)
<1>1. Does(separator, p, p) BY DEF Does, separator
<1> QED BY <1>1, GoesByOne, GoesNowhere DEF When

(* The words of a directive, with or without emphasis, are what the reader *)
(* takes them for.                                                         *)
Emphasises(s, mode, kind) ==
    \/ s = "left" /\ mode = "DELETED" /\ kind = "deleted"
    \/ s = "right" /\ mode = "INSERTED" /\ kind = "inserted"

LEMMA EmphasisGoes ==
    ASSUME wanted \in Seq(EntryType), NEW s \in Side, NEW mode \in Emphases, NEW kind,
           Emphasises(s, mode, kind), NEW p \in Spot, p.mode = "NORMAL",
           NEW last \in Int, p.at[s] < last, last <= total[s], total[s] \in Int,
           Lists(p.seen, kind, s, p.at[s], last - p.at[s])
    PROVE  \E q \in Spot :
              /\ Goes(Emphasised(s, mode, last), p, q) /\ q.mode = "NORMAL"
              /\ q.at[s] = last /\ q.seen = p.seen + (last - p.at[s])
              /\ \A r \in Side \ {s} : q.at[r] = p.at[r]
<1> DEFINE at == p.at[s]
           seen == p.seen
           p1 == Moved(p, s, at, TRUE, seen)
           p2 == Switched(p1, mode)
           p3 == Moved(p2, s, at + 1, FALSE, seen + 1)
           p4 == Moved(p3, s, last, FALSE, (seen + 1) + (last - (at + 1)))
           p5 == Switched(p4, "NORMAL")
           c1 == copy_whitespace(s)
           c2 == start_of(mode)
           c3 == copy_word(s)
           c4 == copy_until_ordinal(s, last)
           c5 == end_of(mode)
<1>0. at \in Int /\ seen \in Int /\ mode \in Modes /\ "NORMAL" \in Modes
  BY DEF Spot, Modes, Emphases
<1>00. at = p.at[s] /\ seen = p.seen OBVIOUS
<1> HIDE DEF at, seen
<1>1. /\ p1 \in Spot /\ p1.at[s] = at /\ p1.ready[s] = TRUE /\ p1.seen = seen
      /\ p1.mode = "NORMAL" /\ \A r \in Side \ {s} : p1.at[r] = p.at[r]
  <2>1. IsMoved(p, s, at, TRUE, seen, p1) BY <1>0, MovedIsSpot
  <2> QED BY <2>1 DEF IsMoved
<1> HIDE DEF p1
<1>2. /\ p2 \in Spot /\ p2.at = p1.at /\ p2.ready = p1.ready /\ p2.seen = seen
      /\ p2.mode = (IF Useless THEN "NORMAL" ELSE mode)
  BY <1>0, <1>1, SwitchedIsSpot
<1> HIDE DEF p2
<1>3. /\ p3 \in Spot /\ p3.at[s] = at + 1 /\ p3.seen = seen + 1 /\ p3.mode = p2.mode
      /\ \A r \in Side \ {s} : p3.at[r] = p.at[r]
  <2>1. at + 1 \in Int /\ seen + 1 \in Int BY <1>0
  <2>2. /\ p3 \in Spot /\ p3.at[s] = at + 1 /\ p3.seen = seen + 1 /\ p3.mode = p2.mode
        /\ \A r \in Side \ {s} : p3.at[r] = p2.at[r]
    <3>1. IsMoved(p2, s, at + 1, FALSE, seen + 1, p3) BY <1>2, <2>1, MovedIsSpot
    <3> QED BY <3>1 DEF IsMoved
  <2>3. ASSUME NEW r \in Side \ {s} PROVE p3.at[r] = p.at[r]
    <3>1. p3.at[r] = p2.at[r] BY <2>2
    <3>2. p2.at[r] = p1.at[r] BY <1>2
    <3>3. p1.at[r] = p.at[r] BY <1>1
    <3> QED BY <3>1, <3>2, <3>3
  <2> QED BY <2>2, <2>3
<1> HIDE DEF p3
<1>4. /\ p4 \in Spot /\ p4.at[s] = last /\ p4.seen = seen + (last - at) /\ p4.mode = p2.mode
      /\ \A r \in Side \ {s} : p4.at[r] = p.at[r]
  <2>1. (seen + 1) + (last - (at + 1)) \in Int
        /\ (seen + 1) + (last - (at + 1)) = seen + (last - at)
    BY <1>0
  <2>2. /\ p4 \in Spot /\ p4.at[s] = last /\ p4.seen = (seen + 1) + (last - (at + 1))
        /\ p4.mode = p3.mode /\ \A r \in Side \ {s} : p4.at[r] = p3.at[r]
    <3>1. PICK n \in Int : n = (seen + 1) + (last - (at + 1)) BY <2>1
    <3>2. IsMoved(p3, s, last, FALSE, n, Moved(p3, s, last, FALSE, n)) BY <1>3, MovedIsSpot
    <3>3. IsMoved(p3, s, last, FALSE, n, p4) BY <3>1, <3>2
    <3> QED BY <3>1, <3>3 DEF IsMoved
  <2> QED BY <1>3, <2>1, <2>2
<1>5. /\ p5 \in Spot /\ p5.at = p4.at /\ p5.seen = p4.seen /\ p5.mode = "NORMAL"
  BY <1>0, <1>2, <1>4, SwitchedIsSpot
<1>6. KindIn(p2.mode, s) = kind
  BY <1>2 DEF KindIn, Emphasises, Useless
<1>7. Lists(seen, kind, s, at, last - at) BY <1>00
<1>8. Does(c1, p, p1)
  <2>1. c1.fn = "copy_whitespace" /\ c1.side = s BY DEF copy_whitespace
  <2> HIDE DEF c1
  <2>2. p1 = Moved(p, s, p.at[s], TRUE, p.seen) BY <1>00 DEF p1
  <2> QED BY <2>1, <2>2 DEF Does
<1>9. Does(c2, p1, p2)
  <2>1. c2.fn = "start" /\ c2.mode = mode BY DEF start_of
  <2> HIDE DEF c2
  <2> QED BY <2>1 DEF Does, p2
<1>10. Does(c3, p2, p3)
  <2>1. c3.fn = "copy_word" /\ c3.side = s BY DEF copy_word
  <2> HIDE DEF c3
  <2>2. Lists(seen, kind, s, at, 1)
    <3>1. Lists(seen + 0, kind, s, at + 0, 1)
      <4>1. last - at \in Int /\ 0 + 1 <= last - at BY <1>0, <1>00
      <4> QED BY <1>0, <1>7, <4>1, ListsWithin
    <3> QED BY <1>0, <3>1
  <2>3. p2.at[s] = at /\ (at + 1) - at = 1 /\ at <= at + 1 /\ at + 1 <= total[s]
    <3>1. at + 1 <= last BY <1>0, <1>00
    <3>2. total[s] \in Int => at + 1 <= total[s] BY <1>0, <3>1
    <3>3. total[s] \in Int OBVIOUS
    <3> QED BY <1>0, <1>1, <1>2, <3>2, <3>3
  <2>4. Offers(p2, s, p2.at[s] + 1) BY <1>2, <1>6, <2>2, <2>3 DEF Offers
  <2>5. p2.ready[s] BY <1>1, <1>2
  <2>6. p3 = Moved(p2, s, p2.at[s] + 1, FALSE, p2.seen + 1) BY <1>2, <2>3 DEF p3
  <2>7. DoesCopyWord(p2, s, p3) BY <2>4, <2>5, <2>6 DEF DoesCopyWord
  <2> QED BY <2>1, <2>7 DEF Does
<1>11. Does(c4, p3, p4)
  <2>1. c4.fn = "copy_until_ordinal" /\ c4.side = s /\ c4.ordinal = last
    BY DEF copy_until_ordinal
  <2> HIDE DEF c4
  <2>2. Lists(seen + 1, kind, s, at + 1, last - (at + 1))
    <3>1. last - at \in Int /\ last - (at + 1) \in Nat /\ 1 + (last - (at + 1)) <= last - at
      <4>1. at < last BY <1>00
      <4> QED BY <1>0, <4>1
    <3> QED BY <1>0, <1>7, <3>1, ListsWithin
  <2>3. at + 1 <= last BY <1>0, <1>00
  <2>4. Offers(p3, s, last) BY <1>3, <1>6, <2>2, <2>3 DEF Offers
  <2>5. p4 = Moved(p3, s, last, FALSE, p3.seen + (last - p3.at[s])) BY <1>3 DEF p4
  <2>6. DoesCopyUntil(p3, s, last, p4) BY <2>4, <2>5 DEF DoesCopyUntil
  <2> QED BY <2>1, <2>6 DEF Does
<1> HIDE DEF p4
<1>12. Does(c5, p4, p5)
  <2>1. c5.fn = "end" BY DEF end_of
  <2> HIDE DEF c5
  <2> QED BY <2>1 DEF Does, p5
<1> HIDE DEF p5, c1, c2, c3, c4, c5
<1>13. Goes(<<c1, c2, c3, c4, c5>>, p, p5)
  BY <1>1, <1>2, <1>3, <1>4, <1>5, <1>8, <1>9, <1>10, <1>11, <1>12, GoesByFive
<1>14. Emphasised(s, mode, last) = <<c1, c2, c3, c4, c5>>
  BY DEF Emphasised, c1, c2, c3, c4, c5
<1>15. \A r \in Side \ {s} : p5.at[r] = p.at[r] BY <1>4, <1>5
<1>16. p5.at[s] = last /\ p5.seen = p.seen + (last - p.at[s]) BY <1>00, <1>4, <1>5
<1> QED BY <1>5, <1>13, <1>14, <1>15, <1>16

(* The reader of side s is brought to its word o; the other stays.         *)
Brought(p, s, o, seen, q) ==
    /\ q \in Spot /\ q.mode = p.mode /\ q.seen = seen /\ q.at[s] = o
    /\ \A r \in Side \ {s} : q.at[r] = p.at[r]

LEMMA CopyBrings ==
    ASSUME NEW p \in Spot, NEW s \in Side, NEW o \in Int, NEW n \in Int, Offers(p, s, o),
           n = p.seen + (o - p.at[s])
    PROVE  \E q : Goes(<<copy_until_ordinal(s, o)>>, p, q) /\ Brought(p, s, o, n, q)
<1>1. IsMoved(p, s, o, FALSE, n, Moved(p, s, o, FALSE, n)) BY MovedIsSpot
<1>2. Goes(<<copy_until_ordinal(s, o)>>, p, Moved(p, s, o, FALSE, n)) BY CopyGoes
<1>3. Brought(p, s, o, n, Moved(p, s, o, FALSE, n)) BY <1>1 DEF IsMoved, Brought
<1> QED BY <1>2, <1>3

LEMMA SkipBrings ==
    ASSUME NEW p \in Spot, NEW s \in Side, NEW o \in Int, p.at[s] <= o
    PROVE  \E q : Goes(<<skip_until_ordinal(s, o)>>, p, q) /\ Brought(p, s, o, p.seen, q)
<1>1. PICK n \in Int : n = p.seen BY DEF Spot
<1>2. IsMoved(p, s, o, FALSE, n, Moved(p, s, o, FALSE, n)) BY MovedIsSpot
<1>3. Goes(<<skip_until_ordinal(s, o)>>, p, Moved(p, s, o, FALSE, n)) BY <1>1, SkipGoes
<1>4. Brought(p, s, o, n, Moved(p, s, o, FALSE, n)) BY <1>2 DEF IsMoved, Brought
<1> QED BY <1>1, <1>3, <1>4

(* No directive names a word behind the end of the file.                   *)
LEMMA Within ==
    ASSUME CountsInv, NEW s \in Side
    PROVE  /\ total[s] \in Nat
           /\ \A n \in 0..Len(script) : Accounted(script, n, s) <= total[s]
<1> DEFINE N == Len(script)
           P == {d \in Nat : d <= N => Accounted(script, N - d, s) <= total[s]}
<1>1. N \in Nat BY PartsAreTyped
<1>2. total[s] \in Nat BY DEF CountsInv, CountsType
<1>3. Accounted(script, N, s) <= total[s]
  <2>1. /\ Accounted(script, N, s) \in Int /\ Left \in Nat
        /\ total[s] = Accounted(script, N, s) + Left
    BY LeftNumbers
  <2> QED BY <2>1
<1>4. ASSUME NEW n \in 1..N, Accounted(script, n, s) <= total[s]
      PROVE  Accounted(script, n - 1, s) <= total[s]
  <2>1. /\ Accounted(script, n, s) = LastWord(script[n], s)
        /\ Accounted(script, n - 1, s) \in Int
    BY HunkNumbers
  <2>2. LastWord(script[n], s) \in Int /\ FirstWord(script[n], s) \in Int BY HunkNumbers
  <2>3. LastWord(script[n], s) - FirstWord(script[n], s) + 1 \in Nat BY HunkNumbers DEF Own
  <2>4. /\ Gap(script, n, "left") \in Nat
        /\ FirstWord(script[n], s) - 1 = Accounted(script, n - 1, s) + Gap(script, n, "left")
    BY HunkNumbers
  <2>5. PICK b, f, l, g, m \in Int :
               /\ b = Accounted(script, n - 1, s) /\ f = FirstWord(script[n], s)
               /\ l = LastWord(script[n], s) /\ g = Gap(script, n, "left") /\ m = total[s]
    <3>1. Gap(script, n, "left") \in Int /\ total[s] \in Int BY <1>2, <2>4
    <3> QED BY <2>1, <2>2, <3>1
  <2>6. f - 1 = b + g /\ g >= 0 /\ l - f + 1 >= 0 /\ l <= m BY <1>4, <2>1, <2>3, <2>4, <2>5
  <2>7. b <= m BY <2>6
  <2> QED BY <2>5, <2>7
<1> HIDE DEF N
<1>5. 0 \in P
  <2>1. N - 0 = N BY <1>1
  <2> QED BY <1>3, <2>1
<1>6. ASSUME NEW d \in Nat, d \in P PROVE d + 1 \in P
  <2> SUFFICES ASSUME d + 1 <= N PROVE Accounted(script, N - (d + 1), s) <= total[s] OBVIOUS
  <2>1. PICK m \in Nat : m = N - d BY <1>1
  <2>2. m \in 1..N /\ m - 1 = N - (d + 1) /\ Accounted(script, m, s) <= total[s]
    BY <1>1, <1>6, <2>1
  <2>3. Accounted(script, m - 1, s) <= total[s] BY <1>4, <2>2
  <2> QED BY <2>2, <2>3
<1> HIDE DEF P
<1>7. Nat \subseteq P BY <1>5, <1>6, AllNumbers
<1>8. ASSUME NEW n \in 0..N PROVE Accounted(script, n, s) <= total[s]
  <2>1. N - n \in Nat /\ N - n <= N /\ N - (N - n) = n BY <1>1
  <2> QED BY <1>7, <2>1 DEF P
<1> QED BY <1>2, <1>8 DEF N

(* Where the words of a directive begin and end.                           *)
LEMMA HunkPlaces ==
    ASSUME CountsInv, NEW n \in 1..Len(script), NEW s \in Side
    PROVE  \E b, f, l, g \in Int :
              /\ b = Accounted(script, n - 1, s) /\ f = FirstWord(script[n], s) - 1
              /\ l = LastWord(script[n], s) /\ l = Accounted(script, n, s)
              /\ g = Gap(script, n, "left")
              /\ f = b + g /\ b <= f /\ f <= l /\ l <= total[s] /\ total[s] \in Int
              /\ Own(n, s) = l - f
<1>1. FirstWord(script[n], s) \in Int /\ LastWord(script[n], s) \in Int BY HunkNumbers
<1>2. Accounted(script, n, s) = LastWord(script[n], s) BY HunkNumbers
<1>3. Accounted(script, n - 1, s) \in Int /\ Gap(script, n, "left") \in Nat BY HunkNumbers
<1>4. FirstWord(script[n], s) - 1 = Accounted(script, n - 1, s) + Gap(script, n, "left")
  BY HunkNumbers
<1>5. LastWord(script[n], s) - FirstWord(script[n], s) + 1 \in Nat BY HunkNumbers DEF Own
<1>6. n \in 0..Len(script) BY PartsAreTyped
<1>7. total[s] \in Nat /\ Accounted(script, n, s) <= total[s] BY <1>6, Within
<1>8. Own(n, s) = LastWord(script[n], s) - FirstWord(script[n], s) + 1 BY DEF Own
<1>9. PICK b, f, l, g, m \in Int :
             /\ b = Accounted(script, n - 1, s) /\ f = FirstWord(script[n], s) - 1
             /\ l = LastWord(script[n], s) /\ g = Gap(script, n, "left") /\ m = total[s]
  <2>1. Gap(script, n, "left") \in Int /\ total[s] \in Int BY <1>3, <1>7
  <2>2. FirstWord(script[n], s) - 1 \in Int BY <1>1
  <2>3. PICK f \in Int : f = FirstWord(script[n], s) - 1 BY <2>2
  <2>4. /\ Accounted(script, n - 1, s) \in Int /\ LastWord(script[n], s) \in Int
    BY <1>1, <1>3
  <2> QED BY <2>1, <2>3, <2>4
<1>10. f + 1 = FirstWord(script[n], s)
  <2>1. PICK k \in Int : k = FirstWord(script[n], s) BY <1>1
  <2>2. f = k - 1 BY <1>9, <2>1
  <2> QED BY <2>1, <2>2
<1>11. f = b + g /\ g >= 0 /\ l - (f + 1) + 1 >= 0 /\ l <= m /\ Own(n, s) = l - (f + 1) + 1
  BY <1>2, <1>3, <1>4, <1>5, <1>7, <1>8, <1>9, <1>10
<1>12. b <= f /\ f <= l /\ Own(n, s) = l - f BY <1>11
<1>13. l <= total[s] /\ total[s] \in Int /\ l = Accounted(script, n, s) BY <1>2, <1>9, <1>11
<1> QED BY <1>9, <1>11, <1>12, <1>13

LEMMA ResyncSkips ==
    ASSUME CountsInv, NEW n \in 1..Len(script), NEW s \in Side,
           NEW p \in Spot, p.at[s] = Accounted(script, n - 1, s)
    PROVE  LET f == FirstWord(script[n], s) - 1
           IN  \E q : Goes(<<skip_until_ordinal(s, f)>>, p, q) /\ Brought(p, s, f, p.seen, q)
<1>1. PICK b, f \in Int : b = Accounted(script, n - 1, s) /\ f = FirstWord(script[n], s) - 1
                          /\ b <= f
  BY HunkPlaces
<1>2. p.at[s] <= f BY <1>1
<1>3. \E q : Goes(<<skip_until_ordinal(s, f)>>, p, q) /\ Brought(p, s, f, p.seen, q)
  BY <1>2, SkipBrings
<1> QED BY <1>1, <1>3

LEMMA ResyncCopies ==
    ASSUME CountsInv, NEW n \in 1..Len(script), NEW s \in Side, s = Source,
           ~inhibited("common"),
           NEW p \in Spot, p.mode = "NORMAL", p.at[s] = Accounted(script, n - 1, s),
           Lists(p.seen, "common", Source, Accounted(script, n - 1, Source), Commons(n))
    PROVE  LET f == FirstWord(script[n], s) - 1
           IN  \E q : /\ Goes(<<copy_until_ordinal(s, f)>>, p, q)
                      /\ Brought(p, s, f, p.seen + Commons(n), q)
<1>1. PICK b, f, l, g \in Int :
             /\ b = Accounted(script, n - 1, s) /\ f = FirstWord(script[n], s) - 1
             /\ g = Gap(script, n, "left")
             /\ f = b + g /\ b <= f /\ f <= l /\ l <= total[s] /\ total[s] \in Int
  BY HunkPlaces
<1>2. Commons(n) = f - b BY <1>1 DEF Commons, Of
<1>3. KindIn(p.mode, s) = "common" BY DEF KindIn
<1>4. Lists(p.seen, "common", s, b, f - b) BY <1>1, <1>2
<1>5. Offers(p, s, f)
  <2>1. f - p.at[s] = f - b BY <1>1
  <2>2. Lists(p.seen, KindIn(p.mode, s), s, p.at[s], f - p.at[s]) BY <1>1, <1>3, <1>4, <2>1
  <2>3. p.at[s] = b BY <1>1
  <2>4. p.at[s] <= f BY <1>1, <2>3
  <2>5. f <= total[s]
    <3>1. PICK m \in Int : m = total[s] BY <1>1
    <3>2. f <= l /\ l <= m BY <1>1, <3>1
    <3>3. f <= m BY <3>2
    <3> QED BY <3>1, <3>3
  <2> QED BY <2>2, <2>4, <2>5 DEF Offers
<1>6. PICK m \in Int : m = p.seen + Commons(n) BY <1>1, <1>2 DEF Spot
<1>7. m = p.seen + (f - p.at[s]) BY <1>1, <1>2, <1>6
<1>8. \E q : Goes(<<copy_until_ordinal(s, f)>>, p, q) /\ Brought(p, s, f, m, q)
  BY <1>5, <1>7, CopyBrings
<1> QED BY <1>1, <1>6, <1>8

(* Between two calls of a directive: w words have been shown, and the      *)
(* readers that are used are behind the words l and r.                     *)
Stood(p, w, l, r) ==
    /\ p \in Spot /\ p.mode = "NORMAL" /\ p.seen = w
    /\ Active("left") => p.at["left"] = l
    /\ Active("right") => p.at["right"] = r

LEMMA LeftStands ==
    ASSUME NEW p, NEW q, NEW w, NEW v, NEW l, NEW r, NEW o,
           Stood(p, w, l, r), Brought(p, "left", o, v, q)
    PROVE  Stood(q, v, o, r)
BY DEF Stood, Brought, Side

LEMMA RightStands ==
    ASSUME NEW p, NEW q, NEW w, NEW v, NEW l, NEW r, NEW o,
           Stood(p, w, l, r), Brought(p, "right", o, v, q)
    PROVE  Stood(q, v, l, o)
BY DEF Stood, Brought, Side

LEMMA CallsRegrouped ==
    ASSUME NEW a \in Seq(CallSet), NEW b \in Seq(CallSet), NEW c \in Seq(CallSet)
    PROVE  a \o (b \o c) = (a \o b) \o c
BY SMTT(60)

LEMMA WithNothing ==
    ASSUME NEW S, NEW d \in Seq(S)
    PROVE  d \o <<>> = d /\ <<>> \o d = d
OBVIOUS

LEMMA ResyncGoes ==
    ASSUME CountsInv, NEW n \in 1..Len(script), NEW w,
           Lists(w, "common", Source, Accounted(script, n - 1, Source), Commons(n)),
           NEW p, Stood(p, w, Accounted(script, n - 1, "left"), Accounted(script, n - 1, "right"))
    PROVE  \E q : /\ Goes(Resync(script[n]), p, q)
                  /\ Stood(q, w + Commons(n), FirstWord(script[n], "left") - 1,
                           FirstWord(script[n], "right") - 1)
<1> DEFINE h == script[n]
           f == FirstWord(h, "left") - 1
           g == FirstWord(h, "right") - 1
           i == Accounted(script, n - 1, "left")
           j == Accounted(script, n - 1, "right")
           a == When(~inhibited("left"),
                     IF ~inhibited("common") /\ inhibited("right")
                     THEN <<copy_until_ordinal("left", f)>>
                     ELSE <<skip_until_ordinal("left", f)>>)
           b == When(~inhibited("right"),
                     IF inhibited("common") THEN <<skip_until_ordinal("right", g)>>
                                            ELSE <<copy_until_ordinal("right", g)>>)
           c == When(~inhibited("common") /\ Side \subseteq options.inhibit,
                     <<copy_until_ordinal("right", g)>>)
<1>1. Resync(h) = (a \o b) \o c BY DEF Resync
<1>2. "left" \in Side /\ "right" \in Side /\ "left" # "right" BY DEF Side
<1>3. f \in Int /\ g \in Int
  <2>1. FirstWord(script[n], "left") \in Int BY <1>2, HunkNumbers
  <2>2. FirstWord(script[n], "right") \in Int BY <1>2, HunkNumbers
  <2> QED BY <2>1, <2>2
<1>4. /\ \A o \in Int : copy_until_ordinal("left", o) \in CallSet
                        /\ skip_until_ordinal("left", o) \in CallSet
      /\ \A o \in Int : copy_until_ordinal("right", o) \in CallSet
                        /\ skip_until_ordinal("right", o) \in CallSet
  BY <1>2, "DELETED" \in Emphases, CallsAreTyped DEF Emphases
<1>5. a \in Seq(CallSet) /\ b \in Seq(CallSet) /\ c \in Seq(CallSet)
  BY <1>3, <1>4 DEF When
<1>6. Commons(n) \in Nat /\ w = p.seen /\ w \in Int /\ p \in Spot /\ p.mode = "NORMAL"
  <2>1. Commons(n) \in Nat BY Amounts
  <2> QED BY <2>1 DEF Stood, Spot
<1>7. Active("left") => p.at["left"] = i BY DEF Stood
<1>8. Active("right") => p.at["right"] = j BY DEF Stood
<1>9. Stood(p, w, i, j) OBVIOUS
<1>10. CASE ~inhibited("left") /\ ~inhibited("common") /\ inhibited("right")
  <2>1. a = <<copy_until_ordinal("left", f)>> /\ b = <<>> BY <1>10 DEF When
  <2>2. c = <<>> BY <1>10, ActiveIs DEF When
  <2>3. Resync(h) = <<copy_until_ordinal("left", f)>>
    <3> HIDE DEF a, b, c
    <3>1. (a \o b) \o c = a BY <1>5, <2>1, <2>2
    <3> QED BY <1>1, <2>1, <3>1
  <2>4. Source = "left" /\ Active("left") /\ ~Active("right") BY <1>10, ActiveIs DEF Source
  <2>5. PICK q : /\ Goes(<<copy_until_ordinal("left", f)>>, p, q)
                 /\ Brought(p, "left", f, w + Commons(n), q)
    <3>1. p.at["left"] = Accounted(script, n - 1, "left") BY <1>7, <2>4
    <3>2. Lists(p.seen, "common", Source, Accounted(script, n - 1, Source), Commons(n))
      BY <1>6
    <3>3. \E q : /\ Goes(<<copy_until_ordinal("left", f)>>, p, q)
                 /\ Brought(p, "left", f, p.seen + Commons(n), q)
      BY <1>2, <1>6, <1>10, <2>4, <3>1, <3>2, ResyncCopies
    <3> QED BY <1>6, <3>3
  <2>6. Stood(q, w + Commons(n), f, j)
    <3> HIDE DEF f, j
    <3> QED BY <1>9, <2>5, LeftStands
  <2>7. Stood(q, w + Commons(n), f, g) BY <2>4, <2>6 DEF Stood
  <2> QED BY <2>3, <2>5, <2>7
<1>11. CASE ~(~inhibited("left") /\ ~inhibited("common") /\ inhibited("right"))
  <2>1. PICK q \in Spot : Goes(a, p, q) /\ Stood(q, w, f, j)
    <3>1. CASE inhibited("left")
      <4>1. a = <<>> /\ ~Active("left") BY <3>1, ActiveIs DEF When
      <4>2. Goes(a, p, p) BY <1>6, <4>1, GoesNowhere
      <4>3. Stood(p, w, f, j) BY <1>9, <4>1 DEF Stood
      <4> QED BY <1>6, <4>2, <4>3
    <3>2. CASE ~inhibited("left")
      <4>1. a = <<skip_until_ordinal("left", f)>> /\ Active("left")
        BY <1>11, <3>2, ActiveIs DEF When
      <4>2. PICK q : /\ Goes(<<skip_until_ordinal("left", f)>>, p, q)
                     /\ Brought(p, "left", f, p.seen, q)
        <5>1. p.at["left"] = Accounted(script, n - 1, "left") BY <1>7, <4>1
        <5> QED BY <1>2, <1>6, <5>1, ResyncSkips
      <4>3. Stood(q, w, f, j)
        <5> HIDE DEF f, j
        <5> QED BY <1>6, <1>9, <4>2, LeftStands
      <4> QED BY <4>1, <4>2, <4>3 DEF Stood
    <3> QED BY <3>1, <3>2
  <2>2. ASSUME NEW d \in Seq(CallSet), b \o c = d
        PROVE  Resync(h) = a \o d
    <3> HIDE DEF a, b, c
    <3>1. a \o (b \o c) = (a \o b) \o c BY SMTT(30), <1>5, CallsRegrouped
    <3> QED BY <1>1, <2>2, <3>1
  <2>3. q.mode = "NORMAL" /\ q.seen = w /\ (Active("right") => q.at["right"] = j)
    BY <2>1 DEF Stood
  <2>4. CASE inhibited("common") /\ inhibited("right")
    <3>1. b = <<>> /\ c = <<>> BY <2>4 DEF When
    <3>2. b \o c = <<>> /\ <<>> \in Seq(CallSet) BY <3>1
    <3>3. ~Active("right") /\ Commons(n) = 0 BY <2>4, ActiveIs DEF Commons, Of
    <3>4. Stood(q, w + Commons(n), f, g)
      <4>1. w + Commons(n) = w BY <1>6, <3>3
      <4> QED BY <2>1, <3>3, <4>1 DEF Stood
    <3>5. Goes(<<>>, q, q) BY GoesNowhere
    <3>6. Resync(h) = a \o <<>> BY <2>2, <3>2
    <3> HIDE DEF a, b, c, h
    <3>7. Goes(Resync(h), p, q) BY <1>5, <2>1, <3>2, <3>5, <3>6, GoesOn
    <3> QED BY <3>4, <3>7 DEF h
  <2>5. CASE inhibited("common") /\ ~inhibited("right")
    <3> DEFINE d == <<skip_until_ordinal("right", g)>>
    <3>1. b = d /\ c = <<>> BY <2>5 DEF When
    <3>2. d \in Seq(CallSet) /\ b \o c = d
      <4>1. d \in Seq(CallSet) BY <1>3, <1>4
      <4> HIDE DEF b, c, d
      <4> QED BY <3>1, <4>1
    <3>3. Active("right") /\ Commons(n) = 0 BY <2>5, ActiveIs DEF Commons, Of
    <3>4. PICK r : Goes(d, q, r) /\ Brought(q, "right", g, q.seen, r)
      <4>1. q.at["right"] = Accounted(script, n - 1, "right") BY <2>3, <3>3
      <4> QED BY <1>2, <4>1, ResyncSkips
    <3>5. Stood(r, w + Commons(n), f, g)
      <4>1. w + Commons(n) = w BY <1>6, <3>3
      <4> HIDE DEF f, g, j
      <4> QED BY <2>1, <2>3, <3>4, <4>1, RightStands
    <3>6. Resync(h) = a \o d BY <2>2, <3>2
    <3> HIDE DEF a, b, c, d, h
    <3>7. Goes(Resync(h), p, r) BY <1>5, <2>1, <3>2, <3>4, <3>6, GoesOn
    <3> QED BY <3>5, <3>7 DEF h
  <2>6. CASE ~inhibited("common")
    <3> DEFINE d == <<copy_until_ordinal("right", g)>>
    <3>1. (b = d /\ c = <<>>) \/ (b = <<>> /\ c = d) BY <1>11, <2>6, ActiveIs DEF When
    <3>2. d \in Seq(CallSet) /\ b \o c = d
      <4>1. d \in Seq(CallSet) BY <1>3, <1>4
      <4> HIDE DEF b, c, d
      <4>2. d \o <<>> = d /\ <<>> \o d = d BY <4>1, WithNothing
      <4>3. CASE b = d /\ c = <<>> BY <4>1, <4>2, <4>3
      <4>4. CASE b = <<>> /\ c = d BY <4>1, <4>2, <4>4
      <4> QED BY <3>1, <4>3, <4>4
    <3>3. Active("right") /\ Source = "right" BY <1>11, <2>6, ActiveIs DEF Source
    <3>4. PICK r : Goes(d, q, r) /\ Brought(q, "right", g, q.seen + Commons(n), r)
      <4>1. q.at["right"] = Accounted(script, n - 1, "right") BY <2>3, <3>3
      <4>2. Lists(q.seen, "common", Source, Accounted(script, n - 1, Source), Commons(n))
        BY <2>3
      <4> QED BY <1>2, <2>3, <2>6, <3>3, <4>1, <4>2, ResyncCopies
    <3>5. Stood(r, w + Commons(n), f, g)
      <4> HIDE DEF f, g, j
      <4> QED BY <2>1, <2>3, <3>4, RightStands
    <3>6. Resync(h) = a \o d BY <2>2, <3>2
    <3> HIDE DEF a, b, c, d, h
    <3>7. Goes(Resync(h), p, r) BY <1>5, <2>1, <3>2, <3>4, <3>6, GoesOn
    <3> QED BY <3>5, <3>7 DEF h
  <2> QED BY <2>4, <2>5, <2>6
<1> QED BY <1>10, <1>11

(* A directive that has words of a side emphasises at least one.           *)
LEMMA HunkSpan ==
    ASSUME CountsInv, BehindInv, NEW n \in 1..Len(script), NEW s \in Side
    PROVE  \E f, l \in Int :
              /\ f = FirstWord(script[n], s) - 1 /\ l = LastWord(script[n], s)
              /\ f <= l /\ l <= total[s] /\ total[s] \in Int /\ Own(n, s) = l - f
              /\ script[n].letter \in Letters
              /\ script[n].letter = (IF s = "left" THEN "a" ELSE "d") => f = l
              /\ script[n].letter # (IF s = "left" THEN "a" ELSE "d") => f < l
<1> DEFINE h == script[n]
           none == IF s = "left" THEN "a" ELSE "d"
<1>1. PICK f, l \in Int :
             /\ f = FirstWord(h, s) - 1 /\ l = LastWord(h, s)
             /\ f <= l /\ l <= total[s] /\ total[s] \in Int /\ Own(n, s) = l - f
  BY HunkPlaces
<1>2. h \in HunkType /\ WellFormed(h) /\ Shaped(h)
  <2>1. script \in Seq(HunkType) /\ n \in DOMAIN script BY DEF CountsInv, CountsType
  <2>2. WellFormed(script[n]) BY <2>1 DEF CountsInv, IsScript
  <2>3. Shaped(script[n]) BY <2>1 DEF BehindInv
  <2> QED BY <2>1, <2>2, <2>3
<1>3. h.letter \in Letters BY <1>2 DEF HunkType
<1>4. h[s][1] \in Int /\ h[s][2] \in Int /\ h[s][1] <= h[s][2]
  BY <1>2 DEF HunkType, WellFormed, Side
<1>5. l = h[s][2] BY <1>1 DEF LastWord
<1>6. h.letter = none => FirstWord(h, s) = h[s][1] + 1 BY DEF FirstWord
<1>7. h.letter # none => FirstWord(h, s) = h[s][1] BY DEF FirstWord
<1>8. h.letter = none => h[s][1] = h[s][2] BY <1>2 DEF Shaped, Side
<1> HIDE DEF none, h
<1>9. PICK x, y \in Int : x = h[s][1] /\ y = h[s][2] BY <1>4
<1>10. ASSUME h.letter = none PROVE f = l
  <2>1. f = (x + 1) - 1 /\ l = y /\ x = y BY <1>1, <1>5, <1>6, <1>8, <1>9, <1>10
  <2> QED BY <2>1
<1>11. ASSUME h.letter # none PROVE f < l
  <2>1. f = x - 1 /\ l = y /\ x <= y BY <1>1, <1>4, <1>5, <1>7, <1>9, <1>11
  <2> QED BY <2>1
<1> QED BY <1>1, <1>3, <1>10, <1>11 DEF none, h

LEMMA DeletedGoes ==
    ASSUME CountsInv, BehindInv, wanted \in Seq(EntryType), NEW n \in 1..Len(script), NEW w,
           Lists(w, "deleted", "left", FirstWord(script[n], "left") - 1, Owns(n, "left")),
           NEW p, NEW r, Stood(p, w, FirstWord(script[n], "left") - 1, r)
    PROVE  \E q : /\ Goes(ShowDeleted(script[n]), p, q)
                  /\ Stood(q, w + Owns(n, "left"), LastWord(script[n], "left"), r)
<1> DEFINE h == script[n]
           cond == h.letter \in {"d", "c"} /\ ~inhibited("left")
<1>0. "left" \in Side /\ "DELETED" \in Emphases BY DEF Side, Emphases
<1>1. PICK f, l \in Int :
             /\ f = FirstWord(script[n], "left") - 1 /\ l = LastWord(script[n], "left")
             /\ f <= l /\ l <= total["left"] /\ total["left"] \in Int /\ Own(n, "left") = l - f
             /\ script[n].letter \in Letters
             /\ script[n].letter = "a" => f = l
             /\ script[n].letter # "a" => f < l
  BY <1>0, HunkSpan
<1>2. ShowDeleted(h) = IF cond THEN Emphasised("left", "DELETED", l) ELSE <<>>
  BY <1>1 DEF ShowDeleted, When
<1>3. p \in Spot /\ p.mode = "NORMAL" /\ p.seen = w /\ w \in Int BY DEF Stood, Spot
<1>4. Active("left") <=> ~inhibited("left") BY ActiveIs
<1>5. CASE cond
  <2>1. Active("left") /\ p.at["left"] = f /\ h.letter # "a" BY <1>1, <1>4, <1>5 DEF Stood
  <2>2. f < l /\ Owns(n, "left") = l - f BY <1>1, <1>5, <2>1 DEF Owns, Of
  <2>3. Lists(p.seen, "deleted", "left", p.at["left"], l - p.at["left"])
    BY <1>1, <1>3, <2>1, <2>2
  <2>4. p.at["left"] < l BY <2>1, <2>2
  <2>5. Emphasises("left", "DELETED", "deleted") BY DEF Emphasises
  <2>6. PICK q \in Spot :
               /\ Goes(Emphasised("left", "DELETED", l), p, q) /\ q.mode = "NORMAL"
               /\ q.at["left"] = l /\ q.seen = p.seen + (l - p.at["left"])
               /\ \A s \in Side \ {"left"} : q.at[s] = p.at[s]
    BY SMTT(30), <1>0, <1>1, <1>3, <2>3, <2>4, <2>5, EmphasisGoes
  <2>7. q.seen = w + Owns(n, "left") BY <1>3, <2>1, <2>2, <2>6
  <2>8. q.at["right"] = p.at["right"] BY <2>6 DEF Side
  <2>9. Stood(q, w + Owns(n, "left"), l, r) BY <2>6, <2>7, <2>8 DEF Stood
  <2> QED BY <1>1, <1>2, <1>5, <2>6, <2>9
<1>6. CASE ~cond
  <2>1. Goes(ShowDeleted(h), p, p) BY <1>2, <1>3, <1>6, GoesNowhere
  <2>2. Owns(n, "left") = 0 /\ (Active("left") => f = l)
    <3>1. CASE inhibited("left") BY <1>4, <3>1 DEF Owns, Of
    <3>2. CASE ~inhibited("left")
      <4>1. h.letter = "a" BY <1>1, <1>6, <3>2 DEF Letters
      <4>2. f = l /\ l - f = 0 BY <1>1, <4>1
      <4> QED BY <1>1, <3>2, <4>2 DEF Owns, Of
    <3> QED BY <3>1, <3>2
  <2>3. w + Owns(n, "left") = w BY <1>3, <2>2
  <2>4. Stood(p, w, l, r) BY <1>1, <2>2 DEF Stood
  <2> QED BY <1>1, <2>1, <2>3, <2>4
<1> QED BY <1>5, <1>6

LEMMA InsertedGoes ==
    ASSUME CountsInv, BehindInv, wanted \in Seq(EntryType), NEW n \in 1..Len(script), NEW w,
           Lists(w, "inserted", "right", FirstWord(script[n], "right") - 1, Owns(n, "right")),
           NEW p, NEW r, Stood(p, w, r, FirstWord(script[n], "right") - 1)
    PROVE  \E q : /\ Goes(ShowInserted(script[n]), p, q)
                  /\ Stood(q, w + Owns(n, "right"), r, LastWord(script[n], "right"))
<1> DEFINE h == script[n]
           cond == h.letter \in {"a", "c"}
           rest == ~inhibited("common") /\ inhibited("left")
<1>0. "right" \in Side /\ "INSERTED" \in Emphases BY DEF Side, Emphases
<1>1. PICK f, l \in Int :
             /\ f = FirstWord(script[n], "right") - 1 /\ l = LastWord(script[n], "right")
             /\ f <= l /\ l <= total["right"] /\ total["right"] \in Int /\ Own(n, "right") = l - f
             /\ script[n].letter \in Letters
             /\ script[n].letter = "d" => f = l
             /\ script[n].letter # "d" => f < l
  BY <1>0, HunkSpan
<1>2. ShowInserted(h) =
        IF ~cond \/ (inhibited("right") /\ ~rest) THEN <<>>
        ELSE IF inhibited("right") THEN <<skip_until_ordinal("right", l)>>
        ELSE Emphasised("right", "INSERTED", l)
  BY <1>1 DEF ShowInserted, When
<1>3. p \in Spot /\ p.mode = "NORMAL" /\ p.seen = w /\ w \in Int BY DEF Stood, Spot
<1>4. Active("right") <=> ~inhibited("right") \/ rest BY ActiveIs
<1>5. CASE ~cond \/ (inhibited("right") /\ ~rest)
  <2>1. Goes(ShowInserted(h), p, p) BY <1>2, <1>3, <1>5, GoesNowhere
  <2>2. Owns(n, "right") = 0 /\ (Active("right") => f = l)
    <3>1. CASE cond BY <1>4, <1>5, <3>1 DEF Owns, Of
    <3>2. CASE ~cond
      <4>1. h.letter = "d" BY <1>1, <3>2 DEF Letters
      <4>2. f = l /\ l - f = 0 BY <1>1, <4>1
      <4> QED BY <1>1, <4>2 DEF Owns, Of
    <3> QED BY <3>1, <3>2
  <2>3. w + Owns(n, "right") = w BY <1>3, <2>2
  <2>4. Stood(p, w, r, l) BY <1>1, <2>2 DEF Stood
  <2> QED BY <1>1, <2>1, <2>3, <2>4
<1>6. CASE cond /\ inhibited("right") /\ rest
  <2>1. Active("right") /\ p.at["right"] = f BY <1>1, <1>4, <1>6 DEF Stood
  <2>2. p.at["right"] <= l BY <1>1, <2>1
  <2>3. PICK q : /\ Goes(<<skip_until_ordinal("right", l)>>, p, q)
                 /\ Brought(p, "right", l, p.seen, q)
    BY <1>0, <1>3, <2>2, SkipBrings
  <2>4. Owns(n, "right") = 0 /\ w + Owns(n, "right") = w BY <1>3, <1>6 DEF Owns, Of
  <2>5. Stood(p, w, r, f) BY <1>1
  <2>6. Stood(q, w, r, l) BY <1>3, <2>3, <2>5, RightStands
  <2> QED BY <1>1, <1>2, <1>6, <2>3, <2>4, <2>6
<1>7. CASE cond /\ ~inhibited("right")
  <2>1. Active("right") /\ p.at["right"] = f /\ h.letter # "d" BY <1>1, <1>4, <1>7 DEF Stood
  <2>2. f < l /\ Owns(n, "right") = l - f BY <1>1, <1>7, <2>1 DEF Owns, Of
  <2>3. Lists(p.seen, "inserted", "right", p.at["right"], l - p.at["right"])
    BY <1>1, <1>3, <2>1, <2>2
  <2>4. p.at["right"] < l BY <2>1, <2>2
  <2>5. Emphasises("right", "INSERTED", "inserted") BY DEF Emphasises
  <2>6. PICK q \in Spot :
               /\ Goes(Emphasised("right", "INSERTED", l), p, q) /\ q.mode = "NORMAL"
               /\ q.at["right"] = l /\ q.seen = p.seen + (l - p.at["right"])
               /\ \A s \in Side \ {"right"} : q.at[s] = p.at[s]
    BY SMTT(30), <1>0, <1>1, <1>3, <2>3, <2>4, <2>5, EmphasisGoes
  <2>7. q.seen = w + Owns(n, "right") BY <1>3, <2>1, <2>2, <2>6
  <2>8. q.at["left"] = p.at["left"] BY <2>6 DEF Side
  <2>9. Stood(q, w + Owns(n, "right"), r, l) BY <2>6, <2>7, <2>8 DEF Stood
  <2> QED BY <1>1, <1>2, <1>7, <2>6, <2>9
<1> QED BY <1>5, <1>6, <1>7

(* A directive obeyed, from the last word accounted for to its own last.   *)
LEMMA ObeyGoes ==
    ASSUME CountsInv, BehindInv, NEW W, Laid(W), NEW n \in 1..Len(script),
           NEW p, Stood(p, W[n - 1], Accounted(script, n - 1, "left"),
                        Accounted(script, n - 1, "right"))
    PROVE  \E q : /\ Goes(Obey(script[n]), p, q)
                  /\ Stood(q, W[n], Accounted(script, n, "left"), Accounted(script, n, "right"))
<1> DEFINE h == script[n]
           a == Resync(h)
           b == Separate
           c == ShowDeleted(h)
           d == ShowInserted(h)
           w == W[n - 1]
           x == Commons(n)
           y == Owns(n, "left")
           z == Owns(n, "right")
<1>0. wanted \in Seq(EntryType) /\ LaidAt(W, n) BY DEF Laid
<1>1. h \in HunkType BY DEF CountsInv, CountsType
<1>2. /\ a \in Seq(CallSet) /\ b \in Seq(CallSet) /\ c \in Seq(CallSet) /\ d \in Seq(CallSet)
  BY <1>1, PartsAreMatched
<1>3. Obey(h) = ((a \o b) \o c) \o d BY DEF Obey
<1>4. W[n] = w + x + y + z BY <1>0 DEF LaidAt
<1>5. PICK p1 : Goes(a, p, p1) /\ Stood(p1, w + x, FirstWord(h, "left") - 1,
                                        FirstWord(h, "right") - 1)
  BY <1>0, ResyncGoes DEF LaidAt
<1>6. Goes(b, p1, p1)
  <2>1. p1 \in Spot BY <1>5 DEF Stood
  <2> QED BY <2>1, SeparatorGoes DEF Separate
<1>7. PICK p2 : Goes(c, p1, p2) /\ Stood(p2, (w + x) + y, LastWord(h, "left"),
                                         FirstWord(h, "right") - 1)
  BY <1>0, <1>5, DeletedGoes DEF LaidAt
<1>8. PICK q : Goes(d, p2, q) /\ Stood(q, ((w + x) + y) + z, LastWord(h, "left"),
                                       LastWord(h, "right"))
  BY <1>0, <1>7, InsertedGoes DEF LaidAt
<1>9. /\ Accounted(script, n, "left") = LastWord(h, "left")
      /\ Accounted(script, n, "right") = LastWord(h, "right")
  BY HunkNumbers DEF Side
<1>10. Stood(q, W[n], Accounted(script, n, "left"), Accounted(script, n, "right"))
  BY <1>4, <1>8, <1>9
<1> DEFINE ab == a \o b
           abc == ab \o c
<1>11. ab \in Seq(CallSet) /\ abc \in Seq(CallSet)
  <2> HIDE DEF a, b, c, d
  <2>1. ab \in Seq(CallSet) BY <1>2
  <2> HIDE DEF ab
  <2> QED BY <1>2, <2>1
<1> HIDE DEF a, b, c, d, h
<1>12. Goes(ab, p, p1) BY <1>2, <1>5, <1>6, GoesOn
<1> HIDE DEF ab
<1>13. Goes(abc, p, p2) BY <1>2, <1>7, <1>11, <1>12, GoesOn
<1> HIDE DEF abc
<1>14. Goes(abc \o d, p, q) BY <1>2, <1>8, <1>11, <1>13, GoesOn
<1> QED BY <1>3, <1>10, <1>14 DEF abc, ab, h

(* What is behind the last directive.                                      *)
LEMMA RestGoes ==
    ASSUME CountsInv, NEW W, Laid(W), NEW N, N = Len(script),
           NEW p, Stood(p, W[N], Accounted(script, N, "left"), Accounted(script, N, "right"))
    PROVE  \E q \in Spot : Goes(CopyRest, p, q) /\ q.mode = "NORMAL" /\ q.seen = Len(wanted)
<1> DEFINE t == IF ~inhibited("left") /\ inhibited("right") THEN "left" ELSE "right"
           sep == When(~(Side \subseteq options.inhibit), <<separator>>)
           c1 == copy_until_ordinal(t, total[t])
           c2 == copy_whitespace(t)
<1>1. t = Source /\ t \in Side BY DEF Source, Side
<1>2. p \in Spot /\ p.mode = "NORMAL" /\ p.seen = W[N] /\ W[N] \in Int BY DEF Stood, Spot
<1>3. Len(wanted) = W[N] + Lasts /\ Lists(W[N], "common", t, Accounted(script, N, t), Lasts)
  BY <1>1 DEF Laid
<1>4. CASE inhibited("common")
  <2>1. CopyRest = sep BY <1>4 DEF CopyRest
  <2>2. Goes(CopyRest, p, p) BY <1>2, <2>1, SeparatorGoes
  <2>3. Lasts = 0 BY <1>4 DEF Lasts, Of
  <2>4. p.seen = Len(wanted) BY <1>2, <1>3, <2>3
  <2> QED BY <1>2, <2>2, <2>4
<1>5. CASE ~inhibited("common")
  <2>1. PICK o, m, l \in Int : /\ o = Accounted(script, N, t) /\ m = total[t] /\ l = Lasts
                               /\ m = o + l /\ l >= 0
    <3>1. /\ Accounted(script, N, t) \in Int /\ Left \in Nat
          /\ total[t] = Accounted(script, N, t) + Left
      BY <1>1, LeftNumbers
    <3>2. Lasts = Left BY <1>5 DEF Lasts, Of
    <3>3. PICK x \in Int, y \in Nat : x = Accounted(script, N, t) /\ y = Left BY <3>1
    <3>4. total[t] = x + y /\ x + y \in Int /\ y \in Int /\ y >= 0 BY <3>1, <3>3
    <3> QED BY <3>2, <3>3, <3>4
  <2>2. Active(t) BY <1>5, ActiveIs
  <2>3. p.at[t] = o BY <1>1, <2>1, <2>2 DEF Stood, Side
  <2>4. CopyRest = <<c1, c2>> BY <1>5 DEF CopyRest
  <2>5. KindIn(p.mode, t) = "common" BY <1>2, <1>5 DEF KindIn
  <2> HIDE DEF t
  <2>6. m - p.at[t] = l /\ p.at[t] <= m /\ m <= total[t]
    <3>1. m - o = l /\ o <= m /\ m <= m BY <2>1
    <3> QED BY <2>1, <2>3, <3>1
  <2>7. Offers(p, t, m) BY <1>2, <1>3, <2>1, <2>3, <2>5, <2>6 DEF Offers
  <2>8. PICK v \in Int : v = p.seen + (m - p.at[t]) BY <1>2, <2>1, <2>6
  <2>9. v = Len(wanted) BY <1>2, <1>3, <2>1, <2>6, <2>8
  <2>10. PICK r : Goes(<<copy_until_ordinal(t, m)>>, p, r) /\ Brought(p, t, m, v, r)
    BY <1>1, <1>2, <2>7, <2>8, CopyBrings
  <2>11. r \in Spot /\ r.mode = "NORMAL" /\ r.seen = v BY <1>2, <2>10 DEF Brought
  <2> DEFINE q == Moved(r, t, r.at[t], TRUE, r.seen)
  <2>12. q \in Spot /\ q.mode = "NORMAL" /\ q.seen = v
    <3>1. r.at[t] \in Int /\ r.seen \in Int BY <1>1, <2>11 DEF Spot
    <3>2. IsMoved(r, t, r.at[t], TRUE, r.seen, q) BY <1>1, <2>11, <3>1, MovedIsSpot
    <3> QED BY <2>11, <3>2 DEF IsMoved
  <2> HIDE DEF q
  <2>13. Goes(<<c2>>, r, q)
    <3>1. c2.fn = "copy_whitespace" /\ c2.side = t BY DEF copy_whitespace
    <3> HIDE DEF c2
    <3>2. Does(c2, r, q) BY <3>1 DEF Does, q
    <3> QED BY <2>11, <2>12, <3>2, GoesByOne
  <2>14. Goes(<<c1>>, p, r) BY <2>1, <2>10
  <2>15. c1 \in CallSet /\ c2 \in CallSet
    <3>1. total[t] \in Int BY <2>1
    <3> QED BY <1>1, <3>1, "DELETED" \in Emphases, CallsAreTyped DEF Emphases
  <2> HIDE DEF c1, c2
  <2>16. <<c1, c2>> = <<c1>> \o <<c2>> /\ <<c1>> \in Seq(CallSet) /\ <<c2>> \in Seq(CallSet)
    BY <2>15, TwoCalls
  <2>17. Goes(<<c1, c2>>, p, q) BY <2>13, <2>14, <2>16, GoesOn
  <2> QED BY <2>4, <2>9, <2>12, <2>17
<1> QED BY <1>4, <1>5

-----------------------------------------------------------------------------
(***************************************************************************)
(* The run follows the calls: n words have been shown, and what is left to *)
(* be called shows the next, up to where the directive ends.               *)
(***************************************************************************)
Standing(p, n) ==
    /\ p \in Spot /\ p.mode = copy_mode /\ p.seen = n
    /\ \A s \in Side : p.at[s] = position[s] /\ (p.ready[s] => Ready(s))

Reaching(W, q) ==
    /\ q.mode = "NORMAL"
    /\ pc = "reformat" => Stood(q, W[obeyed], Accounted(script, obeyed, "left"),
                                Accounted(script, obeyed, "right"))
    /\ pc = "remainder" => q.seen = Len(wanted)

Following(n) ==
    \E W, p, q : Laid(W) /\ Standing(p, n) /\ Reaching(W, q) /\ Goes(calls, p, q)

LEMMA GoesFrame ==
    ASSUME UNCHANGED <<options, script, total, wanted>>, NEW c, NEW p, NEW q
    PROVE  Goes(c, p, q)' <=> Goes(c, p, q)
<1>1. (Useless' <=> Useless) /\ \A mode, s : KindIn(mode, s)' = KindIn(mode, s)
  BY DEF Useless, KindIn, inhibited
<1>2. \A x, s, o : Offers(x, s, o)' <=> Offers(x, s, o) BY <1>1 DEF Offers, Lists
<1>3. \A x, mode : Switched(x, mode)' = Switched(x, mode) BY <1>1 DEF Switched
<1>4. ASSUME NEW d, NEW x, NEW y PROVE Does(d, x, y)' <=> Does(d, x, y)
  BY <1>2, <1>3 DEF Does, DoesCopyWord, DoesCopyUntil, DoesSkipUntil
<1> QED BY <1>4 DEF Goes, Track

LEMMA StandingFrame ==
    ASSUME UNCHANGED <<text, next, position, copy_mode>>, NEW p, NEW n, Standing(p, n)
    PROVE  Standing(p, n)'
BY DEF Standing, Ready, AtWord, AtEnd

LEMMA ReachingFrame ==
    ASSUME UNCHANGED <<options, script, wanted, obeyed, pc>>, NEW W, NEW q, Reaching(W, q)
    PROVE  Reaching(W, q)'
<1>1. \A s : Accounted(script, obeyed, s)' = Accounted(script, obeyed, s) BY DEF Accounted
<1>2. \A s : Active(s)' <=> Active(s) BY DEF Active, inhibited, Source
<1> QED BY <1>1, <1>2 DEF Reaching, Stood

LEMMA FollowingNext ==
    ASSUME UNCHANGED <<options, script, total, wanted>>, NEW n, NEW W, NEW p, NEW q,
           Laid(W), Standing(p, n)', Reaching(W, q)', NEW c, c = calls', Goes(c, p, q)
    PROVE  Following(n)'
<1>1. Goes(c, p, q)' BY GoesFrame
<1>2. Goes(calls, p, q)' BY <1>1
<1>3. Laid(W)' BY LaidFrame
<1> QED BY <1>2, <1>3 DEF Following

(* Calls take the place of the first of those that are left.               *)
LEMMA CallGoes ==
    ASSUME UNCHANGED <<options, script, total, wanted, obeyed, pc>>,
           NEW n, NEW m, Following(n), calls \in Seq(CallSet), calls # <<>>,
           NEW a \in Seq(CallSet), calls' = a \o Tail(calls),
           \A p, r \in Spot : Standing(p, n) /\ Does(Head(calls), p, r) =>
                                \E x : Standing(x, m)' /\ Goes(a, x, r)
    PROVE  Following(m)'
<1>1. PICK W, p, q : Laid(W) /\ Standing(p, n) /\ Reaching(W, q) /\ Goes(calls, p, q)
  BY DEF Following
<1>2. PICK r \in Spot : Does(Head(calls), p, r) /\ Goes(Tail(calls), r, q)
  BY <1>1, WentByHead
<1>3. p \in Spot BY <1>1 DEF Standing
<1>4. PICK x : Standing(x, m)' /\ Goes(a, x, r) BY <1>1, <1>2, <1>3
<1>5. Reaching(W, q)' BY <1>1, ReachingFrame
<1>6. PICK c : c = calls' OBVIOUS
<1>7. Tail(calls) \in Seq(CallSet) OBVIOUS
<1>8. Goes(a \o Tail(calls), x, q) BY <1>2, <1>4, <1>7, GoesOn
<1>9. Goes(c, x, q) BY <1>6, <1>8
<1> QED BY <1>1, <1>4, <1>5, <1>6, <1>9, FollowingNext

LEMMA CallGone ==
    ASSUME UNCHANGED <<options, script, total, wanted, obeyed, pc>>,
           NEW n, NEW m, Following(n), calls \in Seq(CallSet), calls # <<>>,
           calls' = <<>> \o Tail(calls),
           \A p, r \in Spot : Standing(p, n) /\ Does(Head(calls), p, r) => Standing(r, m)'
    PROVE  Following(m)'
<1>1. <<>> \in Seq(CallSet) OBVIOUS
<1>2. ASSUME NEW p \in Spot, NEW r \in Spot, Standing(p, n), Does(Head(calls), p, r)
      PROVE  \E x : Standing(x, m)' /\ Goes(<<>>, x, r)
  BY <1>2, GoesNowhere
<1> QED BY <1>1, <1>2, CallGoes

LEMMA FollowingStays ==
    ASSUME UNCHANGED <<options, script, total, wanted, obeyed, pc, calls, text, next, position,
                       copy_mode>>, NEW n, Following(n)
    PROVE  Following(n)'
<1>1. PICK W, p, q : Laid(W) /\ Standing(p, n) /\ Reaching(W, q) /\ Goes(calls, p, q)
  BY DEF Following
<1>2. Standing(p, n)' BY <1>1, StandingFrame
<1>3. Reaching(W, q)' BY <1>1, ReachingFrame
<1>4. PICK c : c = calls' OBVIOUS
<1>5. Goes(c, p, q) BY <1>1, <1>4
<1> QED BY <1>1, <1>2, <1>3, <1>4, <1>5, FollowingNext

-----------------------------------------------------------------------------
(* The actions follow the calls.                                           *)

LEMMA ReadDirectiveFollows ==
    ASSUME CountsInv, BehindInv, NEW n, Following(n), ReadDirective, pc' \in Reading
    PROVE  Following(n)'
<1> USE DEF inputs, readers
<1>1. /\ UNCHANGED <<options, text, script, total, wanted, next, position, copy_mode>>
      /\ pc = "reformat" /\ calls = <<>>
  BY DEF ReadDirective
<1>2. PICK W, p, q : Laid(W) /\ Standing(p, n) /\ Reaching(W, q) /\ Goes(calls, p, q)
  BY DEF Following
<1>3. q = p BY <1>1, <1>2, WentNowhere
<1>4. Stood(p, W[obeyed], Accounted(script, obeyed, "left"), Accounted(script, obeyed, "right"))
  BY <1>1, <1>2, <1>3 DEF Reaching
<1>5. Standing(p, n)' BY <1>1, <1>2, StandingFrame
<1>6. ~interrupted BY DEF ReadDirective, LongJump, Reading
<1>7. \A s : Active(s)' <=> Active(s) BY <1>1 DEF Active, inhibited, Source
<1>8. CASE obeyed < Len(script)
  <2>1. obeyed' = obeyed + 1 /\ calls' = Obey(script[obeyed']) /\ pc' = pc
    BY <1>6, <1>8 DEF ReadDirective, LongJump
  <2>2. PICK k : k = obeyed + 1 OBVIOUS
  <2>3. k \in 1..Len(script) /\ k - 1 = obeyed BY <1>8, <2>2 DEF CountsInv, CountsType
  <2>4. PICK r : /\ Goes(Obey(script[k]), p, r)
                 /\ Stood(r, W[k], Accounted(script, k, "left"), Accounted(script, k, "right"))
    BY <1>2, <1>4, <2>3, ObeyGoes
  <2>5. \A s : Accounted(script, obeyed, s)' = Accounted(script, k, s)
    BY <1>1, <2>1, <2>2 DEF Accounted
  <2>6. Reaching(W, r)' BY <1>1, <1>7, <2>1, <2>2, <2>4, <2>5 DEF Reaching, Stood
  <2>7. PICK c : c = calls' OBVIOUS
  <2>8. c = Obey(script[k])
    <3>1. PICK h : h = script[k] OBVIOUS
    <3>2. (Obey(h))' = Obey(h)
      BY <1>1 DEF Obey, Resync, Separate, ShowDeleted, ShowInserted, inhibited, Emphasised,
                  FirstWord, LastWord
    <3> QED BY <1>1, <2>1, <2>2, <2>7, <3>1, <3>2
  <2>9. Goes(c, p, r) BY <2>4, <2>8
  <2> QED BY <1>1, <1>2, <1>5, <2>6, <2>7, <2>9, FollowingNext
<1>9. CASE ~(obeyed < Len(script))
  <2>1. obeyed' = obeyed /\ calls' = CopyRest /\ pc' = "remainder"
    BY <1>6, <1>9 DEF ReadDirective, LongJump, counts
  <2>2. PICK k : k = obeyed OBVIOUS
  <2>3. k = Len(script) BY <1>9, <2>2 DEF CountsInv, CountsType
  <2>4. PICK r \in Spot : Goes(CopyRest, p, r) /\ r.mode = "NORMAL" /\ r.seen = Len(wanted)
    BY <1>2, <1>4, <2>2, <2>3, RestGoes
  <2>5. Reaching(W, r)' BY <1>1, <2>1, <2>4 DEF Reaching
  <2>6. PICK c : c = calls' OBVIOUS
  <2>7. Goes(c, p, r) BY <2>1, <2>4, <2>6
  <2> QED BY <1>1, <1>2, <1>5, <2>5, <2>6, <2>7, FollowingNext
<1> QED BY <1>8, <1>9

(* The first round of copying, and of skipping.                            *)
LEMMA CopyRound ==
    ASSUME wanted \in Seq(EntryType), NEW p \in Spot, NEW s \in Side, NEW o \in Int,
           total[s] \in Int, Offers(p, s, o), p.at[s] < o, NEW r, DoesCopyUntil(p, s, o, r)
    PROVE  \E x, y \in Spot : /\ x = Moved(p, s, p.at[s], TRUE, p.seen)
                              /\ DoesCopyWord(x, s, y) /\ DoesCopyUntil(y, s, o, r)
<1>1. PICK b, f \in Int : b = p.at[s] /\ f = p.seen BY DEF Spot
<1> DEFINE x == Moved(p, s, b, TRUE, f)
           y == Moved(x, s, b + 1, FALSE, f + 1)
           K == KindIn(p.mode, s)
<1>2. IsMoved(p, s, b, TRUE, f, x)
  BY <1>1, MovedIsSpot
<1>3. x \in Spot /\ x.at[s] = b /\ x.ready[s] /\ x.seen = f /\ x.mode = p.mode
  BY <1>2 DEF IsMoved
<1> HIDE DEF x
<1>4. IsMoved(x, s, b + 1, FALSE, f + 1, y)
  <2>1. PICK b1, f1 \in Int : b1 = b + 1 /\ f1 = f + 1 OBVIOUS
  <2>2. IsMoved(x, s, b1, FALSE, f1, Moved(x, s, b1, FALSE, f1)) BY <1>3, MovedIsSpot
  <2> QED BY <2>1, <2>2
<1>5. y \in Spot /\ y.at[s] = b + 1 /\ y.seen = f + 1 /\ y.mode = p.mode
  BY <1>3, <1>4 DEF IsMoved
<1>6. b + 1 <= o /\ o <= total[s] /\ Lists(f, K, s, b, o - b)
  BY <1>1 DEF Offers
<1> HIDE DEF K
<1>7. PICK n \in Int : n = o - b OBVIOUS
<1>8. Lists(f, K, s, b, 1)
  <2>0. Lists(f, K, s, b, n) /\ 0 + 1 <= n /\ 0 \in Nat /\ 1 \in Nat BY <1>6, <1>7
  <2>1. PICK i, m \in Nat : i = 0 /\ m = 1 BY <2>0
  <2>3. Lists(f + i, K, s, b + i, m) BY <2>0, <2>1, ListsWithin
  <2>2. f + 0 = f /\ b + 0 = b OBVIOUS
  <2> QED BY <2>1, <2>2, <2>3
<1>9. Lists(f + 1, K, s, b + 1, o - (b + 1))
  <2>1. PICK m \in Nat : m = n - 1 BY <1>6, <1>7
  <2>2. Lists(f + 1, K, s, b + 1, m) BY <1>6, <1>7, <2>1, ListsWithin
  <2>3. m = o - (b + 1) BY <1>7, <2>1
  <2> QED BY <2>2, <2>3
<1>10. DoesCopyWord(x, s, y)
  <2>1. Offers(x, s, x.at[s] + 1)
    <3>1. x.at[s] <= x.at[s] + 1 /\ x.at[s] + 1 <= total[s] /\ (x.at[s] + 1) - x.at[s] = 1
      BY <1>3, <1>6
    <3> QED BY <1>3, <1>8, <3>1 DEF Offers, K
  <2> QED BY <1>3, <2>1 DEF DoesCopyWord, y
<1>11. DoesCopyUntil(y, s, o, r)
  <2>1. Offers(y, s, o) BY <1>5, <1>6, <1>9 DEF Offers, K
  <2>2. r = Moved(p, s, o, FALSE, f + (o - b)) BY <1>1 DEF DoesCopyUntil
  <2>3. y.seen + (o - y.at[s]) = f + (o - b)
    <3>1. (f + 1) + (o - (b + 1)) = f + (o - b) OBVIOUS
    <3> QED BY <1>5, <3>1
  <2>4. Moved(y, s, o, FALSE, f + (o - b)) = Moved(p, s, o, FALSE, f + (o - b))
    <3>1. \A k : [[[p.at EXCEPT ![s] = b] EXCEPT ![s] = b + 1] EXCEPT ![s] = k]
                   = [p.at EXCEPT ![s] = k]
      BY DEF Spot
    <3>2. [[[p.ready EXCEPT ![s] = TRUE] EXCEPT ![s] = FALSE] EXCEPT ![s] = FALSE]
            = [p.ready EXCEPT ![s] = FALSE]
      BY DEF Spot
    <3> QED BY <3>1, <3>2 DEF Moved, x
  <2> QED BY <2>1, <2>2, <2>3, <2>4 DEF DoesCopyUntil
<1> HIDE DEF y
<1> QED BY <1>1, <1>3, <1>5, <1>10, <1>11 DEF x

LEMMA SkipRound ==
    ASSUME NEW p \in Spot, NEW s \in Side, NEW o \in Int, p.at[s] < o,
           NEW r, DoesSkipUntil(p, s, o, r)
    PROVE  \E x \in Spot : /\ IsMoved(p, s, p.at[s] + 1, FALSE, p.seen, x)
                           /\ DoesSkipUntil(x, s, o, r)
<1>1. PICK b, f \in Int : b = p.at[s] /\ f = p.seen BY DEF Spot
<1>2. PICK d \in Int : d = b + 1 OBVIOUS
<1> DEFINE x == Moved(p, s, d, FALSE, f)
<1>3. IsMoved(p, s, d, FALSE, f, x) BY MovedIsSpot
<1>4. x \in Spot /\ x.at[s] = d /\ x.seen = f BY <1>3 DEF IsMoved
<1>5. r = Moved(p, s, o, FALSE, f) BY <1>1 DEF DoesSkipUntil
<1>6. Moved(x, s, o, FALSE, f) = Moved(p, s, o, FALSE, f)
  <2>1. [[p.at EXCEPT ![s] = d] EXCEPT ![s] = o] = [p.at EXCEPT ![s] = o] BY DEF Spot
  <2>2. [[p.ready EXCEPT ![s] = FALSE] EXCEPT ![s] = FALSE] = [p.ready EXCEPT ![s] = FALSE]
    BY DEF Spot
  <2> QED BY <2>1, <2>2 DEF Moved, x
<1> HIDE DEF x
<1>7. d <= o BY <1>1, <1>2
<1>8. DoesSkipUntil(x, s, o, r) BY <1>4, <1>5, <1>6, <1>7 DEF DoesSkipUntil
<1> QED BY <1>1, <1>2, <1>3, <1>4, <1>8

LEMMA CopyUntilOrdinalFollows ==
    ASSUME CountsInv, LineInv, RestType, NEW n, Following(n), CopyUntilOrdinal
    PROVE  Following(n)'
<1> USE DEF inputs, readers, counts, control
<1> DEFINE c == Head(calls)
           t == c.side
           o == c.ordinal
<1>1. /\ UNCHANGED <<options, text, script, total, wanted, obeyed, pc, next, position, copy_mode>>
      /\ calls # <<>> /\ c.fn = "copy_until_ordinal"
      /\ calls' = (IF position[t] < o
                   THEN <<copy_whitespace(t), copy_word(t), c>> ELSE <<>>) \o Tail(calls)
  BY DEF CopyUntilOrdinal, Called, Then
<1>2. c \in CallSet /\ calls \in Seq(CallSet)
  BY <1>1, TailCalls DEF LineInv, CallsInv
<1>3. t \in Side /\ o \in Int BY <1>1, <1>2, CallKinds DEF Loud
<1>4. copy_whitespace(t) \in CallSet /\ copy_word(t) \in CallSet
  BY <1>3, "DELETED" \in Emphases, CallsAreTyped DEF Emphases
<1>5. position[t] \in Nat BY <1>3 DEF RestType
<1>6. wanted \in Seq(EntryType) BY DEF Following, Laid
<1>7. total[t] \in Int BY <1>3 DEF CountsInv, CountsType
<1>8. \A p : Standing(p, n) => Standing(p, n)' BY <1>1, StandingFrame
<1>9. ASSUME NEW p, NEW r, Does(c, p, r) PROVE DoesCopyUntil(p, t, o, r)
  BY <1>1, <1>9 DEF Does
<1> HIDE DEF c
<1>10. CASE ~(position[t] < o)
  <2>1. calls' = <<>> \o Tail(calls) BY <1>1, <1>10
  <2>2. ASSUME NEW p \in Spot, NEW r \in Spot, Standing(p, n), Does(c, p, r)
        PROVE  Standing(r, n)'
    <3>1. PICK b, f \in Int : b = p.at[t] /\ f = p.seen BY <1>3 DEF Spot
    <3>2. b = position[t] BY <1>3, <2>2, <3>1 DEF Standing
    <3>3. b <= o /\ r = Moved(p, t, o, FALSE, f + (o - b))
      BY <1>9, <2>2, <3>1 DEF DoesCopyUntil, Offers
    <3>4. o = b BY <1>3, <1>5, <1>10, <3>2, <3>3
    <3>5. f + (o - b) = f BY <3>4
    <3>6. IsMoved(p, t, b, FALSE, f, r) BY <1>3, <3>3, <3>4, <3>5, MovedIsSpot
    <3>7. ASSUME NEW s \in Side PROVE r.at[s] = position[s] /\ (r.ready[s] => Ready(s))
      <4>1. CASE s = t BY <3>2, <3>6, <4>1 DEF IsMoved
      <4>2. CASE s # t BY <2>2, <3>6, <4>2 DEF IsMoved, Standing
      <4> QED BY <4>1, <4>2
    <3>8. Standing(r, n) BY <2>2, <3>1, <3>6, <3>7 DEF Standing, IsMoved
    <3> QED BY <1>8, <3>8
  <2> QED BY <1>1, <1>2, <2>1, <2>2, CallGone DEF c
<1>11. CASE position[t] < o
  <2> DEFINE c1 == copy_whitespace(t)
             c2 == copy_word(t)
             a == <<c1, c2, c>>
  <2>1. calls' = a \o Tail(calls) BY <1>1, <1>11
  <2>2. a \in Seq(CallSet) BY <1>2, <1>4
  <2>3. /\ c1.fn = "copy_whitespace" /\ c1.side = t /\ c2.fn = "copy_word" /\ c2.side = t
    BY DEF copy_whitespace, copy_word
  <2> HIDE DEF c1, c2
  <2>4. ASSUME NEW p \in Spot, NEW r \in Spot, Standing(p, n), Does(c, p, r)
        PROVE  Goes(a, p, r)
    <3>1. DoesCopyUntil(p, t, o, r) BY <1>9, <2>4
    <3>2. Offers(p, t, o) BY <3>1 DEF DoesCopyUntil
    <3>3. p.at[t] < o BY <1>3, <1>11, <2>4 DEF Standing
    <3>4. PICK x, y \in Spot : /\ x = Moved(p, t, p.at[t], TRUE, p.seen)
                               /\ DoesCopyWord(x, t, y) /\ DoesCopyUntil(y, t, o, r)
      BY <1>3, <1>6, <1>7, <3>1, <3>2, <3>3, CopyRound
    <3>5. Does(c1, p, x) BY <2>3, <3>4 DEF Does
    <3>6. Does(c2, x, y) BY <2>3, <3>4 DEF Does
    <3>7. Does(c, y, r) BY <1>1, <3>4 DEF Does
    <3> QED BY <3>5, <3>6, <3>7, GoesByThree
  <2>5. ASSUME NEW p \in Spot, NEW r \in Spot, Standing(p, n), Does(c, p, r)
        PROVE  \E x : Standing(x, n)' /\ Goes(a, x, r)
    BY <1>8, <2>4, <2>5
  <2> HIDE DEF a
  <2> QED BY <1>1, <1>2, <2>1, <2>2, <2>5, CallGoes DEF c
<1> QED BY <1>10, <1>11

LEMMA SkipUntilOrdinalFollows ==
    ASSUME LineInv, RestType, NEW n, Following(n), SkipUntilOrdinal, pc' \in Reading
    PROVE  Following(n)'
<1> USE DEF inputs, readers, counts, control
<1> DEFINE c == Head(calls)
           t == c.side
           o == c.ordinal
<1>1. /\ UNCHANGED <<options, text, script, total, wanted, obeyed, copy_mode>>
      /\ calls # <<>> /\ c.fn = "skip_until_ordinal"
  BY DEF SkipUntilOrdinal, Called
<1>2. c \in CallSet /\ calls \in Seq(CallSet)
  BY <1>1, TailCalls DEF LineInv, CallsInv
<1>3. t \in Side /\ o \in Int BY <1>1, <1>2, CallKinds DEF Loud
<1>4. position \in [Side -> Nat] /\ next \in [Side -> Nat \ {0}] BY DEF RestType
<1>5. ~interrupted \/ position[t] >= o BY DEF SkipUntilOrdinal, LongJump, Reading
<1>6. pc' = pc BY <1>5 DEF SkipUntilOrdinal, LongJump
<1>7. ASSUME NEW p, NEW r, Does(c, p, r) PROVE DoesSkipUntil(p, t, o, r)
  BY <1>1, <1>7 DEF Does
<1>8. CASE position[t] >= o
  <2>1. calls' = <<>> \o Tail(calls) /\ UNCHANGED <<next, position>>
    BY <1>8 DEF SkipUntilOrdinal, Then
  <2> HIDE DEF c
  <2>2. ASSUME NEW p \in Spot, NEW r \in Spot, Standing(p, n), Does(c, p, r)
        PROVE  Standing(r, n)'
    <3>1. PICK b, f \in Int : b = p.at[t] /\ f = p.seen BY <1>3 DEF Spot
    <3>2. b = position[t] BY <1>3, <2>2, <3>1 DEF Standing
    <3>3. b <= o /\ r = Moved(p, t, o, FALSE, f)
      BY <1>7, <2>2, <3>1 DEF DoesSkipUntil
    <3>4. o = b BY <1>3, <1>4, <1>8, <3>2, <3>3
    <3>5. IsMoved(p, t, b, FALSE, f, r) BY <1>3, <3>3, <3>4, MovedIsSpot
    <3>6. ASSUME NEW s \in Side PROVE r.at[s] = position[s] /\ (r.ready[s] => Ready(s))
      <4>1. CASE s = t BY <3>2, <3>5, <4>1 DEF IsMoved
      <4>2. CASE s # t BY <2>2, <3>5, <4>2 DEF IsMoved, Standing
      <4> QED BY <4>1, <4>2
    <3>7. Standing(r, n) BY <2>2, <3>1, <3>5, <3>6 DEF Standing, IsMoved
    <3> QED BY <1>1, <2>1, <3>7, StandingFrame
  <2> QED BY <1>1, <1>2, <1>6, <2>1, <2>2, CallGone DEF c
<1>9. CASE ~(position[t] >= o)
  <2>1. /\ UNCHANGED calls
        /\ position' = [position EXCEPT ![t] = position[t] + 1]
        /\ next' = [next EXCEPT ![t] = Min({NextWord(t) + 1, Len(text[t]) + 1})]
    BY <1>5, <1>9 DEF SkipUntilOrdinal, LongJump, Counted
  <2> DEFINE a == <<c>>
  <2>2. calls' = a \o Tail(calls) /\ a \in Seq(CallSet) BY <1>1, <1>2, <2>1, HeadFirst
  <2> HIDE DEF c
  <2>3. ASSUME NEW p \in Spot, NEW r \in Spot, Standing(p, n), Does(c, p, r)
        PROVE  \E x : Standing(x, n)' /\ Goes(a, x, r)
    <3>1. PICK b, f \in Int : b = p.at[t] /\ f = p.seen BY <1>3 DEF Spot
    <3>2. b = position[t] /\ f = n BY <1>3, <2>3, <3>1 DEF Standing
    <3>3. p.at[t] < o BY <1>3, <1>4, <1>9, <3>1, <3>2
    <3>4. DoesSkipUntil(p, t, o, r) BY <1>7, <2>3
    <3>5. PICK x \in Spot : IsMoved(p, t, b + 1, FALSE, f, x) /\ DoesSkipUntil(x, t, o, r)
      BY <1>3, <3>1, <3>3, <3>4, SkipRound
    <3>6. Does(c, x, r) BY <1>1, <3>5 DEF Does
    <3>7. Goes(a, x, r) BY <3>6, GoesByOne
    <3>8. ASSUME NEW s \in Side PROVE x.at[s] = position'[s] /\ (x.ready[s] => Ready(s)')
      <4>1. CASE s = t
        <5>1. position'[s] = b + 1 BY <1>3, <1>4, <2>1, <3>2, <4>1
        <5> QED BY <3>5, <4>1, <5>1 DEF IsMoved
      <4>2. CASE s # t
        <5>1. position'[s] = position[s] /\ next'[s] = next[s] BY <1>3, <1>4, <2>1, <4>2
        <5>2. Ready(s)' <=> Ready(s) BY <1>1, <5>1 DEF Ready, AtWord, AtEnd
        <5> QED BY <2>3, <3>5, <4>2, <5>1, <5>2 DEF IsMoved, Standing
      <4> QED BY <4>1, <4>2
    <3>9. Standing(x, n)' BY <1>1, <2>3, <3>2, <3>5, <3>8 DEF Standing, IsMoved
    <3> QED BY <3>7, <3>9
  <2> HIDE DEF a
  <2> QED BY <1>1, <1>2, <1>6, <2>2, <2>3, CallGoes DEF c
<1> QED BY <1>8, <1>9

LEMMA CopyWhitespaceFollows ==
    ASSUME LineInv, RestType, NEW n, Following(n), CopyWhitespace, pc' \in Reading
    PROVE  Following(n)'
<1> USE DEF inputs, readers, counts, control
<1> DEFINE c == Head(calls)
           t == c.side
<1>1. /\ UNCHANGED <<options, text, script, total, wanted, obeyed, position, copy_mode>>
      /\ calls # <<>> /\ c.fn = "copy_whitespace"
  BY DEF CopyWhitespace, Called
<1>2. c \in CallSet /\ calls \in Seq(CallSet)
  BY <1>1, TailCalls DEF LineInv, CallsInv
<1>3. t \in Side BY <1>1, <1>2, CallKinds DEF Loud
<1>4. next \in [Side -> Nat \ {0}] BY DEF RestType
<1>5. /\ pc' = pc /\ calls' = <<>> \o Tail(calls)
      /\ next' = [next EXCEPT ![t] = NextWord(t)]
  BY DEF CopyWhitespace, LongJump, Reading, Then
<1>6. ASSUME NEW p, NEW r, Does(c, p, r) PROVE r = Moved(p, t, p.at[t], TRUE, p.seen)
  BY <1>1, <1>6 DEF Does
<1> HIDE DEF c
<1>7. ASSUME NEW p \in Spot, NEW r \in Spot, Standing(p, n), Does(c, p, r)
      PROVE  Standing(r, n)'
  <2>1. PICK b, f \in Int : b = p.at[t] /\ f = p.seen BY <1>3 DEF Spot
  <2>2. IsMoved(p, t, b, TRUE, f, r) BY <1>3, <1>6, <1>7, <2>1, MovedIsSpot
  <2>3. ASSUME NEW s \in Side PROVE r.at[s] = position'[s] /\ (r.ready[s] => Ready(s)')
    <3>1. CASE s = t
      <4>1. next'[s] = NextWord(s) BY <1>3, <1>4, <1>5, <3>1
      <4>2. Ready(s)' BY <1>1, <4>1, NextWordIsReady DEF LineInv, Ready, AtWord, AtEnd
      <4>3. r.at[s] = position[s] BY <1>7, <2>1, <2>2, <3>1 DEF IsMoved, Standing
      <4> QED BY <1>1, <4>2, <4>3
    <3>2. CASE s # t
      <4>1. next'[s] = next[s] BY <1>3, <1>4, <1>5, <3>2
      <4>2. Ready(s)' <=> Ready(s) BY <1>1, <4>1 DEF Ready, AtWord, AtEnd
      <4> QED BY <1>1, <1>7, <2>2, <3>2, <4>2 DEF IsMoved, Standing
    <3> QED BY <3>1, <3>2
  <2> QED BY <1>1, <1>7, <2>1, <2>2, <2>3 DEF Standing, IsMoved
<1> QED BY <1>1, <1>2, <1>5, <1>7, CallGone DEF c

LEMMA LoudCallsFollow ==
    ASSUME LineInv, NEW n, Following(n), StartEmphasis \/ EndEmphasis \/ PutSeparator
    PROVE  Following(n)'
<1> USE DEF inputs, readers, counts, control
<1> DEFINE c == Head(calls)
<1>1. /\ UNCHANGED <<options, text, script, total, wanted, obeyed, pc, next, position>>
      /\ calls # <<>> /\ c.fn \in Loud /\ calls' = <<>> \o Tail(calls)
  BY DEF StartEmphasis, EndEmphasis, PutSeparator, Called, Then, Loud
<1>2. c \in CallSet /\ calls \in Seq(CallSet)
  BY <1>1, TailCalls DEF LineInv, CallsInv
<1>3. \A s : Ready(s)' <=> Ready(s) BY <1>1 DEF Ready, AtWord, AtEnd
<1>4. ASSUME NEW p \in Spot, NEW r \in Spot, Standing(p, n), Does(c, p, r)
      PROVE  Standing(r, n)'
  <2>1. p.mode = copy_mode BY <1>4 DEF Standing
  <2>2. CASE StartEmphasis
    <3>1. c.fn = "start" /\ copy_mode' = IF Useless THEN copy_mode ELSE c.mode
      BY <2>2 DEF StartEmphasis, Called
    <3> HIDE DEF c
    <3>2. r = Switched(p, c.mode) BY <1>4, <3>1 DEF Does
    <3>3. r.at = p.at /\ r.ready = p.ready /\ r.mode = copy_mode' /\ r.seen = p.seen
      BY <2>1, <3>1, <3>2 DEF Switched
    <3> QED BY <1>1, <1>3, <1>4, <3>3 DEF Standing
  <2>3. CASE EndEmphasis
    <3>1. c.fn = "end" /\ copy_mode' = IF Useless THEN copy_mode ELSE "NORMAL"
      BY <2>3 DEF EndEmphasis, EndOf, Called
    <3> HIDE DEF c
    <3>2. r = Switched(p, "NORMAL") BY <1>4, <3>1 DEF Does
    <3>3. r.at = p.at /\ r.ready = p.ready /\ r.mode = copy_mode' /\ r.seen = p.seen
      BY <2>1, <3>1, <3>2 DEF Switched
    <3> QED BY <1>1, <1>3, <1>4, <3>3 DEF Standing
  <2>4. CASE PutSeparator
    <3>1. c.fn = "separator" /\ copy_mode' = copy_mode BY <2>4 DEF PutSeparator, Called
    <3> HIDE DEF c
    <3>2. r = p BY <1>4, <3>1 DEF Does
    <3> QED BY <1>1, <1>3, <1>4, <3>1, <3>2 DEF Standing
  <2> QED BY <2>2, <2>3, <2>4
<1> HIDE DEF c
<1> QED BY <1>1, <1>2, <1>4, CallGone DEF c

(***************************************************************************)
(* The word that copy_word is called for is there, for the files have as   *)
(* many words as were counted, and it is the next that is wanted.          *)
(***************************************************************************)
WholeInv == \A s \in Side : Counting(s) /\ WordsIn(text[s]) = total[s]

WantedNext(n, t) ==
    /\ n + 1 <= Len(wanted)
    /\ wanted[n + 1] = Word(KindIn(copy_mode, t), t, position[t] + 1)

LEMMA CopyWordFinds ==
    ASSUME CountsInv, LineInv, RestType, WholeInv, NEW n, Following(n), CopyWord
    PROVE  LET t == Head(calls).side
           IN  /\ t \in Side /\ n \in Int
               /\ WantedNext(n, t) /\ AtWord(t) /\ Ordinal(t, next[t]) = position[t] + 1
<1> USE DEF inputs, readers, counts, control
<1> DEFINE c == Head(calls)
           t == c.side
<1>1. calls # <<>> /\ c.fn = "copy_word" BY DEF CopyWord, Called
<1>2. c \in CallSet /\ calls \in Seq(CallSet)
  BY <1>1, TailCalls DEF LineInv, CallsInv
<1>3. t \in Side BY <1>1, <1>2, CallKinds DEF Loud
<1>4. position[t] \in Nat /\ next[t] \in Nat \ {0} BY <1>3 DEF RestType
<1>5. PICK W, p, q : Laid(W) /\ Standing(p, n) /\ Reaching(W, q) /\ Goes(calls, p, q)
  BY DEF Following
<1>6. PICK r \in Spot : Does(c, p, r) BY <1>1, <1>2, <1>5, WentByHead
<1> HIDE DEF c
<1>7. p \in Spot /\ p.ready[t] /\ Offers(p, t, p.at[t] + 1)
  BY <1>1, <1>5, <1>6 DEF Does, DoesCopyWord, Standing
<1>8. PICK b \in Int : b = p.at[t] /\ b = position[t] BY <1>3, <1>5, <1>7 DEF Standing, Spot
<1>9. n \in Int /\ p.seen = n /\ p.mode = copy_mode BY <1>5, <1>7 DEF Standing, Spot
<1>10. Ready(t) BY <1>3, <1>5, <1>7 DEF Standing
<1>11. b + 1 <= total[t] /\ Lists(n, KindIn(copy_mode, t), t, b, 1)
  <2>1. Lists(n, KindIn(copy_mode, t), t, b, (b + 1) - b) /\ b + 1 <= total[t]
    BY <1>7, <1>8, <1>9 DEF Offers
  <2>2. (b + 1) - b = 1 OBVIOUS
  <2> QED BY <2>1, <2>2
<1>12. WantedNext(n, t)
  <2>1. 1 \in 1..1 OBVIOUS
  <2> QED BY <1>8, <1>11, <2>1 DEF Lists, WantedNext
<1>13. AtWord(t)
  <2> SUFFICES ASSUME AtEnd(t) PROVE FALSE BY <1>10 DEF Ready
  <2>1. text[t] \in Seq(Items) /\ Len(text[t]) \in Nat
    BY <1>3 DEF LineInv, TextInv, Alternating
  <2>2. next[t] - 1 = Len(text[t]) BY <2>1 DEF AtEnd
  <2>3. Ordinal(t, Len(text[t])) = WordsIn(text[t]) BY <1>3, <2>1, OrdinalOfAll
  <2>4. total[t] <= position[t] BY <1>3, <2>2, <2>3 DEF WholeInv, Counting
  <2>5. total[t] \in Int BY <1>3 DEF CountsInv, CountsType
  <2> QED BY <1>8, <1>11, <2>4, <2>5
<1>14. Ordinal(t, next[t]) = position[t] + 1
  <2>1. text[t] \in Seq(Items) /\ Len(text[t]) \in Nat
    BY <1>3 DEF LineInv, TextInv, Alternating
  <2>2. next[t] <= Len(text[t]) /\ text[t][next[t]] = "word" BY <1>13, <2>1 DEF AtWord
  <2>3. Ordinal(t, next[t] - 1) = position[t] BY <1>3, <2>2 DEF WholeInv, Counting
  <2>4. Ordinal(t, next[t]) = Ordinal(t, next[t] - 1) + 1 BY <1>3, <1>4, <2>2, OrdinalNext
  <2> QED BY <2>3, <2>4
<1> QED BY <1>3, <1>9, <1>12, <1>13, <1>14 DEF c

LEMMA CopyWordFollows ==
    ASSUME LineInv, RestType, NEW n, Following(n), CopyWord, pc' \in Reading,
           NEW m, m = n + 1
    PROVE  Following(m)'
<1> USE DEF inputs, readers, counts, control
<1> DEFINE c == Head(calls)
           t == c.side
<1>1. /\ UNCHANGED <<options, text, script, total, wanted, obeyed, copy_mode>>
      /\ calls # <<>> /\ c.fn = "copy_word"
  BY DEF CopyWord, Called
<1>2. c \in CallSet /\ calls \in Seq(CallSet)
  BY <1>1, TailCalls DEF LineInv, CallsInv
<1>3. t \in Side BY <1>1, <1>2, CallKinds DEF Loud
<1>4. next \in [Side -> Nat \ {0}] /\ position \in [Side -> Nat] BY DEF RestType
<1>5. /\ pc' = pc /\ calls' = <<>> \o Tail(calls)
      /\ next' = [next EXCEPT ![t] = next[t] + IF AtWord(t) THEN 1 ELSE 0]
      /\ position' = [position EXCEPT ![t] = position[t] + 1]
  BY DEF CopyWord, LongJump, Reading, Then, Counted
<1>6. ASSUME NEW p, NEW r, Does(c, p, r)
      PROVE  r = Moved(p, t, p.at[t] + 1, FALSE, p.seen + 1)
  BY <1>1, <1>6 DEF Does, DoesCopyWord
<1> HIDE DEF c
<1>7. ASSUME NEW p \in Spot, NEW r \in Spot, Standing(p, n), Does(c, p, r)
      PROVE  Standing(r, m)'
  <2>1. PICK b, f \in Int : b = p.at[t] /\ f = p.seen BY <1>3 DEF Spot
  <2>2. PICK b1, f1 \in Int : b1 = b + 1 /\ f1 = f + 1 OBVIOUS
  <2>3. r = Moved(p, t, b1, FALSE, f1) BY <1>6, <1>7, <2>1, <2>2
  <2>4. IsMoved(p, t, b1, FALSE, f1, r) BY <1>3, <2>3, MovedIsSpot
  <2>5. f = n /\ f1 = m BY <1>7, <2>1, <2>2 DEF Standing
  <2>6. ASSUME NEW s \in Side PROVE r.at[s] = position'[s] /\ (r.ready[s] => Ready(s)')
    <3>1. CASE s = t
      <4>1. position'[s] = position[s] + 1 BY <1>3, <1>4, <1>5, <3>1
      <4>2. b = position[s] BY <1>7, <2>1, <3>1 DEF Standing
      <4> QED BY <2>2, <2>4, <3>1, <4>1, <4>2 DEF IsMoved
    <3>2. CASE s # t
      <4>1. next'[s] = next[s] /\ position'[s] = position[s] BY <1>3, <1>4, <1>5, <3>2
      <4>2. Ready(s)' <=> Ready(s) BY <1>1, <4>1 DEF Ready, AtWord, AtEnd
      <4> QED BY <1>7, <2>4, <3>2, <4>1, <4>2 DEF IsMoved, Standing
    <3> QED BY <3>1, <3>2
  <2> QED BY <1>1, <1>7, <2>4, <2>5, <2>6 DEF Standing, IsMoved
<1> QED BY <1>1, <1>2, <1>5, <1>7, CallGone DEF c

(* The texts stay as they were counted.                                    *)
LEMMA WholeInit == Init => WholeInv
BY CountingInit DEF WholeInv, Counting

LEMMA WantedStays ==
    ASSUME [Next]_vars
    PROVE  wanted' = wanted /\ (~Shrink => text' = text)
<1> USE DEF inputs, control
<1>1. CASE Reformat
  <2>1. CASE ReadDirective \/ CopyUntilOrdinal \/ SkipUntilOrdinal
    BY <2>1 DEF ReadDirective, CopyUntilOrdinal, SkipUntilOrdinal
  <2>2. CASE CopyWhitespace \/ CopyWord \/ StartEmphasis
    BY <2>2 DEF CopyWhitespace, CopyWord, StartEmphasis
  <2>3. CASE EndEmphasis \/ PutSeparator \/ Return \/ CompleteOutput \/ Report
    BY <2>3 DEF EndEmphasis, PutSeparator, Return, CompleteOutput, Report
  <2> QED BY <1>1, <2>1, <2>2, <2>3 DEF Reformat
<1>2. CASE Interrupt \/ Terminated \/ UNCHANGED vars BY <1>2 DEF Interrupt, Terminated, vars
<1>3. CASE Shrink BY <1>3 DEF Shrink
<1> QED BY <1>1, <1>2, <1>3 DEF Next

LEMMA WholeNext ==
    ASSUME CountsInv, LineInv, RestType, WholeInv, pc \in Reading => \E n : Following(n),
           [Next]_vars, ~Shrink
    PROVE  WholeInv'
<1> USE DEF inputs, readers, counts, control
<1> SUFFICES ASSUME NEW s \in Side PROVE (Counting(s) /\ WordsIn(text[s]) = total[s])'
  BY DEF WholeInv
<1>1. Counting(s) /\ WordsIn(text[s]) = total[s] BY DEF WholeInv
<1>2. UNCHANGED <<text, total>> BY InputsStay, WantedStays
<1>3. (WordsIn(text[s]) = total[s])' BY <1>1, <1>2 DEF WordsIn
<1>4. CASE CopyWhitespace BY <1>1, <1>3, <1>4, CopyWhitespaceCounts
<1>5. CASE CopyWord
  <2>1. calls # <<>> BY <1>5 DEF CopyWord, Called
  <2>2. PICK n : Following(n) BY <2>1 DEF LineInv, CallsInv
  <2>3. PICK t : t = Head(calls).side OBVIOUS
  <2>4. t \in Side /\ Ready(t) BY <1>5, <2>2, <2>3, CopyWordFinds DEF Ready
  <2>5. Counting(s)' BY <1>1, <1>5, <2>3, <2>4, CopyWordCounts
  <2> QED BY <1>3, <2>5
<1>6. CASE SkipUntilOrdinal BY <1>1, <1>3, <1>6, SkipCounts
<1>7. CASE ~CopyWhitespace /\ ~CopyWord /\ ~SkipUntilOrdinal
  <2>1. UNCHANGED <<next, position>>
    BY <1>7 DEF Next, Reformat, ReadDirective, CopyUntilOrdinal, StartEmphasis, EndEmphasis,
           PutSeparator, Return, CompleteOutput, Report, Interrupt, Terminated, vars
  <2> QED BY <1>1, <1>2, <1>3, <2>1, CountingFrame
<1> QED BY <1>4, <1>5, <1>6, <1>7

-----------------------------------------------------------------------------
(***************************************************************************)
(* The words that an output shows, item by item.                           *)
(***************************************************************************)
EntryShown(o) == [kind |-> TakenFor(o), from |-> o.from, ordinal |-> Ordinal(o.from, o.at)]
Shows == {EntryShown(o) : o \in Written}
ShownAt(o) == When(o.kind = "word", <<EntryShown(o)>>)
ShownEach(out) == [i \in DOMAIN out |-> ShownAt(out[i])]
ShownOf(out) == FlattenSeq(ShownEach(out))

LEMMA ShownIs == Shown = ShownOf(output) /\ Shown' = ShownOf(output)'
BY DEF Shown, ShownOf, ShownEach, ShownAt, EntryShown

LEMMA ShownFrame ==
    ASSUME UNCHANGED <<options, text>>
    PROVE  \A out : ShownOf(out)' = ShownOf(out)
<1>1. \A s, i : Ordinal(s, i)' = Ordinal(s, i) BY DEF Ordinal
<1>2. \A o : TakenFor(o)' = TakenFor(o) BY DEF TakenFor, inhibited
<1>3. \A o : ShownAt(o)' = ShownAt(o) BY <1>1, <1>2 DEF ShownAt, EntryShown
<1> QED BY <1>3 DEF ShownOf, ShownEach

LEMMA ShownIsTyped ==
    ASSUME NEW out \in Seq(Written)
    PROVE  /\ ShownEach(out) \in Seq(Seq(Shows)) /\ Len(ShownEach(out)) = Len(out)
           /\ \A i \in 1..Len(out) : ShownEach(out)[i] = ShownAt(out[i])
           /\ ShownOf(out) \in Seq(Shows)
<1> DEFINE f == ShownEach(out)
<1>1. ASSUME NEW o \in Written PROVE ShownAt(o) \in Seq(Shows)
  <2>1. PICK e : e = EntryShown(o) OBVIOUS
  <2>2. e \in Shows BY <2>1 DEF Shows
  <2>3. <<e>> \in Seq(Shows) /\ <<>> \in Seq(Shows) BY <2>2
  <2> QED BY <2>1, <2>3 DEF ShownAt, When
<1>2. DOMAIN out = 1..Len(out) /\ Len(out) \in Nat /\ \A i \in 1..Len(out) : out[i] \in Written
  OBVIOUS
<1>3. f = [i \in 1..Len(out) |-> ShownAt(out[i])] BY <1>2 DEF ShownEach
<1>4. \A i \in 1..Len(out) : ShownAt(out[i]) \in Seq(Shows) BY <1>1, <1>2
<1> HIDE DEF f
<1>5. f \in Seq(Seq(Shows)) /\ Len(f) = Len(out) BY <1>2, <1>3, <1>4
<1>6. \A i \in 1..Len(out) : f[i] = ShownAt(out[i]) BY <1>3
<1>7. FlattenSeq(f) \in Seq(Shows) BY <1>5, FlattenType
<1> QED BY <1>5, <1>6, <1>7 DEF ShownOf, f

LEMMA ShownAfter ==
    ASSUME NEW out \in Seq(Written), NEW new \in Seq(Written), Len(out) <= Len(new),
           \A i \in 1..Len(out) : new[i] = out[i]
    PROVE  \E d \in Seq(Seq(Shows)) :
              /\ Len(d) = Len(new) - Len(out)
              /\ \A i \in 1..Len(d) : d[i] = ShownAt(new[Len(out) + i])
              /\ ShownOf(new) = ShownOf(out) \o FlattenSeq(d)
<1> DEFINE f == ShownEach(new)
           g == ShownEach(out)
           k == Len(out)
           n == Len(new)
           d == [i \in 1..(n - k) |-> f[k + i]]
           T == Seq(Shows)
<1>1. f \in Seq(T) /\ Len(f) = n /\ \A i \in 1..n : f[i] = ShownAt(new[i]) BY ShownIsTyped
<1>2. g \in Seq(T) /\ Len(g) = k /\ \A i \in 1..k : g[i] = ShownAt(out[i]) BY ShownIsTyped
<1>3. k \in Nat /\ n \in Nat /\ k <= n OBVIOUS
<1>4. \A i \in 1..k : i \in 1..n /\ new[i] = out[i] BY <1>3
<1>5. FlattenSeq(g) = ShownOf(out) /\ FlattenSeq(f) = ShownOf(new) BY DEF ShownOf
<1> HIDE DEF f, g, k, n, T
<1>6. \A i \in 1..(n - k) : k + i \in 1..n BY <1>3
<1>7. d \in Seq(T) /\ Len(d) = n - k
  <2>1. \A i \in 1..(n - k) : f[k + i] \in T BY <1>1, <1>6
  <2>2. n - k \in Nat BY <1>3
  <2> QED BY <2>1, <2>2
<1>8. \A i \in 1..(n - k) : d[i] = f[k + i] OBVIOUS
<1> HIDE DEF d
<1> DEFINE c == g \o d
<1>9. /\ c \in Seq(T) /\ Len(c) = n
      /\ \A i \in 1..k : c[i] = g[i]
      /\ \A i \in 1..(n - k) : c[k + i] = d[i]
  <2>1. Len(g \o d) = Len(g) + Len(d) /\ g \o d \in Seq(T) BY <1>2, <1>7, Joining
  <2>2. \A i \in 1..Len(g) : (g \o d)[i] = g[i] BY <1>2, <1>7, Joining
  <2>3. \A i \in 1..Len(d) : (g \o d)[Len(g) + i] = d[i] BY <1>2, <1>7, Joining
  <2>4. k + (n - k) = n BY <1>3
  <2> QED BY <1>2, <1>7, <2>1, <2>2, <2>3, <2>4
<1> HIDE DEF c
<1>10. ASSUME NEW i \in 1..n PROVE f[i] = c[i]
  <2>1. CASE i \in 1..k BY <1>1, <1>2, <1>4, <1>9, <2>1
  <2>2. CASE i \notin 1..k
    <3>1. PICK j \in Int : j = i - k BY <1>3
    <3>2. j \in 1..(n - k) /\ i = k + j BY <1>3, <2>2, <3>1
    <3> QED BY <1>8, <1>9, <3>2
  <2> QED BY <2>1, <2>2
<1>11. f = c BY <1>1, <1>9, <1>10, SameSequence
<1>12. FlattenSeq(g \o d) = FlattenSeq(g) \o FlattenSeq(d)
  BY <1>2, <1>7, FlattenBoth DEF T
<1>13. ShownOf(new) = ShownOf(out) \o FlattenSeq(d) BY <1>5, <1>11, <1>12 DEF c
<1>14. \A i \in 1..(n - k) : d[i] = ShownAt(new[k + i]) BY <1>1, <1>6, <1>8
<1> QED BY <1>7, <1>13, <1>14 DEF T, k, n

(* Marks, separators and white space show nothing.                         *)
LEMMA ShownNoMore ==
    ASSUME NEW out \in Seq(Written), NEW new \in Seq(Written), Same(out, new),
           \A i \in (Len(out) + 1)..Len(new) : new[i].kind # "word"
    PROVE  ShownOf(new) = ShownOf(out)
<1>1. Len(out) \in Nat /\ Len(new) \in Nat /\ Len(out) <= Len(new)
      /\ \A i \in 1..Len(out) : new[i] = out[i]
  BY DEF Same
<1>2. PICK d \in Seq(Seq(Shows)) :
              /\ Len(d) = Len(new) - Len(out)
              /\ \A i \in 1..Len(d) : d[i] = ShownAt(new[Len(out) + i])
              /\ ShownOf(new) = ShownOf(out) \o FlattenSeq(d)
  BY <1>1, ShownAfter
<1>3. ASSUME NEW i \in 1..Len(d) PROVE d[i] = <<>>
  <2>1. Len(out) + i \in (Len(out) + 1)..Len(new) BY <1>1, <1>2
  <2> QED BY <1>2, <2>1 DEF ShownAt, When
<1>4. FlattenSeq(d) = <<>> BY <1>3, FlattenNothing
<1>5. ShownOf(out) \in Seq(Shows) BY ShownIsTyped
<1> QED BY <1>2, <1>4, <1>5, WithNothing

(* A word shows itself.                                                    *)
LEMMA ShownOneMore ==
    ASSUME NEW out \in Seq(Written), NEW new \in Seq(Written), Same(out, new),
           NEW o, o.kind = "word", Len(new) = Len(out) + 1, new[Len(out) + 1] = o
    PROVE  ShownOf(new) = ShownOf(out) \o <<EntryShown(o)>>
<1>1. Len(out) \in Nat /\ Len(new) \in Nat /\ Len(out) <= Len(new)
      /\ \A i \in 1..Len(out) : new[i] = out[i]
  BY DEF Same
<1>2. PICK d \in Seq(Seq(Shows)) :
              /\ Len(d) = Len(new) - Len(out)
              /\ \A i \in 1..Len(d) : d[i] = ShownAt(new[Len(out) + i])
              /\ ShownOf(new) = ShownOf(out) \o FlattenSeq(d)
  BY <1>1, ShownAfter
<1>3. Len(d) = 1 /\ 1 \in 1..1 BY <1>1, <1>2
<1>4. PICK e : e = EntryShown(o) OBVIOUS
<1>5. d[1] = <<e>> BY <1>2, <1>3, <1>4 DEF ShownAt, When
<1>6. o \in Written
  <2>1. Len(out) + 1 \in 1..Len(new) BY <1>1
  <2> QED BY <2>1
<1>7. e \in Shows BY <1>4, <1>6 DEF Shows
<1>8. <<e>> \in Seq(Shows) /\ Len(<<e>>) = 1 /\ <<e>>[1] = e BY <1>7
<1>9. \A i \in 1..Len(d) : i = 1 BY <1>3
<1>10. FlattenSeq(d) = <<e>> BY <1>3, <1>5, <1>8, <1>9, FlattenSingles
<1> QED BY <1>2, <1>4, <1>10

LEMMA ShownStays ==
    ASSUME LineInv, LineInv', RestType, [Next]_vars, ~Shrink, ~CopyWord \/ output' = output
    PROVE  Shown' = Shown
<1> USE DEF inputs, readers, counts, control
<1>1. UNCHANGED <<options, text>> BY InputsStay, WantedStays
<1>2. PICK out, new : out = output /\ new = output' OBVIOUS
<1>3. out \in Seq(Written) /\ new \in Seq(Written) /\ Tidy(out)
  BY <1>2 DEF LineInv, OutputInv, Tidy
<1>4. ShownOf(new) = ShownOf(out)
  <2>1. CASE output' = output BY <1>2, <2>1
  <2>2. CASE CopyWhitespace /\ output' # output
    <3>1. PICK s, i : s = Head(calls).side /\ i = next[s] OBVIOUS
    <3>2. text[s][i] # "word" /\ Says(output, output', Char(s, i))
      BY <2>2, <3>1, WhitespaceSays
    <3>3. PICK c : c = Char(s, i) OBVIOUS
    <3>4. c.kind # "word" BY <3>2, <3>3 DEF Char
    <3>5. Same(out, new) /\ \E k \in (Len(out) + 1)..Len(new) : SaysAt(out, new, c, k)
      BY <1>2, <3>2, <3>3 DEF Says
    <3>6. \A k \in (Len(out) + 1)..Len(new) : new[k].kind # "word"
      BY <3>4, <3>5 DEF SaysAt, Mute
    <3> QED BY <1>3, <3>5, <3>6, ShownNoMore
  <2>3. CASE StartEmphasis \/ EndEmphasis \/ PutSeparator \/ CompleteOutput
    <3>1. Silent(output, output') BY <2>3, MarksAreSilent
    <3>2. Same(out, new) /\ \A k \in (Len(out) + 1)..Len(new) : new[k].kind # "word"
      BY <1>2, <3>1 DEF Silent, Mute
    <3> QED BY <1>3, <3>2, ShownNoMore
  <2>4. CASE /\ ~CopyWhitespace
             /\ ~(StartEmphasis \/ EndEmphasis \/ PutSeparator \/ CompleteOutput)
    <3>1. output' = output
      BY <2>4 DEF Next, Reformat, ReadDirective, CopyUntilOrdinal, SkipUntilOrdinal, Return,
             Report, Interrupt, Terminated, vars
    <3> QED BY <1>2, <3>1
  <2> QED BY <2>1, <2>2, <2>3, <2>4
<1>5. ShownOf(new)' = ShownOf(new) BY <1>1, ShownFrame
<1>6. ShownOf(output)' = ShownOf(new)' BY <1>2
<1>7. Shown' = ShownOf(output)' /\ Shown = ShownOf(output) BY ShownIs
<1> QED BY <1>2, <1>4, <1>5, <1>6, <1>7

LEMMA CopyWordShows ==
    ASSUME CountsInv, LineInv, LineInv', RestType, WholeInv, NEW n, Following(n),
           CopyWord, pc' \in Reading
    PROVE  n + 1 <= Len(wanted) /\ Shown' = Shown \o <<wanted[n + 1]>>
<1> USE DEF inputs, readers, counts, control
<1>1. PICK t, i : t = Head(calls).side /\ i = next[t] OBVIOUS
<1>2. t \in Side /\ WantedNext(n, t) /\ AtWord(t) /\ Ordinal(t, i) = position[t] + 1
  BY <1>1, CopyWordFinds
<1>3. UNCHANGED <<options, text>> BY DEF CopyWord
<1>4. next \in [Side -> Nat \ {0}] BY DEF RestType
<1>5. next' = [next EXCEPT ![t] = next[t] + IF AtWord(t) THEN 1 ELSE 0]
  BY <1>1 DEF CopyWord, LongJump, Reading
<1>6. next' # next
  <2>1. next'[t] = next[t] + 1 BY <1>2, <1>4, <1>5
  <2> QED BY <1>2, <1>4, <2>1
<1>7. PICK o : o = Char(t, i) OBVIOUS
<1>8. /\ Says(output, output', o)
      /\ Len(output') = Len(output) + 1 /\ output'[Len(output) + 1] = o
  BY <1>1, <1>6, <1>7, WordSays
<1>9. PICK out, new : out = output /\ new = output' OBVIOUS
<1>10. out \in Seq(Written) /\ new \in Seq(Written)
  BY <1>9 DEF LineInv, OutputInv, Tidy
<1>11. Same(out, new) /\ Len(new) = Len(out) + 1 /\ new[Len(out) + 1] = o
  BY <1>8, <1>9 DEF Says
<1>12. o.kind = "word" /\ o.from = t /\ o.at = i /\ o.mode = copy_mode
  BY <1>1, <1>2, <1>7 DEF AtWord, Char
<1>13. ShownOf(new) = ShownOf(out) \o <<EntryShown(o)>> BY <1>10, <1>11, <1>12, ShownOneMore
<1>14. TakenFor(o) = KindIn(copy_mode, t)
  <2>1. CASE copy_mode = "DELETED" BY <1>12, <2>1 DEF TakenFor, KindIn
  <2>2. CASE copy_mode = "INSERTED" BY <1>12, <2>2 DEF TakenFor, KindIn
  <2>3. CASE copy_mode = "NORMAL"
    <3>1. CASE ~inhibited("common") BY <1>12, <2>3, <3>1 DEF TakenFor, KindIn
    <3>2. CASE inhibited("common") /\ t = "left" BY <1>12, <2>3, <3>2 DEF TakenFor, KindIn
    <3>3. CASE inhibited("common") /\ t # "left" BY <1>12, <2>3, <3>3 DEF TakenFor, KindIn
    <3> QED BY <3>1, <3>2, <3>3
  <2> QED BY <2>1, <2>2, <2>3 DEF LineInv, ModeInv, Modes
<1>15. EntryShown(o) = wanted[n + 1]
  BY <1>2, <1>12, <1>14 DEF EntryShown, WantedNext, Word
<1>16. ShownOf(new)' = ShownOf(new) BY <1>3, ShownFrame
<1>17. ShownOf(output)' = ShownOf(new)' BY <1>9
<1>18. Shown' = ShownOf(output)' /\ Shown = ShownOf(output) BY ShownIs
<1> QED BY <1>2, <1>9, <1>13, <1>15, <1>16, <1>17, <1>18 DEF WantedNext

-----------------------------------------------------------------------------
(***************************************************************************)
(* The inductive invariant: the first n words wanted have been shown, the  *)
(* calls left will show the rest of what their directive is for, and       *)
(* nothing is left when the remainder has been copied.                     *)
(***************************************************************************)
Printed(n) == n \in 0..Len(wanted) /\ Shown = [k \in 1..n |-> wanted[k]]

Progress(n) ==
    /\ Printed(n)
    /\ pc \in Reading => Following(n)
    /\ pc \in {"cleanup", "report"} /\ ~interrupted => n = Len(wanted)

CopyInv ==
    /\ WholeInv
    /\ exit_status # -1 => pc = "exited"
    /\ wanted \in Seq(EntryType)
    /\ \E n : Progress(n)

LEMMA FollowsOn ==
    ASSUME CountsInv, BehindInv, LineInv, RestType, NEW n, Following(n),
           [Next]_vars, ~Shrink, ~CopyWord, pc' \in Reading
    PROVE  Following(n)'
<1> USE DEF inputs, readers, counts, control
<1>1. CASE ReadDirective \/ CopyUntilOrdinal \/ SkipUntilOrdinal
  BY <1>1, ReadDirectiveFollows, CopyUntilOrdinalFollows, SkipUntilOrdinalFollows
<1>2. CASE CopyWhitespace \/ StartEmphasis \/ EndEmphasis \/ PutSeparator
  BY <1>2, CopyWhitespaceFollows, LoudCallsFollow
<1>3. CASE Return \/ CompleteOutput \/ Report \/ Terminated
  BY <1>3 DEF Return, CompleteOutput, Report, Terminated, Reading, vars
<1>4. CASE Interrupt \/ UNCHANGED vars
  <2>1. UNCHANGED <<options, script, total, wanted, obeyed, pc, calls, text, next, position,
                    copy_mode>>
    BY <1>4 DEF Interrupt, vars
  <2> QED BY <2>1, FollowingStays
<1> QED BY <1>1, <1>2, <1>3, <1>4 DEF Next, Reformat

(* Where the remainder ends, the last word has been shown.                 *)
LEMMA ReturnsWithAll ==
    ASSUME LineInv, NEW n, Progress(n), [Next]_vars, ~Shrink,
           pc' \in {"cleanup", "report"}, ~interrupted'
    PROVE  n = Len(wanted) /\ ~CopyWord
<1> USE DEF inputs, readers, counts, control
<1>1. CASE Return
  <2>1. pc = "remainder" /\ calls = <<>> BY <1>1 DEF Return
  <2>2. PICK W, p, q : Standing(p, n) /\ Reaching(W, q) /\ Goes(calls, p, q)
    BY <2>1 DEF Progress, Following, Reading
  <2>3. q = p BY <2>1, <2>2, WentNowhere
  <2>4. p.seen = n /\ q.seen = Len(wanted) BY <2>1, <2>2 DEF Standing, Reaching
  <2>5. ~CopyWord BY <2>1 DEF CopyWord, Called
  <2> QED BY <2>3, <2>4, <2>5
<1>2. CASE ~Return
  <2>1. ~LongJump
    <3>1. CASE ReadDirective \/ CopyUntilOrdinal \/ SkipUntilOrdinal
      BY <3>1 DEF ReadDirective, CopyUntilOrdinal, SkipUntilOrdinal, LongJump
    <3>2. CASE CopyWhitespace \/ CopyWord \/ StartEmphasis
      BY <3>2 DEF CopyWhitespace, CopyWord, StartEmphasis, LongJump
    <3>3. CASE EndEmphasis \/ PutSeparator \/ CompleteOutput \/ Report
      BY <3>3 DEF EndEmphasis, PutSeparator, CompleteOutput, Report, LongJump
    <3>4. CASE Interrupt \/ Terminated \/ UNCHANGED vars
      BY <3>4 DEF Interrupt, Terminated, vars, LongJump
    <3> QED BY <1>2, <3>1, <3>2, <3>3, <3>4 DEF Next, Reformat
  <2>2. ~CopyWord
    <3>1. CopyWord => pc \in Reading BY DEF CopyWord, Called, LineInv, CallsInv
    <3>2. CopyWord => pc' = pc BY <2>1 DEF CopyWord
    <3> QED BY <3>1, <3>2 DEF Reading
  <2>3. pc \in {"cleanup", "report"} /\ ~interrupted
    <3>1. CASE ReadDirective BY <2>1, <3>1 DEF ReadDirective
    <3>2. CASE CopyUntilOrdinal \/ SkipUntilOrdinal \/ CopyWhitespace
      <4>1. pc' = pc /\ interrupted' = interrupted
        BY <2>1, <3>2 DEF CopyUntilOrdinal, SkipUntilOrdinal, CopyWhitespace
      <4> QED BY <4>1
    <3>3. CASE StartEmphasis \/ EndEmphasis \/ PutSeparator
      <4>1. pc' = pc /\ interrupted' = interrupted
        BY <3>3 DEF StartEmphasis, EndEmphasis, PutSeparator
      <4> QED BY <4>1
    <3>4. CASE CompleteOutput BY <3>4 DEF CompleteOutput
    <3>5. CASE Report BY <3>5 DEF Report
    <3>6. CASE Interrupt BY <3>6 DEF Interrupt
    <3>7. CASE Terminated \/ UNCHANGED vars BY <3>7 DEF Terminated, vars
    <3> QED BY <1>2, <2>2, <3>1, <3>2, <3>3, <3>4, <3>5, <3>6, <3>7 DEF Next, Reformat
  <2> QED BY <2>2, <2>3 DEF Progress
<1> QED BY <1>1, <1>2

LEMMA CopyInit == Init => CopyInv
<1> SUFFICES ASSUME Init PROVE CopyInv OBVIOUS
<1>1. WholeInv BY WholeInit
<1>2. PICK W : Laid(W) BY LaidInit
<1>3. CountsInv /\ W[0] = 0 /\ wanted \in Seq(EntryType) BY <1>2, CountsInit DEF Laid
<1>4. /\ exit_status = -1 /\ pc = "reformat" /\ calls = <<>> /\ output = <<>>
      /\ obeyed = 0 /\ copy_mode = "NORMAL" /\ \A s \in Side : position[s] = 0
  BY DEF Init
<1>5. Printed(0)
  <2>1. ShownEach(<<>>) = <<>> BY DEF ShownEach
  <2>2. Shown = <<>> BY <1>4, <2>1, FlattenEmpty, ShownIs DEF ShownOf
  <2>3. Len(wanted) \in Nat BY <1>3
  <2> QED BY <2>2, <2>3 DEF Printed
<1>6. Following(0)
  <2> DEFINE p == [at |-> [s \in Side |-> 0], ready |-> [s \in Side |-> FALSE],
                   mode |-> "NORMAL", seen |-> 0]
  <2>1. p \in Spot BY DEF Spot, Modes
  <2>2. /\ p.mode = "NORMAL" /\ p.seen = 0
        /\ \A s \in Side : p.at[s] = 0 /\ p.ready[s] = FALSE
    OBVIOUS
  <2> HIDE DEF p
  <2>3. Standing(p, 0) BY <1>4, <2>1, <2>2 DEF Standing
  <2>4. \A s \in Side : Accounted(script, 0, s) = 0 BY DEF Accounted
  <2>5. Stood(p, W[obeyed], Accounted(script, obeyed, "left"), Accounted(script, obeyed, "right"))
    BY <1>3, <1>4, <2>1, <2>2, <2>4 DEF Stood, Side
  <2>6. Reaching(W, p) BY <1>4, <2>2, <2>5 DEF Reaching
  <2>7. Goes(calls, p, p) BY <1>4, <2>1, GoesNowhere
  <2> QED BY <1>2, <2>3, <2>6, <2>7 DEF Following
<1>7. Progress(0) BY <1>4, <1>5, <1>6 DEF Progress
<1> QED BY <1>1, <1>3, <1>4, <1>7 DEF CopyInv

(* The exit status is set where the run ends, and never before.            *)
LEMMA OutcomeStays ==
    ASSUME LineInv, [Next]_vars, exit_status # -1 => pc = "exited"
    PROVE  /\ (exit_status # -1 => pc = "exited")'
           /\ ~Report => exit_status' = exit_status
<1> USE DEF inputs, readers, counts, control
<1>1. ~Report => exit_status' = exit_status
  <2>1. CASE ReadDirective \/ CopyUntilOrdinal \/ SkipUntilOrdinal
    BY <2>1 DEF ReadDirective, CopyUntilOrdinal, SkipUntilOrdinal
  <2>2. CASE CopyWhitespace \/ CopyWord \/ StartEmphasis
    BY <2>2 DEF CopyWhitespace, CopyWord, StartEmphasis
  <2>3. CASE EndEmphasis \/ PutSeparator \/ Return \/ CompleteOutput
    BY <2>3 DEF EndEmphasis, PutSeparator, Return, CompleteOutput
  <2>4. CASE Interrupt \/ Shrink \/ Terminated \/ UNCHANGED vars
    BY <2>4 DEF Interrupt, Shrink, Terminated, vars
  <2> QED BY <2>1, <2>2, <2>3, <2>4 DEF Next, Reformat
<1>2. pc = "exited" /\ ~Report => pc' = "exited"
  <2> SUFFICES ASSUME pc = "exited", ~Report PROVE pc' = "exited" OBVIOUS
  <2>1. calls = <<>> BY DEF LineInv, CallsInv, Reading
  <2>2. ~(ReadDirective \/ Return \/ CompleteOutput \/ Shrink)
    BY DEF ReadDirective, Return, CompleteOutput, Shrink
  <2>3. ~(CopyUntilOrdinal \/ SkipUntilOrdinal \/ CopyWhitespace \/ CopyWord)
    BY <2>1 DEF CopyUntilOrdinal, SkipUntilOrdinal, CopyWhitespace, CopyWord, Called
  <2>4. ~(StartEmphasis \/ EndEmphasis \/ PutSeparator)
    BY <2>1 DEF StartEmphasis, EndEmphasis, PutSeparator, Called
  <2> QED BY <2>2, <2>3, <2>4 DEF Next, Reformat, Interrupt, Terminated, vars
<1>3. Report => pc' = "exited" BY DEF Report
<1> QED BY <1>1, <1>2, <1>3

(* No step leads back to the reading.                                      *)
LEMMA ReadsNoMore ==
    ASSUME LineInv, [Next]_vars, pc' \in Reading
    PROVE  pc \in Reading
<1> USE DEF inputs, readers, counts, control
<1>1. CASE ReadDirective \/ Return \/ Shrink
  BY <1>1 DEF ReadDirective, Return, Shrink, Reading
<1>2. CASE CompleteOutput \/ Report BY <1>2 DEF CompleteOutput, Report, Reading
<1>3. CASE \/ CopyUntilOrdinal \/ SkipUntilOrdinal \/ CopyWhitespace \/ CopyWord
           \/ StartEmphasis \/ EndEmphasis \/ PutSeparator
  <2>1. CASE CopyUntilOrdinal \/ SkipUntilOrdinal \/ CopyWhitespace \/ CopyWord
    <3>1. \E fn : Called(fn)
      BY <2>1 DEF CopyUntilOrdinal, SkipUntilOrdinal, CopyWhitespace, CopyWord
    <3>2. calls # <<>> BY <3>1 DEF Called
    <3> QED BY <3>2 DEF LineInv, CallsInv
  <2>2. CASE StartEmphasis \/ EndEmphasis \/ PutSeparator
    <3>1. calls # <<>> BY <2>2 DEF StartEmphasis, EndEmphasis, PutSeparator, Called
    <3> QED BY <3>1 DEF LineInv, CallsInv
  <2> QED BY <1>3, <2>1, <2>2
<1>4. CASE Interrupt \/ Terminated \/ UNCHANGED vars BY <1>4 DEF Interrupt, Terminated, vars
<1> QED BY <1>1, <1>2, <1>3, <1>4 DEF Next, Reformat

(* What a step does to the words shown.                                    *)
LEMMA ShowsOneOrNone ==
    ASSUME CountsInv, LineInv, LineInv', RestType, WholeInv, NEW n, Progress(n),
           [Next]_vars, ~Shrink
    PROVE  IF CopyWord /\ pc' \in Reading
           THEN n + 1 <= Len(wanted) /\ Shown' = Shown \o <<wanted[n + 1]>>
           ELSE Shown' = Shown
<1> USE DEF inputs, readers, counts, control
<1>1. CASE CopyWord /\ pc' \in Reading
  <2>1. pc \in Reading BY <1>1, ReadsNoMore
  <2>2. Following(n) BY <2>1 DEF Progress
  <2> QED BY <1>1, <2>2, CopyWordShows
<1>2. CASE ~(CopyWord /\ pc' \in Reading)
  <2>1. CASE CopyWord
    <3>1. pc \in Reading BY <2>1 DEF CopyWord, Called, LineInv, CallsInv
    <3>2. output' = output BY <1>2, <2>1, <3>1 DEF CopyWord
    <3> QED BY <1>2, <3>2, ShownStays
  <2> QED BY <1>2, <2>1, ShownStays
<1> QED BY <1>1, <1>2

LEMMA CopyNext ==
    ASSUME CountsInv, LineInv, LineInv', BehindInv, RestType, CopyInv, [Next]_vars, ~Shrink
    PROVE  CopyInv'
<1>1. PICK n : Progress(n) BY DEF CopyInv
<1>2. WholeInv' BY <1>1, WholeNext DEF CopyInv, Progress
<1>3. (exit_status # -1 => pc = "exited")' BY OutcomeStays DEF CopyInv
<1>4. wanted' = wanted BY WantedStays
<1>5. n \in 0..Len(wanted) /\ Shown = [k \in 1..n |-> wanted[k]] /\ wanted \in Seq(EntryType)
  BY <1>1 DEF Progress, Printed, CopyInv
<1>6. CASE CopyWord /\ pc' \in Reading
  <2>1. pc \in Reading BY <1>6, ReadsNoMore
  <2>2. Following(n) BY <1>1, <2>1 DEF Progress
  <2>3. n + 1 <= Len(wanted) /\ Shown' = Shown \o <<wanted[n + 1]>>
    BY <1>1, <1>6, ShowsOneOrNone DEF CopyInv
  <2>4. PICK m : m = n + 1 OBVIOUS
  <2>5. Following(m)' BY <1>6, <2>2, <2>4, CopyWordFollows
  <2>6. m \in 0..Len(wanted) BY <1>5, <2>3, <2>4
  <2>7. Shown' = [k \in 1..m |-> wanted[k]]
    <3>1. Shown \in Seq(EntryType) /\ Len(Shown) = n /\ \A k \in 1..n : Shown[k] = wanted[k]
      BY <1>5
    <3>2. [k \in 1..m |-> wanted[k]] \in Seq(EntryType) BY <1>5, <2>6
    <3>3. PICK e : e = wanted[n + 1] OBVIOUS
    <3>4. e \in EntryType BY <1>5, <2>3, <3>3
    <3>5. Shown \o <<e>> \in Seq(EntryType) /\ Len(Shown \o <<e>>) = m
      BY <1>5, <2>4, <3>1, <3>4
    <3>6. ASSUME NEW k \in 1..m PROVE (Shown \o <<e>>)[k] = wanted[k]
      BY <1>5, <2>4, <3>1, <3>3, <3>4
    <3> QED BY <2>3, <3>2, <3>3, <3>5, <3>6
  <2>8. Printed(m)' BY <1>4, <2>6, <2>7 DEF Printed
  <2>9. Progress(m)' BY <1>6, <2>5, <2>8 DEF Progress, Reading
  <2> QED BY <1>2, <1>3, <1>4, <1>5, <2>9 DEF CopyInv
<1>7. CASE ~(CopyWord /\ pc' \in Reading)
  <2>1. Shown' = Shown BY <1>1, <1>7, ShowsOneOrNone DEF CopyInv
  <2>2. Printed(n)' BY <1>4, <1>5, <2>1 DEF Printed
  <2>3. pc' \in Reading => Following(n)'
    <3> SUFFICES ASSUME pc' \in Reading PROVE Following(n)' OBVIOUS
    <3>1. pc \in Reading /\ ~CopyWord BY <1>7, ReadsNoMore
    <3>2. Following(n) BY <1>1, <3>1 DEF Progress
    <3> QED BY <3>1, <3>2, FollowsOn
  <2>4. pc' \in {"cleanup", "report"} /\ ~interrupted' => n = Len(wanted)
    BY <1>1, ReturnsWithAll
  <2>5. Progress(n)' BY <1>4, <2>2, <2>3, <2>4 DEF Progress
  <2> QED BY <1>2, <1>3, <1>4, <1>5, <2>5 DEF CopyInv
<1> QED BY <1>6, <1>7

-----------------------------------------------------------------------------
(* Every step is one of AnnotatedCopy, or changes nothing of it.           *)
LEMMA CopyStarts == Init => Copy!Init
<1> SUFFICES ASSUME Init PROVE Copy!Init OBVIOUS
<1>1. output = <<>> /\ exit_status = -1 BY DEF Init
<1>2. ShownEach(<<>>) = <<>> BY DEF ShownEach
<1>3. Shown = <<>> BY <1>1, <1>2, FlattenEmpty, ShownIs DEF ShownOf
<1> QED BY <1>1, <1>3 DEF Copy!Init

LEMMA CopySteps ==
    ASSUME CountsInv, LineInv, LineInv', RestType, CopyInv, [Next]_vars, ~Shrink
    PROVE  [Copy!Show \/ Copy!Complete \/ Copy!Stop]_Copy!copy
<1>1. PICK n : Progress(n) BY DEF CopyInv
<1>2. wanted' = wanted BY WantedStays
<1>3. n \in 0..Len(wanted) /\ Shown = [k \in 1..n |-> wanted[k]] /\ wanted \in Seq(EntryType)
  BY <1>1 DEF Progress, Printed, CopyInv
<1>4. Len(Shown) = n /\ Shown \in Seq(EntryType) BY <1>3
<1>5. CASE CopyWord /\ pc' \in Reading
  <2>1. n + 1 <= Len(wanted) /\ Shown' = Shown \o <<wanted[n + 1]>>
    BY <1>1, <1>5, ShowsOneOrNone DEF CopyInv
  <2>2. ~Report
    BY <1>5 DEF Report, Reading
  <2>3. exit_status' = exit_status BY <2>2, OutcomeStays DEF CopyInv
  <2>4. exit_status = -1
    <3>1. pc \in Reading BY <1>5, ReadsNoMore
    <3> QED BY <3>1 DEF CopyInv, Reading
  <2>5. Shown' = Append(Shown, wanted[Len(Shown) + 1]) BY <1>4, <2>1
  <2>6. Len(Shown) < Len(wanted) BY <1>3, <1>4, <2>1
  <2>7. Copy!Show BY <1>2, <2>3, <2>4, <2>5, <2>6 DEF Copy!Show, Succeeded
  <2> QED BY <2>7
<1>6. CASE ~(CopyWord /\ pc' \in Reading)
  <2>1. Shown' = Shown BY <1>1, <1>6, ShowsOneOrNone DEF CopyInv
  <2>2. CASE ~Report
    <3>1. exit_status' = exit_status BY <2>2, OutcomeStays DEF CopyInv
    <3> QED BY <1>2, <2>1, <3>1 DEF Copy!copy, Succeeded
  <2>3. CASE Report
    <3>1. pc = "report" /\ exit_status' = Status BY <2>3 DEF Report
    <3>2. exit_status = -1 BY <3>1 DEF CopyInv
    <3>3. CASE interrupted
      <4>1. exit_status' = 2 BY <3>1, <3>3 DEF Status
      <4>2. Copy!Stop BY <1>2, <2>1, <3>2, <4>1 DEF Copy!Stop, Succeeded
      <4> QED BY <4>2
    <3>4. CASE ~interrupted
      <4>1. exit_status' \in {0, 1} BY <3>1, <3>4 DEF Status
      <4>2. n = Len(wanted) BY <1>1, <3>1, <3>4 DEF Progress
      <4>3. Shown = wanted BY <1>3, <4>2
      <4>4. Copy!Complete BY <1>2, <2>1, <3>2, <4>1, <4>3 DEF Copy!Complete, Succeeded
      <4> QED BY <4>4
    <3> QED BY <3>3, <3>4
  <2> QED BY <2>2, <2>3
<1> QED BY <1>5, <1>6

(* Where the files keep their length between the counting of their words   *)
(* and the copying, the two readers, one skipping and the other copying as *)
(* options -1, -2 and -3 say, show the words of the comparison in order,   *)
(* each once, as what they are, and a run that no signal stops has shown   *)
(* them all.  The hypothesis is needed: reformat_diff_output goes on at    *)
(* the end of a file that has shrunk, and reports no error.                *)
THEOREM WordsShown ==
    ASSUME TRUE \notin Shrinks
    PROVE  Spec => ShowsComparison
<1> DEFINE Inv == ShowInv /\ CopyInv
<1>1. Init => Inv BY ShowInit, CopyInit
<1>2. ~Shrink BY DEF Shrink
<1>3. Inv /\ [Next]_vars => Inv'
  <2> SUFFICES ASSUME Inv, [Next]_vars PROVE Inv' OBVIOUS
  <2>1. ShowInv' BY ShowNext
  <2>2. CopyInv' BY <1>2, <2>1, CopyNext DEF ShowInv
  <2> QED BY <2>1, <2>2
<1>4. Inv /\ Inv' /\ [Next]_vars => [Copy!Show \/ Copy!Complete \/ Copy!Stop]_Copy!copy
  BY <1>2, CopySteps DEF ShowInv
<1>5. Init => Copy!Init BY CopyStarts
<1> QED BY <1>1, <1>3, <1>4, <1>5, PTL DEF Spec, ShowsComparison, Copy!Spec
=============================================================================
