--------------------------- MODULE MdiffClusters ---------------------------
(***************************************************************************)
(* The first half of mdiff.c: the items of all input files, laid end to    *)
(* end between sentinels (study_all_inputs), and the search for clusters,  *)
(* the runs of items repeated at several places (prepare_clusters).        *)
(* Indices count from 1 where the program counts from 0.                   *)
(***************************************************************************)
EXTENDS Integers, Sequences, FiniteSets, SequencesExt

CONSTANTS
    Alnums,       \* words, or lines with a letter or a digit, as numbers
    Delimiters,   \* lines of punctuation only
    Blanks,       \* lines of white space only
    Corpus,       \* the input files studied, sequences of sequences of lines
    Commands      \* the command lines studied

Lines == Alnums \cup Delimiters \cup Blanks

(* What the options choose: relist_files, word_mode, minimum_size, the     *)
(* -i family, and the listings that are allowed.                           *)
Options == [relist_files : BOOLEAN, word_mode : BOOLEAN, minimum_size : Nat,
            ignore_delimiters : BOOLEAN, ignore_blank_lines : BOOLEAN,
            inhibit : SUBSET {1, 2}]

ASSUME InputsAssumption ==
    /\ Lines \subseteq Nat
    /\ \A K, L \in {Alnums, Delimiters, Blanks} : K = L \/ K \cap L = {}
    /\ Corpus \subseteq Seq(Seq(Lines))
    /\ Commands \subseteq Options
    /\ \A c \in Commands : c.minimum_size > 0

VARIABLES
    files,               \* the input files, each its words or lines
    options,
    stage,               \* "study", "set", "tallest", "gather", "overlap", ..., "aborted"
    item_array,
    first_item,          \* of each input, index in item_array
    item_limit,
    indirect_item_array, \* items in the order of what follows them
    cluster_set,         \* index in it of the set of clusters being made
    size_array,          \* items in common between neighbours in the set
    cluster_size,        \* size of the clusters being made
    size,                \* cursor in size_array
    sorter_array,        \* putative members of a cluster, in textual order
    kept,                \* those that do not overlap
    cluster_array,
    member_array

inputs == <<files, options>>
items == <<item_array, first_item, item_limit, indirect_item_array>>
sets == <<cluster_set, size_array, cluster_size, size, sorter_array, kept>>
clusters == <<cluster_array, member_array>>
clusterVars == <<inputs, stage, items, sets, clusters>>

-----------------------------------------------------------------------------
(* Items.                                                                  *)

Sentinel == [type |-> "SENTINEL", checksum |-> 0]

ItemType(l) ==
    IF l \in Alnums THEN "NORMAL"
    ELSE IF l \in Blanks /\ options.ignore_blank_lines THEN "WHITE"
    ELSE IF options.ignore_delimiters THEN "DELIMS" ELSE "NORMAL"

StudyInput(f) == [n \in DOMAIN f |-> [type |-> ItemType(f[n]), checksum |-> f[n]]]

(* FORWARD_ITEM and BACKWARD_ITEM.                                         *)
Nearest(i, step) ==
    CHOOSE j \in DOMAIN item_array :
      /\ j * step > i * step /\ item_array[j].type # "WHITE"
      /\ \A k \in DOMAIN item_array :
           k * step > i * step /\ k * step < j * step => item_array[k].type = "WHITE"
Forward(i) == Nearest(i, 1)
Backward(i) == Nearest(i, -1)

(* What is compared, starting from an item: all up to the end of its file. *)
Run(i) ==
    LET end == CHOOSE e \in i..Len(item_array) :
                 /\ item_array[e].type = "SENTINEL"
                 /\ \A k \in i..(e - 1) : item_array[k].type # "SENTINEL"
    IN  SelectSeq(SubSeq(item_array, i, end - 1), LAMBDA it : it.type # "WHITE")

(* How many items two runs begin with alike.                               *)
InCommon(r, q) ==
    LET differ == {n \in DOMAIN r : n > Len(q) \/ r[n] # q[n]}
    IN  IF differ = {} THEN Len(r) ELSE Min(differ) - 1

Normals(s) == Len(SelectSeq(s, LAMBDA it : it.type = "NORMAL"))

IdenticalSize(i, j) ==
    LET r == Run(i)
    IN  Normals(SubSeq(r, 1, InCommon(r, Run(j))))

ItemDistance(start, finish) == Normals(SubSeq(item_array, start, finish - 1))

(* compare_for_checksum_runs: the end of a file comes after any checksum.  *)
Precedes(i, j) ==
    LET r == Run(i)  q == Run(j)  n == InCommon(r, q)
    IN  CASE Len(r) > n /\ Len(q) > n -> r[n + 1].checksum < q[n + 1].checksum
          [] Len(r) > n /\ Len(q) = n -> TRUE
          [] Len(r) = n /\ Len(q) > n -> FALSE
          [] OTHER -> i < j

StudyAllInputs ==
    /\ stage = "study"
    /\ item_array' = FoldLeft(LAMBDA a, f : a \o StudyInput(f) \o <<Sentinel>>, <<Sentinel>>, files)
    /\ LET sentinels == SelectSeq([i \in DOMAIN item_array' |-> i],
                                  LAMBDA i : item_array'[i].type = "SENTINEL")
       IN  /\ first_item' = [k \in DOMAIN files |-> sentinels[k] + 1]
           /\ item_limit' = [k \in DOMAIN files |-> sentinels[k + 1]]
    /\ stage' = "sort"
    /\ UNCHANGED <<inputs, indirect_item_array, sets, clusters>>

(* How prepare_clusters begins.                                            *)
SortItems ==
    /\ stage = "sort"
    /\ indirect_item_array' =
         SortSeq(SelectSeq([i \in DOMAIN item_array |-> i],
                           LAMBDA i : item_array[i].type \in {"NORMAL", "DELIMS"}),
                 Precedes)
    /\ stage' = "set"
    /\ UNCHANGED <<inputs, item_array, first_item, item_limit, sets, clusters>>

-----------------------------------------------------------------------------
(* Clusters.                                                               *)

(* From the first member of a cluster up to that of the next.              *)
Members(c) ==
    cluster_array[c].first_member..
      (IF c = Len(cluster_array) THEN Len(member_array)
       ELSE cluster_array[c + 1].first_member - 1)

(* All the items from cluster_set on that go on like their predecessor for *)
(* minimum_size items.                                                     *)
BeginSet ==
    /\ stage = "set"
    /\ cluster_set < Len(indirect_item_array)
    /\ LET Alike(n) == IdenticalSize(indirect_item_array[n], indirect_item_array[n + 1])
           last == CHOOSE n \in cluster_set..Len(indirect_item_array) :
                     /\ \A k \in cluster_set..(n - 1) : Alike(k) >= options.minimum_size
                     /\ n < Len(indirect_item_array) => Alike(n) < options.minimum_size
       IN  IF last = cluster_set
           THEN /\ cluster_set' = cluster_set + 1
                /\ UNCHANGED <<stage, size_array, cluster_size>>
           ELSE /\ size_array' = [n \in 1..(last - cluster_set) |-> Alike(cluster_set + n - 1)]
                /\ cluster_size' = 0
                /\ stage' = "tallest"
                /\ UNCHANGED cluster_set
    /\ UNCHANGED <<inputs, items, size, sorter_array, kept, clusters>>

(* The sizes not yet processed.                                            *)
LowerOrSame == {n \in ToSet(size_array) : n > 0 /\ (cluster_size = 0 \/ n <= cluster_size)}
Lower == {n \in ToSet(size_array) : n > 0 /\ (cluster_size = 0 \/ n < cluster_size)}

(* The greatest of them; none is left: the next set.                       *)
Tallest ==
    /\ stage = "tallest"
    /\ IF Lower = {}
       THEN /\ cluster_set' = cluster_set + Len(size_array) + 1
            /\ stage' = "set"
            /\ cluster_size' = 0
            /\ UNCHANGED size
       ELSE /\ cluster_size' = Max(Lower)
            /\ size' = 1
            /\ stage' = "gather"
            /\ UNCHANGED cluster_set
    /\ UNCHANGED <<inputs, items, size_array, sorter_array, kept, clusters>>

(* Whether all these items follow identical ones.                          *)
PrecededAlikeAtStart(member_set) ==
    Cardinality({item_array[Backward(i)].checksum : i \in member_set}) = 1
PrecededAlike(member_set) ==
    /\ \A i \in member_set : item_array[Backward(i)].type # "SENTINEL"
    /\ Cardinality({item_array[Backward(i)].checksum : i \in member_set}) = 1

(* The next neighbours with cluster_size items in common are the putative  *)
(* members of a cluster, unless they are part of a bigger one.             *)
Gather ==
    /\ stage = "gather"
    /\ LET tall == {n \in size..Len(size_array) : size_array[n] >= cluster_size}
           from == Min(tall)
           to == CHOOSE n \in from..Len(size_array) :
                   /\ from..n \subseteq tall
                   /\ n + 1 \notin tall
           member_set == SubSeq(indirect_item_array, cluster_set + from - 1, cluster_set + to)
           sorted == SortSeq(member_set, <)
       IN  IF tall = {}
           THEN /\ stage' = "tallest"
                /\ UNCHANGED <<size, sorter_array, kept>>
           ELSE /\ size' = to + 1
                /\ IF PrecededAlike(ToSet(member_set))
                   THEN UNCHANGED <<stage, sorter_array, kept>>
                   ELSE /\ sorter_array' = Tail(sorted)
                        /\ kept' = <<Head(sorted)>>
                        /\ stage' = "overlap"
    /\ UNCHANGED <<inputs, items, cluster_set, size_array, cluster_size, clusters>>

Overlap ==
    /\ stage = "overlap" /\ sorter_array # <<>>
    /\ LET next == Head(sorter_array)
           distance == ItemDistance(Last(kept), next)
           of == {n \in DOMAIN size_array :
                    indirect_item_array[cluster_set + n - 1] \in {Last(kept), next}}
           counter2 == Min(of)
       IN  \/ /\ distance >= cluster_size
              /\ kept' = Append(kept, next)
              /\ UNCHANGED <<stage, size_array>>
           \/ /\ distance < cluster_size
              /\ IF of # {} /\ distance < size_array[counter2]
                 THEN /\ size_array' = [size_array EXCEPT ![counter2] = distance]
                      /\ UNCHANGED stage
                 ELSE /\ stage' = "aborted"
                      /\ UNCHANGED size_array
              /\ UNCHANGED kept
    /\ sorter_array' = Tail(sorter_array)
    /\ UNCHANGED <<inputs, items, cluster_set, cluster_size, size, clusters>>

(* A cluster of the members that remain, if there are two.                 *)
NewCluster ==
    /\ stage = "overlap" /\ sorter_array = <<>>
    /\ IF Len(kept) >= 2
       THEN /\ cluster_array' = Append(cluster_array, [first_member |-> Len(member_array) + 1,
                                                       item_count |-> cluster_size])
            /\ member_array' = member_array \o
                 [n \in DOMAIN kept |-> [cluster_number |-> Len(cluster_array) + 1,
                                         first_item |-> kept[n]]]
       ELSE UNCHANGED clusters
    /\ stage' = "gather"
    /\ kept' = <<>>
    /\ UNCHANGED <<inputs, items, cluster_set, size_array, cluster_size, size, sorter_array>>

ClusterNext ==
    \/ StudyAllInputs \/ SortItems \/ BeginSet \/ Tallest \/ Gather \/ Overlap \/ NewCluster

ClustersDone == stage = "set" /\ cluster_set >= Len(indirect_item_array)

ClusterInit ==
    /\ options \in Commands
    /\ files \in Corpus
    /\ options.word_mode => ToSet(FlattenSeq(files)) \subseteq Alnums
    /\ options.word_mode /\ ~options.relist_files => Len(files) = 2
    /\ options.inhibit # {} => Len(files) = 2
    /\ stage = "study"
    /\ item_array = <<>> /\ first_item = <<>> /\ item_limit = <<>>
    /\ indirect_item_array = <<>>
    /\ cluster_set = 1
    /\ size_array = <<>> /\ cluster_size = 0 /\ size = 1
    /\ sorter_array = <<>> /\ kept = <<>>
    /\ cluster_array = <<>> /\ member_array = <<>>

-----------------------------------------------------------------------------
(* Properties.                                                             *)

Window(i, count) ==
    LET r == Run(i)
        last == CHOOSE n \in DOMAIN r : r[n].type = "NORMAL" /\ Normals(SubSeq(r, 1, n)) = count
    IN  SubSeq(r, 1, last)

(* Two occurrences of a run that overlap: text that repeats itself.        *)
RepeatsItself ==
    \E i, j \in DOMAIN item_array :
      /\ i < j
      /\ item_array[i].type = "NORMAL" /\ item_array[j].type = "NORMAL"
      /\ Normals(SubSeq(Run(i), 1, InCommon(Run(i), Run(j)))) > ItemDistance(i, j)

Within(m, i) ==
    LET first == member_array[m].first_item
        Covers(c) == m \in Members(c) /\ ItemDistance(first, i) < cluster_array[c].item_count
    IN  /\ first <= i
        /\ \A k \in first..i : item_array[k].type # "SENTINEL"
        /\ \E c \in DOMAIN cluster_array : Covers(c)

(* mdiff.c, Clusters and members: a cluster is one run of items repeated   *)
(* at two or more places.  The members of a cluster are the same run of    *)
(* item_count normal items, with the same delimiters between them, and no  *)
(* two of them overlap, however many times the text repeats itself.        *)
(* mdiff.texi, mdiff: "What remains, once all cluster members are          *)
(* conceptually removed from all input files, is a set of differences":    *)
(* with a minimum size of 1 no item that occurs twice is left outside all  *)
(* members, although clusters within others are dropped, and members that  *)
(* overlap are skipped and their sizes chopped.                            *)
MembersAreRepeats ==
    ClustersDone =>
      /\ \A c \in DOMAIN cluster_array :
           /\ Cardinality(Members(c)) >= 2
           /\ Cardinality({Window(member_array[m].first_item, cluster_array[c].item_count) :
                            m \in Members(c)}) = 1
           /\ \A m, n \in Members(c) : m < n =>
                /\ member_array[m].first_item < member_array[n].first_item
                /\ ItemDistance(member_array[m].first_item, member_array[n].first_item)
                     >= cluster_array[c].item_count
      /\ options.minimum_size = 1 =>
           \A i, j \in DOMAIN item_array :
             item_array[i].type = "NORMAL" /\ item_array[j] = item_array[i] /\ i # j =>
               \E m \in DOMAIN member_array : Within(m, i)
=============================================================================
