------------------------------- MODULE Mdiff -------------------------------
(***************************************************************************)
(* The second half of mdiff.c: the members of the clusters in the order of *)
(* the text (prepare_indirects), the groups of members that the files are  *)
(* merged along (prepare_mergings), and the listings made of them.         *)
(***************************************************************************)
EXTENDS MdiffClusters

VARIABLES
    indirect_array,   \* members in textual order
    indirect_cursor,  \* of each input, its next member in indirect_array
    indirect_limit,
    merging_array,
    item,             \* of each input, input->item
    cursor,           \* the listing's place in merging_array or indirect_array
    actives,          \* the members being listed, and the columns left by others
    other_count,      \* how many of them are active in other files
    emphasis,         \* current_emphasis: "STRAIGHT" | "BOLD"
    output            \* the items listed, and how

merging == <<indirect_array, indirect_cursor, indirect_limit, merging_array>>
listing == <<cursor, actives, other_count, emphasis, output>>
vars == <<clusterVars, merging, item, listing>>

-----------------------------------------------------------------------------
(* Members.                                                                *)

ItemCount(m) == cluster_array[member_array[m].cluster_number].item_count

(* The items of a member: item_count normal items and what is between, and *)
(* the delimiters after them but for the last.                             *)
RealMemberSize(m) ==
    LET first == member_array[m].first_item
        past == CHOOSE e \in (first + 1)..Len(item_array) :
                  /\ ItemDistance(first, e) = ItemCount(m)
                  /\ item_array[e - 1].type = "NORMAL"
        delims == {e \in past..Len(item_array) :
                     /\ item_array[e].type = "DELIMS"
                     /\ \A k \in past..e : item_array[k].type \in {"DELIMS", "WHITE"}}
    IN  IF delims = {} THEN past - first
        ELSE Max(delims) - first

Past(m) == member_array[m].first_item + RealMemberSize(m)

InputOf(i) == CHOOSE k \in DOMAIN files : i \in first_item[k]..(item_limit[k] - 1)

(* compare_for_member_start.                                               *)
StartsBefore(m, n) ==
    \/ member_array[m].first_item < member_array[n].first_item
    \/ /\ member_array[m].first_item = member_array[n].first_item
       /\ ItemCount(m) > ItemCount(n)
    \/ /\ member_array[m].first_item = member_array[n].first_item
       /\ ItemCount(m) = ItemCount(n)
       /\ m < n

PrepareIndirects ==
    /\ ClustersDone
    /\ indirect_array' = SortSeq([m \in DOMAIN member_array |-> m], StartsBefore)
    /\ item' = first_item
    /\ stage' = IF options.relist_files THEN "relist" ELSE "overlaps"
    /\ UNCHANGED <<inputs, items, sets, clusters, indirect_cursor, indirect_limit,
                   merging_array, listing>>

ClearAlways(n) == TRUE
Clear(n) ==
    n < Len(indirect_array) =>
      Past(indirect_array[n]) <= member_array[indirect_array[n + 1]].first_item

(* The start of prepare_mergings: of two members that overlap the first is *)
(* dropped; then each input gets its segment of indirect_array.            *)
RemoveOverlaps ==
    /\ stage = "overlaps"
    /\ LET valid == {indirect_array[n] : n \in {k \in DOMAIN indirect_array : Clear(k)}}
           left == SelectSeq(indirect_array, LAMBDA m : m \in valid)
           Until(k) == Len(SelectSeq(left, LAMBDA m : member_array[m].first_item < item_limit[k]))
       IN  /\ indirect_array' = left
           /\ member_array' = [m \in DOMAIN member_array |->
                 IF m \in valid THEN member_array[m]
                 ELSE [member_array[m] EXCEPT !.cluster_number = 0]]
           /\ indirect_limit' = [k \in DOMAIN files |-> Until(k) + 1]
           /\ indirect_cursor' = [k \in DOMAIN files |-> IF k = 1 THEN 1 ELSE Until(k - 1) + 1]
    /\ stage' = "mergings"
    /\ UNCHANGED <<inputs, items, sets, cluster_array, merging_array, item, listing>>

-----------------------------------------------------------------------------
(* Mergings.                                                               *)

Waiting == {k \in DOMAIN files : indirect_cursor[k] < indirect_limit[k]}

InputCluster(k) == member_array[indirect_array[indirect_cursor[k]]].cluster_number

(* The members of a cluster still to be listed, and the first in a file.   *)
Ahead(c, k) == {m \in DOMAIN member_array :
                  /\ member_array[m].cluster_number = c
                  /\ member_array[m].first_item \in item[k]..(item_limit[k] - 1)}
Direct(c, k) == Min(Ahead(c, k))

(* The differences to be listed before the cluster can be.                 *)
Cost(c) == FoldLeft(LAMBDA n, k : IF Ahead(c, k) = {} THEN n
                                  ELSE n + member_array[Direct(c, k)].first_item - item[k],
                    0, [k \in DOMAIN files |-> k])

(* The cheapest of the clusters that come next in some file.               *)
BestInput ==
    CHOOSE k \in Waiting : \A j \in Waiting :
      \/ Cost(InputCluster(k)) < Cost(InputCluster(j))
      \/ Cost(InputCluster(k)) = Cost(InputCluster(j)) /\ k <= j

Merging(m, k, crossed) == [group_flag |-> FALSE, cross_flag |-> crossed, input |-> k, member |-> m]

(* In one file: the members before the direct one are crossed.             *)
MergingsOf(c, k) ==
    IF Ahead(c, k) = {} THEN <<>>
    ELSE LET at == CHOOSE n \in DOMAIN indirect_array : indirect_array[n] = Direct(c, k)
         IN  [n \in 1..(at - indirect_cursor[k] + 1) |->
                Merging(indirect_array[indirect_cursor[k] + n - 1], k,
                        indirect_cursor[k] + n - 1 < at)]

(* One turn of the loop of prepare_mergings: a group.                      *)
MergeGroup ==
    /\ stage = "mergings" /\ Waiting # {}
    /\ LET c == InputCluster(BestInput)
           of == [k \in DOMAIN files |-> MergingsOf(c, k)]
           group == FlattenSeq(of)
       IN  /\ merging_array' = merging_array \o [group EXCEPT ![1].group_flag = TRUE]
           /\ indirect_cursor' = [k \in DOMAIN files |-> indirect_cursor[k] + Len(of[k])]
           /\ item' = [k \in DOMAIN files |->
                         IF of[k] = <<>> THEN item[k] ELSE Past(Direct(c, k))]
    /\ UNCHANGED <<inputs, items, sets, clusters, stage, indirect_array, indirect_limit, listing>>

EndMergings ==
    /\ stage = "mergings" /\ Waiting = {}
    /\ stage' = IF Len(merging_array) = Len(indirect_array) THEN "merged" ELSE "aborted"
    /\ item' = first_item
    /\ cursor' = 1
    /\ UNCHANGED <<inputs, items, sets, clusters, merging, actives, other_count, emphasis, output>>

-----------------------------------------------------------------------------
(* The merged listings, relist_merged_lines and relist_merged_words.       *)

(* An item listed: where from, the inputs or members it is said to belong  *)
(* to, and how it is shown: "plain", "marked" as a difference, or "bold".  *)
Entry(k, i, of, look) == [input |-> k, item |-> i, of |-> of, look |-> look]
Copied(k, from, to, of, look) ==
    [n \in 1..(to - from) |-> Entry(k, from + n - 1, of, look)]

Allowed(k) == ~options.word_mode \/ k \notin options.inhibit

MergedIn(group, k) == SelectSeq(group, LAMBDA g : g.input = k)

(* What comes before the direct member, which is the last, of a group:     *)
(* crossed members are copied with the rest.                               *)
DifferencesUncrossed(group, k) ==
    LET of == MergedIn(group, k)
        from == IF Len(of) > 1 THEN Past(of[Len(of) - 1].member) ELSE item[k]
    IN  IF of = <<>> \/ ~Allowed(k) THEN <<>>
        ELSE Copied(k, from, member_array[Last(of).member].first_item, {k}, "marked")
Differences(group, k) ==
    LET of == MergedIn(group, k)
    IN  IF of = <<>> \/ ~Allowed(k) THEN <<>>
        ELSE Copied(k, item[k], member_array[Last(of).member].first_item, {k}, "marked")

(* One turn of the loop: the differences of a group, then its direct       *)
(* members, the first copied and the others skipped.                       *)
ListGroup ==
    /\ stage = "merged" /\ cursor <= Len(merging_array)
    /\ LET limit == CHOOSE n \in (cursor + 1)..(Len(merging_array) + 1) :
                      /\ n <= Len(merging_array) => merging_array[n].group_flag
                      /\ \A k \in (cursor + 1)..(n - 1) : ~merging_array[k].group_flag
           group == SubSeq(merging_array, cursor, limit - 1)
           direct == SelectSeq(group, LAMBDA g : ~g.cross_flag)
           member == Head(direct).member
           InStep(of, k) == \A n \in DOMAIN of :
               member_array[of[n].member].first_item
                 >= (IF n = 1 THEN item[k] ELSE Past(of[n - 1].member))
       IN  IF \E k \in DOMAIN files : ~InStep(MergedIn(group, k), k)
           THEN /\ stage' = "aborted"
                /\ UNCHANGED <<output, item, cursor>>
           ELSE /\ output' = output
                     \o FlattenSeq([k \in DOMAIN files |-> Differences(group, k)])
                     \o Copied(Head(direct).input, member_array[member].first_item, Past(member),
                               {direct[n].input : n \in DOMAIN direct}, "plain")
                /\ item' = [k \in DOMAIN files |->
                     IF MergedIn(group, k) = <<>> THEN item[k]
                     ELSE Past(Last(MergedIn(group, k)).member)]
                /\ cursor' = limit
                /\ UNCHANGED stage
    /\ UNCHANGED <<inputs, items, sets, clusters, merging, actives, other_count, emphasis>>

(* The rest of each file.  Word mode asserts that white space follows its  *)
(* last word, which an empty file has none of.                             *)
ListRest ==
    /\ stage = "merged" /\ cursor > Len(merging_array)
    /\ IF options.word_mode /\ \E k \in DOMAIN files : Allowed(k) /\ files[k] = <<>>
       THEN /\ stage' = "aborted"
            /\ UNCHANGED <<output, item>>
       ELSE /\ output' = output \o FlattenSeq([k \in DOMAIN files |->
                  IF Allowed(k) THEN Copied(k, item[k], item_limit[k], {k}, "marked") ELSE <<>>])
            /\ item' = item_limit
            /\ stage' = "exited"
    /\ UNCHANGED <<inputs, items, sets, clusters, merging, cursor, actives, other_count, emphasis>>

-----------------------------------------------------------------------------
(* The annotated listing, relist_annotated_files.                          *)

ActiveElsewhere(m, k) ==
    \E n \in Members(member_array[m].cluster_number) :
      member_array[n].first_item < first_item[k] \/ Past(n) > item_limit[k]

CountElsewhere(s, k) == Len(SelectSeq(s, LAMBDA m : ActiveElsewhere(m, k)))

BraceLast(columns, m) ==
    LET active == [member |-> m, remaining |-> ItemCount(m)]
    IN  IF columns = <<>> THEN <<active>> ELSE Append(Front(columns), active)
(* A new member takes the rightmost column not in use, or one more.        *)
Brace(columns, m) ==
    LET free == {n \in DOMAIN columns : columns[n].member = 0}
        active == [member |-> m, remaining |-> ItemCount(m)]
    IN  IF free = {} THEN Append(columns, active)
        ELSE [columns EXCEPT ![Max(free)] = active]

(* The columns on the right that are no longer in use are given up.        *)
Trim(columns) ==
    LET used == {n \in DOMAIN columns : columns[n].member # 0}
    IN  IF used = {} THEN <<>>
        ELSE SubSeq(columns, 1, Max(used))

(* One item: the members that start there, the item, those that end there. *)
ListItem ==
    /\ stage = "relist"
    /\ \E k \in DOMAIN files :
        /\ item[k] < item_limit[k]
        /\ \A j \in 1..(k - 1) : item[j] = item_limit[j]
        /\ LET starting == SelectSeq(SubSeq(indirect_array, cursor, Len(indirect_array)),
                                     LAMBDA m : member_array[m].first_item = item[k])
               braced == FoldLeft(Brace, actives, starting)
               shared == other_count + CountElsewhere(starting, k)
               shown == IF other_count = 0 /\ shared > 0 THEN "BOLD" ELSE emphasis
               counted == [n \in DOMAIN braced |->
                   IF item_array[item[k]].type = "NORMAL" /\ braced[n].member # 0
                   THEN [braced[n] EXCEPT !.remaining = @ - 1] ELSE braced[n]]
               Ends(a) == a.member # 0 /\ a.remaining = 0
               ended == SelectSeq(counted, Ends)
               ending == [n \in DOMAIN ended |-> ended[n].member]
           IN  /\ output' = Append(output,
                    Entry(k, item[k], {braced[n].member : n \in DOMAIN braced} \ {0},
                          IF shown = "BOLD" THEN "bold" ELSE "plain"))
               /\ actives' = Trim([n \in DOMAIN counted |->
                    IF Ends(counted[n]) THEN [member |-> 0, remaining |-> 0] ELSE counted[n]])
               /\ other_count' = shared - CountElsewhere(ending, k)
               /\ emphasis' = IF CountElsewhere(ending, k) > 0 /\ other_count' = 0
                              THEN "STRAIGHT" ELSE shown
               /\ cursor' = cursor + Len(starting)
        /\ item' = [item EXCEPT ![k] = @ + 1]
        /\ stage' = IF item'[k] = item_limit[k] /\ (actives' # <<>> \/ other_count' # 0)
                    THEN "aborted" ELSE stage
    /\ UNCHANGED <<inputs, items, sets, clusters, merging>>

EndRelist ==
    /\ stage = "relist" /\ item = item_limit
    /\ stage' = "exited"
    /\ UNCHANGED <<inputs, items, sets, clusters, merging, item, listing>>

-----------------------------------------------------------------------------
Init ==
    /\ ClusterInit
    /\ indirect_array = <<>> /\ indirect_cursor = <<>> /\ indirect_limit = <<>>
    /\ merging_array = <<>>
    /\ item = <<>>
    /\ cursor = 1
    /\ actives = <<>> /\ other_count = 0 /\ emphasis = "STRAIGHT"
    /\ output = <<>>

Ended == stage \in {"exited", "aborted"}

Next ==
    \/ ClusterNext /\ UNCHANGED <<merging, item, listing>>
    \/ PrepareIndirects \/ RemoveOverlaps \/ MergeGroup \/ EndMergings
    \/ ListGroup \/ ListRest
    \/ ListItem \/ EndRelist
    \/ Ended /\ UNCHANGED vars

(* One process that nothing waits for, hence WF_vars(Next).  ENABLED       *)
(* <<Next>>_vars is written out as ~Ended: the absence of deadlocks says   *)
(* that some step can be taken, and every step but the last disjunct moves *)
(* a cursor, extends an array or changes the stage.                        *)
Fairness == []<>Ended \/ []<><<Next>>_vars

Spec == Init /\ [][Next]_vars /\ Fairness

-----------------------------------------------------------------------------
(* Properties.                                                             *)

NormalItems(s) == SelectSeq(s, LAMBDA it : it.type = "NORMAL")
ItemsOf(k) == SubSeq(item_array, first_item[k], item_limit[k] - 1)

(* mdiff, merged listings: from a merged listing every file that is listed *)
(* can be restored: what is marked as its own and what is said to be       *)
(* common to it, in the order of the listing, are all its words or lines.  *)
Restores ==
    stage = "exited" /\ ~options.relist_files =>
      \A k \in {j \in DOMAIN files : Allowed(j)} :
        LET of == SelectSeq(output, LAMBDA e : k \in e.of)
        IN  NormalItems([n \in DOMAIN of |-> item_array[of[n].item]]) = NormalItems(ItemsOf(k))

(* mdiff, annotated listing: the braces beside an item are those of the    *)
(* members that it is in, and it is bold if and only if one of them is     *)
(* repeated in another file, however members nest, overlap and end.        *)
BracesTell ==
    stage = "exited" /\ options.relist_files =>
      \A n \in DOMAIN output :
        LET of == {m \in DOMAIN member_array : Within(m, output[n].item)}
            Elsewhere(c) == \E m \in Members(c) :
                InputOf(member_array[m].first_item) # output[n].input
        IN  /\ output[n].of = of
            /\ (output[n].look = "bold") <=>
                 \E m \in of : Elsewhere(member_array[m].cluster_number)

(* mdiff.c is full of assertions: the members passed by the mergings are   *)
(* all of them, no listing goes back in a file, all braces are closed.     *)
(* They hold but on text that repeats itself, which prepare_clusters gives *)
(* up on, and the empty file that relist_merged_words expects words of.    *)
AssertionsHold ==
    stage = "aborted" =>
      \/ indirect_array = <<>> /\ RepeatsItself
      \/ options.word_mode /\ \E k \in DOMAIN files : files[k] = <<>>

(* mdiff comes to an end, of its own or at an assertion: the sizes that    *)
(* overlaps chop do not keep the search for clusters going, and every turn *)
(* of prepare_mergings passes a member.                                    *)
Terminates == <>Ended
=============================================================================
