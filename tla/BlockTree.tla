----------------------------- MODULE BlockTree -----------------------------
(***************************************************************************)
(* The tree of variable blocks (src/src/tree.c). A block is a range of     *)
(* variables; blocks next to each other are a doubly linked list, and the  *)
(* blocks inside a block are its nextlevel list. The tree is a record:     *)
(*   block[b]  the fields of block b                                       *)
(*   kids[b]   the list below b, kids[Top] the list vartree points to      *)
(* A block that nothing reaches any more is not in the record.             *)
(***************************************************************************)
EXTENDS Integers, SequencesExt, FiniteSetsExt

Top   == -1      (* the id bdd_reorder gives the node above vartree        *)
Unset == -2      (* an entry of seq that was never written                 *)
FIXED == 1
FREE  == 0

EmptyTree == [block |-> <<>>, kids |-> [p \in {Top} |-> <<>>]]

Ids(tree) == DOMAIN tree.block
VarsOf(tree, b) == tree.block[b].first .. tree.block[b].last

(* update_seq. Variable v goes to the place its level has above the level  *)
(* of the topmost variable, so that variables scattered over the order     *)
(* leave places unwritten.                                                 *)
InCurrentOrder(level, first, last) ==
  LET low == CHOOSE v \in first..last : \A w \in first..last : level[v] <= level[w] IN
  [p \in 0..(last - first) |->
     LET there == {v \in first..last : level[v] - level[low] = p}
     IN  IF there = {} THEN Unset ELSE CHOOSE v \in there : TRUE]

NewBlock(level, first, last, fixed) ==
  [first |-> first, last |-> last, fixed |-> fixed, seq |-> InCurrentOrder(level, first, last)]

(* The first block of list L that does not end before variable first, or   *)
(* the end of the list.                                                    *)
StopsAt(tree, L, first) ==
  LET stops == {i \in DOMAIN L : first <= tree.block[L[i]].last}
  IN  IF stops = {} THEN Len(L) + 1 ELSE Min(stops)

SameRange(b, first, last) == b.first = first /\ b.last = last
Within(b, first, last)    == b.first <= first /\ last <= b.last

(* The list, and the place in it, where bddtree_addrange_rec ends: it goes *)
(* down into every block the range is inside of.                           *)
Place(tree, first, last) ==
  LET from[p \in DOMAIN tree.kids] ==
        LET L == tree.kids[p]
            i == StopsAt(tree, L, first)
        IN  IF /\ i <= Len(L)
               /\ Within(tree.block[L[i]], first, last)
               /\ ~ SameRange(tree.block[L[i]], first, last)
            THEN from[L[i]]
            ELSE [list |-> p, at |-> i]
  IN  from[Top]

(* What is left of a tree when list p becomes L: the blocks that are still *)
(* reached.                                                                *)
WithList(tree, p, L) ==
  LET kids == [tree.kids EXCEPT ![p] = L]
      below[b \in DOMAIN kids] == {b} \cup UNION {below[c] : c \in ToSet(kids[b])}
  IN  [block |-> [b \in below[Top] \ {Top} |-> tree.block[b]],
       kids  |-> [b \in below[Top] |-> kids[b]]]

(* A new block id in place of blocks i..j of list p, which go below it.    *)
Wrap(tree, p, i, j, id, new) ==
  LET L == tree.kids[p] IN
  [block |-> [b \in Ids(tree) \cup {id} |-> IF b = id THEN new ELSE tree.block[b]],
   kids  |-> [b \in DOMAIN tree.kids \cup {id} |->
                CASE b = id -> SubSeq(L, i, j)
                  [] b = p  -> SubSeq(L, 1, i - 1) \o <<id>> \o SubSeq(L, j + 1, Len(L))
                  [] OTHER  -> tree.kids[b]]]

(* The last block of the run that starts at i and ends before the first    *)
(* block behind variable last.                                             *)
RunEnd(tree, L, i, last) ==
  Min({j \in i..Len(L) : j = Len(L) \/ last < tree.block[L[j + 1]].first})

(* bddtree_addrange: the tree with the range in it, or NULL, which is no   *)
(* tree at the root and cuts the list off further down.                    *)
AddRange(tree, level, first, last, fixed, id) ==
  LET place == Place(tree, first, last)
      p == place.list
      i == place.at
      L == tree.kids[p]
      b == tree.block[L[i]]
      j == RunEnd(tree, L, i, last)
      new == NewBlock(level, first, last, fixed)
      partly == \/ first > b.first
                \/ \E k \in i..j : LET c == tree.block[L[k]] IN c.first <= last /\ last < c.last
      null == IF p = Top /\ i = 1 THEN [ok |-> FALSE, tree |-> tree]
              ELSE [ok |-> TRUE, tree |-> WithList(tree, p, SubSeq(L, 1, i - 1))]
  IN  IF first < 0 \/ last < first THEN [ok |-> FALSE, tree |-> tree]
      ELSE IF i <= Len(L) /\ SameRange(b, first, last) THEN [ok |-> TRUE, tree |-> tree]
      ELSE IF i > Len(L) \/ last < b.first
           THEN [ok |-> TRUE, tree |-> Wrap(tree, p, i, i - 1, id, new)]
      ELSE IF partly THEN null ELSE [ok |-> TRUE, tree |-> Wrap(tree, p, i, j, id, new)]

(* Two ranges that share variables and of which neither is in the other.   *)
Overlap(b, first, last) ==
  \/ b.first < first /\ first <= b.last /\ b.last < last
  \/ first < b.first /\ b.first <= last /\ last < b.last

(* The order of a block's variables after qsort(seq, ..., varseqCmp).      *)
Sorted(level, b) ==
  [p \in 0..(b.last - b.first) |->
     CHOOSE v \in b.first..b.last : Cardinality({w \in b.first..b.last : level[w] < level[v]}) = p]
=============================================================================
