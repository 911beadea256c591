--------------------------- MODULE NodeTableProofs ---------------------------
(***************************************************************************)
(* Proofs about NodeTable, for every value of its constants.               *)
(*                                                                         *)
(* A table is judged by GoodTable, over explicit values of its size, nodes *)
(* and free list, because bdd_makenode goes through intermediate tables:   *)
(* the collected one and the grown one. Each of them is shown good, then   *)
(* inserting a missing node into a good table is. The inductive invariant  *)
(* IInv adds what relates the table to the counts, the reference stack and *)
(* the progress of bdd_setvarnum.                                          *)
(***************************************************************************)
EXTENDS NodeTable, TLAPS, WellFoundedInduction, FiniteSetTheorems,
        SequenceTheorems

UsedOf(s, nd) == {n \in 2..(s - 1) : nd[n].low # FreeLow}

TypedTable(s, nd) ==
  /\ s \in Nat /\ s > 2
  /\ nd \in [0..(s - 1) -> NodeType]
  /\ \A n \in 0..(s - 1) : nd[n].low \in FreeLow..(s - 1) /\ nd[n].high \in 0..(s - 1)
  /\ \A n \in Terminal : nd[n].low = n /\ nd[n].high = n

ClosedTable(s, nd) ==
  \A n \in UsedOf(s, nd) :
    nd[n].low \in Terminal \cup UsedOf(s, nd) /\ nd[n].high \in Terminal \cup UsedOf(s, nd)

CanonicalTable(s, nd) ==
  /\ \A m, n \in UsedOf(s, nd) :
       (nd[m].level = nd[n].level /\ nd[m].low = nd[n].low /\ nd[m].high = nd[n].high) => m = n
  /\ \A n \in UsedOf(s, nd) : nd[n].low # nd[n].high

GoodTable(s, nd, fr) ==
  /\ TypedTable(s, nd)
  /\ fr = (2..(s - 1)) \ UsedOf(s, nd)
  /\ ClosedTable(s, nd)
  /\ CanonicalTable(s, nd)

(* The counts of a table, the references held on it and what reorderings   *)
(* have added.                                                             *)
GoodCounts(s, nd, hd, rd) ==
  /\ hd \in [0..(s - 1) -> Nat]
  /\ rd \in [0..(s - 1) -> Nat]
  /\ \A n \in 2..(s - 1) :
       /\ nd[n].refcou \in {hd[n] + rd[n], MaxRef}
       /\ nd[n].low = FreeLow => nd[n].refcou = 0 /\ hd[n] = 0 /\ rd[n] = 0

(* The slots of K are in use in table nd, and in table new as they were.   *)
Keeps(s, nd, t, new, K) ==
  /\ t >= s
  /\ K \subseteq UsedOf(s, nd) /\ K \subseteq UsedOf(t, new)
  /\ \A n \in Terminal \cup K : new[n] = nd[n]

IsNode(nd, n, l, lo, hi) == nd[n].level = l /\ nd[n].low = lo /\ nd[n].high = hi

Lacks(s, nd, l, lo, hi) ==
  \A n \in UsedOf(s, nd) : ~ (nd[n].level = l /\ nd[n].low = lo /\ nd[n].high = hi)

(* The node <<l, lo, hi>> is missing and may be put in the table.          *)
Insertable(s, nd, fr, l, lo, hi) ==
  /\ GoodTable(s, nd, fr)
  /\ l \in Nat
  /\ lo \in Terminal \cup UsedOf(s, nd) /\ hi \in Terminal \cup UsedOf(s, nd)
  /\ lo # hi
  /\ Lacks(s, nd, l, lo, hi)

Fills(s, nd, fr, r, l, lo, hi, filled) ==
  /\ Insertable(s, nd, fr, l, lo, hi)
  /\ r \in fr
  /\ filled = [nd EXCEPT ![r] = [refcou |-> nd[r].refcou, level |-> l, low |-> lo, high |-> hi]]

IsFilled(s, nd, fr, r, l, lo, hi, filled) ==
  /\ GoodTable(s, filled, fr \ {r})
  /\ UsedOf(s, filled) = UsedOf(s, nd) \cup {r}
  /\ \A n \in 0..(s - 1) \ {r} : filled[n] = nd[n]
  /\ filled[r].refcou = nd[r].refcou
  /\ filled[r].level = l /\ filled[r].low = lo /\ filled[r].high = hi

(* The same nodes, but for counts that have grown.                         *)
KeepsShape(s, nd, t, new, K) ==
  /\ t >= s
  /\ K \subseteq UsedOf(s, nd) /\ K \subseteq UsedOf(t, new)
  /\ \A n \in Terminal : new[n] = nd[n]
  /\ \A n \in K : /\ new[n].level = nd[n].level
                  /\ new[n].low = nd[n].low /\ new[n].high = nd[n].high
                  /\ new[n].refcou >= nd[n].refcou /\ new[n].refcou <= MaxRef

GrownHeld(s) == [n \in 0..(s - 1) |-> IF n < size THEN held[n] ELSE 0]
GrownRaised(s) == [n \in 0..(s - 1) |-> IF n < size THEN raised[n] ELSE 0]

TableInv ==
  /\ GoodTable(size, node, free)
  /\ GoodCounts(size, node, held, raised)
  /\ IsPrime(size)

-----------------------------------------------------------------------------
(* The least element of a set of numbers.                                  *)

(* A nonempty set of numbers has an element no other is below.             *)
LEMMA LeastExists ==
  ASSUME NEW S \in SUBSET Nat, S # {}
  PROVE  \E x \in S : \A y \in S : ~ (y < x)
<1>1. PICK x \in S : \A y \in S : ~ (<<y, x>> \in OpToRel(<, Nat))
  BY WFMin, NatLessThanWellFounded
<1>2. \A y \in S : ~ (y < x)
  <2> TAKE y \in S
  <2>1. <<y, x>> \in Nat \X Nat
    OBVIOUS
  <2> QED
    BY <1>1, <2>1 DEF OpToRel
<1> QED
  BY <1>2

(* The slot bdd_makenode takes is on the free list.                        *)
LEMMA MinimumIsLeast ==
  ASSUME NEW S \in SUBSET Nat, S # {}
  PROVE  Minimum(S) \in S /\ \A y \in S : Minimum(S) <= y
<1>1. PICK x \in S : \A y \in S : ~ (y < x)
  BY LeastExists
<1>2. \A y \in S : x <= y
  BY <1>1
<1> QED
  BY <1>2 DEF Minimum

-----------------------------------------------------------------------------
(* Marking.                                                                *)

(* bdd_mark marks its roots and only used nodes, and leaves no marked node *)
(* with an unmarked child.                                                 *)
LEMMA MarkedFromClosed ==
  ASSUME NoDanglingChild, NEW roots \in SUBSET Used
  PROVE  /\ roots \subseteq MarkedFrom(roots)
         /\ MarkedFrom(roots) \subseteq Used
         /\ ClosedUnderChildren(MarkedFrom(roots))
<1> DEFINE closed == {S \in SUBSET (Used \ roots) : ClosedUnderChildren(S \cup roots)}
<1> DEFINE rest == {n \in Used \ roots : \A S \in closed : n \in S}
<1>1. MarkedFrom(roots) = roots \cup rest
  BY DEF MarkedFrom
<1>2. ASSUME NEW n \in roots \cup rest, NEW c \in Children(n)
      PROVE  c \in roots \cup rest
  <2>1. c \in Used
    BY <1>2 DEF NoDanglingChild
  <2>2. ASSUME NEW S \in closed, c \notin roots
        PROVE  c \in S
    <3>1. n \in S \cup roots
      OBVIOUS
    <3>2. ClosedUnderChildren(S \cup roots)
      OBVIOUS
    <3> QED
      BY <3>1, <3>2, <2>2 DEF ClosedUnderChildren
  <2> QED
    BY <2>1, <2>2
<1> QED
  BY <1>1, <1>2 DEF ClosedUnderChildren

(* More roots mark no less.                                                *)
LEMMA MarkedFromMonotone ==
  ASSUME NoDanglingChild, NEW more \in SUBSET Used, NEW roots \in SUBSET more
  PROVE  MarkedFrom(roots) \subseteq MarkedFrom(more)
<1> DEFINE all == MarkedFrom(more)
<1>1. more \subseteq all /\ all \subseteq Used /\ ClosedUnderChildren(all)
  BY MarkedFromClosed
<1> HIDE DEF all
<1>2. all \ roots \in SUBSET (Used \ roots) /\ (all \ roots) \cup roots = all
  BY <1>1
<1>3. \A n \in MarkedFrom(roots) : n \notin roots => n \in all \ roots
  BY <1>1, <1>2 DEF MarkedFrom
<1>4. MarkedFrom(roots) \subseteq all
  BY <1>1, <1>3
<1> QED
  BY <1>4 DEF all

(* What bdd_gbc marks is in use, holds its roots and is closed under       *)
(* children.                                                               *)
LEMMA MarkedClosed ==
  ASSUME NoDanglingChild
  PROVE  /\ Counted \subseteq Marked
         /\ OnStack \cap Used \subseteq Marked
         /\ Marked \subseteq Used
         /\ ClosedUnderChildren(Marked)
  BY MarkedFromClosed DEF Marked, Counted

-----------------------------------------------------------------------------
(* The tables bdd_makenode goes through.                                   *)

(* The fields of a slot on the free list.                                  *)
LEMMA FreeNodeFields ==
  /\ FreeNode \in NodeType
  /\ FreeNode.refcou = 0 /\ FreeNode.low = FreeLow /\ FreeNode.high = 0
  BY RefAssumption DEF FreeNode, NodeType, FreeLow

(* The table that keeps the slots of K and frees the others.               *)
Restricts(s, nd, K, kept) ==
  /\ kept \in [0..(s - 1) -> NodeType]
  /\ \A n \in Terminal \cup K : kept[n] = nd[n]
  /\ \A n \in (0..(s - 1)) \ (Terminal \cup K) : kept[n] = FreeNode

ClosedPart(nd, K) ==
  \A n \in K : nd[n].low \in Terminal \cup K /\ nd[n].high \in Terminal \cup K

(* Freeing all but a closed set of the used slots keeps a table good.      *)
LEMMA RestrictedGood ==
  ASSUME NEW s, NEW nd, NEW fr, GoodTable(s, nd, fr),
         NEW K \in SUBSET UsedOf(s, nd),
         ClosedPart(nd, K), NEW kept, Restricts(s, nd, K, kept)
  PROVE  /\ GoodTable(s, kept, (2..(s - 1)) \ K)
         /\ UsedOf(s, kept) = K
<1>1. s \in Nat /\ s > 2
  BY DEF GoodTable, TypedTable
<1>2. nd \in [0..(s - 1) -> NodeType]
  BY DEF GoodTable, TypedTable
<1>3. kept \in [0..(s - 1) -> NodeType]
  BY DEF Restricts
<1>4. \A n \in 0..(s - 1) : n \in Terminal \cup K => kept[n] = nd[n]
  BY DEF Restricts
<1>5. \A n \in 0..(s - 1) : n \notin Terminal \cup K => kept[n] = FreeNode
  BY DEF Restricts
<1>6. K \subseteq 2..(s - 1) /\ Terminal \subseteq 0..(s - 1)
  BY <1>1 DEF UsedOf, Terminal, FALSEBDD, TRUEBDD
<1>7. UsedOf(s, kept) = K
  <2>1. \A n \in K : n \in 2..(s - 1) /\ kept[n].low # FreeLow
    BY <1>1, <1>4, <1>6 DEF UsedOf
  <2>2. \A n \in 2..(s - 1) : n \notin K => kept[n].low = FreeLow
    BY <1>1, <1>5, FreeNodeFields DEF Terminal, FALSEBDD, TRUEBDD
  <2> QED
    BY <2>1, <2>2 DEF UsedOf
<1>8. TypedTable(s, kept)
  <2>1. ASSUME NEW n \in 0..(s - 1)
        PROVE  kept[n].low \in FreeLow..(s - 1) /\ kept[n].high \in 0..(s - 1)
    <3>1. CASE n \in Terminal \cup K
      BY <3>1, <1>4 DEF GoodTable, TypedTable
    <3>2. CASE n \notin Terminal \cup K
      BY <3>2, <1>1, <1>5, FreeNodeFields DEF FreeLow
    <3> QED
      BY <3>1, <3>2
  <2>2. \A n \in Terminal : kept[n].low = n /\ kept[n].high = n
    BY <1>4, <1>6 DEF GoodTable, TypedTable
  <2> QED
    BY <1>1, <1>3, <2>1, <2>2 DEF TypedTable
<1>9. ClosedTable(s, kept)
  BY <1>4, <1>6, <1>7, <1>1 DEF ClosedTable, ClosedPart
<1>10. CanonicalTable(s, kept)
  BY <1>4, <1>6, <1>7, <1>1 DEF CanonicalTable, GoodTable
<1> QED
  BY <1>7, <1>8, <1>9, <1>10 DEF GoodTable

(* Freeing all but a closed set of used slots leaves a good table.         *)
LEMMA KeptGood ==
  ASSUME GoodTable(size, node, free), NEW K \in SUBSET Used, ClosedUnderChildren(K)
  PROVE  /\ GoodTable(size, Kept(K), Slots \ K)
         /\ UsedOf(size, Kept(K)) = K
         /\ \A n \in K \cup Terminal : Kept(K)[n] = node[n]
         /\ \A n \in Slots \ K : Kept(K)[n] = FreeNode
<1>1. K \in SUBSET UsedOf(size, node)
  BY DEF Used, Slots, UsedOf
<1>2. K \cup Terminal \subseteq 0..(size - 1)
  BY DEF GoodTable, TypedTable, Used, Slots, Terminal, FALSEBDD, TRUEBDD
<1>3. Restricts(size, node, K, Kept(K))
  BY <1>2, FreeNodeFields DEF Kept, GoodTable, TypedTable, Restricts
<1>4. ClosedPart(node, K)
  BY DEF ClosedUnderChildren, Children, ClosedPart
<1>5. GoodTable(size, Kept(K), (2..(size - 1)) \ K) /\ UsedOf(size, Kept(K)) = K
  BY <1>1, <1>3, <1>4, RestrictedGood
<1>6. size \in Nat /\ size > 2
  BY DEF GoodTable, TypedTable
<1>7. \A n \in K \cup Terminal : Kept(K)[n] = node[n]
  BY <1>3 DEF Restricts
<1>8. \A n \in Slots \ K : Kept(K)[n] = FreeNode
  BY <1>3, <1>6 DEF Restricts, Slots, Terminal, FALSEBDD, TRUEBDD
<1> QED
  BY <1>5, <1>7, <1>8 DEF Slots

(* A good table has no child on the free list.                             *)
LEMMA GoodHasNoDangling ==
  ASSUME GoodTable(size, node, free)
  PROVE  NoDanglingChild
  BY DEF GoodTable, ClosedTable, NoDanglingChild, Children, Used, Slots, UsedOf

(* What a collection leaves is a good table whose used nodes are marked.   *)
LEMMA CollectedGood ==
  ASSUME GoodTable(size, node, free)
  PROVE  /\ GoodTable(size, Collected, Reclaimed)
         /\ UsedOf(size, Collected) = Marked
         /\ Marked \subseteq Used
         /\ \A n \in Marked \cup Terminal : Collected[n] = node[n]
         /\ \A n \in Slots \ Marked : Collected[n] = FreeNode
<1>1. Marked \subseteq Used /\ ClosedUnderChildren(Marked)
  BY GoodHasNoDangling, MarkedClosed
<1> QED
  BY <1>1, KeptGood DEF Collected, Reclaimed

(* The counted nodes and what is below them.                               *)
LEMMA SurvivorsClosed ==
  ASSUME GoodTable(size, node, free)
  PROVE  /\ Counted \subseteq Survivors
         /\ Survivors \subseteq Used /\ ClosedUnderChildren(Survivors)
         /\ Survivors \subseteq Marked
<1>1. Counted \in SUBSET Used /\ NoDanglingChild
  BY GoodHasNoDangling DEF Counted
<1>2. Counted \in SUBSET (Counted \cup (OnStack \cap Used))
  OBVIOUS
<1>3. Counted \cup (OnStack \cap Used) \in SUBSET Used
  BY <1>1
<1>4. Survivors \subseteq Marked
  BY <1>1, <1>2, <1>3, MarkedFromMonotone DEF Survivors, Marked
<1> QED
  BY <1>1, <1>4, MarkedFromClosed DEF Survivors

(* A resize adds free slots to a good table and changes nothing else.      *)
LEMMA GrownGood ==
  ASSUME NEW nd, NEW fr, GoodTable(size, nd, fr), NEW s \in Nat, s >= size
  PROVE  /\ GoodTable(s, Grown(s, nd), fr \cup size..(s - 1))
         /\ UsedOf(s, Grown(s, nd)) = UsedOf(size, nd)
         /\ \A n \in 0..(size - 1) : Grown(s, nd)[n] = nd[n]
         /\ \A n \in size..(s - 1) : Grown(s, nd)[n] = FreeNode
<1>1. size \in Nat /\ size > 2 /\ nd \in [0..(size - 1) -> NodeType]
  BY DEF GoodTable, TypedTable
<1>2. \A n \in 0..(size - 1) : n \in 0..(s - 1) /\ Grown(s, nd)[n] = nd[n]
  BY <1>1 DEF Grown
<1>3. \A n \in size..(s - 1) : n \in 0..(s - 1) /\ Grown(s, nd)[n] = FreeNode
  BY <1>1 DEF Grown
<1>4. \A n \in 0..(s - 1) : n \in 0..(size - 1) \/ n \in size..(s - 1)
  BY <1>1
<1>5. Grown(s, nd) \in [0..(s - 1) -> NodeType]
  BY <1>1, FreeNodeFields DEF Grown
<1>6. UsedOf(s, Grown(s, nd)) = UsedOf(size, nd)
  <2>1. \A n \in UsedOf(size, nd) : n \in UsedOf(s, Grown(s, nd))
    BY <1>1, <1>2 DEF UsedOf
  <2>2. ASSUME NEW n \in UsedOf(s, Grown(s, nd))
        PROVE  n \in UsedOf(size, nd)
    <3>1. n \in 2..(s - 1) /\ Grown(s, nd)[n].low # FreeLow
      BY DEF UsedOf
    <3>2. n \notin size..(s - 1)
      BY <3>1, <1>3, FreeNodeFields
    <3>3. n \in 2..(size - 1)
      BY <3>1, <3>2, <1>1
    <3> QED
      BY <3>1, <3>3, <1>1, <1>2 DEF UsedOf
  <2> QED
    BY <2>1, <2>2
<1>7. UsedOf(size, nd) \subseteq 0..(size - 1)
  BY <1>1 DEF UsedOf
<1>8. TypedTable(s, Grown(s, nd))
  <2>1. ASSUME NEW n \in 0..(s - 1)
        PROVE  Grown(s, nd)[n].low \in FreeLow..(s - 1) /\ Grown(s, nd)[n].high \in 0..(s - 1)
    <3>1. CASE n \in 0..(size - 1)
      <4>1. nd[n].low \in FreeLow..(size - 1) /\ nd[n].high \in 0..(size - 1)
        BY <3>1 DEF GoodTable, TypedTable
      <4> QED
        BY <4>1, <3>1, <1>1, <1>2 DEF FreeLow
    <3>2. CASE n \in size..(s - 1)
      BY <3>2, <1>1, <1>3, FreeNodeFields DEF FreeLow
    <3> QED
      BY <3>1, <3>2, <1>4
  <2>2. Terminal \subseteq 0..(size - 1)
    BY <1>1 DEF Terminal, FALSEBDD, TRUEBDD
  <2>3. \A n \in Terminal : Grown(s, nd)[n].low = n /\ Grown(s, nd)[n].high = n
    BY <2>2, <1>2 DEF GoodTable, TypedTable
  <2> QED
    BY <1>1, <1>5, <2>1, <2>3 DEF TypedTable
<1>9. ClosedTable(s, Grown(s, nd))
  BY <1>2, <1>6, <1>7 DEF ClosedTable, GoodTable
<1>10. CanonicalTable(s, Grown(s, nd))
  BY <1>2, <1>6, <1>7 DEF CanonicalTable, GoodTable
<1>11. fr \cup size..(s - 1) = (2..(s - 1)) \ UsedOf(s, Grown(s, nd))
  <2>1. fr = (2..(size - 1)) \ UsedOf(size, nd)
    BY DEF GoodTable
  <2>2. 2..(s - 1) = (2..(size - 1)) \cup size..(s - 1)
    BY <1>1
  <2>3. UsedOf(size, nd) \cap size..(s - 1) = {}
    BY <1>1, <1>7
  <2> QED
    BY <2>1, <2>2, <2>3, <1>6
<1> QED
  BY <1>2, <1>3, <1>6, <1>8, <1>9, <1>10, <1>11 DEF GoodTable

(* Filling a free slot with a node that the table does not have, whose     *)
(* children are used or terminal, keeps the table good.                    *)
LEMMA FilledGood ==
  ASSUME NEW s, NEW nd, NEW fr, NEW r, NEW l, NEW lo, NEW hi, NEW filled,
         Fills(s, nd, fr, r, l, lo, hi, filled)
  PROVE  IsFilled(s, nd, fr, r, l, lo, hi, filled)
<1>0. /\ GoodTable(s, nd, fr) /\ r \in fr /\ l \in Nat
      /\ lo \in Terminal \cup UsedOf(s, nd) /\ hi \in Terminal \cup UsedOf(s, nd)
      /\ lo # hi /\ Lacks(s, nd, l, lo, hi)
  BY DEF Fills, Insertable
<1>1. s \in Nat /\ s > 2 /\ nd \in [0..(s - 1) -> NodeType]
  BY <1>0 DEF GoodTable, TypedTable
<1>2. fr = (2..(s - 1)) \ UsedOf(s, nd)
  BY <1>0 DEF GoodTable
<1>3. r \in 2..(s - 1) /\ r \notin UsedOf(s, nd)
  BY <1>0, <1>2
<1>4. r \in 0..(s - 1) /\ r \notin Terminal
  BY <1>1, <1>3 DEF Terminal, FALSEBDD, TRUEBDD
<1>5. UsedOf(s, nd) \subseteq 2..(s - 1)
  BY DEF UsedOf
<1>6. lo \in 0..(s - 1) /\ hi \in 0..(s - 1)
  BY <1>0, <1>1, <1>5 DEF Terminal, FALSEBDD, TRUEBDD
<1>7. nd[r].refcou \in 0..MaxRef
  BY <1>1, <1>4 DEF NodeType
<1> DEFINE new == [refcou |-> nd[r].refcou, level |-> l, low |-> lo, high |-> hi]
<1>8. new \in NodeType
  BY <1>0, <1>1, <1>6, <1>7 DEF NodeType
<1>9. filled \in [0..(s - 1) -> NodeType]
  BY <1>1, <1>8 DEF Fills
<1>10. filled[r] = new /\ \A n \in 0..(s - 1) \ {r} : filled[n] = nd[n]
  BY <1>1, <1>4 DEF Fills
<1>11. filled[r].level = l /\ filled[r].low = lo /\ filled[r].high = hi /\ filled[r].refcou = nd[r].refcou
  BY <1>10
<1>12. lo # FreeLow
  BY <1>6 DEF FreeLow
<1> HIDE DEF new
<1>13. UsedOf(s, filled) = UsedOf(s, nd) \cup {r}
  BY <1>1, <1>3, <1>10, <1>11, <1>12 DEF UsedOf
<1>14. TypedTable(s, filled)
  <2>1. ASSUME NEW n \in 0..(s - 1)
        PROVE  filled[n].low \in FreeLow..(s - 1) /\ filled[n].high \in 0..(s - 1)
    <3>1. CASE n = r
      BY <3>1, <1>6, <1>11, <1>1 DEF FreeLow
    <3>2. CASE n # r
      BY <3>2, <1>0, <1>10 DEF GoodTable, TypedTable
    <3> QED
      BY <3>1, <3>2
  <2>2. Terminal \subseteq 0..(s - 1) \ {r}
    BY <1>1, <1>4 DEF Terminal, FALSEBDD, TRUEBDD
  <2>3. \A n \in Terminal : filled[n].low = n /\ filled[n].high = n
    BY <2>2, <1>0, <1>10 DEF GoodTable, TypedTable
  <2> QED
    BY <1>1, <1>9, <2>1, <2>3 DEF TypedTable
<1>15. \A n \in UsedOf(s, nd) : n \in 0..(s - 1) \ {r} /\ filled[n] = nd[n]
  BY <1>1, <1>3, <1>5, <1>10
<1>16. ClosedTable(s, filled)
  <2> SUFFICES ASSUME NEW n \in UsedOf(s, nd) \cup {r}
               PROVE  /\ filled[n].low \in Terminal \cup UsedOf(s, nd)
                      /\ filled[n].high \in Terminal \cup UsedOf(s, nd)
    BY <1>13 DEF ClosedTable
  <2>1. CASE n = r
    BY <2>1, <1>0, <1>11
  <2>2. CASE n # r
    BY <2>2, <1>0, <1>15 DEF ClosedTable, GoodTable
  <2> QED
    BY <2>1, <2>2
<1>17. CanonicalTable(s, filled)
  <2>1. ASSUME NEW m \in UsedOf(s, nd) \cup {r}, NEW n \in UsedOf(s, nd) \cup {r},
               filled[m].level = filled[n].level,
               filled[m].low = filled[n].low, filled[m].high = filled[n].high
        PROVE  m = n
    <3>1. CASE m # r /\ n # r
      BY <2>1, <1>0, <3>1, <1>15 DEF CanonicalTable, GoodTable
    <3>2. CASE m # r /\ n = r
      BY <2>1, <1>0, <3>2, <1>11, <1>15 DEF Lacks
    <3>3. CASE m = r /\ n # r
      BY <2>1, <1>0, <3>3, <1>11, <1>15 DEF Lacks
    <3> QED
      BY <3>1, <3>2, <3>3
  <2>2. ASSUME NEW n \in UsedOf(s, nd) \cup {r}
        PROVE  filled[n].low # filled[n].high
    <3>1. CASE n = r
      BY <3>1, <1>0, <1>11
    <3>2. CASE n # r
      BY <3>2, <1>0, <1>15 DEF CanonicalTable, GoodTable
    <3> QED
      BY <3>1, <3>2
  <2> QED
    BY <2>1, <2>2, <1>13 DEF CanonicalTable
<1>18. fr \ {r} = (2..(s - 1)) \ UsedOf(s, filled)
  BY <1>2, <1>13
<1> QED
  BY <1>10, <1>11, <1>13, <1>14, <1>16, <1>17, <1>18 DEF GoodTable, IsFilled

-----------------------------------------------------------------------------
(* bdd_makenode.                                                           *)

(* A collection frees no slot that is counted or held.                     *)
LEMMA KeptCounts ==
  ASSUME TableInv, NEW K \in SUBSET Used, Counted \subseteq K, ClosedUnderChildren(K)
  PROVE  GoodCounts(size, Kept(K), held, raised)
<1>1. /\ \A n \in K \cup Terminal : Kept(K)[n] = node[n]
      /\ \A n \in Slots \ K : Kept(K)[n] = FreeNode
  BY KeptGood DEF TableInv
<1>3. \A n \in Slots : /\ node[n].refcou \in {held[n] + raised[n], MaxRef}
                       /\ node[n].low = FreeLow => node[n].refcou = 0 /\ held[n] = 0 /\ raised[n] = 0
  BY DEF TableInv, GoodCounts, Slots
<1>4. /\ held \in [0..(size - 1) -> Nat] /\ raised \in [0..(size - 1) -> Nat]
      /\ size \in Nat /\ size > 2
  BY DEF TableInv, GoodCounts, GoodTable, TypedTable
<1>5. ASSUME NEW n \in Slots
      PROVE  /\ Kept(K)[n].refcou \in {held[n] + raised[n], MaxRef}
             /\ Kept(K)[n].low = FreeLow => Kept(K)[n].refcou = 0 /\ held[n] = 0 /\ raised[n] = 0
  <2>1. CASE n \in K
    BY <2>1, <1>1, <1>3
  <2>2. CASE n \notin K
    <3>1. held[n] = 0 /\ raised[n] = 0
      <4>1. held[n] \in Nat /\ raised[n] \in Nat
        BY <1>4 DEF Slots
      <4>2. node[n].low # FreeLow => ~ (node[n].refcou > 0)
        BY <2>2 DEF Counted, Used
      <4> QED
        BY <4>1, <4>2, <1>3, RefAssumption
    <3>2. Kept(K)[n] = FreeNode
      BY <2>2, <1>1
    <3> QED
      BY <3>1, <3>2, FreeNodeFields
  <2> QED
    BY <2>1, <2>2
<1> QED
  BY <1>4, <1>5 DEF GoodCounts, Slots

(* Counts stay exact over a collection.                                    *)
LEMMA CollectedCounts ==
  ASSUME TableInv
  PROVE  GoodCounts(size, Collected, held, raised)
<1>1. NoDanglingChild
  BY GoodHasNoDangling DEF TableInv
<1>2. Counted \subseteq Marked /\ Marked \subseteq Used /\ ClosedUnderChildren(Marked)
  BY <1>1, MarkedClosed
<1> QED
  BY <1>2, KeptCounts DEF Collected

Inserted(s, nd, fr, hd, rd, l, lo, hi) ==
  /\ GoodTable(s, node', free') /\ GoodCounts(s, node', hd, rd)
  /\ Keeps(s, nd, s, node', UsedOf(s, nd))
  /\ Minimum(fr) \in UsedOf(s, node')
  /\ IsNode(node', Minimum(fr), l, lo, hi)

(* Insert on any good table, at the head of its free list.                 *)
LEMMA InsertGood ==
  ASSUME NEW s, NEW nd, NEW fr, NEW hd, NEW rd, NEW l, NEW lo, NEW hi,
         Insertable(s, nd, fr, l, lo, hi), GoodCounts(s, nd, hd, rd), fr # {},
         Insert(l, lo, hi, nd, fr)
  PROVE  Inserted(s, nd, fr, hd, rd, l, lo, hi)
<1> DEFINE r == Minimum(fr)
<1>1. s \in Nat /\ s > 2 /\ fr = (2..(s - 1)) \ UsedOf(s, nd)
  BY DEF Insertable, GoodTable, TypedTable
<1>2. r \in fr
  <2>1. fr \in SUBSET Nat
    BY <1>1
  <2> QED
    BY <2>1, MinimumIsLeast
<1>3. Fills(s, nd, fr, r, l, lo, hi, node') /\ free' = fr \ {r}
  BY <1>2 DEF Insert, Fills
<1> HIDE DEF r
<1>4. /\ GoodTable(s, node', fr \ {r})
      /\ UsedOf(s, node') = UsedOf(s, nd) \cup {r}
      /\ \A n \in 0..(s - 1) \ {r} : node'[n] = nd[n]
      /\ node'[r].refcou = nd[r].refcou
      /\ node'[r].level = l /\ node'[r].low = lo /\ node'[r].high = hi
  <2>1. IsFilled(s, nd, fr, r, l, lo, hi, node')
    BY <1>3, FilledGood
  <2> QED
    BY <2>1 DEF IsFilled
<1>5. r \in 2..(s - 1) /\ r \notin UsedOf(s, nd)
  BY <1>1, <1>2
<1>6. nd[r].refcou = 0 /\ hd[r] = 0 /\ rd[r] = 0
  BY <1>5 DEF GoodCounts, UsedOf
<1>7. GoodCounts(s, node', hd, rd)
  <2>1. ASSUME NEW n \in 2..(s - 1)
        PROVE  /\ node'[n].refcou \in {hd[n] + rd[n], MaxRef}
               /\ node'[n].low = FreeLow => node'[n].refcou = 0 /\ hd[n] = 0 /\ rd[n] = 0
    <3>1. CASE n = r
      BY <3>1, <1>4, <1>6
    <3>2. CASE n # r
      <4>1. node'[n] = nd[n]
        BY <3>2, <1>1, <1>4
      <4> QED
        BY <4>1 DEF GoodCounts
    <3> QED
      BY <3>1, <3>2
  <2> QED
    BY <2>1 DEF GoodCounts
<1>8. Keeps(s, nd, s, node', UsedOf(s, nd))
  <2>1. Terminal \cup UsedOf(s, nd) \subseteq 0..(s - 1) \ {r}
    BY <1>1, <1>5 DEF UsedOf, Terminal, FALSEBDD, TRUEBDD
  <2> QED
    BY <1>1, <1>4, <2>1 DEF Keeps
<1> QED
  BY <1>3, <1>4, <1>7, <1>8 DEF r, Inserted, IsNode

(* The sizes after a collection are at least the size before, and one.     *)
LEMMA SizesAfter ==
  ASSUME TableInv, maxsize \in Nat
  PROVE  /\ \A s \in SizesAfterCollection : s \in Nat /\ s >= size /\ IsPrime(s)
         /\ \A s, t \in SizesAfterCollection : s = t
<1>1. size \in Nat /\ IsPrime(size)
  BY DEF TableInv, GoodTable, TypedTable
<1>2. GrowthCap \in Nat
  <2> DEFINE caps == {2 * size, size + MaxIncrease} \cup (IF maxsize > 0 THEN {maxsize} ELSE {})
  <2>1. caps \in SUBSET Nat /\ caps # {}
    BY <1>1, TuneAssumption
  <2> HIDE DEF caps
  <2>2. Minimum(caps) \in Nat
    BY <2>1, MinimumIsLeast
  <2> QED
    BY <2>2 DEF GrowthCap, caps
<1>3. \A s \in NewSizes : s \in Nat /\ s >= size /\ s <= GrowthCap /\ IsPrime(s)
  BY <1>1, <1>2 DEF NewSizes
<1>4. ASSUME NEW s \in NewSizes, NEW t \in NewSizes
      PROVE  ~ (s < t)
  <2>1. \A q \in (s + 1)..GrowthCap : ~ IsPrime(q)
    BY DEF NewSizes
  <2>2. s < t => t \in (s + 1)..GrowthCap
    BY <1>2, <1>3
  <2> QED
    BY <1>3, <2>1, <2>2
<1>5. \A s, t \in NewSizes : s = t
  BY <1>3, <1>4
<1> QED
  BY <1>1, <1>3, <1>5 DEF SizesAfterCollection

GoodAfter(s, nd, fr, hd, rd) ==
  /\ GoodTable(s, nd, fr)
  /\ GoodCounts(s, nd, hd, rd)
  /\ UsedOf(s, nd) = Marked
  /\ Keeps(size, node, s, nd, Marked)

(* The table a collection and a resize to s leave, before the insertion.   *)
LEMMA GoodAfterCollection ==
  ASSUME TableInv, NEW s \in Nat, s >= size
  PROVE  GoodAfter(s, Grown(s, Collected), SlotsAfterCollection(s), GrownHeld(s), GrownRaised(s))
<1> DEFINE nd == Grown(s, Collected)
<1>1. GoodTable(size, node, free)
  BY DEF TableInv
<1>2. size \in Nat /\ size > 2
  BY <1>1 DEF GoodTable, TypedTable
<1>3. /\ GoodTable(size, Collected, Reclaimed)
      /\ UsedOf(size, Collected) = Marked
      /\ Marked \subseteq Used
      /\ \A n \in Marked \cup Terminal : Collected[n] = node[n]
  BY <1>1, CollectedGood
<1>4. GoodTable(s, nd, Reclaimed \cup size..(s - 1))
  BY <1>3, GrownGood
<1>5. UsedOf(s, nd) = UsedOf(size, Collected)
  BY <1>3, GrownGood
<1>6. \A n \in 0..(size - 1) : nd[n] = Collected[n]
  BY <1>3, GrownGood
<1>7. \A n \in size..(s - 1) : nd[n] = FreeNode
  BY <1>3, GrownGood
<1> HIDE DEF nd
<1>8. GoodCounts(size, Collected, held, raised)
  BY CollectedCounts
<1>9. GoodCounts(s, nd, GrownHeld(s), GrownRaised(s))
  <2>1. GrownHeld(s) \in [0..(s - 1) -> Nat] /\ GrownRaised(s) \in [0..(s - 1) -> Nat]
    BY <1>2, <1>8 DEF GrownHeld, GrownRaised, GoodCounts
  <2>2. ASSUME NEW n \in 2..(s - 1)
        PROVE  /\ nd[n].refcou \in {GrownHeld(s)[n] + GrownRaised(s)[n], MaxRef}
               /\ nd[n].low = FreeLow => nd[n].refcou = 0 /\ GrownHeld(s)[n] = 0 /\ GrownRaised(s)[n] = 0
    <3>1. CASE n < size
      <4>1. /\ n \in 2..(size - 1) /\ nd[n] = Collected[n]
            /\ GrownHeld(s)[n] = held[n] /\ GrownRaised(s)[n] = raised[n]
        BY <3>1, <1>2, <1>6 DEF GrownHeld, GrownRaised
      <4> QED
        BY <4>1, <1>8 DEF GoodCounts
    <3>2. CASE ~ (n < size)
      <4>1. nd[n] = FreeNode /\ GrownHeld(s)[n] = 0 /\ GrownRaised(s)[n] = 0
        BY <3>2, <1>2, <1>7 DEF GrownHeld, GrownRaised
      <4> QED
        BY <4>1, FreeNodeFields
    <3> QED
      BY <3>1, <3>2
  <2> QED
    BY <2>1, <2>2 DEF GoodCounts
<1>10. Keeps(size, node, s, nd, Marked)
  <2>1. Terminal \cup Marked \subseteq 0..(size - 1)
    BY <1>2, <1>3 DEF Used, Slots, Terminal, FALSEBDD, TRUEBDD
  <2>2. \A n \in Terminal \cup Marked : nd[n] = node[n]
    BY <2>1, <1>3, <1>6
  <2>3. Used = UsedOf(size, node)
    BY DEF Used, Slots, UsedOf
  <2> QED
    BY <2>2, <2>3, <1>3, <1>5 DEF Keeps
<1> QED
  BY <1>3, <1>4, <1>5, <1>9, <1>10 DEF GoodAfter, SlotsAfterCollection, nd

(* What a client may count on when it calls bdd_makenode, and after it.    *)
Callable(l, lo, hi) ==
  /\ TableInv
  /\ errorcond \in BOOLEAN /\ maxsize \in Nat
  /\ l \in Nat
  /\ lo \in Terminal \cup Marked /\ hi \in Terminal \cup Marked

Outcome(l, lo, hi) ==
  /\ TableInv'
  /\ Keeps(size, node, size', node', Marked)
  /\ Answer(l, lo, hi) \in Terminal \cup UsedOf(size', node')
  /\ ~ errorcond' /\ lo # hi => /\ Answer(l, lo, hi) \in UsedOf(size', node')
                                /\ IsNode(node', Answer(l, lo, hi), l, lo, hi)
  /\ errorcond' \in BOOLEAN /\ (errorcond => errorcond')
  /\ maxsize' = maxsize

(* What the other proofs use of a good table.                              *)
LEMMA TableFacts ==
  ASSUME TableInv
  PROVE  /\ size \in Nat /\ size > 2
         /\ Used = UsedOf(size, node)
         /\ Marked \subseteq Used
         /\ Counted \subseteq Marked
         /\ OnStack \cap Used \subseteq Marked
         /\ Keeps(size, node, size, node, Marked)
<1>1. size \in Nat /\ size > 2
  BY DEF TableInv, GoodTable, TypedTable
<1>2. Used = UsedOf(size, node)
  BY DEF Used, Slots, UsedOf
<1>3. NoDanglingChild
  BY <1>2 DEF TableInv, GoodTable, ClosedTable, NoDanglingChild, Children
<1> QED
  BY <1>1, <1>2, <1>3, MarkedClosed DEF Keeps

(* A node that is found: the table is left as it is.                       *)
LEMMA FoundKeeps ==
  ASSUME NEW l, NEW lo, NEW hi, Callable(l, lo, hi), Found(l, lo, hi)
  PROVE  Outcome(l, lo, hi)
<1>1. UNCHANGED <<size, node, free, maxsize, errorcond, held, raised>>
  BY DEF Found, table
<1>2. TableInv /\ errorcond \in BOOLEAN /\ lo \in Terminal \cup Marked
  BY DEF Callable
<1>3. TableInv'
  BY <1>1, <1>2 DEF TableInv
<1>4. Marked \subseteq UsedOf(size', node') /\ Keeps(size, node, size', node', Marked)
  BY <1>1, <1>2, TableFacts
<1>7. errorcond' \in BOOLEAN /\ (errorcond => errorcond') /\ maxsize' = maxsize
  BY <1>1, <1>2
<1>8. Answer(l, lo, hi) \in Terminal \cup UsedOf(size', node')
      /\ (lo # hi => /\ Answer(l, lo, hi) \in UsedOf(size', node')
                     /\ IsNode(node', Answer(l, lo, hi), l, lo, hi))
      => Outcome(l, lo, hi)
  BY <1>3, <1>4, <1>7, Zenon DEF Outcome
<1>5. CASE lo = hi
  <2>1. Answer(l, lo, hi) = lo
    BY <1>5 DEF Answer, Missing
  <2>2. lo \in Terminal \cup UsedOf(size', node')
    BY <1>2, <1>4
  <2> QED
    BY <2>1, <2>2, <1>5, <1>8, Zenon
<1>6. CASE lo # hi
  <2>1. Find(l, lo, hi) # {}
    BY <1>6 DEF Found, Missing
  <2>2. Answer(l, lo, hi) = CHOOSE n \in Find(l, lo, hi) : TRUE
    BY <1>6, <2>1 DEF Answer, Missing
  <2>3. Answer(l, lo, hi) \in Find(l, lo, hi)
    BY <2>1, <2>2
  <2>4. Answer(l, lo, hi) \in UsedOf(size', node') /\ IsNode(node', Answer(l, lo, hi), l, lo, hi)
    BY <2>3, <1>1, <1>2, TableFacts DEF Find, IsNode
  <2>5. Answer(l, lo, hi) \in Terminal \cup UsedOf(size', node')
    BY <2>4
  <2> QED
    BY <2>4, <2>5, <1>8, Zenon
<1> QED
  BY <1>5, <1>6

(* A bdd_makenode that is refused after an error leaves the table alone.   *)
LEMMA RefusedKeeps ==
  ASSUME NEW l, NEW lo, NEW hi, Callable(l, lo, hi), Refused(l, lo, hi)
  PROVE  Outcome(l, lo, hi)
<1>1. UNCHANGED <<size, node, free, maxsize, errorcond, held, raised>>
  BY DEF Refused, table
<1>2. TableInv /\ errorcond
  BY DEF Callable, Refused
<1>3. TableInv'
  BY <1>1, <1>2 DEF TableInv
<1>4. Keeps(size, node, size', node', Marked)
  BY <1>1, <1>2, TableFacts
<1>5. Answer(l, lo, hi) = FALSEBDD
  BY <1>2 DEF Refused, Missing, Answer
<1> QED
  BY <1>1, <1>2, <1>3, <1>4, <1>5 DEF Outcome, Terminal

(* A missing node may be put in any table whose used nodes are the marked  *)
(* ones or all of the present ones.                                        *)
LEMMA InsertableAfter ==
  ASSUME NEW l, NEW lo, NEW hi, Callable(l, lo, hi), Missing(l, lo, hi),
         NEW s, NEW nd, NEW fr, NEW hd, NEW rd, GoodAfter(s, nd, fr, hd, rd)
  PROVE  Insertable(s, nd, fr, l, lo, hi)
<1>1. /\ GoodTable(s, nd, fr) /\ UsedOf(s, nd) = Marked
      /\ \A n \in Marked : nd[n] = node[n]
  BY DEF GoodAfter, Keeps
<1>2. Marked \subseteq Used
  BY TableFacts DEF Callable
<1>3. lo # hi /\ Find(l, lo, hi) = {}
  BY DEF Missing
<1>4. Lacks(s, nd, l, lo, hi)
  BY <1>1, <1>2, <1>3 DEF Lacks, Find
<1> QED
  BY <1>1, <1>3, <1>4 DEF Insertable, Callable

(* A node that is missing may be put in the table as it is.                *)
LEMMA InsertableNow ==
  ASSUME NEW l, NEW lo, NEW hi, Callable(l, lo, hi), Missing(l, lo, hi)
  PROVE  Insertable(size, node, free, l, lo, hi)
<1>1. GoodTable(size, node, free) /\ Marked \subseteq Used /\ Used = UsedOf(size, node)
  BY TableFacts DEF Callable, TableInv
<1>2. lo # hi /\ Find(l, lo, hi) = {}
  BY DEF Missing
<1>3. Lacks(size, node, l, lo, hi)
  BY <1>1, <1>2 DEF Lacks, Find
<1> QED
  BY <1>1, <1>2, <1>3 DEF Insertable, Callable

(* A bdd_makenode that takes a free slot keeps the table good.             *)
LEMMA FreshKeeps ==
  ASSUME NEW l, NEW lo, NEW hi, Callable(l, lo, hi), Fresh(l, lo, hi)
  PROVE  Outcome(l, lo, hi)
<1>1. TableInv /\ errorcond \in BOOLEAN
  BY DEF Callable
<1>2. /\ Missing(l, lo, hi) /\ free # {}
      /\ Insert(l, lo, hi, node, free)
      /\ UNCHANGED <<size, maxsize, errorcond, held, raised>>
  BY DEF Fresh
<1>3. Insertable(size, node, free, l, lo, hi)
  BY <1>2, InsertableNow
<1>4. GoodCounts(size, node, held, raised)
  BY <1>1 DEF TableInv
<1>5. Inserted(size, node, free, held, raised, l, lo, hi)
  BY <1>2, <1>3, <1>4, InsertGood
<1>6. TableInv'
  BY <1>1, <1>2, <1>5 DEF Inserted, TableInv
<1>7. Keeps(size, node, size', node', Marked)
  <2>1. Marked \subseteq UsedOf(size, node) /\ size \in Nat
    BY <1>1, TableFacts
  <2> QED
    BY <2>1, <1>2, <1>5 DEF Inserted, Keeps
<1>8. Answer(l, lo, hi) = Minimum(free)
  BY <1>2 DEF Answer, Missing
<1>9. Minimum(free) \in UsedOf(size', node') /\ IsNode(node', Minimum(free), l, lo, hi)
  BY <1>2, <1>5 DEF Inserted
<1>10. errorcond' \in BOOLEAN /\ (errorcond => errorcond') /\ maxsize' = maxsize
  BY <1>1, <1>2
<1>11. Minimum(free) \in Terminal \cup UsedOf(size', node')
  BY <1>9
<1> QED
  BY <1>6, <1>7, <1>8, <1>9, <1>10, <1>11, Zenon DEF Outcome

(* The slots of the answer when a collection has to make room.             *)
LEMMA AnswerAfterCollection ==
  ASSUME NEW l, NEW lo, NEW hi, Callable(l, lo, hi), Missing(l, lo, hi),
         free = {}, ~ errorcond, NEW s \in SizesAfterCollection
  PROVE  Answer(l, lo, hi) =
           IF SlotsAfterCollection(s) = {} THEN FALSEBDD ELSE Minimum(SlotsAfterCollection(s))
<1>1. \A t \in SizesAfterCollection : t = s
  BY SizesAfter DEF Callable
<1>2. UNION {SlotsAfterCollection(t) : t \in SizesAfterCollection} = SlotsAfterCollection(s)
  BY <1>1
<1> QED
  BY <1>2 DEF Answer, Missing

(* A bdd_makenode that collects, and grows, keeps the table good.          *)
LEMMA RecycledKeeps ==
  ASSUME NEW l, NEW lo, NEW hi, Callable(l, lo, hi), Recycled(l, lo, hi)
  PROVE  Outcome(l, lo, hi)
<1>1. TableInv /\ errorcond \in BOOLEAN
  BY DEF Callable
<1>2. Missing(l, lo, hi) /\ free = {} /\ ~ errorcond /\ UNCHANGED <<maxsize, errorcond>>
  BY DEF Recycled
<1>3. PICK s \in SizesAfterCollection :
        /\ SlotsAfterCollection(s) # {}
        /\ size' = s
        /\ Insert(l, lo, hi, Grown(s, Collected), SlotsAfterCollection(s))
        /\ held' = GrownHeld(s) /\ raised' = GrownRaised(s)
  BY DEF Recycled, GrownHeld, GrownRaised
<1> DEFINE nd == Grown(s, Collected)
           fr == SlotsAfterCollection(s)
<1>4. s \in Nat /\ s >= size /\ IsPrime(s)
  BY <1>1, SizesAfter DEF Callable
<1>5. GoodAfter(s, nd, fr, GrownHeld(s), GrownRaised(s))
  BY <1>1, <1>4, GoodAfterCollection
<1> HIDE DEF nd, fr
<1>6. Insertable(s, nd, fr, l, lo, hi)
  BY <1>2, <1>5, InsertableAfter
<1>7. GoodCounts(s, nd, GrownHeld(s), GrownRaised(s)) /\ UsedOf(s, nd) = Marked /\ Keeps(size, node, s, nd, Marked)
  BY <1>5 DEF GoodAfter
<1>8. Insert(l, lo, hi, nd, fr) /\ fr # {}
  BY <1>3 DEF nd, fr
<1>9. Inserted(s, nd, fr, GrownHeld(s), GrownRaised(s), l, lo, hi)
  BY <1>6, <1>7, <1>8, InsertGood
<1>10. TableInv'
  BY <1>3, <1>4, <1>9 DEF Inserted, TableInv
<1>11. Keeps(size, node, size', node', Marked)
  BY <1>3, <1>7, <1>9 DEF Inserted, Keeps
<1>12. Answer(l, lo, hi) = Minimum(fr)
  BY <1>2, <1>3, AnswerAfterCollection DEF fr
<1>13. Minimum(fr) \in UsedOf(size', node') /\ IsNode(node', Minimum(fr), l, lo, hi)
  BY <1>3, <1>9 DEF Inserted
<1>14. errorcond' \in BOOLEAN /\ (errorcond => errorcond') /\ maxsize' = maxsize
  BY <1>1, <1>2
<1>15. Minimum(fr) \in Terminal \cup UsedOf(size', node')
  BY <1>13
<1> QED
  BY <1>10, <1>11, <1>12, <1>13, <1>14, <1>15, Zenon DEF Outcome

(* A bdd_makenode that finds no slot leaves a good, collected table.       *)
LEMMA ExhaustedKeeps ==
  ASSUME NEW l, NEW lo, NEW hi, Callable(l, lo, hi), Exhausted(l, lo, hi)
  PROVE  /\ Outcome(l, lo, hi)
         /\ Marked = Slots
         /\ MayGrow => NewSizes = {size}
<1>1. TableInv
  BY DEF Callable
<1>2. /\ Missing(l, lo, hi) /\ free = {} /\ ~ errorcond
      /\ errorcond' = TRUE /\ free' = {} /\ UNCHANGED <<maxsize, held, raised>>
  BY DEF Exhausted
<1>3. PICK s \in SizesAfterCollection :
        SlotsAfterCollection(s) = {} /\ size' = s /\ node' = Grown(s, Collected)
  BY DEF Exhausted
<1>4. s \in Nat /\ s >= size /\ IsPrime(s) /\ \A t \in SizesAfterCollection : t = s
  BY <1>1, SizesAfter DEF Callable
<1>5. size \in Nat /\ size > 2 /\ Marked \subseteq Slots
      /\ held \in [0..(size - 1) -> Nat] /\ raised \in [0..(size - 1) -> Nat]
  BY <1>1, TableFacts DEF Used, TableInv, GoodCounts
<1>6. s = size /\ Reclaimed = {}
  <2>1. Reclaimed = {} /\ size..(s - 1) = {}
    BY <1>3 DEF SlotsAfterCollection
  <2> QED
    BY <2>1, <1>4, <1>5
<1>7. Marked = Slots
  BY <1>5, <1>6 DEF Reclaimed
<1>8. MayGrow => NewSizes = {size}
  <2>1. Cardinality(Reclaimed) = 0
    BY <1>6, FS_EmptySet
  <2>2. (0 * 100) \div size = 0
    BY <1>5
  <2>3. Scarce
    BY <2>1, <2>2, TuneAssumption DEF Scarce
  <2> QED
    BY <2>3, <1>4, <1>6 DEF SizesAfterCollection
<1>9. GoodAfter(s, Grown(s, Collected), SlotsAfterCollection(s), GrownHeld(s), GrownRaised(s))
  BY <1>1, <1>4, GoodAfterCollection
<1>10. GrownHeld(s) = held /\ GrownRaised(s) = raised
  BY <1>5, <1>6 DEF GrownHeld, GrownRaised
<1>11. GoodTable(size', node', free') /\ GoodCounts(size', node', held', raised') /\ IsPrime(size')
  BY <1>2, <1>3, <1>4, <1>9, <1>10 DEF GoodAfter
<1>12. TableInv'
  BY <1>11 DEF TableInv
<1>13. Keeps(size, node, size', node', Marked)
  BY <1>3, <1>9 DEF GoodAfter
<1>14. Answer(l, lo, hi) = FALSEBDD
  BY <1>2, <1>3, AnswerAfterCollection
<1>15. FALSEBDD \in Terminal \cup UsedOf(size', node')
  BY DEF Terminal
<1>16. Outcome(l, lo, hi)
  BY <1>2, <1>12, <1>13, <1>14, <1>15, Zenon DEF Outcome
<1> QED
  BY <1>7, <1>8, <1>16

(* Whatever its outcome, bdd_makenode keeps the table good and every       *)
(* marked node as it was, and answers a node with the content asked for    *)
(* unless it raised an error.                                              *)
LEMMA MakeNodeKeeps ==
  ASSUME NEW l, NEW lo, NEW hi, Callable(l, lo, hi), MakeNode(l, lo, hi)
  PROVE  Outcome(l, lo, hi)
  BY FoundKeeps, FreshKeeps, RefusedKeeps, RecycledKeeps, ExhaustedKeeps DEF MakeNode

-----------------------------------------------------------------------------
(* The inductive invariant.                                                *)

GoodStack(s, nd, stack) ==
  /\ stack \in Seq(0..(s - 1))
  /\ \A i \in 1..Len(stack) : stack[i] \in Terminal \cup UsedOf(s, nd)

Pin(s, nd, n, l, lo, hi) ==
  /\ n \in UsedOf(s, nd)
  /\ nd[n] = [refcou |-> MaxRef, level |-> l, low |-> lo, high |-> hi]

GoodVars(s, nd, num, set) ==
  /\ set \in [0..(MaxVars - 1) -> (0..(s - 1)) \X (0..(s - 1))]
  /\ \A v \in 0..(num - 1) : /\ Pin(s, nd, set[v][1], v, FALSEBDD, TRUEBDD)
                             /\ Pin(s, nd, set[v][2], v, TRUEBDD, FALSEBDD)

(* A node bdd_setvarnum has made and not yet pinned.                       *)
Made(s, nd, n, l, lo, hi) == n \in UsedOf(s, nd) /\ IsNode(nd, n, l, lo, hi)

GrowthType ==
  growing \in [step : {"idle", "pos", "neg", "pin"}, target : 0..MaxVars, before : 0..MaxVars]

(* Between the steps of bdd_setvarnum the reference stack protects the     *)
(* first node of the variable, and nothing runs before both are pinned.    *)
GrowthInv ==
  /\ GrowthType
  /\ growing.step # "idle" => growing.before <= varnum /\ varnum < growing.target
  /\ growing.step = "neg" =>
       /\ Len(refstack) = 1
       /\ ~ errorcond => Made(size, node, refstack[1], varnum, FALSEBDD, TRUEBDD)
  /\ growing.step = "pin" /\ ~ errorcond =>
       /\ Made(size, node, varset[varnum][1], varnum, FALSEBDD, TRUEBDD)
       /\ Made(size, node, varset[varnum][2], varnum, TRUEBDD, FALSEBDD)

ScalarType ==
  /\ maxsize \in Limits
  /\ errorcond \in BOOLEAN
  /\ varnum \in 0..MaxVars
  /\ reorder \in [method : BOOLEAN, disabled : BOOLEAN, next : Nat]

IInv ==
  /\ TableInv
  /\ GoodStack(size, node, refstack)
  /\ GoodVars(size, node, varnum, varset)
  /\ GrowthInv
  /\ ScalarType

(* The invariant gives the properties of NodeTable.                        *)
LEMMA InvariantImplies ==
  ASSUME IInv
  PROVE  /\ Canonical /\ NoDanglingChild /\ FreeListExact
         /\ HeldNodesLive /\ CountsExact /\ VariablesPinned
<1>1. TableInv /\ GoodTable(size, node, free) /\ GoodCounts(size, node, held, raised)
  BY DEF IInv, TableInv
<1>2. Used = UsedOf(size, node) /\ size \in Nat /\ size > 2
  BY <1>1, TableFacts
<1>3. Canonical
  BY <1>1, <1>2 DEF Canonical, GoodTable, CanonicalTable
<1>4. NoDanglingChild
  BY <1>1, <1>2 DEF NoDanglingChild, GoodTable, ClosedTable, Children
<1>5. FreeListExact
  BY <1>1, <1>2 DEF FreeListExact, GoodTable, Slots
<1>6. CountsExact
  BY <1>1 DEF CountsExact, GoodCounts, Slots
<1>7. HeldNodesLive
  <2>1. ASSUME NEW n \in Slots, held[n] > 0
        PROVE  n \in Used /\ node[n].refcou > 0
    <3>1. node[n].refcou \in {held[n] + raised[n], MaxRef} /\ (node[n].low = FreeLow => held[n] = 0)
      BY <1>1 DEF GoodCounts, Slots
    <3>0. held[n] \in Nat /\ raised[n] \in Nat
      BY <1>1 DEF GoodCounts, GoodTable, TypedTable, Slots
    <3>2. node[n].low # FreeLow
      BY <3>1, <2>1
    <3> QED
      BY <2>1, <3>0, <3>1, <3>2, RefAssumption DEF Used
  <2>2. OnStack \subseteq Used
    BY <1>2 DEF OnStack, IInv, GoodStack
  <2> QED
    BY <2>1, <2>2 DEF HeldNodesLive
<1>8. VariablesPinned
  <2>1. ASSUME NEW v \in 0..(varnum - 1)
        PROVE  /\ Pin(size, node, varset[v][1], v, FALSEBDD, TRUEBDD)
               /\ Pin(size, node, varset[v][2], v, TRUEBDD, FALSEBDD)
    BY DEF IInv, GoodVars
  <2> QED
    BY <2>1, <1>2 DEF VariablesPinned, Pin
<1> QED
  BY <1>3, <1>4, <1>5, <1>6, <1>7, <1>8

(* The invariant gives the types.                                          *)
LEMMA InvariantTypes ==
  ASSUME IInv
  PROVE  TypeOK
<1>1. TableInv /\ GoodTable(size, node, free) /\ GoodCounts(size, node, held, raised) /\ IsPrime(size)
  BY DEF IInv, TableInv
<1>2. /\ size \in Nat /\ size > 2
      /\ node \in [0..(size - 1) -> NodeType]
      /\ \A n \in 0..(size - 1) : node[n].low \in FreeLow..(size - 1) /\ node[n].high \in 0..(size - 1)
      /\ \A n \in Terminal : node[n].low = n /\ node[n].high = n
  BY <1>1 DEF GoodTable, TypedTable
<1>3. free \subseteq Slots
  BY <1>1 DEF GoodTable, Slots
<1>4. refstack \in Seq(0..(size - 1))
  BY DEF IInv, GoodStack
<1>5. varset \in [0..(MaxVars - 1) -> (0..(size - 1)) \X (0..(size - 1))]
  BY DEF IInv, GoodVars
<1>6. GrowthType /\ ScalarType
  BY DEF IInv, GrowthInv
<1>7. held \in [0..(size - 1) -> Nat] /\ raised \in [0..(size - 1) -> Nat]
  BY <1>1 DEF GoodCounts
<1> QED
  BY <1>1, <1>2, <1>3, <1>4, <1>5, <1>6, <1>7 DEF TypeOK, GrowthType, ScalarType

(* bdd_init establishes the invariant.                                     *)
LEMMA InitInvariant ==
  ASSUME Init
  PROVE  IInv
<1>1. /\ size = InitSize /\ size \in Nat /\ size > 2 /\ IsPrime(size)
      /\ node = [n \in 0..(size - 1) |-> IF n \in Terminal THEN TerminalNode(n) ELSE FreeNode]
      /\ held = [n \in 0..(size - 1) |-> 0] /\ raised = [n \in 0..(size - 1) |-> 0]
      /\ free = 2..(size - 1)
  BY SizeAssumption DEF Init
<1>2. \A n \in Terminal : n \in 0..(size - 1) /\ node[n] = TerminalNode(n)
  BY <1>1 DEF Terminal, FALSEBDD, TRUEBDD
<1>3. \A n \in 2..(size - 1) : n \in 0..(size - 1) /\ node[n] = FreeNode
  BY <1>1 DEF Terminal, FALSEBDD, TRUEBDD
<1>4. \A n \in Terminal : TerminalNode(n) \in NodeType
  BY RefAssumption DEF TerminalNode, NodeType, Terminal, FALSEBDD, TRUEBDD
<1>5. node \in [0..(size - 1) -> NodeType]
  BY <1>1, <1>4, FreeNodeFields
<1>6. \A n \in 0..(size - 1) : n \in Terminal \/ n \in 2..(size - 1)
  BY <1>1 DEF Terminal, FALSEBDD, TRUEBDD
<1>0. size \in Nat /\ size > 2 /\ InitSize \in Nat /\ MaxVars \in Nat
  BY <1>1, SizeAssumption, BoundAssumption
<1>7. \A n \in Terminal : node[n].low = n /\ node[n].high = n
  <2>1. \A n : TerminalNode(n).low = n /\ TerminalNode(n).high = n
    BY DEF TerminalNode
  <2> QED
    BY <1>2, <2>1
<1>8. UsedOf(size, node) = {}
  BY <1>3, FreeNodeFields DEF UsedOf
<1>9. TypedTable(size, node)
  <2>1. ASSUME NEW n \in 0..(size - 1)
        PROVE  node[n].low \in FreeLow..(size - 1) /\ node[n].high \in 0..(size - 1)
    <3>1. CASE n \in Terminal
      BY <3>1, <1>0, <1>7 DEF FreeLow
    <3>2. CASE n \in 2..(size - 1)
      BY <3>2, <1>0, <1>3, FreeNodeFields DEF FreeLow
    <3> QED
      BY <3>1, <3>2, <1>6
  <2> QED
    BY <2>1, <1>0, <1>5, <1>7 DEF TypedTable
<1>10. GoodTable(size, node, free)
  BY <1>1, <1>8, <1>9 DEF GoodTable, ClosedTable, CanonicalTable
<1>11. GoodCounts(size, node, held, raised)
  <2>1. held \in [0..(size - 1) -> Nat] /\ raised \in [0..(size - 1) -> Nat]
    BY <1>1
  <2>2. \A n \in 2..(size - 1) : node[n].refcou = 0 /\ held[n] = 0 /\ raised[n] = 0
    BY <1>1, <1>3, FreeNodeFields
  <2> QED
    BY <2>1, <2>2 DEF GoodCounts
<1>12. GoodStack(size, node, refstack)
  BY DEF Init, GoodStack
<1>13. GoodVars(size, node, varnum, varset)
  BY <1>1 DEF Init, GoodVars, FALSEBDD
<1>14. GrowthInv
  BY BoundAssumption DEF Init, GrowthInv, GrowthType, Idle
<1>15. ScalarType
  <2>1. errorcond \in BOOLEAN
    BY Zenon DEF Init
  <2>2. [method |-> FALSE, disabled |-> FALSE, next |-> InitSize]
          \in [method : BOOLEAN, disabled : BOOLEAN, next : Nat]
    BY <1>0
  <2>3. reorder = [method |-> FALSE, disabled |-> FALSE, next |-> InitSize] /\ maxsize \in Limits
    BY DEF Init
  <2>4. varnum \in 0..MaxVars
    BY <1>0 DEF Init
  <2> QED
    BY <2>1, <2>2, <2>3, <2>4, Zenon DEF ScalarType
<1> QED
  BY <1>1, <1>10, <1>11, <1>12, <1>13, <1>14, <1>15 DEF IInv, TableInv

-----------------------------------------------------------------------------
(* Steps preserve the invariant.                                           *)

(* Only counts, and the levels of the terminals, differ.                   *)
SameShape(s, nd, new) ==
  /\ new \in [0..(s - 1) -> NodeType]
  /\ \A n \in 0..(s - 1) : new[n].low = nd[n].low /\ new[n].high = nd[n].high
  /\ \A n \in 2..(s - 1) : new[n].level = nd[n].level

(* New counts, and new levels of the terminals, keep a table good.         *)
LEMMA SameShapeGood ==
  ASSUME NEW s, NEW nd, NEW fr, NEW new, GoodTable(s, nd, fr), SameShape(s, nd, new)
  PROVE  GoodTable(s, new, fr) /\ UsedOf(s, new) = UsedOf(s, nd)
<1>1. /\ s \in Nat /\ s > 2
      /\ \A n \in 0..(s - 1) : nd[n].low \in FreeLow..(s - 1) /\ nd[n].high \in 0..(s - 1)
      /\ \A n \in Terminal : nd[n].low = n /\ nd[n].high = n
  BY DEF GoodTable, TypedTable
<1>2. Terminal \subseteq 0..(s - 1) /\ 2..(s - 1) \subseteq 0..(s - 1)
  BY <1>1 DEF Terminal, FALSEBDD, TRUEBDD
<1>3. UsedOf(s, new) = UsedOf(s, nd)
  BY <1>2 DEF UsedOf, SameShape
<1>4. TypedTable(s, new)
  BY <1>1, <1>2 DEF TypedTable, SameShape
<1>5. \A n \in UsedOf(s, nd) : n \in 2..(s - 1) /\ n \in 0..(s - 1)
  BY <1>2 DEF UsedOf
<1>6. ClosedTable(s, new)
  BY <1>3, <1>5 DEF ClosedTable, SameShape, GoodTable
<1>7. CanonicalTable(s, new)
  BY <1>3, <1>5 DEF CanonicalTable, SameShape, GoodTable
<1> QED
  BY <1>3, <1>4, <1>6, <1>7 DEF GoodTable

(* A step that keeps the marked nodes keeps what the stack and the         *)
(* variables rely on.                                                      *)
LEMMA KeepsStack ==
  ASSUME IInv, NEW t \in Nat, NEW new, Keeps(size, node, t, new, Marked)
  PROVE  GoodStack(t, new, refstack)
<1>1. TableInv /\ GoodStack(size, node, refstack) /\ t >= size
  BY DEF IInv, Keeps
<1>2. size \in Nat /\ Used = UsedOf(size, node) /\ OnStack \cap Used \subseteq Marked
  BY <1>1, TableFacts
<1>3. ASSUME NEW i \in 1..Len(refstack)
      PROVE  refstack[i] \in Terminal \cup UsedOf(t, new)
  <2>1. refstack[i] \in Terminal \cup Used
    BY <1>1, <1>2 DEF GoodStack
  <2>2. refstack[i] \notin Terminal => refstack[i] \in OnStack \cap Used
    BY <2>1 DEF OnStack
  <2> QED
    BY <2>2, <1>2 DEF Keeps
<1>4. refstack \in Seq(0..(t - 1))
  <2>1. refstack \in Seq(0..(size - 1)) /\ 0..(size - 1) \subseteq 0..(t - 1)
    BY <1>1, <1>2 DEF GoodStack
  <2> QED
    BY <2>1, SeqMonotonic
<1> QED
  BY <1>3, <1>4 DEF GoodStack

(* The node of a variable is counted.                                      *)
LEMMA PinnedCounted ==
  ASSUME TableInv, NEW n, NEW l, NEW lo, NEW hi, Pin(size, node, n, l, lo, hi)
  PROVE  n \in Counted
<1>1. n \in Used /\ node[n].refcou > 0
  BY TableFacts, RefAssumption DEF Pin
<1> QED
  BY <1>1 DEF Counted

(* Whatever keeps the counted nodes keeps the nodes of the variables.      *)
LEMMA CountedKeepVars ==
  ASSUME IInv, NEW t \in Nat, NEW new, NEW K, Counted \subseteq K, Keeps(size, node, t, new, K)
  PROVE  GoodVars(t, new, varnum, varset)
<1>1. TableInv /\ GoodVars(size, node, varnum, varset) /\ t >= size
  BY DEF IInv, Keeps
<1>2. size \in Nat
  BY <1>1, TableFacts
<1>3. ASSUME NEW n, NEW l, NEW lo, NEW hi, Pin(size, node, n, l, lo, hi)
      PROVE  Pin(t, new, n, l, lo, hi)
  <2>1. n \in K
    BY <1>1, <1>3, PinnedCounted
  <2> QED
    BY <2>1, <1>3 DEF Keeps, Pin
<1>4. varset \in [0..(MaxVars - 1) -> (0..(t - 1)) \X (0..(t - 1))]
  <2>1. 0..(size - 1) \subseteq 0..(t - 1)
    BY <1>1, <1>2
  <2> QED
    BY <2>1, <1>1 DEF GoodVars
<1>5. \A v \in 0..(varnum - 1) : /\ Pin(t, new, varset[v][1], v, FALSEBDD, TRUEBDD)
                                 /\ Pin(t, new, varset[v][2], v, TRUEBDD, FALSEBDD)
  BY <1>1, <1>3 DEF GoodVars
<1> QED
  BY <1>4, <1>5 DEF GoodVars

(* What keeps the marked nodes keeps the nodes of the variables.           *)
LEMMA KeepsVars ==
  ASSUME IInv, NEW t \in Nat, NEW new, Keeps(size, node, t, new, Marked)
  PROVE  GoodVars(t, new, varnum, varset)
<1>1. NoDanglingChild
  BY GoodHasNoDangling DEF IInv, TableInv
<1> QED
  BY <1>1, MarkedClosed, CountedKeepVars

(* So does what keeps the nodes that survive a reordering, counts raised   *)
(* or not.                                                                 *)
LEMMA SurvivorsKeepVars ==
  ASSUME IInv, NEW t \in Nat, NEW new, KeepsShape(size, node, t, new, Survivors),
         \A n \in Survivors : new[n] \in NodeType
  PROVE  GoodVars(t, new, varnum, varset)
<1>1. TableInv /\ GoodTable(size, node, free) /\ GoodVars(size, node, varnum, varset) /\ t >= size
  BY DEF IInv, TableInv, KeepsShape
<1>2. size \in Nat /\ Counted \subseteq Survivors
  BY <1>1, TableFacts, SurvivorsClosed
<1>3. ASSUME NEW n, NEW l, NEW lo, NEW hi, Pin(size, node, n, l, lo, hi)
      PROVE  Pin(t, new, n, l, lo, hi)
  <2>1. n \in Survivors
    BY <1>1, <1>2, <1>3, PinnedCounted
  <2>2. /\ new[n] \in NodeType /\ node[n].refcou = MaxRef /\ n \in UsedOf(t, new)
        /\ new[n].level = l /\ new[n].low = lo /\ new[n].high = hi
        /\ new[n].refcou >= node[n].refcou /\ new[n].refcou <= MaxRef
    BY <2>1, <1>3 DEF KeepsShape, Pin
  <2>3. new[n].refcou = MaxRef
    BY <2>2, RefAssumption DEF NodeType
  <2> QED
    BY <2>2, <2>3 DEF NodeType, Pin
<1>4. varset \in [0..(MaxVars - 1) -> (0..(t - 1)) \X (0..(t - 1))]
  <2>1. 0..(size - 1) \subseteq 0..(t - 1)
    BY <1>1, <1>2
  <2> QED
    BY <2>1, <1>1 DEF GoodVars
<1>5. \A v \in 0..(varnum - 1) : /\ Pin(t, new, varset[v][1], v, FALSEBDD, TRUEBDD)
                                 /\ Pin(t, new, varset[v][2], v, TRUEBDD, FALSEBDD)
  BY <1>1, <1>3 DEF GoodVars
<1> QED
  BY <1>4, <1>5 DEF GoodVars

(* What a client of the table may name is marked.                          *)
LEMMA ProtectedMarked == Protected \subseteq Terminal \cup Marked
  BY DEF Protected

(* What every outcome of bdd_makenode gives the steps below.               *)
LEMMA OutcomeFacts ==
  ASSUME NEW l, NEW lo, NEW hi, Outcome(l, lo, hi)
  PROVE  /\ TableInv' /\ size' \in Nat
         /\ Keeps(size, node, size', node', Marked)
         /\ Answer(l, lo, hi) \in Terminal \cup UsedOf(size', node')
         /\ Answer(l, lo, hi) \in 0..(size' - 1)
         /\ errorcond' \in BOOLEAN
         /\ maxsize' = maxsize
<1>1. TableInv' /\ Keeps(size, node, size', node', Marked) /\ errorcond' \in BOOLEAN
      /\ maxsize' = maxsize
  BY Zenon DEF Outcome
<1>2. Answer(l, lo, hi) \in Terminal \cup UsedOf(size', node')
  BY Zenon DEF Outcome
<1>3. size' \in Nat /\ size' > 2
  BY <1>1 DEF TableInv, GoodTable, TypedTable
<1>4. Terminal \cup UsedOf(size', node') \subseteq 0..(size' - 1)
  BY <1>3 DEF UsedOf, Terminal, FALSEBDD, TRUEBDD
<1> QED
  BY <1>1, <1>2, <1>3, <1>4

(* Outside bdd_setvarnum nothing is asked of the growth.                   *)
LEMMA QuietGrowth ==
  ASSUME IInv, Quiet, growing' = growing
  PROVE  GrowthInv'
<1>1. GrowthType /\ growing.step = "idle"
  BY DEF IInv, GrowthInv, Quiet
<1> QED
  BY <1>1 DEF GrowthInv, GrowthType

(* The settings keep their types when only the error flag changes.         *)
LEMMA ScalarsKept ==
  ASSUME IInv, UNCHANGED <<varnum, reorder>>, errorcond' \in BOOLEAN, maxsize' = maxsize
  PROVE  ScalarType'
<1>1. maxsize \in Limits /\ varnum \in 0..MaxVars
      /\ reorder \in [method : BOOLEAN, disabled : BOOLEAN, next : Nat]
  BY DEF IInv, ScalarType
<1>2. /\ maxsize' \in Limits /\ varnum' \in 0..MaxVars
      /\ reorder' \in [method : BOOLEAN, disabled : BOOLEAN, next : Nat]
  BY <1>1
<1> QED
  BY <1>2, Zenon DEF ScalarType

(* Marked children may be asked for.                                       *)
LEMMA CallableNow ==
  ASSUME IInv, NEW l \in Nat, NEW lo \in Terminal \cup Marked, NEW hi \in Terminal \cup Marked
  PROVE  Callable(l, lo, hi)
<1>1. maxsize \in Nat
  BY LimitAssumption DEF IInv, ScalarType
<1>2. errorcond \in BOOLEAN /\ TableInv
  BY Zenon DEF IInv, ScalarType
<1> QED
  BY <1>1, <1>2, Zenon DEF Callable

(* A bdd_makenode whose result is not kept preserves the invariant.        *)
LEMMA OpMakeNodeStep ==
  ASSUME IInv, NEW l \in 0..(varnum - 1), NEW lo \in Protected, NEW hi \in Protected,
         OpMakeNode(l, lo, hi)
  PROVE  IInv'
<1>1. Quiet /\ MakeNode(l, lo, hi) /\ UNCHANGED <<refstack, varnum, varset, growing, reorder>>
  BY DEF OpMakeNode
<1>2. l \in Nat
  BY DEF IInv, ScalarType
<1>3. Outcome(l, lo, hi)
  BY <1>1, <1>2, CallableNow, ProtectedMarked, MakeNodeKeeps
<1>4. /\ TableInv' /\ size' \in Nat /\ Keeps(size, node, size', node', Marked)
      /\ errorcond' \in BOOLEAN /\ maxsize' = maxsize
  BY <1>3, OutcomeFacts
<1>5. GoodStack(size', node', refstack) /\ GoodVars(size', node', varnum, varset)
  BY <1>4, KeepsStack, KeepsVars
<1>6. GrowthInv' /\ ScalarType'
  BY <1>1, <1>4, QuietGrowth, ScalarsKept
<1>7. GoodStack(size', node', refstack') /\ GoodVars(size', node', varnum', varset')
  BY <1>1, <1>5
<1> QED
  BY <1>4, <1>6, <1>7 DEF IInv

(* Appending a used node to the stack.                                     *)
LEMMA PushGood ==
  ASSUME NEW s \in Nat, NEW nd, NEW stack, GoodStack(s, nd, stack),
         NEW n \in Terminal \cup UsedOf(s, nd), n \in 0..(s - 1)
  PROVE  GoodStack(s, nd, Append(stack, n))
<1>1. stack \in Seq(0..(s - 1)) /\ Append(stack, n) \in Seq(0..(s - 1))
  BY DEF GoodStack
<1>2. Len(Append(stack, n)) = Len(stack) + 1
  BY <1>1
<1>3. ASSUME NEW i \in 1..Len(Append(stack, n))
      PROVE  Append(stack, n)[i] \in Terminal \cup UsedOf(s, nd)
  <2>1. CASE i \in 1..Len(stack)
    BY <2>1, <1>1 DEF GoodStack
  <2>2. CASE i = Len(stack) + 1
    BY <2>2, <1>1
  <2> QED
    BY <2>1, <2>2, <1>1, <1>2
<1> QED
  BY <1>1, <1>3 DEF GoodStack

(* A bdd_makenode whose result is stacked preserves it.                    *)
LEMMA OpPushNodeStep ==
  ASSUME IInv, NEW l \in 0..(varnum - 1), NEW lo \in Protected, NEW hi \in Protected,
         OpPushNode(l, lo, hi)
  PROVE  IInv'
<1>1. /\ Quiet /\ MakeNode(l, lo, hi)
      /\ UNCHANGED <<varnum, varset, growing, reorder>>
      /\ refstack' = Append(refstack, Answer(l, lo, hi))
  BY DEF OpPushNode
<1>2. l \in Nat
  BY DEF IInv, ScalarType
<1>3. Outcome(l, lo, hi)
  BY <1>1, <1>2, CallableNow, ProtectedMarked, MakeNodeKeeps
<1>4. /\ TableInv' /\ size' \in Nat /\ Keeps(size, node, size', node', Marked)
      /\ Answer(l, lo, hi) \in Terminal \cup UsedOf(size', node')
      /\ Answer(l, lo, hi) \in 0..(size' - 1)
      /\ errorcond' \in BOOLEAN /\ maxsize' = maxsize
  BY <1>3, OutcomeFacts
<1>5. GoodStack(size', node', refstack) /\ GoodVars(size', node', varnum, varset)
  BY <1>4, KeepsStack, KeepsVars
<1>6. GrowthInv' /\ ScalarType'
  BY <1>1, <1>4, QuietGrowth, ScalarsKept
<1>7. GoodStack(size', node', refstack')
  BY <1>1, <1>4, <1>5, PushGood
<1>8. GoodVars(size', node', varnum', varset')
  BY <1>1, <1>5
<1> QED
  BY <1>4, <1>6, <1>7, <1>8 DEF IInv

(* A collection by itself, without a resize.                               *)
LEMMA KeptStep ==
  ASSUME IInv, NEW K \in SUBSET Used, Counted \subseteq K, ClosedUnderChildren(K),
         node' = Kept(K), free' = Slots \ K, UNCHANGED <<size, held, raised>>
  PROVE  TableInv' /\ Keeps(size, node, size', node', K)
<1>1. TableInv /\ GoodTable(size, node, free) /\ IsPrime(size)
  BY DEF IInv, TableInv
<1>2. /\ GoodTable(size, Kept(K), Slots \ K) /\ UsedOf(size, Kept(K)) = K
      /\ \A n \in K \cup Terminal : Kept(K)[n] = node[n]
  BY <1>1, KeptGood
<1>3. GoodCounts(size, Kept(K), held, raised)
  BY <1>1, KeptCounts
<1>4. TableInv'
  BY <1>1, <1>2, <1>3 DEF TableInv
<1>5. K \subseteq UsedOf(size, node) /\ size \in Nat
  BY <1>1, TableFacts DEF Used, Slots, UsedOf
<1>6. Keeps(size, node, size, Kept(K), K)
  BY <1>2, <1>5 DEF Keeps
<1> QED
  BY <1>4, <1>6

(* A collection keeps the table good and the marked nodes in it.           *)
LEMMA CollectionStep ==
  ASSUME IInv, node' = Collected, free' = Reclaimed, UNCHANGED <<size, held, raised>>
  PROVE  TableInv' /\ Keeps(size, node, size', node', Marked)
<1>1. NoDanglingChild
  BY GoodHasNoDangling DEF IInv, TableInv
<1>2. Counted \subseteq Marked /\ Marked \subseteq Used /\ ClosedUnderChildren(Marked)
  BY <1>1, MarkedClosed
<1> QED
  BY <1>2, KeptStep DEF Collected, Reclaimed

(* The edges to a node are as many as a number says.                       *)
LEMMA EdgesCounted ==
  ASSUME TableInv, NEW n
  PROVE  EdgesTo(n) \in Nat
<1> DEFINE above == {m \in Survivors : n \in Children(m)}
<1>1. size \in Nat
  BY TableFacts
<1>2. Survivors \subseteq 2..(size - 1)
  <2>1. Survivors \subseteq Used
    BY SurvivorsClosed DEF TableInv
  <2> QED
    BY <2>1 DEF Used, Slots
<1>3. IsFiniteSet(2..(size - 1)) /\ above \subseteq 2..(size - 1)
  <2>1. IsFiniteSet(2..(size - 1))
    BY <1>1, FS_Interval
  <2> QED
    BY <2>1, <1>2
<1>4. IsFiniteSet(above)
  BY <1>3, FS_Subset
<1> QED
  BY <1>4, FS_CardinalityType DEF EdgesTo

(* What a reordering makes of the counts.                                  *)
LEMMA ReorderedCount ==
  ASSUME TableInv, NEW n \in Counted
  PROVE  /\ n \in 2..(size - 1) /\ node[n] \in NodeType
         /\ Reordered[n] = [node[n] EXCEPT !.refcou = Saturated(node[n].refcou + EdgesTo(n))]
         /\ Saturated(node[n].refcou + EdgesTo(n)) \in 0..MaxRef
         /\ Saturated(node[n].refcou + EdgesTo(n)) >= node[n].refcou
<1>1. size \in Nat /\ node \in [0..(size - 1) -> NodeType]
  BY DEF TableInv, GoodTable, TypedTable
<1>2. n \in 2..(size - 1) /\ n \in 0..(size - 1)
  BY <1>1 DEF Counted, Used, Slots
<1>3. EdgesTo(n) \in Nat
  BY EdgesCounted
<1>4. node[n] \in NodeType /\ node[n].refcou \in 0..MaxRef
  BY <1>1, <1>2 DEF NodeType
<1>5. /\ Saturated(node[n].refcou + EdgesTo(n)) \in 0..MaxRef
      /\ Saturated(node[n].refcou + EdgesTo(n)) >= node[n].refcou
  BY <1>3, <1>4, RefAssumption DEF Saturated
<1> QED
  BY <1>2, <1>4, <1>5 DEF Reordered

(* It leaves the nodes it keeps as they are, but for counts.               *)
LEMMA ReorderedShape ==
  ASSUME TableInv
  PROVE  /\ SameShape(size, Kept(Survivors), Reordered)
         /\ \A n \in 0..(size - 1) : n \notin Counted => Reordered[n] = Kept(Survivors)[n]
         /\ KeepsShape(size, node, size, Reordered, Survivors)
<1>1. GoodTable(size, node, free) /\ size \in Nat /\ size > 2
  BY DEF TableInv, GoodTable, TypedTable
<1>2. Counted \subseteq Survivors /\ Survivors \subseteq Used /\ ClosedUnderChildren(Survivors)
  BY <1>1, SurvivorsClosed
<1>3. /\ GoodTable(size, Kept(Survivors), Slots \ Survivors) /\ UsedOf(size, Kept(Survivors)) = Survivors
      /\ \A n \in Survivors \cup Terminal : Kept(Survivors)[n] = node[n]
  BY <1>1, <1>2, KeptGood
<1>4. Kept(Survivors) \in [0..(size - 1) -> NodeType]
  BY <1>3 DEF GoodTable, TypedTable
<1>5. ASSUME NEW n \in 0..(size - 1), n \notin Counted
      PROVE  Reordered[n] = Kept(Survivors)[n]
  BY <1>5 DEF Reordered
<1>6. ASSUME NEW n \in Counted
      PROVE  /\ Reordered[n] \in NodeType
             /\ Reordered[n].level = node[n].level
             /\ Reordered[n].low = node[n].low /\ Reordered[n].high = node[n].high
             /\ Reordered[n].refcou >= node[n].refcou /\ Reordered[n].refcou <= MaxRef
             /\ Kept(Survivors)[n] = node[n]
  <2> DEFINE count == Saturated(node[n].refcou + EdgesTo(n))
  <2>1. /\ n \in 2..(size - 1) /\ node[n] \in NodeType /\ Reordered[n] = [node[n] EXCEPT !.refcou = count]
        /\ count \in 0..MaxRef /\ count >= node[n].refcou
    BY ReorderedCount
  <2> HIDE DEF count
  <2>2. count <= MaxRef
    BY <2>1, RefAssumption
  <2> QED
    BY <2>1, <2>2, <1>2, <1>3 DEF NodeType
<1>7. Reordered \in [0..(size - 1) -> NodeType]
  <2>1. \A n \in 0..(size - 1) : Reordered[n] \in NodeType
    BY <1>4, <1>5, <1>6
  <2> QED
    BY <2>1 DEF Reordered
<1>8. SameShape(size, Kept(Survivors), Reordered)
  <2>1. ASSUME NEW n \in 0..(size - 1)
        PROVE  /\ Reordered[n].low = Kept(Survivors)[n].low /\ Reordered[n].high = Kept(Survivors)[n].high
               /\ Reordered[n].level = Kept(Survivors)[n].level
    BY <1>5, <1>6
  <2> QED
    BY <2>1, <1>1, <1>7 DEF SameShape
<1>9. KeepsShape(size, node, size, Reordered, Survivors)
  <2>1. UsedOf(size, Reordered) = Survivors
    BY <1>3, <1>8, SameShapeGood
  <2>2. Survivors \subseteq UsedOf(size, node) /\ Survivors \subseteq 2..(size - 1)
    BY <1>2 DEF Used, Slots, UsedOf
  <2>3. \A n \in Terminal : Reordered[n] = node[n]
    <3>1. Terminal \subseteq 0..(size - 1) /\ Terminal \cap Counted = {}
      BY <1>1 DEF Terminal, FALSEBDD, TRUEBDD, Counted, Used, Slots
    <3> QED
      BY <3>1, <1>3, <1>5
  <2>4. ASSUME NEW n \in Survivors
        PROVE  /\ Reordered[n].level = node[n].level
               /\ Reordered[n].low = node[n].low /\ Reordered[n].high = node[n].high
               /\ Reordered[n].refcou >= node[n].refcou /\ Reordered[n].refcou <= MaxRef
    <3>1. CASE n \in Counted
      BY <3>1, <1>6
    <3>2. CASE n \notin Counted
      <4>1. Reordered[n] = node[n]
        BY <3>2, <2>2, <1>3, <1>5
      <4>2. node[n].refcou \in 0..MaxRef
        BY <1>1, <2>2 DEF GoodTable, TypedTable, NodeType
      <4> QED
        BY <4>1, <4>2, RefAssumption
    <3> QED
      BY <3>1, <3>2
  <2>5. size >= size
    BY <1>1
  <2> QED
    BY <2>1, <2>2, <2>3, <2>4, <2>5 DEF KeepsShape
<1> QED
  BY <1>5, <1>8, <1>9

(* A count below saturation is what is held and what reorderings added,    *)
(* after a reordering as before.                                           *)
LEMMA ReorderedCounts ==
  ASSUME TableInv
  PROVE  GoodCounts(size, Reordered, held, Raised)
<1>1. GoodTable(size, node, free) /\ size \in Nat /\ size > 2
  BY DEF TableInv, GoodTable, TypedTable
<1>2. Counted \subseteq Survivors /\ Survivors \subseteq Used /\ ClosedUnderChildren(Survivors)
  BY <1>1, SurvivorsClosed
<1>3. GoodCounts(size, Kept(Survivors), held, raised) /\ GoodCounts(size, node, held, raised)
  BY <1>2, KeptCounts DEF TableInv
<1>4. /\ held \in [0..(size - 1) -> Nat] /\ raised \in [0..(size - 1) -> Nat]
  BY <1>3 DEF GoodCounts
<1>5. Raised \in [0..(size - 1) -> Nat]
  <2>1. ASSUME NEW n \in 0..(size - 1)
        PROVE  Saturated(raised[n] + EdgesTo(n)) \in Nat /\ raised[n] \in Nat
    <3>1. EdgesTo(n) \in Nat /\ raised[n] \in Nat
      BY <1>4, EdgesCounted
    <3> QED
      BY <3>1, RefAssumption DEF Saturated
  <2> QED
    BY <2>1 DEF Raised
<1>6. ASSUME NEW n \in 2..(size - 1)
      PROVE  /\ Reordered[n].refcou \in {held[n] + Raised[n], MaxRef}
             /\ Reordered[n].low = FreeLow => Reordered[n].refcou = 0 /\ held[n] = 0 /\ Raised[n] = 0
  <2>0. n \in 0..(size - 1)
    BY <1>1
  <2>1. CASE n \notin Counted
    <3>1. Reordered[n] = Kept(Survivors)[n] /\ Raised[n] = raised[n]
      BY <2>0, <2>1, ReorderedShape DEF Raised
    <3> QED
      BY <3>1, <1>3 DEF GoodCounts
  <2>2. CASE n \in Counted
    <3> DEFINE e == EdgesTo(n)
               c == node[n].refcou
    <3>1. /\ node[n] \in NodeType /\ Reordered[n] = [node[n] EXCEPT !.refcou = Saturated(c + e)]
      BY <2>2, ReorderedCount
    <3>2. e \in Nat /\ held[n] \in Nat /\ raised[n] \in Nat /\ c \in 0..MaxRef
      BY <2>0, <1>4, <3>1, EdgesCounted DEF NodeType
    <3>3. Raised[n] = IF c < MaxRef THEN Saturated(raised[n] + e) ELSE raised[n]
      BY <2>0, <2>2 DEF Raised
    <3>4. c \in {held[n] + raised[n], MaxRef}
      BY <1>3 DEF GoodCounts
    <3>5. Reordered[n].refcou = Saturated(c + e) /\ Reordered[n].low = node[n].low
      BY <3>1 DEF NodeType
    <3>6. node[n].low # FreeLow
      BY <2>2 DEF Counted, Used
    <3> HIDE DEF e, c
    <3>7. CASE c = MaxRef
      <4>1. Saturated(c + e) = MaxRef
        BY <3>7, <3>2, RefAssumption DEF Saturated
      <4> QED
        BY <4>1, <3>5, <3>6
    <3>8. CASE c # MaxRef
      <4>1. c = held[n] + raised[n] /\ c < MaxRef
        BY <3>8, <3>2, <3>4, RefAssumption
      <4>2. Saturated(c + e) \in {held[n] + Saturated(raised[n] + e), MaxRef}
        BY <4>1, <3>2, RefAssumption DEF Saturated
      <4> QED
        BY <4>1, <4>2, <3>3, <3>5, <3>6
    <3> QED
      BY <3>7, <3>8
  <2> QED
    BY <2>1, <2>2
<1> QED
  BY <1>4, <1>5, <1>6 DEF GoodCounts

(* A reordering that drops what only the stack protected.                  *)
LEMMA SurvivalStep ==
  ASSUME IInv, node' = Reordered, raised' = Raised, free' = Slots \ Survivors,
         UNCHANGED <<size, held>>
  PROVE  TableInv' /\ KeepsShape(size, node, size', node', Survivors)
<1>1. TableInv /\ GoodTable(size, node, free) /\ IsPrime(size)
  BY DEF IInv, TableInv
<1>2. Survivors \subseteq Used /\ ClosedUnderChildren(Survivors)
  BY <1>1, SurvivorsClosed
<1>3. GoodTable(size, Kept(Survivors), Slots \ Survivors)
  BY <1>1, <1>2, KeptGood
<1>4. SameShape(size, Kept(Survivors), Reordered) /\ KeepsShape(size, node, size, Reordered, Survivors)
  BY <1>1, ReorderedShape
<1>5. GoodTable(size, Reordered, Slots \ Survivors)
  BY <1>3, <1>4, SameShapeGood
<1>6. GoodCounts(size, Reordered, held, Raised)
  BY <1>1, ReorderedCounts
<1> QED
  BY <1>1, <1>4, <1>5, <1>6 DEF TableInv

(* usednodes_nextreorder stays a number of nodes.                          *)
LEMMA FreedCount ==
  ASSUME TableInv, NEW K
  PROVE  size - Cardinality(Slots \ K) \in Nat
<1>1. size \in Nat /\ size > 2
  BY TableFacts
<1>2. IsFiniteSet(2..(size - 1)) /\ Cardinality(2..(size - 1)) = size - 2
  BY <1>1, FS_Interval
<1>3. Slots \ K \subseteq 2..(size - 1)
  BY DEF Slots
<1>4. IsFiniteSet(Slots \ K) /\ Cardinality(Slots \ K) <= Cardinality(2..(size - 1))
  BY <1>2, <1>3, FS_Subset
<1>5. Cardinality(Slots \ K) \in Nat
  BY <1>4, FS_CardinalityType
<1> QED
  BY <1>1, <1>2, <1>4, <1>5

(* The jump out of bdd_makenode preserves the invariant.                   *)
LEMMA OpInterruptedStep ==
  ASSUME IInv, NEW l, NEW lo, NEW hi, OpInterrupted(l, lo, hi)
  PROVE  IInv'
<1>1. /\ Quiet /\ node' = Reordered /\ raised' = Raised /\ free' = Slots \ Survivors /\ refstack' = << >>
      /\ UNCHANGED <<size, maxsize, errorcond, varnum, varset, growing, held>>
  BY DEF OpInterrupted
<1>2. TableInv' /\ KeepsShape(size, node, size', node', Survivors)
  BY <1>1, SurvivalStep
<1>3. size' \in Nat /\ TableInv
  BY <1>1, TableFacts DEF IInv
<1>4. GoodVars(size', node', varnum', varset')
  <2>1. \A n \in Survivors : node'[n] \in NodeType
    <3>1. node' \in [0..(size - 1) -> NodeType] /\ Survivors \subseteq UsedOf(size, node')
      BY <1>1, <1>2 DEF TableInv, GoodTable, TypedTable, KeepsShape
    <3>2. UsedOf(size, node') \subseteq 0..(size - 1)
      BY <1>1, <1>3 DEF UsedOf
    <3> QED
      BY <3>1, <3>2
  <2> QED
    BY <2>1, <1>1, <1>2, <1>3, SurvivorsKeepVars
<1>5. GoodStack(size', node', refstack')
  BY <1>1 DEF GoodStack
<1>6. GrowthInv'
  BY <1>1, QuietGrowth
<1>7. ScalarType'
  <2> DEFINE used == size - Cardinality(Slots \ Survivors)
  <2>1. used \in Nat
    BY <1>3, FreedCount
  <2>2. reorder' = [reorder EXCEPT !.next = Minimum({4 * used, MaxNext})]
    BY DEF OpInterrupted
  <2> HIDE DEF used
  <2>3. {4 * used, MaxNext} \in SUBSET Nat /\ {4 * used, MaxNext} # {}
    BY <2>1, BoundAssumption
  <2>4. Minimum({4 * used, MaxNext}) \in Nat
    BY <2>3, MinimumIsLeast
  <2>5. reorder' \in [method : BOOLEAN, disabled : BOOLEAN, next : Nat]
    BY <2>2, <2>4 DEF IInv, ScalarType
  <2>6. maxsize' \in Limits /\ varnum' \in 0..MaxVars
    BY <1>1 DEF IInv, ScalarType
  <2>7. errorcond' \in BOOLEAN
    <3>1. errorcond' = errorcond
      BY <1>1
    <3> QED
      BY <3>1, Zenon DEF IInv, ScalarType
  <2> QED
    BY <2>5, <2>6, <2>7, Zenon DEF ScalarType
<1> QED
  BY <1>2, <1>4, <1>5, <1>6, <1>7 DEF IInv

(* The table and what hangs on it are left alone.                          *)
LEMMA TableKept ==
  ASSUME IInv, UNCHANGED <<size, node, free, held, raised>>
  PROVE  /\ TableInv'
         /\ UNCHANGED varset /\ varnum' \in Nat /\ varnum' <= varnum
              => GoodVars(size', node', varnum', varset')
         /\ UNCHANGED refstack => GoodStack(size', node', refstack')
<1>1. TableInv /\ GoodVars(size, node, varnum, varset) /\ GoodStack(size, node, refstack)
  BY DEF IInv
<1>2. TableInv'
  BY <1>1 DEF TableInv
<1>3. UNCHANGED refstack => GoodStack(size', node', refstack')
  BY <1>1
<1>4. ASSUME UNCHANGED varset, varnum' \in Nat, varnum' <= varnum
      PROVE  GoodVars(size', node', varnum', varset')
  <2>1. varnum \in Nat /\ varnum' \in Nat /\ varnum' <= varnum
    BY <1>4, BoundAssumption DEF IInv, ScalarType
  <2>2. \A v \in 0..(varnum' - 1) : v \in 0..(varnum - 1)
    <3>1. \A k, m \in Nat : k <= m => \A v \in 0..(k - 1) : v \in 0..(m - 1)
      OBVIOUS
    <3> QED
      BY <2>1, <3>1
  <2>3. GoodVars(size, node, varnum', varset)
    BY <1>1, <2>2 DEF GoodVars
  <2> QED
    BY <1>4, <2>3
<1> QED
  BY <1>2, <1>3, <1>4

(* A stack of used nodes less its last entry.                              *)
LEMMA TailGood ==
  ASSUME NEW s, NEW nd, NEW stack, GoodStack(s, nd, stack), stack # << >>
  PROVE  GoodStack(s, nd, SubSeq(stack, 1, Len(stack) - 1))
<1>1. stack \in Seq(0..(s - 1)) /\ Len(stack) \in Nat /\ Len(stack) >= 1
  <2>1. stack \in Seq(0..(s - 1))
    BY DEF GoodStack
  <2>2. Len(stack) \in Nat
    BY <2>1, LenProperties
  <2>3. Len(stack) # 0
    BY <2>1, EmptySeq
  <2> QED
    BY <2>1, <2>2, <2>3
<1>2. /\ SubSeq(stack, 1, Len(stack) - 1) \in Seq(0..(s - 1))
      /\ Len(SubSeq(stack, 1, Len(stack) - 1)) = Len(stack) - 1
      /\ \A i \in 1..(Len(stack) - 1) : SubSeq(stack, 1, Len(stack) - 1)[i] = stack[i]
  <2> DEFINE T == 0..(s - 1)
             k == Len(stack) - 1
  <2>1. stack \in Seq(T) /\ k \in Nat /\ k + 1 = Len(stack)
    BY <1>1
  <2> HIDE DEF T, k
  <2>2. \A i \in 1..k : i \in 1..Len(stack)
    BY <2>1
  <2>3. \A i \in 1..k : stack[i] \in T
    BY <2>1, <2>2, ElementOfSeq
  <2>4. SubSeq(stack, 1, k) \in Seq(T)
    BY <2>1, <2>3, SubSeqProperties
  <2>5. Len(SubSeq(stack, 1, k)) = k
    BY <2>1, <2>3, SubSeqProperties
  <2>6. \A i \in 1..k : SubSeq(stack, 1, k)[i] = stack[i]
    BY <2>1, <2>3, SubSeqProperties
  <2> QED
    BY <2>4, <2>5, <2>6 DEF T, k
<1>3. 1..(Len(stack) - 1) \subseteq 1..Len(stack)
  BY <1>1
<1> QED
  BY <1>2, <1>3 DEF GoodStack

(* POPREF preserves the invariant.                                         *)
LEMMA OpPopRefStep ==
  ASSUME IInv, OpPopRef
  PROVE  IInv'
<1>1. /\ Quiet /\ refstack # << >> /\ refstack' = SubSeq(refstack, 1, Len(refstack) - 1)
      /\ UNCHANGED <<table, varnum, varset, growing, reorder, held, raised>>
  BY DEF OpPopRef
<1>0. UNCHANGED <<size, node, free, held, raised, maxsize, errorcond, varnum, varset, growing, reorder>>
  BY <1>1 DEF table
<1>2. varnum' \in Nat /\ varnum' <= varnum
  BY <1>0, <1>1, BoundAssumption DEF IInv, ScalarType
<1>3. TableInv' /\ GoodVars(size', node', varnum', varset')
  BY <1>0, <1>1, <1>2, TableKept
<1>4. GoodStack(size', node', refstack')
  <2>1. GoodStack(size, node, refstack')
    BY <1>0, <1>1, TailGood DEF IInv
  <2> QED
    BY <2>1, <1>0, <1>1
<1>5. GrowthInv'
  BY <1>0, <1>1, QuietGrowth
<1>6. errorcond' \in BOOLEAN
  BY <1>0, <1>1, Zenon DEF IInv, ScalarType
<1>7. ScalarType'
  BY <1>0, <1>1, <1>6, ScalarsKept
<1> QED
  BY <1>3, <1>4, <1>5, <1>7 DEF IInv

(* Only the count of a slot n changes.                                     *)
Recounts(s, nd, n, count, new) ==
  /\ n \in 2..(s - 1) /\ count \in 0..MaxRef
  /\ new = [nd EXCEPT ![n].refcou = count]

IsRecounted(s, nd, n, count, new) ==
  /\ SameShape(s, nd, new)
  /\ new[n].refcou = count
  /\ \A m \in 0..(s - 1) : m # n => new[m] = nd[m]

(* What a new count changes of a table.                                    *)
LEMMA RecountedShape ==
  ASSUME NEW s, NEW nd, NEW fr, NEW n, NEW count, NEW new,
         GoodTable(s, nd, fr), Recounts(s, nd, n, count, new)
  PROVE  IsRecounted(s, nd, n, count, new)
<1>1. s \in Nat /\ nd \in [0..(s - 1) -> NodeType] /\ n \in 0..(s - 1) /\ count \in 0..MaxRef
  BY DEF GoodTable, TypedTable, Recounts
<1>2. nd[n] \in NodeType
  BY <1>1
<1> DEFINE changed == [nd[n] EXCEPT !.refcou = count]
<1>3. /\ changed \in NodeType
      /\ changed.refcou = count /\ changed.level = nd[n].level
      /\ changed.low = nd[n].low /\ changed.high = nd[n].high
  BY <1>1, <1>2 DEF NodeType
<1>4. new = [nd EXCEPT ![n] = changed]
  BY DEF Recounts
<1> HIDE DEF changed
<1>5. new[n] = changed /\ \A m \in 0..(s - 1) : m # n => new[m] = nd[m]
  BY <1>1, <1>4
<1>6. new \in [0..(s - 1) -> NodeType]
  BY <1>1, <1>3, <1>4
<1>7. \A m \in 0..(s - 1) : /\ new[m].low = nd[m].low /\ new[m].high = nd[m].high
                            /\ new[m].level = nd[m].level
  BY <1>3, <1>5
<1>8. 2..(s - 1) \subseteq 0..(s - 1)
  BY <1>1
<1> QED
  BY <1>3, <1>5, <1>6, <1>7, <1>8 DEF SameShape, IsRecounted

(* bdd_addref and bdd_delref: a new count for a node n, which is not that  *)
(* of a variable unless it stays saturated.                                *)
LEMMA RecountStep ==
  ASSUME IInv, Quiet, NEW n \in Used, NEW count \in 0..MaxRef, NEW kept \in Nat,
         node' = [node EXCEPT ![n].refcou = count],
         held' = [held EXCEPT ![n] = kept],
         count \in {kept + raised[n], MaxRef}, node[n].refcou = MaxRef => count = MaxRef,
         UNCHANGED <<size, free, maxsize, errorcond, refstack, varnum, varset, growing, reorder, raised>>
  PROVE  IInv'
<1>1. /\ TableInv /\ GoodTable(size, node, free) /\ GoodCounts(size, node, held, raised) /\ IsPrime(size)
      /\ GoodStack(size, node, refstack) /\ GoodVars(size, node, varnum, varset)
  BY DEF IInv, TableInv
<1>2. size \in Nat /\ size > 2 /\ Used = UsedOf(size, node) /\ n \in 2..(size - 1)
  BY <1>1, TableFacts DEF UsedOf
<1>3. Recounts(size, node, n, count, node')
  BY <1>2 DEF Recounts
<1>4. /\ SameShape(size, node, node')
      /\ node'[n].refcou = count
      /\ \A m \in 0..(size - 1) : m # n => node'[m] = node[m]
  <2>1. IsRecounted(size, node, n, count, node')
    BY <1>1, <1>3, RecountedShape
  <2> QED
    BY <2>1 DEF IsRecounted
<1>5. GoodTable(size, node', free) /\ UsedOf(size, node') = UsedOf(size, node)
  BY <1>1, <1>4, SameShapeGood
<1>6. GoodCounts(size, node', held', raised')
  <2>1. held \in [0..(size - 1) -> Nat] /\ raised \in [0..(size - 1) -> Nat]
    BY <1>1 DEF GoodCounts
  <2>2. held' \in [0..(size - 1) -> Nat] /\ held'[n] = kept
        /\ \A m \in 0..(size - 1) : m # n => held'[m] = held[m]
    BY <2>1, <1>2
  <2>3. ASSUME NEW m \in 2..(size - 1)
        PROVE  /\ node'[m].refcou \in {held'[m] + raised'[m], MaxRef}
               /\ node'[m].low = FreeLow => node'[m].refcou = 0 /\ held'[m] = 0 /\ raised'[m] = 0
    <3>1. CASE m = n
      <4>1. node'[n].low # FreeLow
        BY <1>2, <1>5 DEF UsedOf
      <4> QED
        BY <3>1, <4>1, <1>4, <2>2
    <3>2. CASE m # n
      <4>1. node'[m] = node[m] /\ held'[m] = held[m]
        BY <3>2, <1>2, <1>4, <2>2
      <4> QED
        BY <4>1, <1>1 DEF GoodCounts
    <3> QED
      BY <3>1, <3>2
  <2> QED
    BY <2>1, <2>2, <2>3 DEF GoodCounts
<1>7. TableInv'
  BY <1>1, <1>5, <1>6 DEF TableInv
<1>8. GoodStack(size', node', refstack')
  <2>1. GoodStack(size, node', refstack)
    BY <1>1, <1>5 DEF GoodStack
  <2> QED
    BY <2>1
<1>9. ASSUME NEW m, NEW l, NEW lo, NEW hi, Pin(size, node, m, l, lo, hi)
      PROVE  Pin(size, node', m, l, lo, hi)
  <2>1. m \in UsedOf(size, node) /\ m \in 0..(size - 1) /\ node \in [0..(size - 1) -> NodeType]
    BY <1>1, <1>2, <1>9 DEF Pin, UsedOf, GoodTable, TypedTable
  <2>2. CASE m # n
    BY <2>1, <2>2, <1>4, <1>5, <1>9 DEF Pin
  <2>3. CASE m = n
    <3>1. node[n] = [refcou |-> MaxRef, level |-> l, low |-> lo, high |-> hi]
      BY <2>3, <1>9 DEF Pin
    <3>2. count = MaxRef
      BY <3>1
    <3>3. node' = [node EXCEPT ![n] = [node[n] EXCEPT !.refcou = MaxRef]]
      BY <3>2
    <3>4. node'[n] = [node[n] EXCEPT !.refcou = MaxRef]
      BY <3>3, <2>1, <2>3
    <3>5. node'[n] = [refcou |-> MaxRef, level |-> l, low |-> lo, high |-> hi]
      BY <3>1, <3>4
    <3> QED
      BY <3>5, <2>1, <2>3, <1>5 DEF Pin
  <2> QED
    BY <2>2, <2>3
<1>10. GoodVars(size, node', varnum, varset)
  BY <1>1, <1>9 DEF GoodVars
<1>11. GrowthInv'
  BY QuietGrowth
<1>12. errorcond' \in BOOLEAN
  BY Zenon DEF IInv, ScalarType
<1>13. ScalarType'
  BY <1>12, ScalarsKept
<1>14. GoodVars(size', node', varnum', varset')
  BY <1>10
<1> QED
  BY <1>7, <1>8, <1>11, <1>13, <1>14 DEF IInv

(* bdd_addref preserves the invariant.                                     *)
LEMMA AddRefStep ==
  ASSUME IInv, NEW n \in Protected \ Terminal, AddRef(n)
  PROVE  IInv'
<1>1. /\ Quiet
      /\ held[n] > 0 \/ node[n].refcou < MaxRef
      /\ held' = [held EXCEPT ![n] = @ + 1]
      /\ node' = [node EXCEPT ![n].refcou = IF @ < MaxRef THEN @ + 1 ELSE @]
      /\ UNCHANGED <<size, free, maxsize, errorcond, refstack, varnum, varset, growing, reorder, raised>>
  BY DEF AddRef
<1>2. TableInv /\ GoodCounts(size, node, held, raised) /\ GoodTable(size, node, free)
  BY DEF IInv, TableInv
<1>3. n \in Used /\ n \in 2..(size - 1) /\ n \in 0..(size - 1)
  BY <1>2, ProtectedMarked, TableFacts DEF UsedOf
<1> DEFINE count == IF node[n].refcou < MaxRef THEN node[n].refcou + 1 ELSE node[n].refcou
           kept == held[n] + 1
<1>4. /\ node[n].refcou \in 0..MaxRef /\ held[n] \in Nat /\ raised[n] \in Nat
      /\ node[n].refcou \in {held[n] + raised[n], MaxRef}
  BY <1>2, <1>3 DEF GoodTable, TypedTable, NodeType, GoodCounts
<1>5. count \in 0..MaxRef /\ kept \in Nat /\ count \in {kept + raised[n], MaxRef}
      /\ (node[n].refcou = MaxRef => count = MaxRef)
  BY <1>4, RefAssumption
<1>6. node' = [node EXCEPT ![n].refcou = count] /\ held' = [held EXCEPT ![n] = kept]
  BY <1>1
<1> HIDE DEF count, kept
<1> QED
  BY <1>1, <1>3, <1>5, <1>6, RecountStep

(* bdd_delref preserves the invariant.                                     *)
LEMMA DelRefStep ==
  ASSUME IInv, NEW n \in Slots, DelRef(n)
  PROVE  IInv'
<1>1. /\ Quiet /\ n \in Used /\ held[n] > 0
      /\ held' = [held EXCEPT ![n] = @ - 1]
      /\ node' = [node EXCEPT ![n].refcou = Decref(@)]
      /\ UNCHANGED <<size, free, maxsize, errorcond, refstack, varnum, varset, growing, reorder, raised>>
  BY DEF DelRef
<1>2. TableInv /\ GoodCounts(size, node, held, raised) /\ GoodTable(size, node, free)
  BY DEF IInv, TableInv
<1>3. n \in 2..(size - 1) /\ n \in 0..(size - 1)
  BY <1>1, <1>2, TableFacts DEF UsedOf
<1> DEFINE count == Decref(node[n].refcou)
           kept == held[n] - 1
<1>4. /\ node[n].refcou \in 0..MaxRef /\ held[n] \in Nat /\ raised[n] \in Nat
      /\ node[n].refcou \in {held[n] + raised[n], MaxRef}
  BY <1>2, <1>3 DEF GoodTable, TypedTable, NodeType, GoodCounts
<1>5. count \in 0..MaxRef /\ kept \in Nat /\ count \in {kept + raised[n], MaxRef}
      /\ (node[n].refcou = MaxRef => count = MaxRef)
  BY <1>1, <1>4, RefAssumption DEF Decref
<1>6. node' = [node EXCEPT ![n].refcou = count] /\ held' = [held EXCEPT ![n] = kept]
  BY <1>1
<1> HIDE DEF count, kept
<1> QED
  BY <1>1, <1>5, <1>6, RecountStep

(* bdd_gbc preserves the invariant.                                        *)
LEMMA GbcStep ==
  ASSUME IInv, Gbc
  PROVE  IInv'
<1>1. /\ Quiet /\ node' = Collected /\ free' = Reclaimed
      /\ UNCHANGED <<size, maxsize, errorcond, refstack, varnum, varset, growing, reorder, held, raised>>
  BY DEF Gbc
<1>2. TableInv' /\ Keeps(size, node, size', node', Marked)
  BY <1>1, CollectionStep
<1>3. size' \in Nat
  BY <1>1, TableFacts DEF IInv
<1>4. GoodStack(size', node', refstack) /\ GoodVars(size', node', varnum, varset)
  BY <1>2, <1>3, KeepsStack, KeepsVars
<1>5. GoodStack(size', node', refstack') /\ GoodVars(size', node', varnum', varset')
  BY <1>1, <1>4
<1>6. errorcond' \in BOOLEAN
  BY <1>1, Zenon DEF IInv, ScalarType
<1>7. GrowthInv' /\ ScalarType'
  BY <1>1, <1>6, QuietGrowth, ScalarsKept
<1> QED
  BY <1>2, <1>5, <1>7 DEF IInv

(* The steps that only change settings of the program.                     *)
LEMMA SettingStep ==
  ASSUME IInv, Quiet,
         UNCHANGED <<size, node, free, refstack, varnum, varset, growing, held, raised>>,
         maxsize' \in Limits, errorcond' \in BOOLEAN,
         reorder' \in [method : BOOLEAN, disabled : BOOLEAN, next : Nat]
  PROVE  IInv'
<1>1. varnum' \in Nat /\ varnum' <= varnum
  BY BoundAssumption DEF IInv, ScalarType
<1>2. TableInv' /\ GoodVars(size', node', varnum', varset') /\ GoodStack(size', node', refstack')
  BY <1>1, TableKept
<1>3. GrowthInv'
  BY QuietGrowth
<1>4. varnum' \in 0..MaxVars
  BY DEF IInv, ScalarType
<1>5. ScalarType'
  BY <1>4, Zenon DEF ScalarType
<1> QED
  BY <1>2, <1>3, <1>5 DEF IInv

(* The settings of bdd_autoreorder are typed.                              *)
LEMMA ReorderTyped ==
  ASSUME IInv, NEW method \in BOOLEAN, NEW disabled \in BOOLEAN
  PROVE  [reorder EXCEPT !.method = method, !.disabled = disabled]
           \in [method : BOOLEAN, disabled : BOOLEAN, next : Nat]
  BY DEF IInv, ScalarType

(* So is what bdd_disable_reorder and bdd_enable_reorder leave.            *)
LEMMA DisabledTyped ==
  ASSUME IInv, NEW disabled \in BOOLEAN
  PROVE  [reorder EXCEPT !.disabled = disabled]
           \in [method : BOOLEAN, disabled : BOOLEAN, next : Nat]
  BY DEF IInv, ScalarType

(* Limits, reordering and the error flag may be set at any quiet moment.   *)
LEMMA ProgramSettingStep ==
  ASSUME IInv,
         \/ \E limit \in Limits : SetMaxNodeNum(limit)
         \/ \E call \in ReorderCalls : SetReorder(call)
         \/ ClearError
         \/ \E num \in VarNums : SetVarNumRefused(num)
  PROVE  IInv'
<1>0. maxsize \in Limits /\ reorder \in [method : BOOLEAN, disabled : BOOLEAN, next : Nat]
  BY DEF IInv, ScalarType
<1>e. errorcond \in BOOLEAN
  BY Zenon DEF IInv, ScalarType
<1>1. CASE \E limit \in Limits : SetMaxNodeNum(limit)
  <2>1. PICK limit \in Limits : SetMaxNodeNum(limit)
    BY <1>1
  <2>2. /\ Quiet /\ maxsize' = limit
        /\ UNCHANGED <<size, node, free, errorcond, refstack, varnum, varset, growing, reorder, held, raised>>
    BY <2>1 DEF SetMaxNodeNum
  <2>3. /\ maxsize' \in Limits /\ errorcond' \in BOOLEAN
        /\ reorder' \in [method : BOOLEAN, disabled : BOOLEAN, next : Nat]
    BY <2>2, <1>0, <1>e
  <2> QED
    BY <2>2, <2>3, SettingStep
<1>2. CASE \E call \in ReorderCalls : SetReorder(call)
  <2>1. PICK call \in ReorderCalls : SetReorder(call)
    BY <1>2
  <2>2. /\ Quiet
        /\ reorder' = [reorder EXCEPT !.method = call.method, !.disabled = call.disabled]
        /\ UNCHANGED <<table, refstack, varnum, varset, growing, held, raised>>
    BY <2>1 DEF SetReorder
  <2>3. UNCHANGED <<size, node, free, maxsize, errorcond, refstack, varnum, varset, growing, held, raised>>
    BY <2>2 DEF table
  <2>4. call.method \in BOOLEAN /\ call.disabled \in BOOLEAN
    BY CallAssumption
  <2>5. reorder' \in [method : BOOLEAN, disabled : BOOLEAN, next : Nat]
    BY <2>2, <2>4, ReorderTyped
  <2>6. maxsize' \in Limits /\ errorcond' \in BOOLEAN
    BY <2>3, <1>0, <1>e
  <2> QED
    BY <2>2, <2>3, <2>5, <2>6, SettingStep
<1>3. CASE ClearError
  <2>1. Quiet /\ errorcond' = FALSE
        /\ UNCHANGED <<size, node, free, maxsize, refstack, varnum, varset, growing, reorder, held, raised>>
    BY <1>3 DEF ClearError
  <2>2. errorcond' \in BOOLEAN
    BY <2>1, Zenon
  <2>3. maxsize' \in Limits /\ reorder' \in [method : BOOLEAN, disabled : BOOLEAN, next : Nat]
    BY <2>1, <1>0
  <2> QED
    BY <2>1, <2>2, <2>3, SettingStep
<1>4. CASE \E num \in VarNums : SetVarNumRefused(num)
  <2>1. /\ Quiet
        /\ reorder' = [reorder EXCEPT !.disabled = TRUE]
        /\ UNCHANGED <<table, refstack, varnum, varset, growing, held, raised>>
    BY <1>4 DEF SetVarNumRefused
  <2>2. UNCHANGED <<size, node, free, maxsize, errorcond, refstack, varnum, varset, growing, held, raised>>
    BY <2>1 DEF table
  <2>3. reorder' \in [method : BOOLEAN, disabled : BOOLEAN, next : Nat]
    BY <2>1, DisabledTyped
  <2>4. maxsize' \in Limits /\ errorcond' \in BOOLEAN
    BY <2>2, <1>0, <1>e
  <2> QED
    BY <2>1, <2>2, <2>3, <2>4, SettingStep
<1> QED
  BY <1>1, <1>2, <1>3, <1>4

-----------------------------------------------------------------------------
(* The steps of bdd_setvarnum.                                             *)

(* bdd_setvarnum begins.                                                   *)
LEMMA SetVarNumStart ==
  ASSUME IInv, NEW num \in VarNums, SetVarNum(num)
  PROVE  IInv'
<1>1. /\ Quiet /\ varnum < num
      /\ growing' = [step |-> "pos", target |-> num, before |-> varnum]
      /\ reorder' = [reorder EXCEPT !.disabled = TRUE]
      /\ refstack' = << >>
      /\ UNCHANGED <<table, varnum, varset, held, raised>>
  BY DEF SetVarNum
<1>2. UNCHANGED <<size, node, free, maxsize, errorcond, varnum, varset, held, raised>>
  BY <1>1 DEF table
<1>3. num \in 0..MaxVars /\ varnum \in 0..MaxVars /\ varnum' \in Nat /\ varnum' <= varnum
  BY <1>2, BoundAssumption DEF IInv, ScalarType
<1>4. TableInv' /\ GoodVars(size', node', varnum', varset')
  BY <1>2, <1>3, TableKept
<1>5. GoodStack(size', node', refstack')
  BY <1>1 DEF GoodStack
<1>6. GrowthInv'
  BY <1>1, <1>2, <1>3 DEF GrowthInv, GrowthType
<1>7. ScalarType'
  <2>1. errorcond' \in BOOLEAN
    BY <1>2, Zenon DEF IInv, ScalarType
  <2>2. reorder' \in [method : BOOLEAN, disabled : BOOLEAN, next : Nat]
    BY <1>1, DisabledTyped
  <2>3. maxsize' \in Limits /\ varnum' \in 0..MaxVars
    BY <1>2 DEF IInv, ScalarType
  <2> QED
    BY <2>1, <2>2, <2>3, Zenon DEF ScalarType
<1> QED
  BY <1>4, <1>5, <1>6, <1>7 DEF IInv

(* What both calls of bdd_makenode in the loop rely on.                    *)
LEMMA GrowthCall ==
  ASSUME IInv, growing.step # "idle"
  PROVE  /\ Callable(varnum, FALSEBDD, TRUEBDD) /\ Callable(varnum, TRUEBDD, FALSEBDD)
         /\ varnum \in Nat /\ varnum \in 0..(MaxVars - 1)
         /\ growing.target \in 0..MaxVars /\ growing.before \in 0..MaxVars
         /\ growing.before <= varnum /\ varnum < growing.target
<1>1. varnum \in Nat /\ growing.target \in 0..MaxVars /\ growing.before \in 0..MaxVars
      /\ growing.before <= varnum /\ varnum < growing.target
  BY BoundAssumption DEF IInv, ScalarType, GrowthInv, GrowthType
<1>2. varnum \in 0..(MaxVars - 1)
  BY <1>1, BoundAssumption
<1>3. FALSEBDD \in Terminal \cup Marked /\ TRUEBDD \in Terminal \cup Marked
  BY DEF Terminal
<1>4. Callable(varnum, FALSEBDD, TRUEBDD)
  BY <1>1, <1>3, CallableNow
<1>5. Callable(varnum, TRUEBDD, FALSEBDD)
  BY <1>1, <1>3, CallableNow
<1> QED
  BY <1>1, <1>2, <1>4, <1>5

(* A used node is a good stack by itself.                                  *)
LEMMA OneOnStack ==
  ASSUME NEW s, NEW nd, NEW n \in Terminal \cup UsedOf(s, nd), n \in 0..(s - 1)
  PROVE  GoodStack(s, nd, <<n>>)
  BY DEF GoodStack

(* bdd_setvarnum makes the first node of a variable and stacks it.         *)
LEMMA GrowPosStep ==
  ASSUME IInv, GrowPos
  PROVE  IInv'
<1> DEFINE n == Answer(varnum, FALSEBDD, TRUEBDD)
<1>1. /\ growing.step = "pos" /\ MakeNode(varnum, FALSEBDD, TRUEBDD)
      /\ refstack' = <<n>>
      /\ growing' = [growing EXCEPT !.step = "neg"]
      /\ UNCHANGED <<varnum, varset, reorder>>
  BY DEF GrowPos
<1>2. Outcome(varnum, FALSEBDD, TRUEBDD)
  BY <1>1, GrowthCall, MakeNodeKeeps
<1>3. /\ TableInv' /\ size' \in Nat /\ Keeps(size, node, size', node', Marked)
      /\ n \in Terminal \cup UsedOf(size', node') /\ n \in 0..(size' - 1)
      /\ errorcond' \in BOOLEAN /\ maxsize' = maxsize
  BY <1>2, OutcomeFacts
<1>4. ~ errorcond' => Made(size', node', n, varnum, FALSEBDD, TRUEBDD)
  <2>1. FALSEBDD # TRUEBDD
    BY DEF FALSEBDD, TRUEBDD
  <2> QED
    BY <1>2, <2>1, Zenon DEF Outcome, Made
<1> HIDE DEF n
<1>5. GoodStack(size', node', refstack')
  <2>1. GoodStack(size', node', <<n>>)
    BY <1>3, OneOnStack
  <2> QED
    BY <1>1, <2>1
<1>6. GoodVars(size', node', varnum', varset')
  BY <1>1, <1>3, KeepsVars
<1>7. ScalarType'
  BY <1>1, <1>3, ScalarsKept
<1>8. GrowthInv'
  <2>1. growing \in [step : {"idle", "pos", "neg", "pin"}, target : 0..MaxVars, before : 0..MaxVars]
    BY DEF IInv, GrowthInv, GrowthType
  <2>2. /\ growing' \in [step : {"idle", "pos", "neg", "pin"}, target : 0..MaxVars, before : 0..MaxVars]
        /\ growing'.step = "neg" /\ growing'.target = growing.target
        /\ growing'.before = growing.before
    BY <1>1, <2>1
  <2>3. growing'.before <= varnum' /\ varnum' < growing'.target
    BY <1>1, <2>2, GrowthCall
  <2>4. Len(refstack') = 1 /\ refstack'[1] = n
    BY <1>1
  <2>5. ~ errorcond' => Made(size', node', refstack'[1], varnum', FALSEBDD, TRUEBDD)
    BY <1>1, <1>4, <2>4
  <2> QED
    BY <2>2, <2>3, <2>4, <2>5 DEF GrowthInv, GrowthType
<1> QED
  BY <1>3, <1>5, <1>6, <1>7, <1>8 DEF IInv

(* bdd_setvarnum makes the second node and records both.                   *)
LEMMA GrowNegStep ==
  ASSUME IInv, GrowNeg
  PROVE  IInv'
<1> DEFINE n == Answer(varnum, TRUEBDD, FALSEBDD)
           r == refstack[1]
<1>1. /\ growing.step = "neg" /\ MakeNode(varnum, TRUEBDD, FALSEBDD)
      /\ varset' = [varset EXCEPT ![varnum] = <<r, n>>]
      /\ refstack' = << >>
      /\ growing' = [growing EXCEPT !.step = "pin"]
      /\ UNCHANGED <<varnum, reorder>>
  BY DEF GrowNeg
<1>2. Outcome(varnum, TRUEBDD, FALSEBDD)
  BY <1>1, GrowthCall, MakeNodeKeeps
<1>3. /\ TableInv' /\ size' \in Nat /\ Keeps(size, node, size', node', Marked)
      /\ n \in 0..(size' - 1)
      /\ errorcond' \in BOOLEAN /\ maxsize' = maxsize
  BY <1>2, OutcomeFacts
<1>4. ~ errorcond' => Made(size', node', n, varnum, TRUEBDD, FALSEBDD)
  <2>1. FALSEBDD # TRUEBDD
    BY DEF FALSEBDD, TRUEBDD
  <2> QED
    BY <1>2, <2>1, Zenon DEF Outcome, Made
<1>5. errorcond => errorcond'
  BY <1>2, Zenon DEF Outcome
<1> HIDE DEF n
<1>6. Len(refstack) = 1 /\ (~ errorcond => Made(size, node, r, varnum, FALSEBDD, TRUEBDD))
  BY <1>1 DEF IInv, GrowthInv
<1>7. ~ errorcond' => Made(size', node', r, varnum, FALSEBDD, TRUEBDD)
  <2> SUFFICES ASSUME Made(size, node, r, varnum, FALSEBDD, TRUEBDD)
               PROVE  Made(size', node', r, varnum, FALSEBDD, TRUEBDD)
    BY <1>5, <1>6
  <2>1. r \in Used /\ r \notin Terminal
    BY TableFacts DEF IInv, Made, Used, Slots, Terminal, FALSEBDD, TRUEBDD
  <2>2. r \in OnStack
    BY <1>6, <2>1 DEF OnStack
  <2>3. r \in Marked
    BY <2>1, <2>2, TableFacts DEF IInv
  <2> QED
    BY <2>3, <1>3 DEF Keeps, Made, IsNode
<1>8. r \in 0..(size' - 1)
  <2>1. refstack \in Seq(0..(size - 1))
    BY DEF IInv, GoodStack
  <2>2. 1 \in 1..Len(refstack)
    BY <1>6
  <2>4. refstack[1] \in 0..(size - 1)
    BY <2>1, <2>2, ElementOfSeq
  <2>3. size \in Nat /\ size' >= size
    BY <1>3, TableFacts DEF IInv, Keeps
  <2> QED
    BY <1>3, <2>3, <2>4
<1>9. varnum \in 0..(MaxVars - 1) /\ varnum \in Nat
  BY <1>1, GrowthCall
<1>10. GoodVars(size', node', varnum, varset)
  BY <1>3, KeepsVars
<1> HIDE DEF r
<1>11. GoodVars(size', node', varnum', varset')
  <2>1. varset \in [0..(MaxVars - 1) -> (0..(size' - 1)) \X (0..(size' - 1))]
    BY <1>10 DEF GoodVars
  <2>2. varset' \in [0..(MaxVars - 1) -> (0..(size' - 1)) \X (0..(size' - 1))]
    BY <1>1, <1>3, <1>8, <2>1
  <2>3. \A v \in 0..(varnum - 1) : v \in 0..(MaxVars - 1) /\ v # varnum
    BY <1>9, BoundAssumption
  <2>4. \A v \in 0..(varnum - 1) : varset'[v] = varset[v]
    BY <1>1, <2>1, <2>3
  <2>5. GoodVars(size', node', varnum, varset')
    BY <1>10, <2>2, <2>4 DEF GoodVars
  <2> QED
    BY <1>1, <2>5
<1>12. GoodStack(size', node', refstack')
  BY <1>1 DEF GoodStack
<1>13. ScalarType'
  BY <1>1, <1>3, ScalarsKept
<1>14. GrowthInv'
  <2>1. growing \in [step : {"idle", "pos", "neg", "pin"}, target : 0..MaxVars, before : 0..MaxVars]
    BY DEF IInv, GrowthInv, GrowthType
  <2>2. /\ growing' \in [step : {"idle", "pos", "neg", "pin"}, target : 0..MaxVars, before : 0..MaxVars]
        /\ growing'.step = "pin" /\ growing'.target = growing.target
        /\ growing'.before = growing.before
    BY <1>1, <2>1
  <2>3. growing'.before <= varnum' /\ varnum' < growing'.target
    BY <1>1, <2>2, GrowthCall
  <2>4. varset'[varnum] = <<r, n>>
    BY <1>1, <1>9 DEF IInv, GoodVars
  <2>5. varset'[varnum'][1] = r /\ varset'[varnum'][2] = n
    BY <1>1, <2>4
  <2>6. ~ errorcond' => /\ Made(size', node', varset'[varnum'][1], varnum', FALSEBDD, TRUEBDD)
                        /\ Made(size', node', varset'[varnum'][2], varnum', TRUEBDD, FALSEBDD)
    BY <1>1, <1>4, <1>7, <2>5
  <2> QED
    BY <2>2, <2>3, <2>6 DEF GrowthInv, GrowthType
<1> QED
  BY <1>3, <1>11, <1>12, <1>13, <1>14 DEF IInv

(* An error ends bdd_setvarnum with the old number of variables.           *)
LEMMA GrowAbandonStep ==
  ASSUME IInv, GrowAbandon
  PROVE  IInv'
<1>1. /\ growing.step = "pin" /\ varnum' = growing.before /\ growing' = Idle
      /\ UNCHANGED <<table, refstack, varset, reorder, held, raised>>
  BY DEF GrowAbandon
<1>2. UNCHANGED <<size, node, free, maxsize, errorcond, refstack, varset, reorder, held, raised>>
  BY <1>1 DEF table
<1>3. varnum' \in 0..MaxVars /\ varnum' \in Nat /\ varnum' <= varnum
  BY <1>1, GrowthCall, BoundAssumption
<1>4. TableInv' /\ GoodVars(size', node', varnum', varset') /\ GoodStack(size', node', refstack')
  BY <1>2, <1>3, TableKept
<1>5. GrowthInv'
  BY <1>1, BoundAssumption DEF GrowthInv, GrowthType, Idle
<1>6. ScalarType'
  <2>1. errorcond' \in BOOLEAN
    BY <1>2, Zenon DEF IInv, ScalarType
  <2>2. maxsize' \in Limits /\ reorder' \in [method : BOOLEAN, disabled : BOOLEAN, next : Nat]
    BY <1>2 DEF IInv, ScalarType
  <2> QED
    BY <1>3, <2>1, <2>2, Zenon DEF ScalarType
<1> QED
  BY <1>4, <1>5, <1>6 DEF IInv

(* The two nodes p and q of a variable are pinned; the levels of terminals *)
(* may change with it.                                                     *)
Pins(p, q, new) ==
  /\ new \in [0..(size - 1) -> NodeType]
  /\ \A m \in 0..(size - 1) : new[m].low = node[m].low /\ new[m].high = node[m].high
  /\ \A m \in 2..(size - 1) :
       new[m] = IF m \in {p, q} THEN [node[m] EXCEPT !.refcou = MaxRef] ELSE node[m]

(* The two tables GrowPin may leave differ in counts and terminal levels   *)
(* only.                                                                   *)
LEMMA PinsPinned ==
  ASSUME IInv, growing.step = "pin", ~ errorcond
  PROVE  /\ Pins(varset[varnum][1], varset[varnum][2], Pinned)
         /\ \A level \in Nat :
              Pins(varset[varnum][1], varset[varnum][2],
                   [Pinned EXCEPT ![FALSEBDD].level = level, ![TRUEBDD].level = level])
<1> DEFINE p == varset[varnum][1]
           q == varset[varnum][2]
           pinned(m) == [node[m] EXCEPT !.refcou = MaxRef]
<1>1. /\ size \in Nat /\ size > 2 /\ node \in [0..(size - 1) -> NodeType]
      /\ Used = UsedOf(size, node)
  BY TableFacts DEF IInv, TableInv, GoodTable, TypedTable
<1>2. p \in 2..(size - 1) /\ q \in 2..(size - 1)
  BY DEF IInv, GrowthInv, Made, UsedOf
<1>3. Pinned = [node EXCEPT ![p].refcou = MaxRef, ![q].refcou = MaxRef]
  BY DEF Pinned
<1> HIDE DEF p, q
<1>4. p \in 0..(size - 1) /\ q \in 0..(size - 1)
  BY <1>1, <1>2
<1>5. \A m \in 0..(size - 1) :
        /\ pinned(m) \in NodeType
        /\ pinned(m).low = node[m].low /\ pinned(m).high = node[m].high
  BY <1>1, RefAssumption DEF NodeType
<1>6. \A m \in 0..(size - 1) : Pinned[m] = IF m \in {p, q} THEN pinned(m) ELSE node[m]
  BY <1>1, <1>3, <1>4
<1>7. DOMAIN Pinned = 0..(size - 1) /\ Pinned = [m \in 0..(size - 1) |-> Pinned[m]]
  BY <1>1, <1>3
<1> HIDE DEF pinned
<1>8. \A m \in 0..(size - 1) : /\ Pinned[m] \in NodeType
                               /\ Pinned[m].low = node[m].low /\ Pinned[m].high = node[m].high
  BY <1>1, <1>5, <1>6
<1>9. Pinned \in [0..(size - 1) -> NodeType]
  BY <1>7, <1>8
<1>10. \A m \in 2..(size - 1) : m \in 0..(size - 1) /\ m # FALSEBDD /\ m # TRUEBDD
  BY <1>1 DEF FALSEBDD, TRUEBDD
<1>11. Pins(p, q, Pinned)
  BY <1>6, <1>8, <1>9, <1>10 DEF Pins, pinned
<1>12. ASSUME NEW level \in Nat
       PROVE  Pins(p, q, [Pinned EXCEPT ![FALSEBDD].level = level, ![TRUEBDD].level = level])
  <2> DEFINE new == [Pinned EXCEPT ![FALSEBDD].level = level, ![TRUEBDD].level = level]
             leveled(m) == [Pinned[m] EXCEPT !.level = level]
  <2>1. FALSEBDD \in 0..(size - 1) /\ TRUEBDD \in 0..(size - 1) /\ FALSEBDD # TRUEBDD
    BY <1>1 DEF FALSEBDD, TRUEBDD
  <2>2. \A m \in 0..(size - 1) : new[m] = IF m \in {FALSEBDD, TRUEBDD} THEN leveled(m) ELSE Pinned[m]
    BY <1>9, <2>1
  <2>3. \A m \in 0..(size - 1) :
          /\ leveled(m) \in NodeType
          /\ leveled(m).low = Pinned[m].low /\ leveled(m).high = Pinned[m].high
    BY <1>8 DEF NodeType
  <2>4. DOMAIN new = 0..(size - 1) /\ new = [m \in 0..(size - 1) |-> new[m]]
    BY <1>9
  <2> HIDE DEF new, leveled
  <2>5. \A m \in 0..(size - 1) : /\ new[m] \in NodeType
                                 /\ new[m].low = node[m].low /\ new[m].high = node[m].high
    BY <1>8, <2>2, <2>3
  <2>6. new \in [0..(size - 1) -> NodeType]
    BY <2>4, <2>5
  <2>7. \A m \in 2..(size - 1) : new[m] = Pinned[m]
    BY <1>10, <2>2
  <2> QED
    BY <1>11, <2>5, <2>6, <2>7 DEF Pins, new
<1> QED
  BY <1>11, <1>12 DEF p, q

(* bdd_setvarnum saturates the counts of the two nodes.                    *)
LEMMA GrowPinStep ==
  ASSUME IInv, GrowPin
  PROVE  IInv'
<1> DEFINE p == varset[varnum][1]
           q == varset[varnum][2]
<1>1. /\ growing.step = "pin" /\ ~ errorcond /\ varnum' = varnum + 1
      /\ UNCHANGED <<size, free, maxsize, errorcond, refstack, varset, held, raised>>
  BY DEF GrowPin
<1>2. /\ varnum \in Nat /\ varnum < growing.target /\ growing.target \in 0..MaxVars
      /\ growing.before \in 0..MaxVars /\ growing.before <= varnum
  BY <1>1, GrowthCall
<1>3. Pins(p, q, node')
  <2>1. growing.target \in Nat
    BY <1>2, BoundAssumption
  <2>2. \/ node' = Pinned
        \/ node' = [Pinned EXCEPT ![FALSEBDD].level = growing.target,
                                  ![TRUEBDD].level  = growing.target]
    BY DEF GrowPin
  <2>3. Pins(p, q, Pinned)
    BY <1>1, PinsPinned
  <2>4. Pins(p, q, [Pinned EXCEPT ![FALSEBDD].level = growing.target,
                                  ![TRUEBDD].level  = growing.target])
    BY <1>1, <2>1, PinsPinned
  <2> QED
    BY <2>2, <2>3, <2>4
<1>4. Made(size, node, p, varnum, FALSEBDD, TRUEBDD) /\ Made(size, node, q, varnum, TRUEBDD, FALSEBDD)
  BY <1>1 DEF IInv, GrowthInv
<1> HIDE DEF p, q
<1>5. /\ TableInv /\ GoodTable(size, node, free) /\ GoodCounts(size, node, held, raised) /\ IsPrime(size)
      /\ size \in Nat /\ size > 2 /\ node \in [0..(size - 1) -> NodeType]
  BY TableFacts DEF IInv, TableInv, GoodTable, TypedTable
<1>6. \A m \in 2..(size - 1) : m \in 0..(size - 1)
  BY <1>5
<1>7. \A m \in 0..(size - 1) : LET pinned == [node[m] EXCEPT !.refcou = MaxRef] IN
        pinned.level = node[m].level /\ pinned.refcou = MaxRef
        /\ pinned.low = node[m].low /\ pinned.high = node[m].high
  BY <1>5 DEF NodeType
<1>8. \A m \in 2..(size - 1) : /\ node'[m].level = node[m].level
                               /\ node'[m].refcou \in {node[m].refcou, MaxRef}
                               /\ m \notin {p, q} => node'[m] = node[m]
  <2> TAKE m \in 2..(size - 1)
  <2>1. CASE m \in {p, q}
    <3>1. node'[m] = [node[m] EXCEPT !.refcou = MaxRef]
      BY <1>3, <2>1 DEF Pins
    <3> QED
      BY <1>6, <1>7, <2>1, <3>1
  <2>2. CASE m \notin {p, q}
    <3>1. node'[m] = node[m]
      BY <1>3, <2>2 DEF Pins
    <3> QED
      BY <3>1
  <2> QED
    BY <2>1, <2>2
<1>9. SameShape(size, node, node')
  BY <1>3, <1>8 DEF SameShape, Pins
<1>10. GoodTable(size, node', free) /\ UsedOf(size, node') = UsedOf(size, node)
  BY <1>5, <1>9, SameShapeGood
<1>11. GoodCounts(size, node', held, raised)
  <2>1. ASSUME NEW m \in 2..(size - 1)
        PROVE  /\ node'[m].refcou \in {held[m] + raised[m], MaxRef}
               /\ node'[m].low = FreeLow => node'[m].refcou = 0 /\ held[m] = 0 /\ raised[m] = 0
    <3>1. node[m].refcou \in {held[m] + raised[m], MaxRef} /\ (node[m].low = FreeLow => node[m].refcou = 0 /\ held[m] = 0 /\ raised[m] = 0)
      BY <1>5 DEF GoodCounts
    <3>2. node'[m].low = node[m].low
      BY <1>3, <1>6 DEF Pins
    <3>3. node[m].low = FreeLow => m \notin {p, q}
      BY <1>4 DEF Made, UsedOf
    <3> QED
      BY <1>8, <3>1, <3>2, <3>3
  <2> QED
    BY <1>5, <2>1 DEF GoodCounts
<1>12. TableInv'
  BY <1>1, <1>5, <1>10, <1>11 DEF TableInv
<1>13. GoodStack(size', node', refstack')
  <2>1. GoodStack(size, node', refstack)
    BY <1>10 DEF IInv, GoodStack
  <2> QED
    BY <2>1, <1>1
<1>14. ASSUME NEW m, NEW l, NEW lo, NEW hi,
              Pin(size, node, m, l, lo, hi) \/ (m \in {p, q} /\ Made(size, node, m, l, lo, hi))
       PROVE  Pin(size, node', m, l, lo, hi)
  <2>1. m \in 2..(size - 1) /\ m \in 0..(size - 1) /\ m \in UsedOf(size, node)
    BY <1>6, <1>14 DEF Pin, Made, UsedOf
  <2>2. node[m].level = l /\ node[m].low = lo /\ node[m].high = hi
    BY <1>14 DEF Pin, Made, IsNode
  <2>3. CASE m \in {p, q}
    <3>1. node'[m] = [node[m] EXCEPT !.refcou = MaxRef]
      BY <1>3, <2>1, <2>3 DEF Pins
    <3>2. node[m] \in NodeType
      BY <1>5, <2>1
    <3>3. node'[m] = [refcou |-> MaxRef, level |-> l, low |-> lo, high |-> hi]
      BY <2>2, <3>1, <3>2 DEF NodeType
    <3> QED
      BY <1>10, <2>1, <3>3 DEF Pin
  <2>4. CASE m \notin {p, q}
    <3>1. node'[m] = node[m]
      BY <1>8, <2>1, <2>4
    <3> QED
      BY <1>10, <1>14, <2>4, <3>1 DEF Pin
  <2> QED
    BY <2>3, <2>4
<1>15. GoodVars(size', node', varnum', varset')
  <2>1. GoodVars(size, node, varnum, varset)
    BY DEF IInv
  <2>2. ASSUME NEW v \in 0..varnum
        PROVE  /\ Pin(size, node', varset[v][1], v, FALSEBDD, TRUEBDD)
               /\ Pin(size, node', varset[v][2], v, TRUEBDD, FALSEBDD)
    <3>1. CASE v = varnum
      BY <3>1, <1>4, <1>14 DEF p, q
    <3>2. CASE v # varnum
      <4>1. v \in 0..(varnum - 1)
        BY <3>2, <1>2
      <4> QED
        BY <4>1, <2>1, <1>14 DEF GoodVars
    <3> QED
      BY <3>1, <3>2
  <2>3. \A v \in 0..(varnum' - 1) : v \in 0..varnum
    BY <1>1, <1>2
  <2>4. GoodVars(size, node', varnum', varset)
    BY <2>1, <2>2, <2>3 DEF GoodVars
  <2> QED
    BY <2>4, <1>1
<1>16. growing \in [step : {"idle", "pos", "neg", "pin"}, target : 0..MaxVars, before : 0..MaxVars]
  BY DEF IInv, GrowthInv, GrowthType
<1>17. GrowthInv'
  <2>1. CASE varnum + 1 < growing.target
    <3>1. growing' = [growing EXCEPT !.step = "pos"]
      BY <2>1 DEF GrowPin
    <3>2. /\ growing' \in [step : {"idle", "pos", "neg", "pin"}, target : 0..MaxVars, before : 0..MaxVars]
          /\ growing'.step = "pos" /\ growing'.target = growing.target /\ growing'.before = growing.before
      BY <3>1, <1>16
    <3>3. growing'.before <= varnum' /\ varnum' < growing'.target
      BY <1>1, <1>2, <2>1, <3>2, BoundAssumption
    <3> QED
      BY <3>2, <3>3 DEF GrowthInv, GrowthType
  <2>2. CASE ~ (varnum + 1 < growing.target)
    <3>1. growing' = Idle
      BY <2>2 DEF GrowPin
    <3> QED
      BY <3>1, BoundAssumption DEF GrowthInv, GrowthType, Idle
  <2> QED
    BY <2>1, <2>2
<1>18. ScalarType'
  <2>1. errorcond' \in BOOLEAN
    BY <1>1, Zenon DEF IInv, ScalarType
  <2>2. maxsize' \in Limits
    BY <1>1 DEF IInv, ScalarType
  <2>3. varnum' \in 0..MaxVars
    BY <1>1, <1>2, BoundAssumption
  <2>4. reorder' \in [method : BOOLEAN, disabled : BOOLEAN, next : Nat]
    <3>1. reorder' = reorder \/ reorder' = [reorder EXCEPT !.disabled = FALSE]
      BY DEF GrowPin
    <3>2. [reorder EXCEPT !.disabled = FALSE] \in [method : BOOLEAN, disabled : BOOLEAN, next : Nat]
      BY DisabledTyped
    <3>3. reorder \in [method : BOOLEAN, disabled : BOOLEAN, next : Nat]
      BY DEF IInv, ScalarType
    <3> QED
      BY <3>1, <3>2, <3>3
  <2> QED
    BY <2>1, <2>2, <2>3, <2>4, Zenon DEF ScalarType
<1> QED
  BY <1>12, <1>13, <1>15, <1>17, <1>18 DEF IInv

-----------------------------------------------------------------------------
(* The theorems.                                                           *)

(* Nothing happens.                                                        *)
LEMMA StutterStep ==
  ASSUME IInv, UNCHANGED vars
  PROVE  IInv'
<1>1. UNCHANGED <<size, node, free, maxsize, errorcond, refstack, varnum, varset, growing, reorder, held, raised>>
  BY DEF vars, table
<1> QED
  BY <1>1 DEF IInv, TableInv, GrowthInv, GrowthType, ScalarType

(* Every step of an operation preserves the invariant.                     *)
LEMMA OperationKeeps ==
  ASSUME IInv, OperationStep
  PROVE  IInv'
<1>1. \/ \E l \in 0..(varnum - 1), lo \in Protected, hi \in Protected :
           OpMakeNode(l, lo, hi) \/ OpPushNode(l, lo, hi) \/ OpInterrupted(l, lo, hi)
      \/ OpPopRef
  BY DEF OperationStep
<1> QED
  BY <1>1, OpMakeNodeStep, OpPushNodeStep, OpInterruptedStep, OpPopRefStep

(* Every step of the program preserves it.                                 *)
LEMMA ProgramKeeps ==
  ASSUME IInv, ProgramStep
  PROVE  IInv'
  BY AddRefStep, DelRefStep, GbcStep, ProgramSettingStep DEF ProgramStep

(* Every step of bdd_setvarnum preserves it.                               *)
LEMMA SetVarNumKeeps ==
  ASSUME IInv, SetVarNumStep
  PROVE  IInv'
  BY SetVarNumStart, ProgramSettingStep, GrowPosStep, GrowNegStep, GrowAbandonStep, GrowPinStep
     DEF SetVarNumStep

(* The invariant is inductive.                                             *)
THEOREM InvariantHolds == Spec => []IInv
<1>1. Init => IInv
  BY InitInvariant
<1>2. IInv /\ [Next]_vars => IInv'
  BY OperationKeeps, ProgramKeeps, SetVarNumKeeps, StutterStep DEF Next
<1> QED
  BY <1>1, <1>2, PTL DEF Spec

(* Every variable of the node table keeps to its type.                     *)
THEOREM TypeCorrect == Spec => []TypeOK
<1>1. IInv => TypeOK
  BY InvariantTypes
<1> QED
  BY <1>1, InvariantHolds, PTL

(* The unique table never holds the same node twice, so two equal          *)
(* functions have one number, for tables of every size and any sequence of *)
(* collections, resizes and errors.                                        *)
THEOREM CanonicalHolds == Spec => []Canonical
<1>1. IInv => Canonical
  BY InvariantImplies
<1> QED
  BY <1>1, InvariantHolds, PTL

(* No used node, live or dead, ever points at a free slot.                 *)
THEOREM NoDanglingChildHolds == Spec => []NoDanglingChild
<1>1. IInv => NoDanglingChild
  BY InvariantImplies
<1> QED
  BY <1>1, InvariantHolds, PTL

(* The free list is exactly the unused slots.                              *)
THEOREM FreeListExactHolds == Spec => []FreeListExact
<1>1. IInv => FreeListExact
  BY InvariantImplies
<1> QED
  BY <1>1, InvariantHolds, PTL

(* What the program holds a reference on, or an operation has on its       *)
(* stack, is never reclaimed, however often counts saturate.               *)
THEOREM HeldNodesLiveHolds == Spec => []HeldNodesLive
<1>1. IInv => HeldNodesLive
  BY InvariantImplies
<1> QED
  BY <1>1, InvariantHolds, PTL

(* A count is what is held and what reorderings added, or saturated.       *)
THEOREM CountsExactHolds == Spec => []CountsExact
<1>1. IInv => CountsExact
  BY InvariantImplies
<1> QED
  BY <1>1, InvariantHolds, PTL

(* The nodes of the variables stay pinned, even when bdd_setvarnum is cut  *)
(* short by an error.                                                      *)
THEOREM VariablesPinnedHolds == Spec => []VariablesPinned
<1>1. IInv => VariablesPinned
  BY InvariantImplies
<1> QED
  BY <1>1, InvariantHolds, PTL

-----------------------------------------------------------------------------
(* What a step may never do.                                               *)

ContentKept == \A n \in StillProtected : Content(n)' = Content(n)

(* What stays protected is marked.                                         *)
LEMMA StillProtectedMarked ==
  ASSUME TableInv
  PROVE  StillProtected \subseteq Marked
<1>1. NoDanglingChild
  BY GoodHasNoDangling DEF TableInv
<1>2. Counted \cup (OnStack \cap Used) \in SUBSET Used
  BY DEF Counted
<1>3. Counted \cup (OnStack \cap OnStack' \cap Used) \in SUBSET (Counted \cup (OnStack \cap Used))
  OBVIOUS
<1> QED
  BY <1>1, <1>2, <1>3, MarkedFromMonotone DEF StillProtected, Marked

(* What keeps the marked nodes keeps the protected graph.                  *)
LEMMA KeepsContent ==
  ASSUME TableInv, Keeps(size, node, size', node', Marked)
  PROVE  ContentKept
  BY StillProtectedMarked DEF Keeps, ContentKept, Content

(* The step that empties the stack keeps what is counted.                  *)
LEMMA InterruptedContent ==
  ASSUME IInv, NEW l, NEW lo, NEW hi, OpInterrupted(l, lo, hi)
  PROVE  ContentKept
<1>1. /\ node' = Reordered /\ raised' = Raised /\ free' = Slots \ Survivors /\ refstack' = << >>
      /\ UNCHANGED <<size, held>>
  BY DEF OpInterrupted
<1>2. KeepsShape(size, node, size', node', Survivors)
  BY <1>1, SurvivalStep
<1>3. OnStack' = {}
  BY <1>1 DEF OnStack
<1>4. StillProtected = Survivors
  <2>1. Counted \cup (OnStack \cap OnStack' \cap Used) = Counted
    BY <1>3
  <2> QED
    BY <2>1 DEF StillProtected, Survivors
<1> QED
  BY <1>2, <1>4 DEF KeepsShape, ContentKept, Content

(* Nodes that do not change keep their content.                            *)
LEMMA SameNodeContent ==
  ASSUME node' = node
  PROVE  ContentKept
  BY DEF ContentKept, Content

(* A new count leaves levels and children alone.                           *)
LEMMA RecountContent ==
  ASSUME TableInv, NEW n, NEW count, node' = [node EXCEPT ![n].refcou = count]
  PROVE  ContentKept
<1> SUFFICES ASSUME NEW m \in Marked
             PROVE  Content(m)' = Content(m)
  BY StillProtectedMarked DEF ContentKept
<1>1. m \in 0..(size - 1)
  BY TableFacts DEF UsedOf
<1>2. node \in [0..(size - 1) -> NodeType]
  BY DEF TableInv, GoodTable, TypedTable
<1>3. CASE m = n
  <2>1. node'[m] = [node[m] EXCEPT !.refcou = count] /\ node[m] \in NodeType
    BY <1>1, <1>2, <1>3
  <2> QED
    BY <2>1 DEF Content, NodeType
<1>4. CASE m # n
  <2>1. node'[m] = node[m]
    BY <1>1, <1>2, <1>4
  <2> QED
    BY <2>1 DEF Content
<1> QED
  BY <1>3, <1>4

(* bdd_makenode keeps the protected graph.                                 *)
LEMMA MakeNodeContent ==
  ASSUME NEW l, NEW lo, NEW hi, Callable(l, lo, hi), MakeNode(l, lo, hi)
  PROVE  ContentKept
<1>1. Keeps(size, node, size', node', Marked)
  BY MakeNodeKeeps, OutcomeFacts
<1> QED
  BY <1>1, KeepsContent DEF Callable

(* So do the calls of an operation.                                        *)
LEMMA OperationContent ==
  ASSUME IInv, NEW l \in 0..(varnum - 1), NEW lo \in Protected, NEW hi \in Protected,
         OpMakeNode(l, lo, hi) \/ OpPushNode(l, lo, hi) \/ OpInterrupted(l, lo, hi)
  PROVE  ContentKept
<1>1. l \in Nat
  BY DEF IInv, ScalarType
<1>2. Callable(l, lo, hi)
  BY <1>1, CallableNow, ProtectedMarked
<1>3. CASE OpMakeNode(l, lo, hi) \/ OpPushNode(l, lo, hi)
  BY <1>2, <1>3, MakeNodeContent DEF OpMakeNode, OpPushNode
<1>4. CASE OpInterrupted(l, lo, hi)
  BY <1>4, InterruptedContent
<1> QED
  BY <1>3, <1>4

(* So does the end of a turn of bdd_setvarnum.                             *)
LEMMA GrowPinContent ==
  ASSUME IInv, GrowPin
  PROVE  ContentKept
<1> DEFINE p == varset[varnum][1]
           q == varset[varnum][2]
<1>1. growing.step = "pin" /\ ~ errorcond
  BY DEF GrowPin
<1>2. growing.target \in Nat
  BY <1>1, GrowthCall, BoundAssumption
<1>3. Pins(p, q, node')
  <2>1. \/ node' = Pinned
        \/ node' = [Pinned EXCEPT ![FALSEBDD].level = growing.target,
                                  ![TRUEBDD].level  = growing.target]
    BY DEF GrowPin
  <2>2. Pins(p, q, Pinned)
    BY <1>1, PinsPinned
  <2>3. Pins(p, q, [Pinned EXCEPT ![FALSEBDD].level = growing.target,
                                  ![TRUEBDD].level  = growing.target])
    BY <1>1, <1>2, PinsPinned
  <2> QED
    BY <2>1, <2>2, <2>3
<1> HIDE DEF p, q
<1>4. /\ size \in Nat /\ node \in [0..(size - 1) -> NodeType]
      /\ \A m \in Marked : m \in 2..(size - 1) /\ m \in 0..(size - 1)
  BY TableFacts DEF IInv, TableInv, GoodTable, TypedTable, UsedOf
<1>5. ASSUME NEW m \in Marked
      PROVE  Content(m)' = Content(m)
  <2>1. node'[m] = [node[m] EXCEPT !.refcou = MaxRef] \/ node'[m] = node[m]
    BY <1>3, <1>4 DEF Pins
  <2>2. node[m] \in NodeType
    BY <1>4
  <2> QED
    BY <2>1, <2>2 DEF Content, NodeType
<1> QED
  BY <1>5, StillProtectedMarked DEF ContentKept, IInv

(* So does every step.                                                     *)
LEMMA StepContent ==
  ASSUME IInv, [Next]_vars
  PROVE  ContentKept
<1>0. TableInv
  BY DEF IInv
<1>1. CASE OperationStep
  <2>1. \/ \E l \in 0..(varnum - 1), lo \in Protected, hi \in Protected :
             OpMakeNode(l, lo, hi) \/ OpPushNode(l, lo, hi) \/ OpInterrupted(l, lo, hi)
        \/ OpPopRef
    BY <1>1 DEF OperationStep
  <2> QED
    BY <2>1, OperationContent, SameNodeContent DEF OpPopRef, table
<1>2. CASE ProgramStep
  <2>1. ASSUME NEW n, AddRef(n) PROVE ContentKept
    <3>1. node' = [node EXCEPT ![n].refcou = IF node[n].refcou < MaxRef
                                              THEN node[n].refcou + 1 ELSE node[n].refcou]
      BY <2>1 DEF AddRef
    <3> QED
      BY <3>1, <1>0, RecountContent
  <2>2. ASSUME NEW n, DelRef(n) PROVE ContentKept
    <3>1. node' = [node EXCEPT ![n].refcou = Decref(node[n].refcou)]
      BY <2>2 DEF DelRef
    <3> QED
      BY <3>1, <1>0, RecountContent
  <2>3. CASE Gbc
    <3>1. node' = Collected /\ free' = Reclaimed /\ UNCHANGED <<size, held, raised>>
      BY <2>3 DEF Gbc
    <3> QED
      BY <1>0, <3>1, CollectionStep, KeepsContent
  <2>4. CASE (\E limit \in Limits : SetMaxNodeNum(limit)) \/ (\E call \in ReorderCalls : SetReorder(call)) \/ ClearError
    <3>1. node' = node
      BY <2>4 DEF SetMaxNodeNum, SetReorder, ClearError, table
    <3> QED
      BY <3>1, SameNodeContent
  <2> QED
    BY <1>2, <2>1, <2>2, <2>3, <2>4 DEF ProgramStep
<1>3. CASE SetVarNumStep
  <2>1. CASE (\E num \in VarNums : SetVarNum(num) \/ SetVarNumRefused(num)) \/ GrowAbandon
    <3>1. node' = node
      BY <2>1 DEF SetVarNum, SetVarNumRefused, GrowAbandon, table
    <3> QED
      BY <3>1, SameNodeContent
  <2>2. CASE GrowPos
    BY <2>2, GrowthCall, MakeNodeContent DEF GrowPos
  <2>3. CASE GrowNeg
    BY <2>3, GrowthCall, MakeNodeContent DEF GrowNeg
  <2>4. CASE GrowPin
    BY <2>4, GrowPinContent
  <2> QED
    BY <1>3, <2>1, <2>2, <2>3, <2>4 DEF SetVarNumStep
<1>4. CASE UNCHANGED vars
  <2>1. node' = node
    BY <1>4 DEF vars, table
  <2> QED
    BY <2>1, SameNodeContent
<1> QED
  BY <1>1, <1>2, <1>3, <1>4 DEF Next

(* The graph below anything that is counted, or stays stacked, keeps its   *)
(* shape through every step: the function such a node stands for never     *)
(* changes.                                                                *)
THEOREM ProtectedGraphKeptHolds == Spec => ProtectedGraphKept
<1>1. IInv /\ [Next]_vars => [ContentKept]_vars
  BY StepContent
<1>2. ContentKept => (node' # node => \A n \in StillProtected : Content(n)' = Content(n))
  BY DEF ContentKept
<1> QED
  BY <1>1, <1>2, InvariantHolds, PTL DEF Spec, ProtectedGraphKept

FullWhenRaised ==
  errorcond' /\ ~ errorcond => Marked = Slots /\ (MayGrow => NewSizes = {size})

(* bdd_makenode raises an error only in a full table.                      *)
LEMMA MakeNodeFull ==
  ASSUME NEW l, NEW lo, NEW hi, Callable(l, lo, hi), MakeNode(l, lo, hi)
  PROVE  FullWhenRaised
<1>1. CASE Exhausted(l, lo, hi)
  BY <1>1, ExhaustedKeeps, Zenon DEF FullWhenRaised
<1>2. CASE ~ Exhausted(l, lo, hi)
  <2>1. errorcond' = errorcond
    BY <1>2 DEF MakeNode, Found, Fresh, Refused, Recycled, table
  <2> QED
    BY <2>1, Zenon DEF FullWhenRaised
<1> QED
  BY <1>1, <1>2

(* So does every step.                                                     *)
LEMMA StepFull ==
  ASSUME IInv, [Next]_vars
  PROVE  FullWhenRaised
<1>0. ASSUME errorcond' = errorcond
      PROVE  FullWhenRaised
  BY <1>0, Zenon DEF FullWhenRaised
<1>1. CASE OperationStep
  <2>1. ASSUME NEW l \in 0..(varnum - 1), NEW lo \in Protected, NEW hi \in Protected,
               OpMakeNode(l, lo, hi) \/ OpPushNode(l, lo, hi) \/ OpInterrupted(l, lo, hi)
        PROVE  FullWhenRaised
    <3>1. l \in Nat
      BY DEF IInv, ScalarType
    <3>2. Callable(l, lo, hi)
      BY <3>1, CallableNow, ProtectedMarked
    <3>3. CASE OpMakeNode(l, lo, hi) \/ OpPushNode(l, lo, hi)
      BY <3>2, <3>3, MakeNodeFull DEF OpMakeNode, OpPushNode
    <3>4. CASE OpInterrupted(l, lo, hi)
      BY <3>4, <1>0 DEF OpInterrupted
    <3> QED
      BY <2>1, <3>3, <3>4
  <2>2. CASE OpPopRef
    BY <2>2, <1>0 DEF OpPopRef, table
  <2> QED
    BY <1>1, <2>1, <2>2 DEF OperationStep
<1>2. CASE ProgramStep
  <2>1. CASE ClearError
    <3>1. errorcond' = FALSE
      BY <2>1 DEF ClearError
    <3> QED
      BY <3>1, Zenon DEF FullWhenRaised
  <2>2. CASE ~ ClearError
    <3>1. errorcond' = errorcond
      BY <1>2, <2>2 DEF ProgramStep, AddRef, DelRef, Gbc, SetMaxNodeNum, SetReorder, table
    <3> QED
      BY <3>1, <1>0
  <2> QED
    BY <2>1, <2>2
<1>3. CASE SetVarNumStep
  <2>1. CASE GrowPos \/ GrowNeg
    BY <2>1, GrowthCall, MakeNodeFull DEF GrowPos, GrowNeg
  <2>2. CASE ~ (GrowPos \/ GrowNeg)
    <3>1. errorcond' = errorcond
      BY <1>3, <2>2 DEF SetVarNumStep, SetVarNum, SetVarNumRefused, GrowAbandon, GrowPin, table
    <3> QED
      BY <3>1, <1>0
  <2> QED
    BY <2>1, <2>2
<1>4. CASE UNCHANGED vars
  BY <1>4, <1>0 DEF vars, table
<1> QED
  BY <1>1, <1>2, <1>3, <1>4 DEF Next

(* An error means that the table is full of referenced nodes and may not   *)
(* grow to a larger prime.                                                 *)
THEOREM ErrorOnlyWhenFullHolds == Spec => ErrorOnlyWhenFull
<1>1. IInv /\ [Next]_vars => [FullWhenRaised]_vars
  BY StepFull
<1>2. FullWhenRaised =>
        (errorcond' /\ ~ errorcond => Marked = Slots /\ (MayGrow => NewSizes = {size}))
  BY DEF FullWhenRaised
<1> QED
  BY <1>1, <1>2, InvariantHolds, PTL DEF Spec, ErrorOnlyWhenFull
-----------------------------------------------------------------------------
(* The order of the variables along the edges.                             *)

OrderedTable(s, nd) ==
  \A n \in UsedOf(s, nd) :
    \A c \in {nd[n].low, nd[n].high} \ Terminal : nd[n].level < nd[c].level

(* A child that a node of level l may have.                                *)
Beneath(nd, l, c) == c \in Terminal \/ l < nd[c].level

(* What is left of an ordered table is ordered.                            *)
LEMMA KeptOrdered ==
  ASSUME NEW s, NEW nd, NEW t, NEW new, NEW fr, NEW K,
         OrderedTable(s, nd), GoodTable(t, new, fr),
         UsedOf(t, new) = K, Keeps(s, nd, t, new, K)
  PROVE  OrderedTable(t, new)
<1>1. \A n \in K : n \in UsedOf(s, nd) /\ new[n] = nd[n]
  BY DEF Keeps
<1>2. \A n \in K : new[n].low \in Terminal \cup K /\ new[n].high \in Terminal \cup K
  BY DEF GoodTable, ClosedTable
<1> SUFFICES ASSUME NEW n \in K, NEW c \in {new[n].low, new[n].high} \ Terminal
             PROVE  new[n].level < new[c].level
  BY DEF OrderedTable
<1>3. c \in K /\ c \in {nd[n].low, nd[n].high} \ Terminal
  BY <1>1, <1>2
<1> QED
  BY <1>1, <1>3 DEF OrderedTable

(* A new node above its children is nobody's child: its slot was free.     *)
LEMMA FilledOrdered ==
  ASSUME NEW s, NEW nd, NEW fr, NEW r, NEW l, NEW lo, NEW hi, NEW filled,
         Fills(s, nd, fr, r, l, lo, hi, filled), OrderedTable(s, nd),
         Beneath(nd, l, lo), Beneath(nd, l, hi)
  PROVE  OrderedTable(s, filled)
<1>1. /\ GoodTable(s, filled, fr \ {r})
      /\ UsedOf(s, filled) = UsedOf(s, nd) \cup {r}
      /\ \A n \in 0..(s - 1) \ {r} : filled[n] = nd[n]
      /\ filled[r].level = l /\ filled[r].low = lo /\ filled[r].high = hi
  BY FilledGood DEF IsFilled
<1>2. /\ GoodTable(s, nd, fr) /\ r \in fr /\ fr = (2..(s - 1)) \ UsedOf(s, nd)
      /\ lo \in Terminal \cup UsedOf(s, nd) /\ hi \in Terminal \cup UsedOf(s, nd)
  BY DEF Fills, Insertable, GoodTable
<1>3. \A n \in UsedOf(s, nd) : n # r /\ filled[n] = nd[n]
  BY <1>1, <1>2 DEF UsedOf, GoodTable, TypedTable
<1> SUFFICES ASSUME NEW n \in UsedOf(s, nd) \cup {r},
                    NEW c \in {filled[n].low, filled[n].high} \ Terminal
             PROVE  filled[n].level < filled[c].level
  BY <1>1 DEF OrderedTable
<1>4. CASE n = r
  <2>1. c \in {lo, hi} /\ c \in UsedOf(s, nd) /\ l < nd[c].level
    BY <1>1, <1>2, <1>4 DEF Beneath
  <2> QED
    BY <2>1, <1>1, <1>3, <1>4
<1>5. CASE n # r
  <2>1. n \in UsedOf(s, nd) /\ c \in {nd[n].low, nd[n].high} \ Terminal
    BY <1>3, <1>5
  <2>2. c \in UsedOf(s, nd) /\ nd[n].level < nd[c].level
    BY <2>1, <1>2 DEF GoodTable, ClosedTable, OrderedTable
  <2> QED
    BY <2>1, <2>2, <1>3
<1> QED
  BY <1>4, <1>5

(* Insert on any good and ordered table.                                   *)
LEMMA InsertOrdered ==
  ASSUME NEW s, NEW nd, NEW fr, NEW l, NEW lo, NEW hi,
         Insertable(s, nd, fr, l, lo, hi), fr # {}, Insert(l, lo, hi, nd, fr),
         OrderedTable(s, nd), Beneath(nd, l, lo), Beneath(nd, l, hi)
  PROVE  OrderedTable(s, node')
<1>1. fr \in SUBSET Nat
  BY DEF Insertable, GoodTable, TypedTable
<1>2. Minimum(fr) \in fr
  BY <1>1, MinimumIsLeast
<1>3. Fills(s, nd, fr, Minimum(fr), l, lo, hi, node')
  BY <1>2 DEF Insert, Fills
<1> QED
  BY <1>3, FilledOrdered

(* Whatever its outcome, a bdd_makenode whose children are below the level *)
(* it is asked for keeps the table ordered.                                *)
LEMMA MakeNodeOrdered ==
  ASSUME NEW l, NEW lo, NEW hi, Callable(l, lo, hi), MakeNode(l, lo, hi),
         OrderedTable(size, node), Beneath(node, l, lo), Beneath(node, l, hi)
  PROVE  OrderedTable(size', node')
<1>1. /\ TableInv /\ lo \in Terminal \cup Marked /\ hi \in Terminal \cup Marked
  BY DEF Callable
<1>2. ASSUME NEW s \in SizesAfterCollection
      PROVE  LET nd == Grown(s, Collected) IN
             /\ GoodAfter(s, nd, SlotsAfterCollection(s), GrownHeld(s), GrownRaised(s))
             /\ OrderedTable(s, nd) /\ Beneath(nd, l, lo) /\ Beneath(nd, l, hi)
  <2> DEFINE nd == Grown(s, Collected)
  <2>1. s \in Nat /\ s >= size
    BY <1>1, SizesAfter DEF Callable
  <2>2. GoodAfter(s, nd, SlotsAfterCollection(s), GrownHeld(s), GrownRaised(s))
    BY <1>1, <2>1, GoodAfterCollection
  <2> HIDE DEF nd
  <2>3. /\ GoodTable(s, nd, SlotsAfterCollection(s)) /\ UsedOf(s, nd) = Marked
        /\ Keeps(size, node, s, nd, Marked)
    BY <2>2 DEF GoodAfter
  <2>4. OrderedTable(s, nd)
    BY <2>3, KeptOrdered
  <2>5. Beneath(nd, l, lo) /\ Beneath(nd, l, hi)
    BY <2>3, <1>1 DEF Keeps, Beneath
  <2> QED
    BY <2>2, <2>4, <2>5 DEF nd
<1>3. CASE Found(l, lo, hi) \/ Refused(l, lo, hi)
  BY <1>3 DEF Found, Refused, table
<1>4. CASE Fresh(l, lo, hi)
  <2>1. Missing(l, lo, hi) /\ free # {} /\ Insert(l, lo, hi, node, free) /\ size' = size
    BY <1>4 DEF Fresh
  <2>2. OrderedTable(size, node')
    BY <2>1, InsertableNow, InsertOrdered
  <2> QED
    BY <2>1, <2>2
<1>5. CASE Recycled(l, lo, hi)
  <2>1. Missing(l, lo, hi)
    BY <1>5 DEF Recycled
  <2>2. PICK s \in SizesAfterCollection :
          /\ SlotsAfterCollection(s) # {} /\ size' = s
          /\ Insert(l, lo, hi, Grown(s, Collected), SlotsAfterCollection(s))
    BY <1>5 DEF Recycled
  <2> DEFINE nd == Grown(s, Collected)
  <2>3. /\ GoodAfter(s, nd, SlotsAfterCollection(s), GrownHeld(s), GrownRaised(s))
        /\ OrderedTable(s, nd) /\ Beneath(nd, l, lo) /\ Beneath(nd, l, hi)
        /\ Insert(l, lo, hi, nd, SlotsAfterCollection(s))
    BY <1>2, <2>2
  <2> HIDE DEF nd
  <2>4. Insertable(s, nd, SlotsAfterCollection(s), l, lo, hi)
    BY <2>1, <2>3, InsertableAfter
  <2>5. OrderedTable(s, node')
    BY <2>2, <2>3, <2>4, InsertOrdered
  <2> QED
    BY <2>2, <2>5
<1>6. CASE Exhausted(l, lo, hi)
  <2>1. PICK s \in SizesAfterCollection : size' = s /\ node' = Grown(s, Collected)
    BY <1>6 DEF Exhausted
  <2> QED
    BY <2>1, <1>2
<1> QED
  BY <1>3, <1>4, <1>5, <1>6 DEF MakeNode

(* Counts and the levels of the terminals do not enter into the order.     *)
SameContent(s, nd, new) ==
  /\ \A n \in 0..(s - 1) : new[n].low = nd[n].low /\ new[n].high = nd[n].high
  /\ \A n \in 2..(s - 1) : new[n].level = nd[n].level

(* The same levels and children are in the same order.                     *)
LEMMA SameContentOrdered ==
  ASSUME NEW s, NEW nd, NEW fr, NEW new, GoodTable(s, nd, fr), SameContent(s, nd, new),
         OrderedTable(s, nd)
  PROVE  OrderedTable(s, new)
<1>1. /\ UsedOf(s, nd) \subseteq 2..(s - 1) /\ 2..(s - 1) \subseteq 0..(s - 1)
      /\ \A n \in UsedOf(s, nd) : /\ nd[n].low \in Terminal \cup UsedOf(s, nd)
                                  /\ nd[n].high \in Terminal \cup UsedOf(s, nd)
  BY DEF UsedOf, GoodTable, TypedTable, ClosedTable
<1>2. UsedOf(s, new) = UsedOf(s, nd)
  BY <1>1 DEF UsedOf, SameContent
<1> SUFFICES ASSUME NEW n \in UsedOf(s, nd), NEW c \in {new[n].low, new[n].high} \ Terminal
             PROVE  new[n].level < new[c].level
  BY <1>2 DEF OrderedTable
<1>3. c \in {nd[n].low, nd[n].high} \ Terminal /\ c \in UsedOf(s, nd)
  BY <1>1 DEF SameContent
<1> QED
  BY <1>1, <1>3 DEF OrderedTable, SameContent

(* A new count leaves the table ordered.                                   *)
LEMMA RecountOrdered ==
  ASSUME TableInv, OrderedTable(size, node), NEW n, NEW count,
         node' = [node EXCEPT ![n].refcou = count], size' = size
  PROVE  OrderedTable(size', node')
<1>1. GoodTable(size, node, free) /\ node \in [0..(size - 1) -> NodeType] /\ size \in Nat
  BY DEF TableInv, GoodTable, TypedTable
<1>2. ASSUME NEW m \in 0..(size - 1)
      PROVE  /\ node'[m].low = node[m].low /\ node'[m].high = node[m].high
             /\ node'[m].level = node[m].level
  <2>1. CASE m = n
    <3>1. node'[m] = [node[m] EXCEPT !.refcou = count] /\ node[m] \in NodeType
      BY <1>1, <2>1
    <3> QED
      BY <3>1 DEF NodeType
  <2>2. CASE m # n
    <3>1. node'[m] = node[m]
      BY <1>1, <2>2
    <3> QED
      BY <3>1
  <2> QED
    BY <2>1, <2>2
<1>3. SameContent(size, node, node')
  BY <1>1, <1>2 DEF SameContent
<1>4. OrderedTable(size, node')
  BY <1>1, <1>3, SameContentOrdered
<1> QED
  BY <1>4

(* A collection leaves the table ordered.                                  *)
LEMMA CollectionOrdered ==
  ASSUME IInv, OrderedTable(size, node), size' = size, NEW K \in SUBSET Used,
         ClosedUnderChildren(K), node' = Kept(K)
  PROVE  OrderedTable(size', node')
<1>1. GoodTable(size, node, free) /\ size \in Nat /\ Used = UsedOf(size, node)
  BY TableFacts DEF IInv, TableInv
<1>2. /\ GoodTable(size, Kept(K), Slots \ K) /\ UsedOf(size, Kept(K)) = K
      /\ \A n \in K \cup Terminal : Kept(K)[n] = node[n]
  BY <1>1, KeptGood
<1>3. Keeps(size, node, size, Kept(K), K)
  BY <1>1, <1>2 DEF Keeps
<1>4. OrderedTable(size, Kept(K))
  BY <1>2, <1>3, KeptOrdered
<1> QED
  BY <1>4

(* So does a reordering that finds the order good as it is.                *)
LEMMA SurvivalOrdered ==
  ASSUME IInv, OrderedTable(size, node),
         node' = Reordered, raised' = Raised, free' = Slots \ Survivors, UNCHANGED <<size, held>>
  PROVE  OrderedTable(size', node') /\ UsedOf(size', node') = Survivors
<1>1. size' = size /\ free' = Slots \ Survivors
  OBVIOUS
<1>2. KeepsShape(size, node, size, node', Survivors) /\ TableInv' /\ TableInv
  BY SurvivalStep DEF IInv
<1>3. GoodTable(size, node', Slots \ Survivors) /\ Survivors \subseteq Used /\ size \in Nat
  BY <1>1, <1>2, SurvivorsClosed, TableFacts DEF TableInv
<1>4. UsedOf(size, node') = Survivors
  <2>1. Slots \ Survivors = (2..(size - 1)) \ UsedOf(size, node')
    BY <1>3 DEF GoodTable
  <2>2. Survivors \subseteq 2..(size - 1) /\ UsedOf(size, node') \subseteq 2..(size - 1)
    BY <1>3 DEF Used, Slots, UsedOf
  <2> QED
    BY <2>1, <2>2 DEF Slots
<1>5. ASSUME NEW n \in Survivors, NEW c \in {node'[n].low, node'[n].high} \ Terminal
      PROVE  node'[n].level < node'[c].level
  <2>1. c \in Survivors
    BY <1>3, <1>4 DEF GoodTable, ClosedTable
  <2>2. n \in UsedOf(size, node) /\ c \in {node[n].low, node[n].high} \ Terminal
    BY <1>2 DEF KeepsShape
  <2>3. node[n].level < node[c].level
    BY <2>2 DEF OrderedTable
  <2> QED
    BY <2>1, <2>3, <1>2 DEF KeepsShape
<1> QED
  BY <1>1, <1>4, <1>5 DEF OrderedTable

(* The operations ask for nodes above their children, bdd_setvarnum for    *)
(* nodes over the terminals.                                               *)
LEMMA OperationOrdered ==
  ASSUME IInv, OrderedTable(size, node),
         NEW l \in 0..(varnum - 1), NEW lo \in Protected, NEW hi \in Protected,
         OpMakeNode(l, lo, hi) \/ OpPushNode(l, lo, hi) \/ OpInterrupted(l, lo, hi)
  PROVE  OrderedTable(size', node')
<1>1. l \in Nat
  BY DEF IInv, ScalarType
<1>2. Callable(l, lo, hi)
  BY <1>1, CallableNow, ProtectedMarked
<1>3. CASE OpMakeNode(l, lo, hi) \/ OpPushNode(l, lo, hi)
  <2>1. MakeNode(l, lo, hi) /\ Legal(l, lo, hi)
    BY <1>3 DEF OpMakeNode, OpPushNode
  <2>2. Beneath(node, l, lo) /\ Beneath(node, l, hi)
    BY <2>1 DEF Legal, LevelOf, Beneath
  <2> QED
    BY <1>2, <2>1, <2>2, MakeNodeOrdered
<1>4. CASE OpInterrupted(l, lo, hi)
  BY <1>4, SurvivalOrdered DEF OpInterrupted
<1> QED
  BY <1>3, <1>4

(* The nodes bdd_setvarnum makes lie above the terminals.                  *)
LEMMA GrowthOrdered ==
  ASSUME IInv, OrderedTable(size, node), GrowPos \/ GrowNeg
  PROVE  OrderedTable(size', node')
<1>1. Beneath(node, varnum, FALSEBDD) /\ Beneath(node, varnum, TRUEBDD)
  BY DEF Beneath, Terminal
<1>2. CASE GrowPos
  BY <1>1, <1>2, GrowthCall, MakeNodeOrdered DEF GrowPos
<1>3. CASE GrowNeg
  BY <1>1, <1>3, GrowthCall, MakeNodeOrdered DEF GrowNeg
<1> QED
  BY <1>2, <1>3

(* Saturated counts and new terminal levels leave the table ordered.       *)
LEMMA GrowPinOrdered ==
  ASSUME IInv, OrderedTable(size, node), GrowPin
  PROVE  OrderedTable(size', node')
<1> DEFINE p == varset[varnum][1]
           q == varset[varnum][2]
<1>1. growing.step = "pin" /\ ~ errorcond /\ size' = size
  BY DEF GrowPin
<1>2. growing.target \in Nat
  BY <1>1, GrowthCall, BoundAssumption
<1>3. Pins(p, q, node')
  <2>1. \/ node' = Pinned
        \/ node' = [Pinned EXCEPT ![FALSEBDD].level = growing.target,
                                  ![TRUEBDD].level  = growing.target]
    BY DEF GrowPin
  <2>2. Pins(p, q, Pinned)
    BY <1>1, PinsPinned
  <2>3. Pins(p, q, [Pinned EXCEPT ![FALSEBDD].level = growing.target,
                                  ![TRUEBDD].level  = growing.target])
    BY <1>1, <1>2, PinsPinned
  <2> QED
    BY <2>1, <2>2, <2>3
<1> HIDE DEF p, q
<1>4. /\ GoodTable(size, node, free) /\ size \in Nat /\ node \in [0..(size - 1) -> NodeType]
      /\ \A m \in 2..(size - 1) : m \in 0..(size - 1)
  BY TableFacts DEF IInv, TableInv, GoodTable, TypedTable
<1>5. ASSUME NEW m \in 2..(size - 1)
      PROVE  node'[m].level = node[m].level
  <2>1. node'[m] = [node[m] EXCEPT !.refcou = MaxRef] \/ node'[m] = node[m]
    BY <1>3 DEF Pins
  <2>2. node[m] \in NodeType
    BY <1>4
  <2> QED
    BY <2>1, <2>2 DEF NodeType
<1>6. SameContent(size, node, node')
  BY <1>3, <1>5 DEF SameContent, Pins
<1>7. OrderedTable(size, node')
  BY <1>4, <1>6, SameContentOrdered
<1> QED
  BY <1>1, <1>7

(* Every step leaves the table ordered.                                    *)
LEMMA StepOrdered ==
  ASSUME IInv, OrderedTable(size, node), [Next]_vars
  PROVE  OrderedTable(size', node')
<1>0. TableInv
  BY DEF IInv
<1>s. ASSUME node' = node, size' = size
      PROVE  OrderedTable(size', node')
  BY <1>s
<1>1. CASE OperationStep
  <2>1. \/ \E l \in 0..(varnum - 1), lo \in Protected, hi \in Protected :
             OpMakeNode(l, lo, hi) \/ OpPushNode(l, lo, hi) \/ OpInterrupted(l, lo, hi)
        \/ OpPopRef
    BY <1>1 DEF OperationStep
  <2> QED
    BY <2>1, <1>s, OperationOrdered DEF OpPopRef, table
<1>2. CASE ProgramStep
  <2>1. ASSUME NEW n, AddRef(n) PROVE OrderedTable(size', node')
    <3>1. /\ size' = size
          /\ node' = [node EXCEPT ![n].refcou = IF node[n].refcou < MaxRef
                                                 THEN node[n].refcou + 1 ELSE node[n].refcou]
      BY <2>1 DEF AddRef
    <3> QED
      BY <3>1, <1>0, RecountOrdered
  <2>2. ASSUME NEW n, DelRef(n) PROVE OrderedTable(size', node')
    <3>1. size' = size /\ node' = [node EXCEPT ![n].refcou = Decref(node[n].refcou)]
      BY <2>2 DEF DelRef
    <3> QED
      BY <3>1, <1>0, RecountOrdered
  <2>3. CASE Gbc
    <3>1. node' = Kept(Marked) /\ size' = size
      BY <2>3 DEF Gbc, Collected
    <3>2. Marked \subseteq Used /\ ClosedUnderChildren(Marked)
      BY <1>0, GoodHasNoDangling, MarkedClosed DEF TableInv
    <3> QED
      BY <3>1, <3>2, CollectionOrdered
  <2>4. CASE (\E limit \in Limits : SetMaxNodeNum(limit)) \/ (\E call \in ReorderCalls : SetReorder(call)) \/ ClearError
    <3>1. node' = node /\ size' = size
      BY <2>4 DEF SetMaxNodeNum, SetReorder, ClearError, table
    <3> QED
      BY <3>1, <1>s
  <2> QED
    BY <1>2, <2>1, <2>2, <2>3, <2>4 DEF ProgramStep
<1>3. CASE SetVarNumStep
  <2>1. CASE (\E num \in VarNums : SetVarNum(num) \/ SetVarNumRefused(num)) \/ GrowAbandon
    <3>1. node' = node /\ size' = size
      BY <2>1 DEF SetVarNum, SetVarNumRefused, GrowAbandon, table
    <3> QED
      BY <3>1, <1>s
  <2> QED
    BY <1>3, <2>1, GrowthOrdered, GrowPinOrdered DEF SetVarNumStep
<1>4. CASE UNCHANGED vars
  BY <1>4, <1>s DEF vars, table
<1> QED
  BY <1>1, <1>2, <1>3, <1>4 DEF Next

(* A node lies above its children in the order of the variables: every     *)
(* recursion that goes by levels ends, whatever slots are used again and   *)
(* however often the table is collected and resized.                       *)
THEOREM OrderedHolds == Spec => []Ordered
<1>1. Init => OrderedTable(size, node)
  <2> SUFFICES ASSUME Init PROVE UsedOf(size, node) = {}
    BY DEF OrderedTable
  <2>1. \A n \in 2..(size - 1) : node[n].low = FreeLow
    BY SizeAssumption, FreeNodeFields DEF Init, Terminal, FALSEBDD, TRUEBDD
  <2> QED
    BY <2>1 DEF UsedOf
<1>2. IInv /\ OrderedTable(size, node) /\ [Next]_vars => OrderedTable(size, node)'
  BY StepOrdered
<1>3. OrderedTable(size, node) => Ordered
  BY DEF OrderedTable, Ordered, Used, Slots, UsedOf, Children
<1> QED
  BY <1>1, <1>2, <1>3, InvariantHolds, PTL DEF Spec
=============================================================================
