-------------------------- MODULE HashedTableProofs --------------------------
(***************************************************************************)
(* Proofs about HashedTable, for every value of its constants: the chains  *)
(* and the free list hold exactly what they should, and the table with     *)
(* chains implements NodeTable, so that what is proved of NodeTable holds  *)
(* of it too.                                                              *)
(*                                                                         *)
(* That a list holds exactly some set of slots is hard to keep by itself:  *)
(* it says nothing of the order in which the slots are linked, and a link  *)
(* could lead back into the list. The invariant therefore gives every slot *)
(* a key and says that each list is sorted by it, greatest first: a list   *)
(* built by bdd_gbc is sorted by slot number, lowest first, and a slot put *)
(* in front of its chain by bdd_makenode gets a key above all others.      *)
(***************************************************************************)
EXTENDS HashedTable, TLAPS, WellFoundedInduction, FiniteSetTheorems

-----------------------------------------------------------------------------
(* The slots of a list.                                                    *)

Linked(s, links) ==
  CHOOSE linked : linked =
    [k \in 0..s |->
      [n \in 0..(s - 1) |->
         IF n \in 2..(s - 1) /\ k > 0 THEN {n} \cup linked[k - 1][links[n]] ELSE {}]]

(* A set of numbers that is not empty has a least one.                     *)
LEMMA LeastNumber ==
  ASSUME NEW S \in SUBSET Nat, S # {}
  PROVE  \E x \in S : \A y \in S : x <= y
<1>1. PICK x \in S : \A y \in S : ~ (<<y, x>> \in OpToRel(<, Nat))
  BY WFMin, NatLessThanWellFounded
<1>2. \A y \in S : x <= y
  <2> TAKE y \in S
  <2>1. <<y, x>> \in Nat \X Nat /\ x \in Nat /\ y \in Nat
    OBVIOUS
  <2> QED
    BY <1>1, <2>1 DEF OpToRel
<1> QED
  BY <1>2

(* The recursion that follows the links has a solution.                    *)
LEMMA LinkedExists ==
  ASSUME NEW s \in Nat, NEW links
  PROVE  \E linked : linked =
           [k \in 0..s |->
             [n \in 0..(s - 1) |->
                IF n \in 2..(s - 1) /\ k > 0 THEN {n} \cup linked[k - 1][links[n]] ELSE {}]]
<1> DEFINE Body(f, k) ==
             [n \in 0..(s - 1) |->
                IF n \in 2..(s - 1) /\ k > 0 THEN {n} \cup f[k - 1][links[n]] ELSE {}]
<1> DEFINE bad == {m \in Nat : ~ \E f : f = [k \in 0..m |-> Body(f, k)]}
<1>1. bad = {}
  <2> SUFFICES ASSUME bad # {} PROVE FALSE
    OBVIOUS
  <2>1. bad \in SUBSET Nat
    OBVIOUS
  <2> HIDE DEF Body
  <2>2. PICK m \in bad : \A y \in bad : m <= y
    BY <2>1, LeastNumber
  <2>3. m \in Nat /\ ~ \E f : f = [k \in 0..m |-> Body(f, k)]
    BY <2>2
  <2>4. CASE m = 0
    <3> DEFINE f0 == [k \in 0..0 |-> [n \in 0..(s - 1) |-> {}]]
    <3>1. Body(f0, 0) = [n \in 0..(s - 1) |-> {}]
      BY DEF Body
    <3>2. f0 = [k \in 0..0 |-> Body(f0, k)]
      BY <3>1
    <3> QED
      BY <2>3, <2>4, <3>2
  <2>5. CASE m > 0
    <3>1. m - 1 \in Nat /\ m - 1 \notin bad
      BY <2>2, <2>3, <2>5
    <3>2. PICK f : f = [k \in 0..(m - 1) |-> Body(f, k)]
      BY <3>1
    <3> DEFINE g == [k \in 0..m |-> IF k < m THEN f[k] ELSE Body(f, m)]
    <3>3. ASSUME NEW k \in 0..m
          PROVE  Body(g, k) = Body(f, k)
      <4>1. k > 0 => g[k - 1] = f[k - 1]
        BY <2>3
      <4> HIDE DEF g
      <4> QED
        BY <4>1 DEF Body
    <3>4. ASSUME NEW k \in 0..m
          PROVE  g[k] = Body(g, k)
      <4>1. CASE k < m
        <5>1. k \in 0..(m - 1)
          BY <4>1, <2>3
        <5>2. f[k] = Body(f, k)
          BY <5>1, <3>2
        <5> QED
          BY <4>1, <5>2, <3>3
      <4>2. CASE k = m
        BY <4>2, <3>3
      <4> QED
        BY <4>1, <4>2, <2>3
    <3>5. g = [k \in 0..m |-> g[k]]
      OBVIOUS
    <3> HIDE DEF g
    <3>6. g = [k \in 0..m |-> Body(g, k)]
      BY <3>4, <3>5
    <3> QED
      BY <2>3, <3>6
  <2> QED
    BY <2>3, <2>4, <2>5
<1>2. \E f : f = [k \in 0..s |-> Body(f, k)]
  BY <1>1
<1> QED
  BY <1>2

(* One slot, then those its link leads to.                                 *)
LEMMA LinkedStep ==
  ASSUME NEW s \in Nat, NEW links, NEW k \in 0..s, NEW n \in 0..(s - 1)
  PROVE  Linked(s, links)[k][n] =
           IF n \in 2..(s - 1) /\ k > 0 THEN {n} \cup Linked(s, links)[k - 1][links[n]] ELSE {}
<1> DEFINE f == Linked(s, links)
<1>1. f = [i \in 0..s |->
            [m \in 0..(s - 1) |->
               IF m \in 2..(s - 1) /\ i > 0 THEN {m} \cup f[i - 1][links[m]] ELSE {}]]
  BY LinkedExists DEF Linked
<1> HIDE DEF f
<1>2. f[k][n] = IF n \in 2..(s - 1) /\ k > 0 THEN {n} \cup f[k - 1][links[n]] ELSE {}
  BY <1>1
<1> QED
  BY <1>2 DEF f

(* The slots from a head, in terms of the links alone.                     *)
LEMMA SlotsFromLinked ==
  ASSUME NEW s, NEW links, NEW head
  PROVE  SlotsFrom(s, links, head) = Linked(s, links)[s][head]
  BY DEF SlotsFrom, Linked

-----------------------------------------------------------------------------
(* Sorted lists.                                                           *)

(* The slot of C with the greatest key, 0 when C is empty.                 *)
IsTop(x, C, key) ==
  \/ C = {} /\ x = 0
  \/ x \in C /\ \A m \in C : key[m] <= key[x]

Below(C, key, n) == {m \in C : key[m] < key[n]}

UpTo(C, key, n) == {m \in C : key[m] <= key[n]}

Keyed(C, key) ==
  /\ \A n \in C : key[n] \in Int
  /\ \A m, n \in C : key[m] = key[n] => m = n

(* The links lead from the head through C, from greater to smaller keys.   *)
Sorted(C, key, links, head) ==
  /\ IsTop(head, C, key)
  /\ \A n \in C : IsTop(links[n], Below(C, key, n), key)

(* The number of slots in a part of the table.                             *)
LEMMA SlotsFinite ==
  ASSUME NEW s \in Nat, s > 2, NEW C \in SUBSET (2..(s - 1))
  PROVE  IsFiniteSet(C) /\ Cardinality(C) \in 0..(s - 2)
<1>1. IsFiniteSet(2..(s - 1)) /\ Cardinality(2..(s - 1)) = s - 2
  BY FS_Interval
<1>2. IsFiniteSet(C) /\ Cardinality(C) <= Cardinality(2..(s - 1))
  BY <1>1, FS_Subset
<1> QED
  BY <1>1, <1>2, FS_CardinalityType

(* A sorted list holds the slots it sorts, all of them and no other.       *)
LEMMA SortedSlots ==
  ASSUME NEW s \in Nat, s > 2, NEW links, NEW C \in SUBSET (2..(s - 1)), NEW key,
         Keyed(C, key), NEW head, Sorted(C, key, links, head)
  PROVE  SlotsFrom(s, links, head) = C
<1> DEFINE up(n) == UpTo(C, key, n)
<1> DEFINE bad == {k \in 0..s : \E n \in C : Cardinality(up(n)) <= k /\ Linked(s, links)[k][n] # up(n)}
<1>1. ASSUME NEW k \in 0..s
      PROVE  Linked(s, links)[k][0] = {}
  <2>1. 0 \in 0..(s - 1) /\ 0 \notin 2..(s - 1)
    OBVIOUS
  <2> QED
    BY <2>1, LinkedStep
<1>2. ASSUME NEW n \in C
      PROVE  up(n) \in SUBSET (2..(s - 1)) /\ n \in up(n)
  <2>1. key[n] \in Int
    BY DEF Keyed
  <2>2. key[n] <= key[n]
    BY <2>1
  <2> QED
    BY <2>2 DEF UpTo
<1>3. bad = {}
  <2> SUFFICES ASSUME bad # {} PROVE FALSE
    OBVIOUS
  <2>1. bad \in SUBSET Nat
    OBVIOUS
  <2>2. PICK k \in bad : \A j \in bad : k <= j
    BY <2>1, LeastNumber
  <2>3. k \in 0..s
    OBVIOUS
  <2>4. PICK n \in C : Cardinality(up(n)) <= k /\ Linked(s, links)[k][n] # up(n)
    OBVIOUS
  <2>5. IsFiniteSet(up(n)) /\ Cardinality(up(n)) \in Nat
    <3>1. up(n) \in SUBSET (2..(s - 1))
      BY <1>2
    <3> HIDE DEF up
    <3>2. IsFiniteSet(up(n)) /\ Cardinality(up(n)) \in 0..(s - 2)
      BY <3>1, SlotsFinite
    <3> QED
      BY <3>2
  <2>6. Cardinality(up(n)) # 0
    BY <2>5, <1>2, FS_EmptySet
  <2>7. k > 0 /\ k - 1 \in 0..s /\ k - 1 \notin bad
    BY <2>2, <2>3, <2>4, <2>5, <2>6
  <2>8. n \in 2..(s - 1) /\ n \in 0..(s - 1)
    OBVIOUS
  <2>9. Linked(s, links)[k][n] = {n} \cup Linked(s, links)[k - 1][links[n]]
    BY <2>3, <2>7, <2>8, LinkedStep
  <2>10. up(n) \ {n} = Below(C, key, n)
    BY DEF UpTo, Below, Keyed
  <2>11. IsTop(links[n], Below(C, key, n), key)
    BY DEF Sorted
  <2>12. CASE Below(C, key, n) = {}
    <3>1. links[n] = 0
      BY <2>11, <2>12 DEF IsTop
    <3>2. Linked(s, links)[k - 1][links[n]] = {}
      BY <3>1, <2>7, <1>1
    <3>3. up(n) = {n}
      BY <2>10, <2>12, <1>2
    <3> QED
      BY <2>4, <2>9, <3>2, <3>3
  <2>13. CASE Below(C, key, n) # {}
    <3>1. links[n] \in Below(C, key, n) /\ \A m \in Below(C, key, n) : key[m] <= key[links[n]]
      BY <2>11, <2>13 DEF IsTop
    <3>2. up(links[n]) = Below(C, key, n)
      <4>1. links[n] \in C /\ key[links[n]] < key[n]
        BY <3>1 DEF Below
      <4>2. ASSUME NEW m \in C
            PROVE  key[m] <= key[links[n]] <=> key[m] < key[n]
        <5>1. key[m] \in Int /\ key[n] \in Int /\ key[links[n]] \in Int
          BY <4>1 DEF Keyed
        <5>2. key[m] < key[n] => key[m] <= key[links[n]]
          BY <3>1 DEF Below
        <5> QED
          BY <4>1, <5>1, <5>2
      <4> QED
        BY <4>2 DEF UpTo, Below
    <3>3. Cardinality(up(n) \ {n}) = Cardinality(up(n)) - 1
      BY <2>5, <1>2, FS_RemoveElement
    <3>4. Cardinality(up(links[n])) <= k - 1
      BY <3>2, <3>3, <2>10, <2>4, <2>5, <2>3
    <3>5. links[n] \in C
      BY <3>1 DEF Below
    <3>6. Linked(s, links)[k - 1][links[n]] = up(links[n])
      BY <3>4, <3>5, <2>7
    <3> HIDE DEF up
    <3> QED
      BY <2>4, <2>9, <3>6, <3>2, <2>10, <1>2
  <2> QED
    BY <2>12, <2>13
<1>4. CASE C = {}
  BY <1>4, <1>1, SlotsFromLinked DEF Sorted, IsTop
<1>5. CASE C # {}
  <2>1. head \in C /\ \A m \in C : key[m] <= key[head]
    BY <1>5 DEF Sorted, IsTop
  <2>2. up(head) = C
    BY <2>1 DEF UpTo
  <2>3. Cardinality(C) <= s
    BY SlotsFinite
  <2>4. Linked(s, links)[s][head] = C
    BY <1>3, <2>1, <2>2, <2>3
  <2> QED
    BY <2>4, SlotsFromLinked
<1> QED
  BY <1>4, <1>5

-----------------------------------------------------------------------------
(* Chains and free list of a table of s slots.                             *)

InUse(s, nodes) == {n \in 2..(s - 1) : nodes[n].low # NT!FreeLow}

Unused(s, nodes) == 2..(s - 1) \ InUse(s, nodes)

Code(s, nodes, n) == NodeHash(s, nodes[n].level, nodes[n].low, nodes[n].high)

ClassOf(s, nodes, h) == {n \in InUse(s, nodes) : Code(s, nodes, n) = h}

(* What NodeHash is computed from are numbers.                             *)
Hashable(s, nodes) ==
  \A n \in InUse(s, nodes) : nodes[n].level \in Nat /\ nodes[n].low \in Nat /\ nodes[n].high \in Nat

(* Keys of the slots; a free one has its number for a key, lowest first.   *)
KeysOf(s, nodes, key, top) ==
  /\ key \in [2..(s - 1) -> Int] /\ top \in Int
  /\ \A n \in 2..(s - 1) : key[n] <= top
  /\ \A m, n \in 2..(s - 1) : key[m] = key[n] => m = n
  /\ \A n \in Unused(s, nodes) : key[n] = -n

(* The lists are sorted by these keys.                                     *)
SortedLinks(s, nodes, links, key) ==
  /\ \A h \in 0..(s - 1) : Sorted(ClassOf(s, nodes, h), key, links.next, links.hash[h])
  /\ Sorted(Unused(s, nodes), key, links.next, links.freepos)

LinksInTable(s, links) ==
  /\ links.hash \in [0..(s - 1) -> 0..(s - 1)]
  /\ links.next \in [0..(s - 1) -> 0..(s - 1)]

GoodLinks(s, nodes, links) ==
  /\ LinksInTable(s, links)
  /\ \E key, top : KeysOf(s, nodes, key, top) /\ SortedLinks(s, nodes, links, key)
  /\ links.freenum = Cardinality(Unused(s, nodes))

(* The hash code is the number of a chain.                                 *)
LEMMA NodeHashInTable ==
  ASSUME NEW s \in Nat, s > 2, NEW l \in Nat, NEW lo \in Nat, NEW hi \in Nat
  PROVE  NodeHash(s, l, lo, hi) \in 0..(s - 1)
<1>1. ASSUME NEW a \in Nat, NEW b \in Nat
      PROVE  Pair(a, b) \in Nat
  <2>1. (a + b) * (a + b + 1) \in Nat
    OBVIOUS
  <2> QED
    BY <2>1 DEF Pair
<1>2. Pair(hi, Pair(l, lo)) \in Nat
  BY <1>1
<1>3. ASSUME NEW x \in Nat
      PROVE  x % s \in 0..(s - 1)
  OBVIOUS
<1> QED
  BY <1>2, <1>3 DEF NodeHash

(* Good links give every list the slots it should have.                    *)
LEMMA GoodLinksExact ==
  ASSUME NEW s \in Nat, s > 2, NEW nodes, NEW links, GoodLinks(s, nodes, links)
  PROVE  /\ \A h \in 0..(s - 1) : SlotsFrom(s, links.next, links.hash[h]) = ClassOf(s, nodes, h)
         /\ SlotsFrom(s, links.next, links.freepos) = Unused(s, nodes)
<1>1. PICK key, top : KeysOf(s, nodes, key, top) /\ SortedLinks(s, nodes, links, key)
  BY DEF GoodLinks
<1>2. ASSUME NEW C \in SUBSET (2..(s - 1))
      PROVE  Keyed(C, key)
  BY <1>1 DEF KeysOf, Keyed
<1>3. ASSUME NEW h \in 0..(s - 1)
      PROVE  SlotsFrom(s, links.next, links.hash[h]) = ClassOf(s, nodes, h)
  <2>1. ClassOf(s, nodes, h) \in SUBSET (2..(s - 1))
    BY DEF ClassOf, InUse
  <2>2. Sorted(ClassOf(s, nodes, h), key, links.next, links.hash[h])
    BY <1>1 DEF SortedLinks
  <2> QED
    BY <2>1, <2>2, <1>2, SortedSlots
<1>4. SlotsFrom(s, links.next, links.freepos) = Unused(s, nodes)
  <2>1. Unused(s, nodes) \in SUBSET (2..(s - 1))
    BY DEF Unused
  <2>2. Sorted(Unused(s, nodes), key, links.next, links.freepos)
    BY <1>1 DEF SortedLinks
  <2> QED
    BY <2>1, <2>2, <1>2, SortedSlots
<1> QED
  BY <1>3, <1>4

(* The head of the free list is the lowest slot on it.                     *)
LEMMA FreeHead ==
  ASSUME NEW s \in Nat, s > 2, NEW nodes, NEW links, GoodLinks(s, nodes, links)
  PROVE  /\ links.freepos = 0 <=> Unused(s, nodes) = {}
         /\ links.freepos # 0 =>
              /\ links.freepos \in Unused(s, nodes)
              /\ \A n \in Unused(s, nodes) : links.freepos <= n
<1>1. PICK key, top : KeysOf(s, nodes, key, top) /\ SortedLinks(s, nodes, links, key)
  BY DEF GoodLinks
<1>2. IsTop(links.freepos, Unused(s, nodes), key)
  BY <1>1 DEF SortedLinks, Sorted
<1>3. Unused(s, nodes) \subseteq 2..(s - 1)
  BY DEF Unused
<1>4. \A n \in Unused(s, nodes) : n \in 2..(s - 1) /\ key[n] = -n
  BY <1>1, <1>3 DEF KeysOf
<1>5. links.freepos \in Unused(s, nodes) => \A n \in Unused(s, nodes) : links.freepos <= n
  BY <1>2, <1>4 DEF IsTop
<1>6. links.freepos \in Unused(s, nodes) => links.freepos # 0
  BY <1>3
<1> QED
  BY <1>2, <1>5, <1>6 DEF IsTop

(* The lowest slot of a set, which comes first when its key is its number  *)
(* with the sign changed.                                                  *)
LEMMA HeadIsTop ==
  ASSUME NEW S \in SUBSET Nat, NEW key, \A n \in S : key[n] = -n
  PROVE  IsTop(HeadOf(S), S, key)
<1>1. CASE S = {}
  BY <1>1 DEF HeadOf, IsTop
<1>2. CASE S # {}
  <2>1. PICK x \in S : \A y \in S : x <= y
    BY <1>2, LeastNumber
  <2> DEFINE h == HeadOf(S)
  <2>2. h \in S /\ \A y \in S : h <= y
    BY <1>2, <2>1 DEF HeadOf, NT!Minimum
  <2> HIDE DEF h
  <2>3. ASSUME NEW m \in S
        PROVE  key[m] <= key[h]
    <3>1. key[m] = -m /\ key[h] = -h /\ h <= m /\ m \in Nat /\ h \in Nat
      BY <2>2
    <3> QED
      BY <3>1
  <2> QED
    BY <2>2, <2>3 DEF IsTop, h
<1> QED
  BY <1>1, <1>2

(* bdd_gbc and bdd_gbc_rehash leave good links.                            *)
LEMMA RelinkedGood ==
  ASSUME NEW s \in Nat, s > 2, NEW nodes, Hashable(s, nodes)
  PROVE  GoodLinks(s, nodes, Relinked(s, nodes))
<1> DEFINE links == Relinked(s, nodes)
<1> DEFINE used == InUse(s, nodes)
<1> DEFINE unused == Unused(s, nodes)
<1> DEFINE code == [n \in used |-> Code(s, nodes, n)]
<1> DEFINE class(n) == IF n \in used THEN {m \in used : code[m] = code[n]} ELSE unused
<1> DEFINE key == [n \in 2..(s - 1) |-> -n]
<1>1. used \subseteq 2..(s - 1) /\ unused \subseteq 2..(s - 1)
  BY DEF InUse, Unused
<1>2. links = [hash    |-> [h \in 0..(s - 1) |-> HeadOf({n \in used : code[n] = h})],
               next    |-> [n \in 0..(s - 1) |-> IF n < 2 THEN 0 ELSE NextIn(class(n), n)],
               freepos |-> HeadOf(unused),
               freenum |-> Cardinality(unused)]
  BY DEF Relinked, InUse, Unused, Code
<1> HIDE DEF links, used, unused, class
<1>3. ASSUME NEW h \in 0..(s - 1)
      PROVE  {n \in used : code[n] = h} = ClassOf(s, nodes, h)
  BY DEF ClassOf, used
<1>4. ASSUME NEW n \in 2..(s - 1)
      PROVE  class(n) \subseteq 2..(s - 1)
  BY <1>1 DEF class
<1>5. ASSUME NEW S \in SUBSET (2..(s - 1))
      PROVE  IsTop(HeadOf(S), S, key)
  <2>1. S \in SUBSET Nat /\ \A n \in S : key[n] = -n
    OBVIOUS
  <2> HIDE DEF key
  <2> QED
    BY <2>1, HeadIsTop
<1>6. ASSUME NEW S \in SUBSET (2..(s - 1))
      PROVE  HeadOf(S) \in 0..(s - 1)
  <2> HIDE DEF key
  <2>1. HeadOf(S) = 0 \/ HeadOf(S) \in S
    BY <1>5 DEF IsTop
  <2>2. 0 \in 0..(s - 1) /\ S \subseteq 0..(s - 1)
    OBVIOUS
  <2> QED
    BY <2>1, <2>2
<1>7. ASSUME NEW C \in SUBSET (2..(s - 1)), NEW n \in C, class(n) = C
      PROVE  IsTop(links.next[n], Below(C, key, n), key)
  <2>1. Below(C, key, n) = {m \in C : m > n}
    <3>1. ASSUME NEW m \in C
          PROVE  key[m] < key[n] <=> m > n
      <4>1. m \in 2..(s - 1) /\ n \in 2..(s - 1)
        OBVIOUS
      <4>2. key[m] = -m /\ key[n] = -n
        BY <4>1
      <4> HIDE DEF key
      <4> QED
        BY <4>1, <4>2
    <3> HIDE DEF key
    <3> QED
      BY <3>1 DEF Below
  <2>2. links.next[n] = HeadOf({m \in C : m > n})
    BY <1>2, <1>7 DEF NextIn
  <2>3. {m \in C : m > n} \in SUBSET (2..(s - 1))
    OBVIOUS
  <2> HIDE DEF key
  <2> QED
    BY <2>1, <2>2, <2>3, <1>5
<1>8. LinksInTable(s, links)
  <2>1. ASSUME NEW h \in 0..(s - 1)
        PROVE  HeadOf({n \in used : code[n] = h}) \in 0..(s - 1)
    <3>1. {n \in used : code[n] = h} \in SUBSET (2..(s - 1))
      BY <1>1
    <3> HIDE DEF code
    <3> QED
      BY <3>1, <1>6
  <2>2. ASSUME NEW n \in 0..(s - 1), n >= 2
        PROVE  NextIn(class(n), n) \in 0..(s - 1)
    <3>1. {m \in class(n) : m > n} \in SUBSET (2..(s - 1))
      BY <1>4, <2>2
    <3> QED
      BY <3>1, <1>6 DEF NextIn
  <2> HIDE DEF code
  <2>3. links.hash \in [0..(s - 1) -> 0..(s - 1)]
    BY <1>2, <2>1
  <2>4. links.next \in [0..(s - 1) -> 0..(s - 1)]
    BY <1>2, <2>2
  <2> QED
    BY <2>3, <2>4 DEF LinksInTable
<1>9. KeysOf(s, nodes, key, 0)
  BY <1>1 DEF KeysOf, unused
<1>10. SortedLinks(s, nodes, links, key)
  <2>1. ASSUME NEW h \in 0..(s - 1)
        PROVE  Sorted(ClassOf(s, nodes, h), key, links.next, links.hash[h])
    <3> DEFINE C == ClassOf(s, nodes, h)
    <3>1. C \in SUBSET (2..(s - 1)) /\ C \subseteq used
      BY <1>1 DEF ClassOf, used
    <3>2. links.hash[h] = HeadOf(C)
      BY <1>2, <1>3
    <3>3. ASSUME NEW n \in C
          PROVE  class(n) = C
      <4>1. n \in used /\ code[n] = h
        BY <1>3, <3>1
      <4>2. class(n) = {m \in used : code[m] = h}
        BY <4>1 DEF class
      <4> QED
        BY <4>2, <1>3
    <3> HIDE DEF C, key, code
    <3>4. \A n \in C : IsTop(links.next[n], Below(C, key, n), key)
      BY <3>1, <3>3, <1>7
    <3>5. IsTop(links.hash[h], C, key)
      BY <3>1, <3>2, <1>5
    <3>6. Sorted(C, key, links.next, links.hash[h])
      BY <3>4, <3>5 DEF Sorted
    <3> QED
      BY <3>6 DEF C
  <2>2. Sorted(unused, key, links.next, links.freepos)
    <3>1. \A n \in unused : class(n) = unused
      BY DEF class, used, unused, Unused
    <3> HIDE DEF key, code
    <3>2. \A n \in unused : IsTop(links.next[n], Below(unused, key, n), key)
      BY <3>1, <1>1, <1>7
    <3>3. IsTop(links.freepos, unused, key)
      BY <1>1, <1>2, <1>5
    <3> QED
      BY <3>2, <3>3 DEF Sorted
  <2> QED
    BY <2>1, <2>2 DEF SortedLinks, unused
<1>11. links.freenum = Cardinality(unused)
  BY <1>2
<1>12. GoodLinks(s, nodes, links)
  BY <1>8, <1>9, <1>10, <1>11 DEF GoodLinks, unused
<1> QED
  BY <1>12 DEF links

(* A list whose slots keep their keys and links stays sorted.              *)
LEMMA SortedKept ==
  ASSUME NEW C, NEW key, NEW links, NEW head, Sorted(C, key, links, head),
         NEW key2, NEW links2, \A n \in C : key2[n] = key[n] /\ links2[n] = links[n]
  PROVE  Sorted(C, key2, links2, head)
<1>1. ASSUME NEW n \in C
      PROVE  Below(C, key2, n) = Below(C, key, n)
  BY DEF Below
<1>2. ASSUME NEW x, NEW D \in SUBSET C, IsTop(x, D, key)
      PROVE  IsTop(x, D, key2)
  BY <1>2 DEF IsTop
<1>3. IsTop(head, C, key2)
  BY <1>2 DEF Sorted
<1>4. ASSUME NEW n \in C
      PROVE  IsTop(links2[n], Below(C, key2, n), key2)
  <2>1. IsTop(links[n], Below(C, key, n), key) /\ Below(C, key, n) \in SUBSET C
    BY DEF Sorted, Below
  <2> QED
    BY <1>1, <1>2, <2>1
<1> QED
  BY <1>3, <1>4 DEF Sorted

(* A slot with a greater key goes in front of a list.                      *)
LEMMA SortedPush ==
  ASSUME NEW C, NEW key, NEW links, NEW head, Sorted(C, key, links, head),
         \A n \in C : key[n] \in Int, NEW r, r \notin C,
         NEW key2, NEW links2, \A n \in C : key2[n] = key[n] /\ links2[n] = links[n],
         key2[r] \in Int, \A n \in C : key[n] < key2[r],
         links2[r] = head
  PROVE  Sorted(C \cup {r}, key2, links2, r)
<1>1. Sorted(C, key2, links2, head)
  BY SortedKept
<1>2. IsTop(r, C \cup {r}, key2)
  <2>1. \A n \in C : key2[n] <= key2[r]
    OBVIOUS
  <2>2. key2[r] <= key2[r]
    OBVIOUS
  <2> QED
    BY <2>1, <2>2 DEF IsTop
<1>3. Below(C \cup {r}, key2, r) = C
  <2>1. ~ (key2[r] < key2[r])
    OBVIOUS
  <2> QED
    BY <2>1 DEF Below
<1>4. ASSUME NEW n \in C
      PROVE  Below(C \cup {r}, key2, n) = Below(C, key2, n)
  <2>1. ~ (key2[r] < key2[n])
    OBVIOUS
  <2> QED
    BY <2>1 DEF Below
<1>5. IsTop(links2[r], Below(C \cup {r}, key2, r), key2)
  BY <1>1, <1>3 DEF Sorted
<1>6. \A n \in C : IsTop(links2[n], Below(C \cup {r}, key2, n), key2)
  BY <1>1, <1>4 DEF Sorted
<1> QED
  BY <1>2, <1>5, <1>6 DEF Sorted

(* What is left of a list without its head begins where the head led to.   *)
LEMMA SortedPop ==
  ASSUME NEW C, NEW key, NEW links, NEW head, Sorted(C, key, links, head),
         Keyed(C, key), head \in C
  PROVE  Sorted(C \ {head}, key, links, links[head])
<1>1. \A n \in C : key[n] <= key[head] /\ key[n] \in Int
  BY DEF Sorted, IsTop, Keyed
<1>2. Below(C, key, head) = C \ {head}
  <2>1. \A n \in C : n # head => key[n] # key[head]
    BY DEF Keyed
  <2>2. ~ (key[head] < key[head])
    BY <1>1
  <2> QED
    BY <1>1, <2>1, <2>2 DEF Below
<1>3. ASSUME NEW n \in C
      PROVE  Below(C \ {head}, key, n) = Below(C, key, n)
  <2>1. ~ (key[head] < key[n])
    BY <1>1
  <2> QED
    BY <2>1 DEF Below
<1> QED
  BY <1>2, <1>3 DEF Sorted

(* The links bdd_makenode sets when it puts the head of the free list in   *)
(* front of chain h.                                                       *)
Pushed(links, h) ==
  LET r == links.freepos IN
  [hash    |-> [links.hash EXCEPT ![h] = r],
   next    |-> [links.next EXCEPT ![r] = links.hash[h]],
   freepos |-> links.next[r],
   freenum |-> links.freenum - 1]

(* A function changed at one point.                                        *)
LEMMA Overridden ==
  ASSUME NEW D, NEW R, NEW f \in [D -> R], NEW x \in D, NEW y \in R
  PROVE  /\ [f EXCEPT ![x] = y] \in [D -> R]
         /\ [f EXCEPT ![x] = y][x] = y
         /\ \A z \in D : z # x => [f EXCEPT ![x] = y][z] = f[z]
  OBVIOUS

(* Slot r, free in table nodes, holds a node of code h in table filled.    *)
Occupies(s, nodes, r, h, filled) ==
  /\ InUse(s, filled) = InUse(s, nodes) \cup {r}
  /\ \A n \in InUse(s, nodes) : Code(s, filled, n) = Code(s, nodes, n)
  /\ Code(s, filled, r) = h

(* The insertion of bdd_makenode keeps the links good when it inserts into *)
(* the chain of the new node's code in the table as it is by then.         *)
LEMMA PushedGood ==
  ASSUME NEW s \in Nat, s > 2, NEW nodes, NEW links, GoodLinks(s, nodes, links),
         links.freepos # 0, NEW h \in 0..(s - 1), NEW filled,
         Occupies(s, nodes, links.freepos, h, filled)
  PROVE  GoodLinks(s, filled, Pushed(links, h))
<1> DEFINE r == links.freepos
<1> DEFINE new == Pushed(links, h)
<1>1. PICK key, top : KeysOf(s, nodes, key, top) /\ SortedLinks(s, nodes, links, key)
  BY DEF GoodLinks
<1> DEFINE key2 == [key EXCEPT ![r] = top + 1]
<1>2. r \in Unused(s, nodes)
  BY FreeHead
<1>3. r \in 2..(s - 1) /\ r \notin InUse(s, nodes)
  BY <1>2 DEF Unused
<1>4. LinksInTable(s, links)
  BY DEF GoodLinks
<1>5. /\ new.hash = [links.hash EXCEPT ![h] = r] /\ new.next = [links.next EXCEPT ![r] = links.hash[h]]
      /\ new.freepos = links.next[r] /\ new.freenum = links.freenum - 1
  BY DEF Pushed
<1> HIDE DEF new, r
<1>6. /\ new.hash \in [0..(s - 1) -> 0..(s - 1)] /\ new.hash[h] = r
      /\ \A i \in 0..(s - 1) : i # h => new.hash[i] = links.hash[i]
  <2>1. links.hash \in [0..(s - 1) -> 0..(s - 1)]
    BY <1>4 DEF LinksInTable
  <2>2. 2..(s - 1) \subseteq 0..(s - 1)
    OBVIOUS
  <2>3. r \in 0..(s - 1)
    BY <1>3, <2>2
  <2> DEFINE f == links.hash
  <2> HIDE DEF f
  <2>4. /\ [f EXCEPT ![h] = r] \in [0..(s - 1) -> 0..(s - 1)] /\ [f EXCEPT ![h] = r][h] = r
        /\ \A i \in 0..(s - 1) : i # h => [f EXCEPT ![h] = r][i] = f[i]
    BY <2>1, <2>3, Overridden DEF f
  <2> QED
    BY <2>4, <1>5 DEF f
<1>7. /\ new.next \in [0..(s - 1) -> 0..(s - 1)] /\ new.next[r] = links.hash[h]
      /\ \A n \in 0..(s - 1) : n # r => new.next[n] = links.next[n]
  <2>1. links.next \in [0..(s - 1) -> 0..(s - 1)] /\ links.hash[h] \in 0..(s - 1)
    BY <1>4 DEF LinksInTable
  <2>2. 2..(s - 1) \subseteq 0..(s - 1)
    OBVIOUS
  <2>3. r \in 0..(s - 1)
    BY <1>3, <2>2
  <2> QED
    BY <2>1, <2>3, <1>5, Overridden
<1>8. LinksInTable(s, new)
  BY <1>6, <1>7 DEF LinksInTable
<1>9. /\ key2[r] = top + 1 /\ \A n \in 2..(s - 1) : n # r => key2[n] = key[n]
      /\ key2 \in [2..(s - 1) -> Int]
  BY <1>1, <1>3 DEF KeysOf
<1> HIDE DEF key2
<1>10. Unused(s, filled) = Unused(s, nodes) \ {r}
  BY DEF Occupies, Unused, r
<1>11. ASSUME NEW i \in 0..(s - 1)
       PROVE  /\ ClassOf(s, filled, i) = IF i = h THEN ClassOf(s, nodes, i) \cup {r} ELSE ClassOf(s, nodes, i)
              /\ ClassOf(s, nodes, i) \subseteq 2..(s - 1) /\ r \notin ClassOf(s, nodes, i)
  BY <1>3 DEF Occupies, ClassOf, r, InUse
<1>12. KeysOf(s, filled, key2, top + 1)
  <2>1. top \in Int /\ \A n \in 2..(s - 1) : key[n] \in Int /\ key[n] <= top
    BY <1>1 DEF KeysOf
  <2>2. \A n \in 2..(s - 1) : key2[n] <= top + 1
    BY <1>9, <2>1
  <2>3. \A m, n \in 2..(s - 1) : key2[m] = key2[n] => m = n
    <3>1. \A m, n \in 2..(s - 1) : key[m] = key[n] => m = n
      BY <1>1 DEF KeysOf
    <3>2. ASSUME NEW n \in 2..(s - 1), n # r
          PROVE  key2[n] # key2[r]
      <4>1. key2[n] = key[n] /\ key[n] <= top /\ key[n] \in Int /\ key2[r] = top + 1
        BY <1>9, <2>1, <3>2
      <4> QED
        BY <4>1, <2>1
    <3> QED
      BY <3>1, <3>2, <1>9
  <2>4. \A n \in Unused(s, filled) : key2[n] = -n
    <3>1. \A n \in Unused(s, nodes) : key[n] = -n /\ n \in 2..(s - 1)
      BY <1>1 DEF KeysOf, Unused
    <3> QED
      BY <3>1, <1>9, <1>10
  <2> QED
    BY <2>1, <2>2, <2>3, <2>4, <1>9, <1>3 DEF KeysOf
<1>13. \A n \in 2..(s - 1) : n # r => key2[n] = key[n] /\ new.next[n] = links.next[n]
  <2>1. 2..(s - 1) \subseteq 0..(s - 1)
    OBVIOUS
  <2> QED
    BY <2>1, <1>7, <1>9
<1>14. SortedLinks(s, filled, new, key2)
  <2>1. ASSUME NEW i \in 0..(s - 1)
        PROVE  Sorted(ClassOf(s, filled, i), key2, new.next, new.hash[i])
    <3> DEFINE C == ClassOf(s, nodes, i)
    <3>1. Sorted(C, key, links.next, links.hash[i])
      BY <1>1 DEF SortedLinks
    <3>2. \A n \in C : key2[n] = key[n] /\ new.next[n] = links.next[n]
      BY <1>11, <1>13
    <3>3. C \subseteq 2..(s - 1) /\ r \notin C
      BY <1>11
    <3>4. CASE i = h
      <4>1. \A n \in C : key[n] \in Int /\ key[n] < top + 1
        BY <3>3, <1>1 DEF KeysOf
      <4>2. key2[r] \in Int /\ key2[r] = top + 1 /\ new.next[r] = links.hash[i]
        BY <1>1, <1>7, <1>9, <3>4 DEF KeysOf
      <4> HIDE DEF C
      <4>3. \A n \in C : key[n] < key2[r]
        BY <4>1, <4>2
      <4>4. Sorted(C \cup {r}, key2, new.next, r)
        BY <3>1, <3>2, <3>3, <4>1, <4>2, <4>3, SortedPush
      <4> QED
        BY <4>4, <1>6, <1>11, <3>4 DEF C
    <3>5. CASE i # h
      <4> HIDE DEF C
      <4>1. Sorted(C, key2, new.next, links.hash[i])
        BY <3>1, <3>2, SortedKept
      <4> QED
        BY <4>1, <1>6, <1>11, <3>5 DEF C
    <3> QED
      BY <3>4, <3>5
  <2>2. Sorted(Unused(s, filled), key2, new.next, new.freepos)
    <3> DEFINE U == Unused(s, nodes)
    <3>1. Sorted(U, key, links.next, r)
      BY <1>1 DEF SortedLinks, r
    <3>2. U \subseteq 2..(s - 1)
      BY DEF Unused
    <3>3. Keyed(U, key)
      BY <3>2, <1>1 DEF KeysOf, Keyed
    <3> HIDE DEF U
    <3>4. Sorted(U \ {r}, key, links.next, links.next[r])
      BY <3>1, <3>3, <1>2, SortedPop DEF U
    <3>5. \A n \in U \ {r} : key2[n] = key[n] /\ new.next[n] = links.next[n]
      BY <3>2, <1>13
    <3>6. Sorted(U \ {r}, key2, new.next, links.next[r])
      BY <3>4, <3>5, SortedKept
    <3> QED
      BY <3>6, <1>5, <1>10 DEF U
  <2> QED
    BY <2>1, <2>2 DEF SortedLinks
<1>15. new.freenum = Cardinality(Unused(s, filled))
  <2>1. IsFiniteSet(Unused(s, nodes))
    <3>1. Unused(s, nodes) \in SUBSET (2..(s - 1))
      BY DEF Unused
    <3> QED
      BY <3>1, SlotsFinite
  <2>2. Cardinality(Unused(s, nodes) \ {r}) = Cardinality(Unused(s, nodes)) - 1
    BY <2>1, <1>2, FS_RemoveElement
  <2>3. links.freenum = Cardinality(Unused(s, nodes))
    BY DEF GoodLinks
  <2> QED
    BY <2>2, <2>3, <1>5, <1>10
<1> QED
  BY <1>8, <1>12, <1>14, <1>15 DEF GoodLinks, new

(* Links stay good while the slots keep their nodes.                       *)
LEMMA LinksKept ==
  ASSUME NEW s \in Nat, NEW nodes, NEW links, GoodLinks(s, nodes, links), NEW same,
         InUse(s, same) = InUse(s, nodes),
         \A n \in InUse(s, nodes) : Code(s, same, n) = Code(s, nodes, n)
  PROVE  GoodLinks(s, same, links)
<1>1. Unused(s, same) = Unused(s, nodes)
  BY DEF Unused
<1>2. \A h : ClassOf(s, same, h) = ClassOf(s, nodes, h)
  BY DEF ClassOf
<1> QED
  BY <1>1, <1>2 DEF GoodLinks, KeysOf, SortedLinks

-----------------------------------------------------------------------------
(* The theorems of NodeTableProofs about the free list of the chains. They *)
(* are in terms of an instance of their own, NP; its operators are the same*)
(* as those of NT, one by one.                                             *)

NP == INSTANCE NodeTableProofs WITH free <- LinkedFrom(freepos)

(* The assumptions NodeTableProofs rests on.                               *)
LEMMA TableAssumptions ==
  /\ InitSize \in Nat /\ InitSize > 2 /\ NP!IsPrime(InitSize)
  /\ MaxRef \in Nat \ {0}
  /\ MinFree \in 0..100 /\ MaxIncrease \in Nat
  /\ Limits \subseteq Nat
  /\ ReorderCalls \subseteq [method : BOOLEAN, disabled : BOOLEAN]
  /\ MaxNext \in Nat /\ MaxVars \in Nat /\ VarNums \subseteq 1..MaxVars
  BY SizeAssumption, RefAssumption, TuneAssumption, LimitAssumption, CallAssumption, BoundAssumption
     DEF NT!IsPrime, NP!IsPrime

(* Marking and collecting.                                                 *)
LEMMA SameMarking ==
  /\ NT!Marked = NP!Marked /\ NT!Survivors = NP!Survivors
  /\ NT!Collected = NP!Collected /\ NT!Reclaimed = NP!Reclaimed
  /\ NT!Kept(NT!Survivors) = NP!Kept(NP!Survivors)
  /\ NT!Protected = NP!Protected
<1>1. NT!Marked = NP!Marked
  BY DEF NT!Marked, NT!MarkedFrom, NT!Used, NT!Slots, NT!FreeLow, NT!ClosedUnderChildren, NT!Children,
         NT!Terminal, NT!FALSEBDD, NT!TRUEBDD, NT!Counted, NT!OnStack,
         NP!Marked, NP!MarkedFrom, NP!Used, NP!Slots, NP!FreeLow, NP!ClosedUnderChildren, NP!Children,
         NP!Terminal, NP!FALSEBDD, NP!TRUEBDD, NP!Counted, NP!OnStack
<1>2. NT!Survivors = NP!Survivors
  BY DEF NT!Survivors, NT!MarkedFrom, NT!Used, NT!Slots, NT!FreeLow, NT!ClosedUnderChildren, NT!Children,
         NT!Terminal, NT!FALSEBDD, NT!TRUEBDD, NT!Counted,
         NP!Survivors, NP!MarkedFrom, NP!Used, NP!Slots, NP!FreeLow, NP!ClosedUnderChildren, NP!Children,
         NP!Terminal, NP!FALSEBDD, NP!TRUEBDD, NP!Counted
<1>3. ASSUME NEW S
      PROVE  NT!Kept(S) = NP!Kept(S)
  BY DEF NT!Kept, NT!Terminal, NT!FALSEBDD, NT!TRUEBDD, NT!FreeNode, NT!FreeLow,
         NP!Kept, NP!Terminal, NP!FALSEBDD, NP!TRUEBDD, NP!FreeNode, NP!FreeLow
<1>4. NT!Collected = NP!Collected
  BY <1>1, <1>3 DEF NT!Collected, NP!Collected
<1>5. NT!Kept(NT!Survivors) = NP!Kept(NP!Survivors)
  BY <1>2, <1>3
<1>6. NT!Reclaimed = NP!Reclaimed
  BY <1>1 DEF NT!Reclaimed, NP!Reclaimed, NT!Slots, NP!Slots
<1>7. NT!Protected = NP!Protected
  BY <1>1 DEF NT!Protected, NP!Protected, NT!Terminal, NT!FALSEBDD, NT!TRUEBDD, NP!Terminal, NP!FALSEBDD, NP!TRUEBDD
<1> QED
  BY <1>1, <1>2, <1>4, <1>5, <1>6, <1>7

(* Both instances of NodeTable define the least element alike.             *)
LEMMA SameMinimum ==
  ASSUME NEW S
  PROVE  NT!Minimum(S) = NP!Minimum(S)
  BY DEF NT!Minimum, NP!Minimum

(* Both instances count alike.                                             *)
LEMMA SameCardinality ==
  ASSUME NEW S
  PROVE  NT!Cardinality(S) = Cardinality(S) /\ NP!Cardinality(S) = Cardinality(S)
  BY DEF NT!Cardinality, NP!Cardinality, Cardinality

(* The counts a reordering leaves.                                         *)
LEMMA SameReordering == NT!Reordered = NP!Reordered /\ NT!Raised = NP!Raised
<1>1. NT!Counted = NP!Counted
  BY DEF NT!Counted, NP!Counted, NT!Used, NP!Used, NT!Slots, NP!Slots, NT!FreeLow, NP!FreeLow
<1>2. ASSUME NEW n
      PROVE  NT!EdgesTo(n) = NP!EdgesTo(n)
  <2> DEFINE above == {m \in NT!Survivors : n \in NT!Children(m)}
  <2>1. above = {m \in NP!Survivors : n \in NP!Children(m)}
    <3>1. ASSUME NEW m
          PROVE  NT!Children(m) = NP!Children(m)
      BY DEF NT!Children, NP!Children, NT!Terminal, NP!Terminal, NT!FALSEBDD, NP!FALSEBDD, NT!TRUEBDD, NP!TRUEBDD
    <3> QED
      BY <3>1, SameMarking
  <2>2. NT!EdgesTo(n) = NT!Cardinality(above) /\ NP!EdgesTo(n) = NP!Cardinality(above)
    BY <2>1 DEF NT!EdgesTo, NP!EdgesTo
  <2> HIDE DEF above
  <2>3. NT!Cardinality(above) = NP!Cardinality(above)
    BY SameCardinality
  <2> QED
    BY <2>2, <2>3
<1>3. ASSUME NEW count
      PROVE  NT!Saturated(count) = NP!Saturated(count)
  BY DEF NT!Saturated, NP!Saturated
<1> QED
  BY <1>1, <1>2, <1>3, SameMarking DEF NT!Reordered, NP!Reordered, NT!Raised, NP!Raised

(* The sizes of a resize, and when a collection jumps to reorder.          *)
LEMMA SameSizes ==
  /\ NT!Interrupts <=> NP!Interrupts
  /\ NT!MayGrow <=> NP!MayGrow
  /\ NT!NewSizes = NP!NewSizes
  /\ NT!SizesAfterCollection = NP!SizesAfterCollection
<1>1. NT!Interrupts <=> NP!Interrupts
  BY SameMarking, SameCardinality DEF NT!Interrupts, NP!Interrupts, NT!ReorderReady, NP!ReorderReady
<1>2. NT!MayGrow <=> NP!MayGrow
  BY DEF NT!MayGrow, NP!MayGrow
<1>3. NT!NewSizes = NP!NewSizes
  BY DEF NT!NewSizes, NT!GrowthCap, NT!Minimum, NT!IsPrime, NP!NewSizes, NP!GrowthCap, NP!Minimum, NP!IsPrime
<1>4. NT!Scarce <=> NP!Scarce
  BY SameMarking, SameCardinality DEF NT!Scarce, NP!Scarce
<1>5. NT!SizesAfterCollection = NP!SizesAfterCollection
  BY <1>2, <1>3, <1>4 DEF NT!SizesAfterCollection, NP!SizesAfterCollection
<1> QED
  BY <1>1, <1>2, <1>3, <1>5

(* bdd_makenode.                                                           *)
LEMMA SameMakeNode ==
  ASSUME NEW l, NEW lo, NEW hi
  PROVE  /\ NT!Missing(l, lo, hi) <=> NP!Missing(l, lo, hi)
         /\ NT!MakeNode(l, lo, hi) <=> NP!MakeNode(l, lo, hi)
         /\ NT!Answer(l, lo, hi) = NP!Answer(l, lo, hi)
<1>1. NT!Find(l, lo, hi) = NP!Find(l, lo, hi)
  BY DEF NT!Find, NP!Find, NT!Used, NP!Used, NT!Slots, NP!Slots, NT!FreeLow, NP!FreeLow
<1>2. NT!Missing(l, lo, hi) <=> NP!Missing(l, lo, hi)
  BY <1>1 DEF NT!Missing, NP!Missing
<1>3. NT!Found(l, lo, hi) <=> NP!Found(l, lo, hi)
  BY <1>2 DEF NT!Found, NP!Found, NT!table, NP!table
<1>4. NT!Refused(l, lo, hi) <=> NP!Refused(l, lo, hi)
  BY <1>2 DEF NT!Refused, NP!Refused, NT!table, NP!table
<1>5. ASSUME NEW nodes, NEW slots
      PROVE  NT!Insert(l, lo, hi, nodes, slots) <=> NP!Insert(l, lo, hi, nodes, slots)
  BY DEF NT!Insert, NP!Insert, NT!Minimum, NP!Minimum
<1>6. NT!Fresh(l, lo, hi) <=> NP!Fresh(l, lo, hi)
  BY <1>2, <1>5 DEF NT!Fresh, NP!Fresh
<1>7. ASSUME NEW s
      PROVE  /\ NT!SlotsAfterCollection(s) = NP!SlotsAfterCollection(s)
             /\ NT!Grown(s, NT!Collected) = NP!Grown(s, NP!Collected)
  BY SameMarking DEF NT!SlotsAfterCollection, NP!SlotsAfterCollection, NT!Grown, NP!Grown,
     NT!FreeNode, NT!FreeLow, NP!FreeNode, NP!FreeLow
<1>8. NT!Recycled(l, lo, hi) <=> NP!Recycled(l, lo, hi)
  BY <1>2, <1>5, <1>7, SameSizes DEF NT!Recycled, NP!Recycled
<1>9. NT!Exhausted(l, lo, hi) <=> NP!Exhausted(l, lo, hi)
  BY <1>2, <1>7, SameSizes DEF NT!Exhausted, NP!Exhausted
<1>10. NT!MakeNode(l, lo, hi) <=> NP!MakeNode(l, lo, hi)
  BY <1>3, <1>4, <1>6, <1>8, <1>9, Zenon DEF NT!MakeNode, NP!MakeNode
<1>11. NT!Answer(l, lo, hi) = NP!Answer(l, lo, hi)
  BY <1>1, <1>2, <1>7, SameSizes, SameMinimum
     DEF NT!Answer, NP!Answer, NT!FALSEBDD, NP!FALSEBDD
<1> QED
  BY <1>2, <1>10, <1>11

(* The callers of bdd_makenode.                                            *)
LEMMA SameOperations ==
  ASSUME NEW l, NEW lo, NEW hi
  PROVE  /\ NT!OpMakeNode(l, lo, hi) <=> NP!OpMakeNode(l, lo, hi)
         /\ NT!OpPushNode(l, lo, hi) <=> NP!OpPushNode(l, lo, hi)
         /\ NT!OpInterrupted(l, lo, hi) <=> NP!OpInterrupted(l, lo, hi)
<1>1. NT!Quiet <=> NP!Quiet
  BY DEF NT!Quiet, NP!Quiet
<1>2. NT!Legal(l, lo, hi) <=> NP!Legal(l, lo, hi)
  BY DEF NT!Legal, NP!Legal, NT!LevelOf, NP!LevelOf, NT!Terminal, NP!Terminal,
         NT!FALSEBDD, NP!FALSEBDD, NT!TRUEBDD, NP!TRUEBDD
<1>3. NT!OpMakeNode(l, lo, hi) <=> NP!OpMakeNode(l, lo, hi)
  BY <1>1, <1>2, SameMakeNode, Zenon DEF NT!OpMakeNode, NP!OpMakeNode
<1>4. NT!OpPushNode(l, lo, hi) <=> NP!OpPushNode(l, lo, hi)
  BY <1>1, <1>2, SameMakeNode, SameMarking DEF NT!OpPushNode, NP!OpPushNode
<1>5. NT!OpInterrupted(l, lo, hi) <=> NP!OpInterrupted(l, lo, hi)
  <2>1. NT!Slots \ NT!Survivors = NP!Slots \ NP!Survivors
    BY SameMarking DEF NT!Slots, NP!Slots
  <2> QED
    BY <1>1, <1>2, <2>1, SameMakeNode, SameMarking, SameReordering, SameSizes, SameCardinality, SameMinimum
       DEF NT!OpInterrupted, NP!OpInterrupted
<1> QED
  BY <1>3, <1>4, <1>5

(* The next-state relations.                                               *)
LEMMA SameNext == NT!Next <=> NP!Next
<1>1. NT!OpPopRef <=> NP!OpPopRef
  BY DEF NT!OpPopRef, NP!OpPopRef, NT!Quiet, NP!Quiet, NT!table, NP!table
<1>2. NT!OperationStep <=> NP!OperationStep
  BY <1>1, SameOperations, SameMarking DEF NT!OperationStep, NP!OperationStep
<1>3. ASSUME NEW n
      PROVE  /\ NT!AddRef(n) <=> NP!AddRef(n)
             /\ NT!DelRef(n) <=> NP!DelRef(n)
  <2>1. NT!DelRef(n) <=> NP!DelRef(n)
    BY DEF NT!DelRef, NP!DelRef, NT!Quiet, NP!Quiet, NT!Used, NP!Used, NT!Slots, NP!Slots,
           NT!FreeLow, NP!FreeLow, NT!Decref, NP!Decref
  <2>2. {m \in NT!Slots : held[m] > 0} = {m \in NP!Slots : held[m] > 0}
    BY DEF NT!Slots, NP!Slots
  <2>3. NT!AddRef(n) <=> NP!AddRef(n)
    BY <2>2, SameCardinality DEF NT!AddRef, NP!AddRef, NT!Quiet, NP!Quiet
  <2> QED
    BY <2>1, <2>3
<1>4. NT!Gbc <=> NP!Gbc
  BY SameMarking DEF NT!Gbc, NP!Gbc, NT!Quiet, NP!Quiet
<1>5. ASSUME NEW x
      PROVE  /\ NT!SetMaxNodeNum(x) <=> NP!SetMaxNodeNum(x)
             /\ NT!SetReorder(x) <=> NP!SetReorder(x)
             /\ NT!SetVarNum(x) <=> NP!SetVarNum(x)
             /\ NT!SetVarNumRefused(x) <=> NP!SetVarNumRefused(x)
  BY DEF NT!SetMaxNodeNum, NP!SetMaxNodeNum, NT!SetReorder, NP!SetReorder, NT!SetVarNum, NP!SetVarNum,
     NT!SetVarNumRefused, NP!SetVarNumRefused, NT!Quiet, NP!Quiet, NT!table, NP!table
<1>6. NT!ClearError <=> NP!ClearError
  BY DEF NT!ClearError, NP!ClearError, NT!Quiet, NP!Quiet
<1>7. NT!Slots = NP!Slots /\ NT!Terminal = NP!Terminal
  BY DEF NT!Slots, NP!Slots, NT!Terminal, NP!Terminal, NT!FALSEBDD, NP!FALSEBDD, NT!TRUEBDD, NP!TRUEBDD
<1>8. NT!ProgramStep <=> NP!ProgramStep
  BY <1>3, <1>4, <1>5, <1>6, <1>7, SameMarking, Zenon DEF NT!ProgramStep, NP!ProgramStep
<1>9. NT!GrowPos <=> NP!GrowPos
  BY SameMakeNode DEF NT!GrowPos, NP!GrowPos, NT!FALSEBDD, NP!FALSEBDD, NT!TRUEBDD, NP!TRUEBDD
<1>10. NT!GrowNeg <=> NP!GrowNeg
  BY SameMakeNode DEF NT!GrowNeg, NP!GrowNeg, NT!FALSEBDD, NP!FALSEBDD, NT!TRUEBDD, NP!TRUEBDD
<1>11. NT!GrowAbandon <=> NP!GrowAbandon
  BY DEF NT!GrowAbandon, NP!GrowAbandon, NT!table, NP!table, NT!Idle, NP!Idle
<1>12. NT!GrowPin <=> NP!GrowPin
  BY DEF NT!GrowPin, NP!GrowPin, NT!Pinned, NP!Pinned, NT!Idle, NP!Idle,
         NT!FALSEBDD, NP!FALSEBDD, NT!TRUEBDD, NP!TRUEBDD
<1>13. NT!SetVarNumStep <=> NP!SetVarNumStep
  BY <1>5, <1>9, <1>10, <1>11, <1>12, Zenon DEF NT!SetVarNumStep, NP!SetVarNumStep
<1> QED
  BY <1>2, <1>8, <1>13, Zenon DEF NT!Next, NP!Next

(* Both instances start alike.                                             *)
LEMMA SameInit == NT!Init <=> NP!Init
  BY DEF NT!Init, NP!Init, NT!Terminal, NP!Terminal, NT!FALSEBDD, NP!FALSEBDD, NT!TRUEBDD, NP!TRUEBDD,
         NT!TerminalNode, NP!TerminalNode, NT!FreeNode, NP!FreeNode, NT!FreeLow, NP!FreeLow, NT!Idle, NP!Idle

(* Both instances have the same types.                                     *)
LEMMA SameTypes == NT!TypeOK <=> NP!TypeOK
  BY DEF NT!TypeOK, NP!TypeOK, NT!IsPrime, NP!IsPrime, NT!NodeType, NP!NodeType,
         NT!Terminal, NP!Terminal, NT!FALSEBDD, NP!FALSEBDD, NT!TRUEBDD, NP!TRUEBDD,
         NT!FreeLow, NP!FreeLow, NT!Slots, NP!Slots

-----------------------------------------------------------------------------
(* The table and its lists.                                                *)

Inv ==
  /\ NP!IInv
  /\ GoodLinks(size, node, Now)

(* What the invariant says of the table in the terms of NodeTable.         *)
LEMMA InvariantFacts ==
  ASSUME Inv
  PROVE  /\ NT!TypeOK
         /\ GoodLinks(size, node, Now)
         /\ size \in Nat /\ size > 2
         /\ NT!Used = InUse(size, node)
         /\ Hashable(size, node)
         /\ LinkedFrom(freepos) = Unused(size, node)
<1>1. NT!TypeOK
  BY NP!InvariantTypes, TableAssumptions, SameTypes DEF Inv
<1>2. size \in Nat /\ size > 2
  BY <1>1 DEF NT!TypeOK
<1>3. NT!Used = InUse(size, node)
  BY DEF NT!Used, NT!Slots, InUse
<1>4. Hashable(size, node)
  <2>1. ASSUME NEW n \in InUse(size, node)
        PROVE  node[n].level \in Nat /\ node[n].low \in Nat /\ node[n].high \in Nat
    <3>1. n \in 0..(size - 1) /\ node[n].low # NT!FreeLow
      BY <1>2 DEF InUse
    <3>2. node[n] \in NT!NodeType
      BY <1>1, <3>1 DEF NT!TypeOK
    <3>3. node[n].low \in NT!FreeLow..(size - 1) /\ node[n].high \in 0..(size - 1)
      BY <1>1, <3>1 DEF NT!TypeOK
    <3> QED
      BY <1>2, <3>1, <3>2, <3>3 DEF NT!NodeType, NT!FreeLow
  <2> QED
    BY <2>1 DEF Hashable
<1>5. LinkedFrom(freepos) = Unused(size, node)
  BY <1>2, GoodLinksExact DEF LinkedFrom, Now, Inv
<1> QED
  BY <1>1, <1>2, <1>3, <1>4, <1>5 DEF Inv

(* The free list after a step holds the unused slots of the new table.     *)
LEMMA LinkedAfter ==
  ASSUME size' \in Nat, size' > 2, GoodLinks(size', node', Now')
  PROVE  LinkedFrom(freepos)' = Unused(size', node')
  BY GoodLinksExact DEF LinkedFrom, Now

(* The lookup of bdd_makenode finds every node of the table.               *)
LEMMA LookupFinds ==
  ASSUME Inv, NEW l \in Nat, NEW lo \in Nat, NEW hi \in Nat
  PROVE  Lookup(l, lo, hi) = NT!Find(l, lo, hi)
<1> DEFINE h == NodeHash(size, l, lo, hi)
<1>1. size \in Nat /\ size > 2 /\ GoodLinks(size, node, Now) /\ NT!Used = InUse(size, node)
  BY InvariantFacts
<1>2. h \in 0..(size - 1)
  BY <1>1, NodeHashInTable
<1> HIDE DEF h
<1>3. LinkedFrom(hash[h]) = ClassOf(size, node, h)
  BY <1>1, <1>2, GoodLinksExact DEF LinkedFrom, Now
<1>4. ASSUME NEW n \in NT!Used, node[n].level = l, node[n].low = lo, node[n].high = hi
      PROVE  n \in ClassOf(size, node, h)
  BY <1>1, <1>4 DEF ClassOf, Code, h
<1>5. ClassOf(size, node, h) \subseteq NT!Used
  BY <1>1 DEF ClassOf
<1>6. Lookup(l, lo, hi) = {n \in ClassOf(size, node, h) :
                             node[n].level = l /\ node[n].low = lo /\ node[n].high = hi}
  BY <1>3 DEF Lookup, h
<1> QED
  BY <1>4, <1>5, <1>6 DEF NT!Find

(* A table that keeps the slots of K as they are and frees the others.     *)
LEMMA KeptTable ==
  ASSUME Inv, NEW K \in SUBSET NT!Used
  PROVE  /\ InUse(size, NT!Kept(K)) = K
         /\ Unused(size, NT!Kept(K)) = NT!Slots \ K
         /\ Hashable(size, NT!Kept(K))
         /\ NT!Kept(K) \in [0..(size - 1) -> NT!NodeType]
<1>1. size \in Nat /\ size > 2 /\ NT!Used = InUse(size, node) /\ Hashable(size, node) /\ NT!TypeOK
  BY InvariantFacts
<1>2. node \in [0..(size - 1) -> NT!NodeType]
  BY <1>1 DEF NT!TypeOK
<1>3. K \subseteq 2..(size - 1) /\ 2..(size - 1) \subseteq 0..(size - 1)
  BY <1>1 DEF InUse
<1>4. ASSUME NEW n \in 2..(size - 1)
      PROVE  NT!Kept(K)[n] = IF n \in K THEN node[n] ELSE NT!FreeNode
  <2>1. n \in 0..(size - 1) /\ n \notin NT!Terminal
    BY <1>3 DEF NT!Terminal, NT!FALSEBDD, NT!TRUEBDD
  <2> QED
    BY <2>1 DEF NT!Kept
<1>5. \A n \in K : node[n].low # NT!FreeLow
  BY <1>1 DEF InUse
<1>6. NT!FreeNode.low = NT!FreeLow
  BY DEF NT!FreeNode
<1>7. InUse(size, NT!Kept(K)) = K
  BY <1>3, <1>4, <1>5, <1>6 DEF InUse
<1>8. Hashable(size, NT!Kept(K))
  BY <1>1, <1>3, <1>4, <1>7 DEF Hashable
<1>9. NT!FreeNode \in NT!NodeType
  BY RefAssumption DEF NT!FreeNode, NT!NodeType, NT!FreeLow
<1>10. NT!Kept(K) \in [0..(size - 1) -> NT!NodeType]
  BY <1>2, <1>9 DEF NT!Kept
<1> QED
  BY <1>7, <1>8, <1>10 DEF Unused, NT!Slots

(* The table bdd_gbc leaves, with its links.                               *)
LEMMA CollectedTable ==
  ASSUME Inv
  PROVE  /\ InUse(size, NT!Collected) = NT!Marked
         /\ Unused(size, NT!Collected) = NT!Reclaimed
         /\ Hashable(size, NT!Collected)
         /\ NT!Collected \in [0..(size - 1) -> NT!NodeType]
         /\ NT!Marked \subseteq 2..(size - 1)
         /\ GoodLinks(size, NT!Collected, CollectedLinks)
         /\ CollectedLinks.freenum = Cardinality(NT!Reclaimed)
<1>1. NT!Marked \subseteq NT!Used
  BY DEF NT!Marked, NT!MarkedFrom, NT!Counted
<1>2. /\ InUse(size, NT!Collected) = NT!Marked /\ Unused(size, NT!Collected) = NT!Reclaimed
      /\ Hashable(size, NT!Collected) /\ NT!Collected \in [0..(size - 1) -> NT!NodeType]
  BY <1>1, KeptTable DEF NT!Collected, NT!Reclaimed
<1>3. size \in Nat /\ size > 2
  BY InvariantFacts
<1>4. GoodLinks(size, NT!Collected, CollectedLinks)
  BY <1>2, <1>3, RelinkedGood DEF CollectedLinks
<1>5. CollectedLinks.freenum = Cardinality(NT!Reclaimed)
  BY <1>2, <1>4 DEF GoodLinks
<1>6. NT!Marked \subseteq 2..(size - 1)
  BY <1>1 DEF NT!Used, NT!Slots
<1> QED
  BY <1>2, <1>4, <1>5, <1>6

(* The table a collection and a resize to s leave, with its links.         *)
LEMMA GrownTable ==
  ASSUME Inv, NEW s \in Nat, s >= size
  PROVE  LET nodes == NT!Grown(s, NT!Collected) IN
         /\ Unused(s, nodes) = NT!SlotsAfterCollection(s)
         /\ Hashable(s, nodes)
         /\ nodes \in [0..(s - 1) -> NT!NodeType]
         /\ GoodLinks(s, nodes, Relinked(s, nodes))
<1> DEFINE old == NT!Collected
<1> DEFINE nodes == NT!Grown(s, old)
<1>1. size \in Nat /\ size > 2 /\ s > 2
  BY InvariantFacts
<1>2. /\ InUse(size, old) = NT!Marked /\ Unused(size, old) = NT!Reclaimed
      /\ Hashable(size, old) /\ old \in [0..(size - 1) -> NT!NodeType]
  BY CollectedTable
<1> HIDE DEF old
<1>3. ASSUME NEW n \in 2..(s - 1)
      PROVE  nodes[n] = IF n < size THEN old[n] ELSE NT!FreeNode
  BY DEF NT!Grown
<1>4. NT!FreeNode.low = NT!FreeLow
  BY DEF NT!FreeNode
<1>5. NT!FreeNode \in NT!NodeType
  BY RefAssumption DEF NT!FreeNode, NT!NodeType, NT!FreeLow
<1>6. nodes \in [0..(s - 1) -> NT!NodeType]
  BY <1>1, <1>2, <1>5 DEF NT!Grown
<1> HIDE DEF nodes
<1>7. InUse(s, nodes) = InUse(size, old)
  <2>1. ASSUME NEW n \in 2..(s - 1)
        PROVE  nodes[n].low # NT!FreeLow <=> n \in 2..(size - 1) /\ old[n].low # NT!FreeLow
    BY <1>1, <1>3, <1>4
  <2>2. 2..(size - 1) \subseteq 2..(s - 1)
    BY <1>1
  <2> QED
    BY <2>1, <2>2 DEF InUse
<1>8. Hashable(s, nodes)
  <2>1. ASSUME NEW n \in InUse(size, old)
        PROVE  n \in 2..(s - 1) /\ n < size
    BY <1>1 DEF InUse
  <2> QED
    BY <1>2, <1>3, <1>7, <2>1 DEF Hashable
<1>9. GoodLinks(s, nodes, Relinked(s, nodes))
  BY <1>1, <1>8, RelinkedGood
<1>10. Unused(s, nodes) = NT!SlotsAfterCollection(s)
  <2>1. 2..(s - 1) = 2..(size - 1) \cup size..(s - 1)
    BY <1>1
  <2>2. InUse(size, old) \cap size..(s - 1) = {}
    BY <1>1 DEF InUse
  <2> QED
    BY <2>1, <2>2, <1>2, <1>7 DEF Unused, NT!SlotsAfterCollection
<1> QED
  BY <1>6, <1>8, <1>9, <1>10 DEF nodes, old

(* Filling the head of the free list with a node, and linking it in front  *)
(* of its chain, is the insertion of NodeTable, and keeps the links good.  *)
LEMMA InsertRefines ==
  ASSUME NEW s \in Nat, s > 2, NEW nodes \in [0..(s - 1) -> NT!NodeType], NEW links,
         GoodLinks(s, nodes, links), links.freepos # 0,
         NEW l \in Nat, NEW lo \in Nat, NEW hi \in Nat,
         Insert(l, lo, hi, NodeHash(s, l, lo, hi), nodes, links), size' = s
  PROVE  /\ NT!Insert(l, lo, hi, nodes, Unused(s, nodes))
         /\ GoodLinks(size', node', Now')
         /\ Unused(s, nodes) # {}
<1> DEFINE r == links.freepos
<1> DEFINE h == NodeHash(s, l, lo, hi)
<1> DEFINE new == [refcou |-> nodes[r].refcou, level |-> l, low |-> lo, high |-> hi]
<1>1. r \in Unused(s, nodes) /\ \A n \in Unused(s, nodes) : r <= n
  BY FreeHead
<1>2. r \in 2..(s - 1) /\ r \in 0..(s - 1) /\ r \notin InUse(s, nodes)
  BY <1>1 DEF Unused
<1>3. node' = [nodes EXCEPT ![r] = [@ EXCEPT !.level = l, !.low = lo, !.high = hi]]
  BY DEF Insert
<1>4. Now' = Pushed(links, h)
  BY DEF Insert, Link, Now, Pushed
<1>5. r = NT!Minimum(Unused(s, nodes))
  <2>1. Unused(s, nodes) \subseteq 2..(s - 1)
    BY DEF Unused
  <2>2. \A x \in Unused(s, nodes) : (\A y \in Unused(s, nodes) : x <= y) => x = r
    BY <1>1, <2>1
  <2> HIDE DEF r
  <2> QED
    BY <1>1, <2>2 DEF NT!Minimum
<1> HIDE DEF r, h
<1>6. node' = [nodes EXCEPT ![r] = new]
  <2>1. nodes[r] \in [refcou : 0..MaxRef, level : Nat, low : Int, high : Int]
    BY <1>2 DEF NT!NodeType
  <2>2. [nodes[r] EXCEPT !.level = l, !.low = lo, !.high = hi] = new
    <3> DEFINE x1 == [nodes[r] EXCEPT !.level = l]
    <3> DEFINE x2 == [x1 EXCEPT !.low = lo]
    <3>1. /\ x1 = [refcou |-> nodes[r].refcou, level |-> l, low |-> nodes[r].low, high |-> nodes[r].high]
          /\ x1 \in [refcou : 0..MaxRef, level : Nat, low : Int, high : Int]
      BY <2>1
    <3>2. x1.refcou = nodes[r].refcou /\ x1.level = l /\ x1.high = nodes[r].high
      BY <3>1
    <3> HIDE DEF x1
    <3>3. /\ x2 = [refcou |-> nodes[r].refcou, level |-> l, low |-> lo, high |-> nodes[r].high]
          /\ x2 \in [refcou : 0..MaxRef, level : Nat, low : Int, high : Int]
      BY <3>1, <3>2
    <3>4. x2.refcou = nodes[r].refcou /\ x2.level = l /\ x2.low = lo
      BY <3>3
    <3> HIDE DEF x2
    <3>5. [x2 EXCEPT !.high = hi] = new
      BY <3>3, <3>4
    <3> QED
      BY <3>5 DEF x1, x2
  <2> QED
    BY <1>3, <2>2
<1>7. node'[r] = new /\ \A n \in InUse(s, nodes) : node'[n] = nodes[n]
  <2>1. InUse(s, nodes) \subseteq 0..(s - 1)
    BY DEF InUse
  <2> QED
    BY <1>2, <1>6, <2>1
<1>8. Occupies(s, nodes, r, h, node')
  <2>1. new.level = l /\ new.low = lo /\ new.high = hi /\ lo # NT!FreeLow
    BY DEF NT!FreeLow
  <2>2. Code(s, node', r) = h
    BY <1>7, <2>1 DEF Code, h
  <2>3. \A n \in 2..(s - 1) : n # r => node'[n] = nodes[n]
    BY <1>2, <1>6
  <2>4. InUse(s, node') = InUse(s, nodes) \cup {r}
    BY <1>2, <1>7, <2>1, <2>3 DEF InUse
  <2>5. \A n \in InUse(s, nodes) : Code(s, node', n) = Code(s, nodes, n)
    BY <1>7 DEF Code
  <2> QED
    BY <2>2, <2>4, <2>5 DEF Occupies
<1>9. h \in 0..(s - 1)
  BY NodeHashInTable DEF h
<1>10. GoodLinks(s, node', Pushed(links, h))
  BY <1>8, <1>9, PushedGood DEF r
<1>11. GoodLinks(size', node', Now')
  BY <1>4, <1>10
<1>12. LinkedFrom(freepos)' = Unused(s, nodes) \ {r}
  <2>1. LinkedFrom(freepos)' = Unused(s, node')
    BY <1>11, LinkedAfter
  <2> QED
    BY <2>1, <1>8 DEF Occupies, Unused
<1>13. NT!Insert(l, lo, hi, nodes, Unused(s, nodes))
  BY <1>5, <1>6, <1>12 DEF NT!Insert
<1> QED
  BY <1>1, <1>11, <1>13

-----------------------------------------------------------------------------
(* The size after a collection.                                            *)

(* A table that may grow has a greatest prime to grow to.                  *)
LEMMA NewSizeExists ==
  ASSUME Inv, NT!MayGrow
  PROVE  NT!NewSizes # {}
<1> DEFINE cap == NT!GrowthCap
<1> DEFINE caps == {2 * size, size + MaxIncrease} \cup (IF maxsize > 0 THEN {maxsize} ELSE {})
<1>1. size \in Nat /\ maxsize \in Nat /\ NT!IsPrime(size)
  BY InvariantFacts, LimitAssumption DEF NT!TypeOK
<1>2. caps \in SUBSET Nat /\ caps # {} /\ \A c \in caps : c >= size
  BY <1>1, TuneAssumption DEF NT!MayGrow
<1>3. cap = NT!Minimum(caps)
  BY DEF NT!GrowthCap
<1> HIDE DEF caps, cap
<1>4. cap \in caps
  <2>1. PICK x \in caps : \A y \in caps : x <= y
    BY <1>2, LeastNumber
  <2> QED
    BY <2>1, <1>3 DEF NT!Minimum
<1>5. cap \in Nat /\ cap >= size
  BY <1>2, <1>4
<1> DEFINE gaps == {cap - p : p \in {q \in size..cap : NT!IsPrime(q)}}
<1>6. gaps \in SUBSET Nat
  BY <1>1, <1>5
<1>7. cap - size \in gaps
  <2>1. size \in {q \in size..cap : NT!IsPrime(q)}
    BY <1>1, <1>5
  <2> QED
    BY <2>1
<1>8. PICK g \in gaps : \A y \in gaps : g <= y
  BY <1>6, <1>7, LeastNumber
<1>9. PICK p \in size..cap : NT!IsPrime(p) /\ g = cap - p
  OBVIOUS
<1>10. ASSUME NEW q \in (p + 1)..cap
       PROVE  ~ NT!IsPrime(q)
  <2>1. q \in size..cap /\ q > p
    BY <1>1, <1>5, <1>9
  <2>2. cap - q < g
    BY <1>1, <1>5, <1>9, <2>1
  <2>3. NT!IsPrime(q) => cap - q \in gaps
    BY <2>1
  <2>4. q \in Int /\ cap \in Int /\ p \in Int
    BY <1>1, <1>5, <2>1
  <2> HIDE DEF gaps
  <2>5. cap - q \in gaps => g <= cap - q
    BY <1>8
  <2> QED
    BY <1>9, <2>2, <2>3, <2>4, <2>5
<1>11. p \in NT!NewSizes
  BY <1>9, <1>10 DEF NT!NewSizes, cap
<1> QED
  BY <1>11

(* The size computed from the links is the one NodeTable gives the table.  *)
LEMMA SizeRefines ==
  ASSUME Inv
  PROVE  /\ SizeAfterCollection \in NT!SizesAfterCollection
         /\ \A s \in NT!SizesAfterCollection : s = SizeAfterCollection
         /\ SizeAfterCollection \in Nat /\ SizeAfterCollection >= size
<1>1. maxsize \in Nat /\ size \in Nat
  BY InvariantFacts, LimitAssumption DEF NT!TypeOK
<1>2. NP!TableInv
  BY DEF Inv, NP!IInv
<1>3. /\ \A s \in NT!SizesAfterCollection : s \in Nat /\ s >= size
      /\ \A s, t \in NT!SizesAfterCollection : s = t
  BY <1>1, <1>2, NP!SizesAfter, TableAssumptions, SameSizes
<1>4. (CollectedLinks.freenum * 100) \div size <= MinFree <=> NT!Scarce
  BY CollectedTable, SameCardinality DEF NT!Scarce
<1>5. SizeAfterCollection \in NT!SizesAfterCollection
  <2>1. CASE NT!Scarce /\ NT!MayGrow
    <3>1. NT!NewSizes # {} /\ SizeAfterCollection = CHOOSE s \in NT!NewSizes : TRUE
      BY <1>4, <2>1, NewSizeExists DEF SizeAfterCollection
    <3> QED
      BY <3>1, <2>1 DEF NT!SizesAfterCollection
  <2>2. CASE ~ (NT!Scarce /\ NT!MayGrow)
    BY <1>4, <2>2 DEF SizeAfterCollection, NT!SizesAfterCollection
  <2> QED
    BY <2>1, <2>2
<1> QED
  BY <1>3, <1>5

(* The test for a reordering is that of NodeTable: bddfreenum is the       *)
(* number of free slots.                                                   *)
LEMMA InterruptsRefines ==
  ASSUME Inv
  PROVE  Interrupts <=> NT!Interrupts
  BY CollectedTable, SameCardinality DEF Interrupts, NT!Interrupts

-----------------------------------------------------------------------------
(* bdd_makenode.                                                           *)

(* Whatever bdd_makenode does with the lists is what NodeTable does with   *)
(* its sets, and the links are good after it.                              *)
LEMMA MakeNodeRefines ==
  ASSUME Inv, NEW l \in Nat, NEW lo \in Nat, NEW hi \in Nat, MakeNode(l, lo, hi)
  PROVE  /\ NT!MakeNode(l, lo, hi)
         /\ GoodLinks(size', node', Now')
<1>1. /\ size \in Nat /\ size > 2 /\ GoodLinks(size, node, Now)
      /\ LinkedFrom(freepos) = Unused(size, node)
      /\ node \in [0..(size - 1) -> NT!NodeType]
  BY InvariantFacts DEF NT!TypeOK
<1>2. Missing(l, lo, hi) <=> NT!Missing(l, lo, hi)
  BY LookupFinds DEF Missing, NT!Missing
<1>3. freepos = 0 <=> LinkedFrom(freepos) = {}
  BY <1>1, FreeHead DEF Now
<1>4. ASSUME UNCHANGED <<size, node, chains>>
      PROVE  GoodLinks(size', node', Now') /\ LinkedFrom(freepos)' = LinkedFrom(freepos)
  <2>1. Now' = Now /\ size' = size /\ node' = node
    BY <1>4 DEF Now, chains
  <2>2. LinkedFrom(freepos)' = LinkedFrom(freepos)
    BY <1>4 DEF LinkedFrom, chains
  <2> QED
    BY <1>1, <2>1, <2>2
<1>5. CASE Found(l, lo, hi)
  BY <1>2, <1>4, <1>5 DEF Found, NT!MakeNode, NT!Found, NT!table
<1>6. CASE Refused(l, lo, hi)
  BY <1>2, <1>3, <1>4, <1>6 DEF Refused, NT!MakeNode, NT!Refused, NT!table
<1>7. CASE Fresh(l, lo, hi)
  <2>1. Now.freepos # 0 /\ Insert(l, lo, hi, NodeHash(size, l, lo, hi), node, Now) /\ size' = size
    BY <1>7 DEF Fresh, Now
  <2>2. NT!Insert(l, lo, hi, node, Unused(size, node)) /\ GoodLinks(size', node', Now')
        /\ Unused(size, node) # {}
    BY <1>1, <2>1, InsertRefines
  <2>3. NT!Fresh(l, lo, hi)
    BY <1>1, <1>2, <1>7, <2>2 DEF Fresh, NT!Fresh
  <2> QED
    BY <2>2, <2>3 DEF NT!MakeNode
<1> DEFINE s == SizeAfterCollection
<1> DEFINE nodes == NT!Grown(s, NT!Collected)
<1> DEFINE links == Relinked(s, nodes)
<1>8. s \in NT!SizesAfterCollection /\ s \in Nat /\ s >= size
  BY SizeRefines
<1>9. /\ Unused(s, nodes) = NT!SlotsAfterCollection(s)
      /\ nodes \in [0..(s - 1) -> NT!NodeType]
      /\ GoodLinks(s, nodes, links)
  BY <1>8, GrownTable
<1>10. s > 2
  BY <1>1, <1>8
<1>11. links.freepos = 0 <=> NT!SlotsAfterCollection(s) = {}
  BY <1>8, <1>9, <1>10, FreeHead
<1>12. CASE Recycled(l, lo, hi)
  <2>1. /\ Missing(l, lo, hi) /\ freepos = 0 /\ ~ errorcond /\ ~ Interrupts
        /\ links.freepos # 0 /\ size' = s
        /\ Insert(l, lo, hi, NodeHash(s, l, lo, hi), nodes, links)
        /\ held' = [n \in 0..(s - 1) |-> IF n < size THEN held[n] ELSE 0]
        /\ raised' = [n \in 0..(s - 1) |-> IF n < size THEN raised[n] ELSE 0]
        /\ UNCHANGED <<maxsize, errorcond>>
    BY <1>12 DEF Recycled, ChainAfter
  <2> HIDE DEF s, nodes, links
  <2>2. NT!Insert(l, lo, hi, nodes, Unused(s, nodes)) /\ GoodLinks(size', node', Now')
    BY <1>8, <1>9, <1>10, <2>1, InsertRefines
  <2>3. NT!Insert(l, lo, hi, NT!Grown(s, NT!Collected), NT!SlotsAfterCollection(s))
    BY <1>9, <2>2 DEF nodes
  <2>4. NT!Recycled(l, lo, hi)
    BY <1>2, <1>3, <1>8, <1>11, <2>1, <2>3, InterruptsRefines DEF NT!Recycled
  <2> QED
    BY <2>2, <2>4 DEF NT!MakeNode
<1>13. CASE Exhausted(l, lo, hi)
  <2>1. /\ Missing(l, lo, hi) /\ freepos = 0 /\ ~ errorcond /\ ~ Interrupts
        /\ links.freepos = 0 /\ size' = s /\ node' = nodes /\ Link(links)
        /\ errorcond' = TRUE /\ UNCHANGED <<maxsize, held, raised>>
    BY <1>13 DEF Exhausted
  <2>2. links = [hash |-> links.hash, next |-> links.next,
                 freepos |-> links.freepos, freenum |-> links.freenum]
    BY DEF Relinked
  <2>3. Now' = links
    BY <2>1, <2>2 DEF Link, Now
  <2> HIDE DEF s, nodes, links
  <2>4. GoodLinks(size', node', Now')
    BY <1>9, <2>1, <2>3
  <2>5. LinkedFrom(freepos)' = {}
    BY <1>8, <1>9, <1>10, <1>11, <2>1, <2>4, LinkedAfter
  <2>6. NT!Exhausted(l, lo, hi)
    BY <1>2, <1>3, <1>8, <1>11, <2>1, <2>5, InterruptsRefines DEF NT!Exhausted, nodes
  <2> QED
    BY <2>4, <2>6 DEF NT!MakeNode
<1> QED
  BY <1>5, <1>6, <1>7, <1>12, <1>13 DEF MakeNode

(* It returns the same node.                                               *)
LEMMA AnswerRefines ==
  ASSUME Inv, NEW l \in Nat, NEW lo \in Nat, NEW hi \in Nat
  PROVE  Answer(l, lo, hi) = NT!Answer(l, lo, hi)
<1>1. /\ size \in Nat /\ size > 2 /\ GoodLinks(size, node, Now)
      /\ LinkedFrom(freepos) = Unused(size, node)
  BY InvariantFacts
<1>2. Lookup(l, lo, hi) = NT!Find(l, lo, hi)
  BY LookupFinds
<1>3. Missing(l, lo, hi) <=> NT!Missing(l, lo, hi)
  BY <1>2 DEF Missing, NT!Missing
<1>4. ASSUME NEW t \in Nat, t > 2, NEW nd, NEW lk, GoodLinks(t, nd, lk), lk.freepos # 0
      PROVE  lk.freepos = NT!Minimum(Unused(t, nd))
  <2> DEFINE r == lk.freepos
  <2>1. r \in Unused(t, nd) /\ \A n \in Unused(t, nd) : r <= n
    BY <1>4, FreeHead
  <2>2. Unused(t, nd) \subseteq 2..(t - 1)
    BY DEF Unused
  <2> HIDE DEF r
  <2>3. \A x \in Unused(t, nd) : (\A y \in Unused(t, nd) : x <= y) => x = r
    BY <2>1, <2>2
  <2>4. NT!Minimum(Unused(t, nd)) = r
    BY <2>1, <2>3 DEF NT!Minimum
  <2> QED
    BY <2>4 DEF r
<1>5. freepos = 0 <=> LinkedFrom(freepos) = {}
  BY <1>1, FreeHead DEF Now
<1>6. freepos # 0 => freepos = NT!Minimum(LinkedFrom(freepos))
  BY <1>1, <1>4 DEF Now
<1> DEFINE s == SizeAfterCollection
<1> DEFINE links == Relinked(s, NT!Grown(s, NT!Collected))
<1>7. /\ s \in Nat /\ s >= size /\ s \in NT!SizesAfterCollection
      /\ \A t \in NT!SizesAfterCollection : t = s
  BY SizeRefines
<1>8. /\ Unused(s, NT!Grown(s, NT!Collected)) = NT!SlotsAfterCollection(s)
      /\ GoodLinks(s, NT!Grown(s, NT!Collected), links)
  BY <1>7, GrownTable
<1>9. s > 2
  BY <1>1, <1>7
<1> HIDE DEF s, links
<1>10. UNION {NT!SlotsAfterCollection(t) : t \in NT!SizesAfterCollection} = NT!SlotsAfterCollection(s)
  BY <1>7
<1>11. links.freepos = IF NT!SlotsAfterCollection(s) = {} THEN 0 ELSE NT!Minimum(NT!SlotsAfterCollection(s))
  BY <1>4, <1>7, <1>8, <1>9, FreeHead
<1>12. CASE lo = hi
  BY <1>12 DEF Answer, NT!Answer, Missing, NT!Missing
<1>13. CASE lo # hi /\ Lookup(l, lo, hi) # {}
  BY <1>2, <1>13 DEF Answer, NT!Answer, Missing, NT!Missing
<1>14. CASE Missing(l, lo, hi) /\ freepos # 0
  <2>1. lo # hi /\ Lookup(l, lo, hi) = {} /\ NT!Missing(l, lo, hi) /\ LinkedFrom(freepos) # {}
    BY <1>3, <1>5, <1>14 DEF Missing
  <2>2. Answer(l, lo, hi) = freepos
    BY <2>1, <1>14 DEF Answer
  <2>3. NT!Answer(l, lo, hi) = NT!Minimum(LinkedFrom(freepos))
    BY <2>1, <1>2 DEF NT!Answer
  <2> QED
    BY <1>6, <1>14, <2>2, <2>3
<1>15. CASE Missing(l, lo, hi) /\ freepos = 0
  <2>1. lo # hi /\ Lookup(l, lo, hi) = {} /\ NT!Missing(l, lo, hi) /\ LinkedFrom(freepos) = {}
    BY <1>3, <1>5, <1>15 DEF Missing
  <2>2. Answer(l, lo, hi) = IF errorcond THEN NT!FALSEBDD ELSE links.freepos
    BY <2>1, <1>15 DEF Answer, s, links
  <2>3. NT!Answer(l, lo, hi) = IF errorcond \/ NT!SlotsAfterCollection(s) = {} THEN NT!FALSEBDD
                               ELSE NT!Minimum(NT!SlotsAfterCollection(s))
    BY <2>1, <1>2, <1>10 DEF NT!Answer
  <2> QED
    BY <1>11, <2>2, <2>3 DEF NT!FALSEBDD
<1> QED
  BY <1>12, <1>13, <1>14, <1>15 DEF Missing

-----------------------------------------------------------------------------
(* The steps.                                                              *)

Refines == NT!Next /\ GoodLinks(size', node', Now')

(* What a client may name, and the number of variables.                    *)
LEMMA CallNumbers ==
  ASSUME Inv
  PROVE  varnum \in Nat /\ \A n \in NT!Protected : n \in Nat
<1>1. varnum \in Nat
  BY InvariantFacts, BoundAssumption DEF NT!TypeOK
<1>2. NT!Marked \subseteq Nat
  BY CollectedTable
<1> QED
  BY <1>1, <1>2 DEF NT!Protected, NT!Terminal, NT!FALSEBDD, NT!TRUEBDD

(* bdd_makenode over chains is a bdd_makenode of NodeTable.                *)
LEMMA OperationRefines ==
  ASSUME Inv, NEW l \in 0..(varnum - 1), NEW lo \in NT!Protected, NEW hi \in NT!Protected,
         OpMakeNode(l, lo, hi) \/ OpPushNode(l, lo, hi)
  PROVE  Refines
<1>1. l \in Nat /\ lo \in Nat /\ hi \in Nat
  BY CallNumbers
<1>2. MakeNode(l, lo, hi)
  BY DEF OpMakeNode, OpPushNode
<1>3. NT!MakeNode(l, lo, hi) /\ GoodLinks(size', node', Now')
  BY <1>1, <1>2, MakeNodeRefines
<1>4. Answer(l, lo, hi) = NT!Answer(l, lo, hi)
  BY <1>1, AnswerRefines
<1>5. NT!OpMakeNode(l, lo, hi) \/ NT!OpPushNode(l, lo, hi)
  BY <1>3, <1>4 DEF OpMakeNode, OpPushNode, NT!OpMakeNode, NT!OpPushNode
<1>6. NT!OperationStep
  BY <1>5 DEF NT!OperationStep
<1> QED
  BY <1>3, <1>6 DEF Refines, NT!Next

(* The counts raised by a reordering leave the kept table as it is.        *)
LEMMA ReorderedTable ==
  ASSUME Inv
  PROVE  /\ NT!Survivors \in SUBSET NT!Used
         /\ Unused(size, NT!Reordered) = NT!Slots \ NT!Survivors
         /\ Hashable(size, NT!Reordered)
<1> DEFINE kept == NT!Kept(NT!Survivors)
           counted == NT!Reordered
<1>1. NT!Survivors \in SUBSET NT!Used
  BY DEF NT!Survivors, NT!MarkedFrom, NT!Counted
<1>2. /\ size \in Nat /\ NT!TypeOK
      /\ node \in [0..(size - 1) -> NT!NodeType]
  BY InvariantFacts DEF NT!TypeOK
<1>3. NT!Counted \subseteq NT!Survivors
  BY DEF NT!Survivors, NT!MarkedFrom
<1>4. /\ Unused(size, kept) = NT!Slots \ NT!Survivors
      /\ InUse(size, kept) = NT!Survivors /\ Hashable(size, kept)
  BY <1>1, KeptTable
<1>5. ASSUME NEW n \in 0..(size - 1)
      PROVE  /\ counted[n].low = kept[n].low /\ counted[n].high = kept[n].high
             /\ counted[n].level = kept[n].level
  <2>1. CASE n \in NT!Counted
    <3>1. kept[n] = node[n]
      BY <1>3, <2>1 DEF NT!Kept
    <3>2. counted[n] = [node[n] EXCEPT !.refcou = NT!Saturated(@ + NT!EdgesTo(n))]
      BY <2>1 DEF NT!Reordered
    <3>3. node[n] \in NT!NodeType
      BY <1>2
    <3> QED
      BY <3>1, <3>2, <3>3 DEF NT!NodeType
  <2>2. CASE n \notin NT!Counted
    BY <2>2 DEF NT!Reordered
  <2> QED
    BY <2>1, <2>2
<1> HIDE DEF kept, counted
<1>6. Unused(size, counted) = Unused(size, kept) /\ InUse(size, counted) = InUse(size, kept)
  BY <1>2, <1>5 DEF Unused, InUse
<1>7. Hashable(size, counted)
  BY <1>2, <1>4, <1>5, <1>6 DEF Hashable, InUse
<1> QED
  BY <1>1, <1>4, <1>6, <1>7 DEF counted

(* A table relinked after a collection.                                    *)
LEMMA RelinkedAfter ==
  ASSUME Inv, NEW K \in SUBSET NT!Used, size' = size,
         node' = NT!Kept(K) \/ (K = NT!Survivors /\ node' = NT!Reordered),
         Link(Relinked(size, node'))
  PROVE  /\ GoodLinks(size', node', Now')
         /\ LinkedFrom(freepos)' = NT!Slots \ K
         /\ freenum' = Cardinality(NT!Slots \ K)
<1>1. size \in Nat /\ size > 2
  BY InvariantFacts
<1>2. Unused(size, node') = NT!Slots \ K /\ Hashable(size, node')
  BY KeptTable, ReorderedTable
<1> DEFINE links == Relinked(size, node')
<1>3. links = [hash |-> links.hash, next |-> links.next,
               freepos |-> links.freepos, freenum |-> links.freenum]
  BY DEF Relinked
<1>4. Now' = links /\ freenum' = links.freenum
  BY <1>3 DEF Link, Now
<1>5. GoodLinks(size, node', links)
  BY <1>1, <1>2, RelinkedGood
<1> HIDE DEF links
<1>6. GoodLinks(size', node', Now')
  BY <1>4, <1>5
<1>7. LinkedFrom(freepos)' = NT!Slots \ K
  BY <1>1, <1>2, <1>6, LinkedAfter
<1>8. freenum' = Cardinality(NT!Slots \ K)
  BY <1>2, <1>4, <1>5 DEF GoodLinks
<1> QED
  BY <1>6, <1>7, <1>8

(* The jump out of bdd_makenode is that of NodeTable.                      *)
LEMMA InterruptedRefines ==
  ASSUME Inv, NEW l \in 0..(varnum - 1), NEW lo \in NT!Protected, NEW hi \in NT!Protected,
         OpInterrupted(l, lo, hi)
  PROVE  Refines
<1>1. l \in Nat /\ lo \in Nat /\ hi \in Nat
  BY CallNumbers
<1>2. /\ NT!Quiet /\ NT!Legal(l, lo, hi) /\ Missing(l, lo, hi)
      /\ freepos = 0 /\ ~ errorcond /\ Interrupts
      /\ node' = NT!Reordered /\ raised' = NT!Raised /\ Link(Relinked(size, node')) /\ refstack' = << >>
      /\ reorder' = [reorder EXCEPT !.next = NT!Minimum({4 * (size - freenum'), MaxNext})]
      /\ UNCHANGED <<size, maxsize, errorcond, varnum, varset, growing, held>>
  BY DEF OpInterrupted
<1>3. NT!Survivors \in SUBSET NT!Used
  BY DEF NT!Survivors, NT!MarkedFrom, NT!Counted
<1>4. /\ GoodLinks(size', node', Now') /\ LinkedFrom(freepos)' = NT!Slots \ NT!Survivors
      /\ freenum' = Cardinality(NT!Slots \ NT!Survivors)
  BY <1>2, <1>3, RelinkedAfter
<1>5. NT!Missing(l, lo, hi)
  BY <1>1, <1>2, LookupFinds DEF Missing, NT!Missing
<1>6. LinkedFrom(freepos) = {}
  <2>1. Now.freepos = 0
    BY <1>2 DEF Now
  <2> QED
    BY <2>1, InvariantFacts, FreeHead
<1>7. freenum' = NT!Cardinality(NT!Slots \ NT!Survivors)
  BY <1>4, SameCardinality
<1>8. NT!OpInterrupted(l, lo, hi)
  BY <1>2, <1>4, <1>5, <1>6, <1>7, InterruptsRefines DEF NT!OpInterrupted
<1>9. NT!OperationStep
  BY <1>8 DEF NT!OperationStep
<1> QED
  BY <1>4, <1>9 DEF Refines, NT!Next

(* bdd_gbc over chains is that of NodeTable.                               *)
LEMMA GbcRefines ==
  ASSUME Inv, Gbc
  PROVE  Refines
<1>1. /\ NT!Quiet /\ node' = NT!Kept(NT!Marked) /\ Link(Relinked(size, node'))
      /\ UNCHANGED <<size, maxsize, errorcond, refstack, varnum, varset, growing, reorder, held, raised>>
  BY DEF Gbc, CollectedLinks, NT!Collected, others
<1>2. NT!Marked \in SUBSET NT!Used
  BY DEF NT!Marked, NT!MarkedFrom, NT!Counted
<1>3. GoodLinks(size', node', Now') /\ LinkedFrom(freepos)' = NT!Reclaimed
  BY <1>1, <1>2, RelinkedAfter DEF NT!Reclaimed
<1>4. NT!Gbc
  BY <1>1, <1>3 DEF NT!Gbc, NT!Collected
<1> QED
  BY <1>3, <1>4 DEF Refines, NT!Next, NT!ProgramStep

(* The nodes bdd_setvarnum makes are those of NodeTable.                   *)
LEMMA GrowthRefines ==
  ASSUME Inv, GrowPos \/ GrowNeg
  PROVE  Refines
<1>1. varnum \in Nat /\ NT!FALSEBDD \in Nat /\ NT!TRUEBDD \in Nat
  BY CallNumbers DEF NT!FALSEBDD, NT!TRUEBDD
<1>2. CASE GrowPos
  <2>1. NT!MakeNode(varnum, NT!FALSEBDD, NT!TRUEBDD) /\ GoodLinks(size', node', Now')
    BY <1>1, <1>2, MakeNodeRefines DEF GrowPos
  <2>2. NT!GrowPos
    BY <1>1, <1>2, <2>1, AnswerRefines DEF GrowPos, NT!GrowPos
  <2> QED
    BY <2>1, <2>2 DEF Refines, NT!Next, NT!SetVarNumStep
<1>3. CASE GrowNeg
  <2>1. NT!MakeNode(varnum, NT!TRUEBDD, NT!FALSEBDD) /\ GoodLinks(size', node', Now')
    BY <1>1, <1>3, MakeNodeRefines DEF GrowNeg
  <2>2. NT!GrowNeg
    BY <1>1, <1>3, <2>1, AnswerRefines DEF GrowNeg, NT!GrowNeg
  <2> QED
    BY <2>1, <2>2 DEF Refines, NT!Next, NT!SetVarNumStep
<1> QED
  BY <1>2, <1>3

(* A change of the counts, or of the level of a terminal, moves no node to *)
(* another chain.                                                          *)
SameNodes(new) ==
  \A n \in 2..(size - 1) :
    new[n].level = node[n].level /\ new[n].low = node[n].low /\ new[n].high = node[n].high

(* A step that keeps the hashed fields keeps the lists.                    *)
LEMMA LinksStay ==
  ASSUME Inv, UNCHANGED <<size, chains>>, SameNodes(node')
  PROVE  GoodLinks(size', node', Now')
<1>1. size \in Nat /\ size > 2 /\ GoodLinks(size, node, Now)
  BY InvariantFacts
<1>2. Now' = Now /\ size' = size
  BY DEF Now, chains
<1>3. InUse(size, node') = InUse(size, node) /\ InUse(size, node) \subseteq 2..(size - 1)
  BY DEF InUse, SameNodes
<1>4. \A n \in InUse(size, node) : Code(size, node', n) = Code(size, node, n)
  BY <1>3 DEF Code, SameNodes
<1>5. GoodLinks(size, node', Now)
  BY <1>1, <1>3, <1>4, LinksKept
<1> QED
  BY <1>2, <1>5

(* The nodes of the table are as before, save for counts.                  *)
SameBut(s, nd, new) ==
  \A n \in 0..(s - 1) :
    new[n].level = nd[n].level /\ new[n].low = nd[n].low /\ new[n].high = nd[n].high

(* A new count leaves the hashed fields alone.                             *)
LEMMA RecountSame ==
  ASSUME NEW s, NEW nd \in [0..(s - 1) -> NT!NodeType], NEW x, NEW c
  PROVE  /\ SameBut(s, nd, [nd EXCEPT ![x].refcou = c])
         /\ c \in 0..MaxRef => [nd EXCEPT ![x].refcou = c] \in [0..(s - 1) -> NT!NodeType]
  BY DEF NT!NodeType, SameBut

(* So do the last assignments of bdd_setvarnum.                            *)
LEMMA PinSame ==
  ASSUME Inv, NT!GrowPin
  PROVE  SameNodes(node')
<1>1. node \in [0..(size - 1) -> NT!NodeType] /\ size \in Nat /\ size > 2
  BY InvariantFacts DEF NT!TypeOK
<1>2. MaxRef \in 0..MaxRef
  BY RefAssumption
<1> DEFINE x == varset[varnum][1]
<1> DEFINE y == varset[varnum][2]
<1> DEFINE first == [node EXCEPT ![x].refcou = MaxRef]
<1> DEFINE both == [first EXCEPT ![y].refcou = MaxRef]
<1> HIDE DEF x, y
<1>3. SameBut(size, node, first) /\ first \in [0..(size - 1) -> NT!NodeType]
  BY <1>1, <1>2, RecountSame, Zenon
<1> HIDE DEF first
<1>4. SameBut(size, first, both) /\ both \in [0..(size - 1) -> NT!NodeType]
  BY <1>2, <1>3, RecountSame, Zenon
<1>5. NT!Pinned = both
  BY DEF NT!Pinned, first, x, y
<1> HIDE DEF both
<1>6. 2..(size - 1) \subseteq 0..(size - 1)
  OBVIOUS
<1>7. \A n \in 2..(size - 1) : node'[n] = NT!Pinned[n]
  <2>1. CASE node' = NT!Pinned
    BY <2>1
  <2>2. CASE node' = [NT!Pinned EXCEPT ![NT!FALSEBDD].level = growing.target,
                                       ![NT!TRUEBDD].level  = growing.target]
    <3>1. \A n \in 2..(size - 1) : n # NT!FALSEBDD /\ n # NT!TRUEBDD
      BY DEF NT!FALSEBDD, NT!TRUEBDD
    <3>2. \A n \in 2..(size - 1) : n \in DOMAIN NT!Pinned
      BY <1>4, <1>5, <1>6
    <3> QED
      BY <2>2, <3>1, <3>2
  <2> QED
    BY <2>1, <2>2 DEF NT!GrowPin
<1> QED
  BY <1>3, <1>4, <1>5, <1>6, <1>7 DEF SameNodes, SameBut

(* The steps that leave all lists alone.                                   *)
LEMMA OtherRefines ==
  ASSUME Inv, OtherStep
  PROVE  Refines
<1>1. node \in [0..(size - 1) -> NT!NodeType] /\ size \in Nat /\ size > 2
  BY InvariantFacts DEF NT!TypeOK
<1>2. UNCHANGED chains
  BY DEF OtherStep
<1>3. ASSUME UNCHANGED <<size, node>>
      PROVE  GoodLinks(size', node', Now')
  <2>1. SameNodes(node')
    BY <1>3 DEF SameNodes
  <2> QED
    BY <1>2, <1>3, <2>1, LinksStay
<1>4. ASSUME NEW x, NEW c, node' = [node EXCEPT ![x].refcou = c], size' = size
      PROVE  GoodLinks(size', node', Now')
  <2>1. 2..(size - 1) \subseteq 0..(size - 1)
    OBVIOUS
  <2>2. SameNodes(node')
    BY <1>1, <1>4, <2>1, RecountSame DEF SameNodes, SameBut
  <2> QED
    BY <1>2, <1>4, <2>2, LinksStay
<1>5. CASE NT!OpPopRef
  BY <1>3, <1>5 DEF NT!OpPopRef, NT!table, Refines, NT!Next, NT!OperationStep
<1>6. CASE \E n \in NT!Protected \ NT!Terminal : NT!AddRef(n)
  <2>1. PICK n \in NT!Protected \ NT!Terminal : NT!AddRef(n)
    BY <1>6
  <2>2. size' = size /\ \E c : node' = [node EXCEPT ![n].refcou = c]
    BY <2>1 DEF NT!AddRef
  <2> QED
    BY <1>4, <2>1, <2>2 DEF Refines, NT!Next, NT!ProgramStep
<1>7. CASE \E n \in NT!Slots : NT!DelRef(n)
  <2>1. PICK n \in NT!Slots : NT!DelRef(n)
    BY <1>7
  <2>2. size' = size /\ \E c : node' = [node EXCEPT ![n].refcou = c]
    BY <2>1 DEF NT!DelRef
  <2> QED
    BY <1>4, <2>1, <2>2 DEF Refines, NT!Next, NT!ProgramStep
<1>8. CASE \E limit \in Limits : NT!SetMaxNodeNum(limit)
  <2>1. PICK limit \in Limits : NT!SetMaxNodeNum(limit)
    BY <1>8
  <2>2. UNCHANGED <<size, node>>
    BY <2>1 DEF NT!SetMaxNodeNum
  <2> QED
    BY <1>3, <2>1, <2>2 DEF Refines, NT!Next, NT!ProgramStep
<1>9. CASE \E call \in ReorderCalls : NT!SetReorder(call)
  <2>1. PICK call \in ReorderCalls : NT!SetReorder(call)
    BY <1>9
  <2>2. UNCHANGED <<size, node>>
    BY <2>1 DEF NT!SetReorder, NT!table
  <2> QED
    BY <1>3, <2>1, <2>2 DEF Refines, NT!Next, NT!ProgramStep
<1>10. CASE NT!ClearError
  BY <1>3, <1>10 DEF NT!ClearError, Refines, NT!Next, NT!ProgramStep
<1>11. CASE \E num \in VarNums : NT!SetVarNum(num) \/ NT!SetVarNumRefused(num)
  <2>1. PICK num \in VarNums : NT!SetVarNum(num) \/ NT!SetVarNumRefused(num)
    BY <1>11
  <2>2. UNCHANGED <<size, node>>
    BY <2>1 DEF NT!SetVarNum, NT!SetVarNumRefused, NT!table
  <2> QED
    BY <1>3, <2>1, <2>2 DEF Refines, NT!Next, NT!SetVarNumStep
<1>12. CASE NT!GrowAbandon
  BY <1>3, <1>12 DEF NT!GrowAbandon, NT!table, Refines, NT!Next, NT!SetVarNumStep
<1>13. CASE NT!GrowPin
  <2>1. size' = size
    BY <1>13 DEF NT!GrowPin
  <2> QED
    BY <1>2, <1>13, <2>1, PinSame, LinksStay DEF Refines, NT!Next, NT!SetVarNumStep
<1> QED
  BY <1>5, <1>6, <1>7, <1>8, <1>9, <1>10, <1>11, <1>12, <1>13 DEF OtherStep

(* Every step is a step of NodeTable or leaves it alone.                   *)
LEMMA NextRefines ==
  ASSUME Inv, Next
  PROVE  Refines
<1>1. CASE TableStep
  <2>1. \/ \E l \in 0..(varnum - 1), lo \in NT!Protected, hi \in NT!Protected :
             OpMakeNode(l, lo, hi) \/ OpPushNode(l, lo, hi) \/ OpInterrupted(l, lo, hi)
        \/ Gbc
        \/ GrowPos \/ GrowNeg
    BY <1>1 DEF TableStep
  <2> QED
    BY <2>1, OperationRefines, InterruptedRefines, GbcRefines, GrowthRefines
<1>2. CASE OtherStep
  BY <1>2, OtherRefines
<1> QED
  BY <1>1, <1>2 DEF Next

(* Every step is a step of NodeTable or leaves its variables alone, and    *)
(* the links are good after it.                                            *)
LEMMA StepRefines ==
  ASSUME Inv, [Next]_vars
  PROVE  /\ [NT!Next]_NT!vars
         /\ GoodLinks(size', node', Now')
<1>1. CASE Next
  BY <1>1, NextRefines DEF Refines
<1>2. CASE UNCHANGED vars
  <2>1. UNCHANGED <<size, node, maxsize, errorcond, refstack, varnum, varset, growing, reorder, held, raised>>
        /\ UNCHANGED chains
    BY <1>2 DEF vars, others
  <2>2. LinkedFrom(freepos)' = LinkedFrom(freepos)
    BY <2>1 DEF LinkedFrom, chains
  <2>3. UNCHANGED NT!vars
    BY <2>1, <2>2 DEF NT!vars, NT!table
  <2>4. SameNodes(node')
    BY <2>1 DEF SameNodes
  <2>5. GoodLinks(size', node', Now')
    BY <2>1, <2>4, LinksStay
  <2> QED
    BY <2>3, <2>5
<1> QED
  BY <1>1, <1>2

(* The invariant is kept: that of NodeTable because the step is one of its *)
(* steps.                                                                  *)
LEMMA StepKeeps ==
  ASSUME Inv, [Next]_vars
  PROVE  Inv'
<1>1. [NT!Next]_NT!vars /\ GoodLinks(size', node', Now')
  BY StepRefines
<1>2. NP!Next \/ UNCHANGED NP!vars
  <2>1. UNCHANGED NT!vars <=> UNCHANGED NP!vars
    BY DEF NT!vars, NP!vars, NT!table, NP!table
  <2> QED
    BY <1>1, <2>1, SameNext
<1>3. NP!IInv
  BY DEF Inv
<1>4. NP!IInv'
  BY <1>2, <1>3, NP!OperationKeeps, NP!ProgramKeeps, NP!SetVarNumKeeps, NP!StutterStep,
     TableAssumptions DEF NP!Next
<1>5. Inv' <=> NP!IInv' /\ GoodLinks(size', node', Now')
  BY DEF Inv
<1> QED
  BY <1>1, <1>4, <1>5

-----------------------------------------------------------------------------
(* The initial state.                                                      *)

(* bdd_init links all slots but the terminals, lowest first.               *)
LEMMA InitLinks ==
  ASSUME Init
  PROVE  GoodLinks(size, node, Now) /\ LinkedFrom(freepos) = 2..(InitSize - 1)
<1> DEFINE s == InitSize
<1> DEFINE key == [n \in 2..(s - 1) |-> -n]
<1>1. s \in Nat /\ s > 2
  BY SizeAssumption
<1>2. /\ size = s /\ next = FirstLinks /\ freepos = 2 /\ freenum = s - 2
      /\ node = [n \in 0..(s - 1) |-> IF n \in NT!Terminal THEN NT!TerminalNode(n) ELSE NT!FreeNode]
      /\ hash = [h \in 0..(s - 1) |-> 0]
  BY DEF Init
<1>3. /\ Now.hash = hash /\ Now.next = next /\ Now.freepos = 2 /\ Now.freenum = s - 2
  BY <1>2 DEF Now
<1> HIDE DEF s
<1>4. ASSUME NEW n \in 2..(s - 1)
      PROVE  node[n].low = NT!FreeLow
  <2>1. n \in 0..(s - 1) /\ n \notin NT!Terminal
    BY <1>1 DEF NT!Terminal, NT!FALSEBDD, NT!TRUEBDD
  <2>2. node[n] = NT!FreeNode
    BY <1>2, <2>1
  <2> QED
    BY <2>2 DEF NT!FreeNode
<1>5. InUse(s, node) = {} /\ Unused(s, node) = 2..(s - 1)
  BY <1>4 DEF InUse, Unused
<1>6. ASSUME NEW n \in 0..(s - 1)
      PROVE  next[n] = IF n < s - 1 THEN n + 1 ELSE 0
  <2>1. next[n] = (n + 1) % s
    BY <1>2 DEF FirstLinks, s
  <2>2. CASE n < s - 1
    <3>1. n + 1 \in 0..(s - 1)
      BY <1>1, <2>2
    <3>2. \A x \in 0..(s - 1) : x % s = x
      BY <1>1
    <3> QED
      BY <2>1, <2>2, <3>1, <3>2
  <2>3. CASE ~ (n < s - 1)
    <3>1. n + 1 = s
      BY <1>1, <2>3
    <3>2. s % s = 0
      BY <1>1
    <3> QED
      BY <2>1, <2>3, <3>1, <3>2
  <2> QED
    BY <2>2, <2>3
<1>7. LinksInTable(s, Now)
  <2>1. next \in [0..(s - 1) -> 0..(s - 1)]
    <3>1. next = [n \in 0..(s - 1) |-> next[n]]
      BY <1>2 DEF FirstLinks, s
    <3>2. \A n \in 0..(s - 1) : next[n] \in 0..(s - 1)
      BY <1>1, <1>6
    <3> QED
      BY <3>1, <3>2
  <2>2. hash \in [0..(s - 1) -> 0..(s - 1)]
    BY <1>1, <1>2
  <2> QED
    BY <1>3, <2>1, <2>2 DEF LinksInTable
<1>8. KeysOf(s, node, key, 0)
  BY <1>1, <1>5 DEF KeysOf
<1>9. SortedLinks(s, node, Now, key)
  <2>1. ASSUME NEW h \in 0..(s - 1)
        PROVE  Sorted(ClassOf(s, node, h), key, next, hash[h])
    <3>1. ClassOf(s, node, h) = {} /\ hash[h] = 0
      BY <1>2, <1>5 DEF ClassOf
    <3> QED
      BY <3>1 DEF Sorted, IsTop
  <2>2. IsTop(2, 2..(s - 1), key)
    <3>1. 2 \in 2..(s - 1)
      BY <1>1
    <3>2. \A m \in 2..(s - 1) : key[m] <= key[2]
      BY <3>1
    <3> QED
      BY <3>1, <3>2 DEF IsTop
  <2>3. ASSUME NEW n \in 2..(s - 1)
        PROVE  IsTop(next[n], Below(2..(s - 1), key, n), key)
    <3> DEFINE C == Below(2..(s - 1), key, n)
    <3>1. C = (n + 1)..(s - 1)
      BY <1>1 DEF Below
    <3>2. next[n] = IF n < s - 1 THEN n + 1 ELSE 0
      BY <1>1, <1>6
    <3>3. CASE n < s - 1
      <4>1. n + 1 \in (n + 1)..(s - 1) /\ n + 1 \in 2..(s - 1)
        BY <1>1, <3>3
      <4>2. \A m \in (n + 1)..(s - 1) : m \in 2..(s - 1) /\ -m <= -(n + 1)
        BY <1>1
      <4>3. \A m \in (n + 1)..(s - 1) : key[m] <= key[n + 1]
        BY <4>1, <4>2
      <4> HIDE DEF key, C
      <4>4. IsTop(next[n], C, key)
        BY <3>1, <3>2, <3>3, <4>1, <4>3 DEF IsTop
      <4> QED
        BY <4>4 DEF C
    <3>4. CASE ~ (n < s - 1)
      <4>1. (n + 1)..(s - 1) = {}
        BY <1>1, <3>4
      <4> HIDE DEF key, C
      <4>2. IsTop(next[n], C, key)
        BY <3>1, <3>2, <3>4, <4>1 DEF IsTop
      <4> QED
        BY <4>2 DEF C
    <3> QED
      BY <3>3, <3>4
  <2> HIDE DEF key
  <2>4. Sorted(Unused(s, node), key, next, 2)
    BY <1>5, <2>2, <2>3 DEF Sorted
  <2> QED
    BY <1>3, <2>1, <2>4 DEF SortedLinks
<1>10. Cardinality(2..(s - 1)) = s - 2
  BY <1>1, FS_Interval
<1> HIDE DEF key
<1>11. GoodLinks(s, node, Now)
  BY <1>3, <1>5, <1>7, <1>8, <1>9, <1>10 DEF GoodLinks
<1>12. LinkedFrom(freepos) = 2..(s - 1)
  BY <1>1, <1>2, <1>3, <1>5, <1>11, GoodLinksExact DEF LinkedFrom
<1> QED
  BY <1>2, <1>11, <1>12 DEF s

(* The lists bdd_init builds are good, over the table of NodeTable.        *)
LEMMA InitRefines ==
  ASSUME Init
  PROVE  NT!Init /\ Inv
<1>1. GoodLinks(size, node, Now) /\ LinkedFrom(freepos) = 2..(InitSize - 1)
  BY InitLinks
<1>2. NT!Init
  BY <1>1 DEF Init, NT!Init
<1>3. NP!IInv
  BY <1>2, SameInit, NP!InitInvariant, TableAssumptions
<1> QED
  BY <1>1, <1>2, <1>3 DEF Inv

-----------------------------------------------------------------------------
(* The theorems.                                                           *)

(* The invariant is inductive.                                             *)
THEOREM InvariantHolds == Spec => []Inv
<1>1. Init => Inv
  BY InitRefines
<1>2. Inv /\ [Next]_vars => Inv'
  BY StepKeeps
<1> QED
  BY <1>1, <1>2, PTL DEF Spec

(* Every used slot is on the chain of its hash code and on no other list,  *)
(* the free list holds the free slots, and bddfreenum is its length:       *)
(* whatever resizes moved the nodes to other chains while bdd_makenode     *)
(* was about to insert one.                                                *)
THEOREM ChainsExactHolds == Spec => []ChainsExact
<1>1. ASSUME Inv
      PROVE  ChainsExact
  <2>1. /\ NT!TypeOK /\ GoodLinks(size, node, Now)
        /\ size \in Nat /\ size > 2 /\ NT!Used = InUse(size, node)
        /\ LinkedFrom(freepos) = Unused(size, node)
    BY <1>1, InvariantFacts
  <2>2. PICK key, top : KeysOf(size, node, key, top) /\ SortedLinks(size, node, Now, key)
    BY <2>1 DEF GoodLinks
  <2>3. Unused(size, node) \in SUBSET (2..(size - 1))
    BY DEF Unused
  <2>4. hash \in [0..(size - 1) -> 0..(size - 1)] /\ next \in [0..(size - 1) -> 0..(size - 1)]
    BY <2>1 DEF GoodLinks, LinksInTable, Now
  <2>5. ASSUME NEW h \in 0..(size - 1)
        PROVE  hash[h] \in {0} \cup 2..(size - 1)
    <3>1. IsTop(hash[h], ClassOf(size, node, h), key)
      BY <2>2 DEF SortedLinks, Sorted, Now
    <3>2. ClassOf(size, node, h) \subseteq 2..(size - 1)
      BY DEF ClassOf, InUse
    <3> QED
      BY <3>1, <3>2 DEF IsTop
  <2>6. freepos \in {0} \cup 2..(size - 1)
    <3>1. IsTop(freepos, Unused(size, node), key)
      BY <2>2 DEF SortedLinks, Sorted, Now
    <3> QED
      BY <2>3, <3>1 DEF IsTop
  <2>7. freenum = Cardinality(Unused(size, node)) /\ freenum \in 0..(size - 2)
    <3>1. freenum = Cardinality(Unused(size, node))
      BY <2>1 DEF GoodLinks, Now
    <3> QED
      BY <2>1, <2>3, <3>1, SlotsFinite
  <2>8. TypeOK
    BY <2>1, <2>4, <2>5, <2>6, <2>7 DEF TypeOK
  <2>9. ASSUME NEW h \in 0..(size - 1)
        PROVE  LinkedFrom(hash[h]) =
                 {n \in NT!Used : NodeHash(size, node[n].level, node[n].low, node[n].high) = h}
    <3>1. LinkedFrom(hash[h]) = ClassOf(size, node, h)
      BY <2>1, GoodLinksExact DEF LinkedFrom, Now
    <3> QED
      BY <2>1, <3>1 DEF ClassOf, Code
  <2>10. LinkedFrom(freepos) = NT!Slots \ NT!Used
    BY <2>1 DEF Unused, NT!Slots
  <2> QED
    BY <2>1, <2>7, <2>8, <2>9, <2>10 DEF ChainsExact
<1> QED
  BY <1>1, InvariantHolds, PTL

(* The table with hash chains and a linked free list does what NodeTable,  *)
(* with a set of nodes and a set of free slots, does.                      *)
THEOREM NodeTableImplemented == Spec => ImplementsNodeTable
<1>1. Init => NT!Init
  BY InitRefines
<1>2. Inv /\ [Next]_vars => [NT!Next]_NT!vars
  BY StepRefines
<1> QED
  BY <1>1, <1>2, InvariantHolds, PTL DEF Spec, ImplementsNodeTable, NT!Spec

(* So equal functions have equal node numbers, no used node points at a    *)
(* free slot, nothing that is held or stacked is reclaimed, counts below   *)
(* MAXREF are exact and the nodes of the variables stay pinned in the      *)
(* table as kernel.c lays it out, too.                                     *)
THEOREM ChainedTableSafe ==
  Spec => [](NT!Canonical /\ NT!NoDanglingChild /\ NT!HeldNodesLive
             /\ NT!CountsExact /\ NT!VariablesPinned)
<1>1. NT!Used = NP!Used /\ NT!Slots = NP!Slots /\ NT!OnStack = NP!OnStack
      /\ \A n : NT!Children(n) = NP!Children(n)
  BY DEF NT!Used, NP!Used, NT!Slots, NP!Slots, NT!FreeLow, NP!FreeLow, NT!OnStack, NP!OnStack,
         NT!Children, NP!Children, NT!Terminal, NP!Terminal, NT!FALSEBDD, NP!FALSEBDD,
         NT!TRUEBDD, NP!TRUEBDD
<1>2. ASSUME Inv
      PROVE  NT!Canonical /\ NT!NoDanglingChild /\ NT!HeldNodesLive
             /\ NT!CountsExact /\ NT!VariablesPinned
  <2>1. NP!Canonical /\ NP!NoDanglingChild /\ NP!HeldNodesLive /\ NP!CountsExact /\ NP!VariablesPinned
    BY <1>2, NP!InvariantImplies, TableAssumptions DEF Inv
  <2>2. NT!Canonical
    BY <1>1, <2>1 DEF NT!Canonical, NP!Canonical
  <2>3. NT!NoDanglingChild
    BY <1>1, <2>1 DEF NT!NoDanglingChild, NP!NoDanglingChild
  <2>4. NT!HeldNodesLive
    BY <1>1, <2>1 DEF NT!HeldNodesLive, NP!HeldNodesLive
  <2>5. NT!CountsExact
    BY <1>1, <2>1 DEF NT!CountsExact, NP!CountsExact
  <2>6. NT!VariablesPinned
    BY <1>1, <2>1 DEF NT!VariablesPinned, NP!VariablesPinned, NT!FALSEBDD, NP!FALSEBDD,
                      NT!TRUEBDD, NP!TRUEBDD
  <2> QED
    BY <2>2, <2>3, <2>4, <2>5, <2>6
<1> QED
  BY <1>2, InvariantHolds, PTL
=============================================================================
