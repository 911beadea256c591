---------------------------- MODULE ReorderProofs ----------------------------
(***************************************************************************)
(* Proofs about Reorder, for every value of its constants: reclaiming      *)
(* nodes while variables are exchanged is sound, and what the program      *)
(* holds keeps its function.                                               *)
(*                                                                         *)
(* The inductive invariant Inv has three parts. Shape: the table is closed *)
(* and acyclic, its free list exact and without counts, and the order of   *)
(* the variables a permutation. Records: the variables of the reordering   *)
(* keep to their types, and what waits to be rewritten is in use. Counts:  *)
(* outside of a reordering a count covers the references of the program,   *)
(* inside of one the edges from all nodes in use as well, and the program  *)
(* then holds nothing but roots.                                           *)
(*                                                                         *)
(* That a table is acyclic is said with a rank: children have less of it   *)
(* than their parents. The order of the variables would not do, because an *)
(* exchange that mark_roots has misled leaves nodes above their children.  *)
(* Below, a fixed point that the marking recursions compute, exists in an  *)
(* acyclic table (FixedPoint, BelowEquation); what it reaches is closed    *)
(* (ReachClosed), so that the rest can be reclaimed (Sweep).               *)
(*                                                                         *)
(* A table in the middle of an exchange is a record, what reorder_makenode *)
(* takes and returns; Outcome says what a call does to it. The lemmas      *)
(* about one step of the specification end in Step.                        *)
(*                                                                         *)
(* The functions of nodes are kept for a reason that does not need the     *)
(* order of the variables: an assignment of functions to nodes that agrees *)
(* with every row is the only one (OneDenotation), and the rewriting of a  *)
(* node exchanges two variables in its expansion (ExpansionsExchanged).    *)
(* The lemmas about one step and the functions end in Kept.                *)
(*                                                                         *)
(* The second half is about the order of the variables and the hash table: *)
(* exchanges keep children below their parents as long as mark_roots has   *)
(* missed no interaction, and no two slots in use ever hold the same node. *)
(* Between exchanges the order is Ordered, and the interaction matrix has  *)
(* all pairs of variables that meet below a node (Meeting). Half way       *)
(* through an exchange the order is HalfExchanged: the nodes that do not   *)
(* wait are in the order there will be, those that wait are in the order   *)
(* there was, and nothing that waits is below another node that waits.     *)
(* Rows are unique (Unique) for the sake of the hash table between         *)
(* exchanges, and during one because a node that has been rewritten is     *)
(* never the expansion of one that waits (Apart): the children of a node   *)
(* are given by its grandchildren (GrandchildrenGive).                     *)
(***************************************************************************)
EXTENDS Reorder, Induction, TLAPS, FiniteSetTheorems, SequenceTheorems

-----------------------------------------------------------------------------
(* Sets of numbers and lists of slots.                                     *)

(* A list in which no slot is repeated.                                    *)
Distinct(A, fr) ==
  /\ fr \in Seq(A)
  /\ \A i, j \in 1..Len(fr) : fr[i] = fr[j] => i = j

(* Such a list is as long as it has slots.                                 *)
LEMMA DistinctLength ==
  ASSUME NEW A, NEW fr, Distinct(A, fr)
  PROVE  /\ ToSet(fr) \subseteq A /\ IsFiniteSet(ToSet(fr))
         /\ Len(fr) = Cardinality(ToSet(fr)) /\ Len(fr) \in Nat
         /\ \A x : x \in ToSet(fr) <=> \E i \in 1..Len(fr) : fr[i] = x
<1>1. fr \in Seq(A) /\ \A i, j \in 1..Len(fr) : fr[i] = fr[j] => i = j
  BY DEF Distinct
<1>2. Len(fr) \in Nat /\ DOMAIN fr = 1..Len(fr) /\ fr \in [1..Len(fr) -> A]
  BY <1>1, LenProperties
<1>3. ToSet(fr) = {fr[i] : i \in 1..Len(fr)}
  BY <1>2 DEF ToSet
<1>4. fr \in [1..Len(fr) -> ToSet(fr)]
  BY <1>2, <1>3
<1>5. fr \in Bijection(1..Len(fr), ToSet(fr))
  BY <1>1, <1>3, <1>4 DEF Bijection, Injection, Surjection, IsInjective
<1>6. ExistsBijection(1..Len(fr), ToSet(fr))
  BY <1>5 DEF ExistsBijection
<1>7. Cardinality(ToSet(fr)) = Len(fr)
  BY <1>2, <1>6, FS_CountingElements
<1>8. IsFiniteSet(ToSet(fr))
  BY <1>2, <1>6, FS_NatBijection
<1> QED
  BY <1>2, <1>3, <1>7, <1>8

(* The set of the numbers below one of a set.                              *)
BelowIn(S, x) == {y \in S : y < x}

(* Ascending lists every number of a set once.                             *)
LEMMA AscendingLists ==
  ASSUME NEW S \in SUBSET Nat, IsFiniteSet(S)
  PROVE  Distinct(S, Ascending(S)) /\ ToSet(Ascending(S)) = S
<1> DEFINE N == Cardinality(S)
           place == [x \in S |-> Cardinality(BelowIn(S, x)) + 1]
<1>1. N \in Nat
  BY FS_CardinalityType
<1>2. ASSUME NEW x \in S
      PROVE  /\ IsFiniteSet(BelowIn(S, x)) /\ Cardinality(BelowIn(S, x)) \in 0..(N - 1)
  <2>1. BelowIn(S, x) \in SUBSET S /\ BelowIn(S, x) # S
    BY DEF BelowIn
  <2>2. IsFiniteSet(BelowIn(S, x)) /\ Cardinality(BelowIn(S, x)) <= N
        /\ Cardinality(BelowIn(S, x)) # N
    BY <2>1, FS_Subset
  <2>3. Cardinality(BelowIn(S, x)) \in Nat
    BY <2>2, FS_CardinalityType
  <2> QED
    BY <1>1, <2>2, <2>3
<1>3. ASSUME NEW x \in S, NEW y \in S, x < y
      PROVE  Cardinality(BelowIn(S, x)) < Cardinality(BelowIn(S, y))
  <2>0. \A z \in S : z < x => z < y
    BY <1>3
  <2>1. BelowIn(S, x) \in SUBSET BelowIn(S, y) /\ BelowIn(S, x) # BelowIn(S, y)
    <3>1. x \in BelowIn(S, y) /\ x \notin BelowIn(S, x)
      BY <1>3 DEF BelowIn
    <3>2. BelowIn(S, x) \subseteq BelowIn(S, y)
      BY <2>0 DEF BelowIn
    <3> QED
      BY <3>1, <3>2
  <2>2. Cardinality(BelowIn(S, x)) <= Cardinality(BelowIn(S, y))
        /\ Cardinality(BelowIn(S, x)) # Cardinality(BelowIn(S, y))
    BY <1>2, <2>1, FS_Subset
  <2> QED
    BY <1>2, <2>2
<1>4. place \in [S -> 1..N]
  BY <1>1, <1>2
<1>5. \A x, y \in S : place[x] = place[y] => x = y
  <2> SUFFICES ASSUME NEW x \in S, NEW y \in S, x # y PROVE place[x] # place[y]
    OBVIOUS
  <2>1. x < y \/ y < x
    OBVIOUS
  <2>2. place[x] = Cardinality(BelowIn(S, x)) + 1 /\ place[y] = Cardinality(BelowIn(S, y)) + 1
    OBVIOUS
  <2> QED
    BY <2>1, <2>2, <1>2, <1>3
<1>6. place \in Injection(S, 1..N)
  BY <1>4, <1>5 DEF Injection, IsInjective
<1>7. IsFiniteSet(1..N) /\ Cardinality(1..N) = N
  BY <1>1, FS_Interval
<1>8. place \in Surjection(S, 1..N)
  BY <1>6, <1>7, FS_Injection
<1>9. \A i \in 1..N : \E x \in S : place[x] = i
  BY <1>8 DEF Surjection
<1> DEFINE at(i) == CHOOSE x \in S : Cardinality({y \in S : y < x}) = i - 1
<1>10. ASSUME NEW i \in 1..N
       PROVE  at(i) \in S /\ place[at(i)] = i
  <2>1. PICK x \in S : place[x] = i
    BY <1>9
  <2>2. Cardinality(BelowIn(S, x)) = i - 1
    BY <2>1, <1>2
  <2>3. at(i) \in S /\ Cardinality(BelowIn(S, at(i))) = i - 1
    BY <2>2 DEF BelowIn
  <2> QED
    BY <2>3, <1>1
<1>11. Ascending(S) = [i \in 1..N |-> at(i)]
  BY DEF Ascending
<1> HIDE DEF at, place
<1>12. Ascending(S) \in Seq(S) /\ Len(Ascending(S)) = N /\ \A i \in 1..N : Ascending(S)[i] = at(i)
  BY <1>1, <1>10, <1>11
<1>13. Distinct(S, Ascending(S))
  BY <1>10, <1>12 DEF Distinct
<1>14. \A x \in S : x = at(place[x])
  BY <1>4, <1>5, <1>10
<1>15. S \subseteq ToSet(Ascending(S))
  <2> SUFFICES ASSUME NEW x \in S PROVE x \in ToSet(Ascending(S))
    OBVIOUS
  <2>1. place[x] \in 1..N /\ Ascending(S)[place[x]] = x
    BY <1>4, <1>12, <1>14
  <2> QED
    BY <2>1, <1>12, <1>13, DistinctLength
<1> QED
  BY <1>13, <1>15, DistinctLength

(* Two lists without a common slot make one.                               *)
LEMMA DistinctConcat ==
  ASSUME NEW A, NEW a, NEW b, Distinct(A, a), Distinct(A, b), ToSet(a) \cap ToSet(b) = {}
  PROVE  Distinct(A, a \o b) /\ ToSet(a \o b) = ToSet(a) \cup ToSet(b)
<1> DEFINE c == a \o b
<1>1. /\ a \in Seq(A) /\ b \in Seq(A) /\ Len(a) \in Nat /\ Len(b) \in Nat
      /\ \A x : x \in ToSet(a) <=> \E i \in 1..Len(a) : a[i] = x
      /\ \A x : x \in ToSet(b) <=> \E i \in 1..Len(b) : b[i] = x
  BY DistinctLength DEF Distinct
<1>2. /\ c \in Seq(A) /\ Len(c) = Len(a) + Len(b)
      /\ \A i \in 1..(Len(a) + Len(b)) : c[i] = IF i <= Len(a) THEN a[i] ELSE b[i - Len(a)]
  BY <1>1, ConcatProperties
<1> HIDE DEF c
<1>3. ASSUME NEW i \in 1..Len(c)
      PROVE  \/ i \in 1..Len(a) /\ c[i] = a[i] /\ c[i] \in ToSet(a)
             \/ i - Len(a) \in 1..Len(b) /\ c[i] = b[i - Len(a)] /\ c[i] \in ToSet(b)
  <2>1. CASE i <= Len(a)
    BY <2>1, <1>1, <1>2
  <2>2. CASE ~ (i <= Len(a))
    <3>1. i - Len(a) \in 1..Len(b)
      BY <2>2, <1>1, <1>2
    <3> QED
      BY <3>1, <2>2, <1>1, <1>2
  <2> QED
    BY <2>1, <2>2
<1>4. ASSUME NEW i \in 1..Len(c), NEW j \in 1..Len(c), c[i] = c[j]
      PROVE  i = j
  <2>1. CASE i \in 1..Len(a) /\ j \in 1..Len(a) /\ c[i] = a[i] /\ c[j] = a[j]
    BY <2>1, <1>4 DEF Distinct
  <2>2. CASE i - Len(a) \in 1..Len(b) /\ j - Len(a) \in 1..Len(b)
             /\ c[i] = b[i - Len(a)] /\ c[j] = b[j - Len(a)]
    <3>1. i - Len(a) = j - Len(a)
      BY <2>2, <1>4 DEF Distinct
    <3> QED
      BY <3>1, <1>1
  <2> QED
    BY <2>1, <2>2, <1>3, <1>4
<1>5. Distinct(A, c)
  BY <1>2, <1>4 DEF Distinct
<1>6. \A x : x \in ToSet(c) <=> \E i \in 1..Len(c) : c[i] = x
  BY <1>5, DistinctLength
<1>7. ToSet(c) \subseteq ToSet(a) \cup ToSet(b)
  BY <1>3, <1>6
<1>8. ToSet(a) \subseteq ToSet(c)
  <2> SUFFICES ASSUME NEW i \in 1..Len(a) PROVE a[i] \in ToSet(c)
    BY <1>1
  <2>1. i \in 1..Len(c) /\ c[i] = a[i]
    BY <1>1, <1>2
  <2> QED
    BY <2>1, <1>6
<1>9. ToSet(b) \subseteq ToSet(c)
  <2> SUFFICES ASSUME NEW i \in 1..Len(b) PROVE b[i] \in ToSet(c)
    BY <1>1
  <2>1. i + Len(a) \in 1..Len(c) /\ ~ (i + Len(a) <= Len(a)) /\ (i + Len(a)) - Len(a) = i
    BY <1>1, <1>2
  <2>2. c[i + Len(a)] = b[i]
    BY <2>1, <1>1, <1>2
  <2> QED
    BY <2>1, <2>2, <1>6
<1> QED
  BY <1>5, <1>7, <1>8, <1>9 DEF c

(* Taking the first slot of a list.                                        *)
LEMMA DistinctTail ==
  ASSUME NEW A, NEW fr, Distinct(A, fr), fr # << >>
  PROVE  /\ Distinct(A, Tail(fr)) /\ Head(fr) \in ToSet(fr) /\ Head(fr) \in A
         /\ ToSet(Tail(fr)) = ToSet(fr) \ {Head(fr)} /\ Head(fr) = fr[1]
<1> DEFINE r == Tail(fr)
<1>1. fr \in Seq(A) /\ \A x : x \in ToSet(fr) <=> \E i \in 1..Len(fr) : fr[i] = x
  BY DistinctLength DEF Distinct
<1>2. Len(fr) \in Nat /\ Len(fr) # 0
  BY <1>1, EmptySeq
<1>3. r \in Seq(A) /\ Len(r) = Len(fr) - 1 /\ \A i \in 1..Len(r) : r[i] = fr[i + 1]
  BY <1>1, HeadTailProperties
<1>4. Head(fr) = fr[1] /\ 1 \in 1..Len(fr)
  BY <1>1, <1>2
<1> HIDE DEF r
<1>5. Distinct(A, r)
  <2> SUFFICES ASSUME NEW i \in 1..Len(r), NEW j \in 1..Len(r), r[i] = r[j] PROVE i = j
    BY <1>3 DEF Distinct
  <2>1. i + 1 \in 1..Len(fr) /\ j + 1 \in 1..Len(fr)
    BY <1>2, <1>3
  <2>2. fr[i + 1] = fr[j + 1]
    BY <1>3
  <2>3. i + 1 = j + 1
    BY <2>1, <2>2 DEF Distinct
  <2> QED
    BY <2>3
<1>6. \A x : x \in ToSet(r) <=> \E i \in 1..Len(r) : r[i] = x
  BY <1>5, DistinctLength
<1>7. ToSet(r) \subseteq ToSet(fr) \ {Head(fr)}
  <2> SUFFICES ASSUME NEW i \in 1..Len(r) PROVE r[i] \in ToSet(fr) \ {Head(fr)}
    BY <1>6
  <2>1. i + 1 \in 1..Len(fr) /\ i + 1 # 1
    BY <1>2, <1>3
  <2>2. r[i] = fr[i + 1]
    BY <1>3
  <2> QED
    BY <2>1, <2>2, <1>1, <1>4 DEF Distinct
<1>8. ToSet(fr) \ {Head(fr)} \subseteq ToSet(r)
  <2> SUFFICES ASSUME NEW i \in 1..Len(fr), fr[i] # Head(fr) PROVE fr[i] \in ToSet(r)
    BY <1>1
  <2>1. i - 1 \in 1..Len(r) /\ (i - 1) + 1 = i
    BY <1>2, <1>3, <1>4
  <2>2. r[i - 1] = fr[i]
    BY <2>1, <1>3
  <2> QED
    BY <2>1, <2>2, <1>6
<1> QED
  BY <1>1, <1>4, <1>5, <1>7, <1>8 DEF r

-----------------------------------------------------------------------------
(* Edges and counts.                                                       *)

One(b) == IF b THEN 1 ELSE 0

(* Edges from the nodes of a set to node m.                                *)
EdgesIn(nd, S, m) ==
  Cardinality({p \in S : nd[p].low = m}) + Cardinality({p \in S : nd[p].high = m})

(* A count takes k references into account.                                *)
Covers(count, k) == count = MaxRef \/ count >= k

(* The edges to a node are a number, 0 when no node has it for a child.    *)
LEMMA EdgesNumber ==
  ASSUME NEW nd, NEW S, IsFiniteSet(S), NEW m
  PROVE  /\ EdgesIn(nd, S, m) \in Nat
         /\ EdgesIn(nd, S, m) = 0 <=> \A p \in S : nd[p].low # m /\ nd[p].high # m
<1> DEFINE lows == {p \in S : nd[p].low = m}
           highs == {p \in S : nd[p].high = m}
<1>1. IsFiniteSet(lows) /\ IsFiniteSet(highs)
  <2>1. lows \in SUBSET S /\ highs \in SUBSET S
    OBVIOUS
  <2> HIDE DEF lows, highs
  <2> QED
    BY <2>1, FS_Subset
<1>2. EdgesIn(nd, S, m) = Cardinality(lows) + Cardinality(highs)
  BY DEF EdgesIn
<1>3. lows = {} /\ highs = {} <=> \A p \in S : nd[p].low # m /\ nd[p].high # m
  OBVIOUS
<1> HIDE DEF lows, highs
<1>4. Cardinality(lows) \in Nat /\ Cardinality(highs) \in Nat
  BY <1>1, FS_CardinalityType
<1>5. (Cardinality(lows) = 0 <=> lows = {}) /\ (Cardinality(highs) = 0 <=> highs = {})
  BY <1>1, FS_EmptySet
<1> QED
  BY <1>2, <1>3, <1>4, <1>5

(* Only the children matter.                                               *)
LEMMA EdgesSame ==
  ASSUME NEW nd, NEW new, NEW S, \A p \in S : new[p].low = nd[p].low /\ new[p].high = nd[p].high, NEW m
  PROVE  EdgesIn(new, S, m) = EdgesIn(nd, S, m)
<1>1. {p \in S : new[p].low = m} = {p \in S : nd[p].low = m}
  OBVIOUS
<1>2. {p \in S : new[p].high = m} = {p \in S : nd[p].high = m}
  OBVIOUS
<1> QED
  BY <1>1, <1>2 DEF EdgesIn

(* One node more.                                                          *)
LEMMA EdgesAdd ==
  ASSUME NEW nd, NEW S, IsFiniteSet(S), NEW r, r \notin S, NEW m
  PROVE  EdgesIn(nd, S \cup {r}, m)
           = EdgesIn(nd, S, m) + One(nd[r].low = m) + One(nd[r].high = m)
<1> DEFINE lows == {p \in S : nd[p].low = m}
           highs == {p \in S : nd[p].high = m}
           lows1 == {p \in S \cup {r} : nd[p].low = m}
           highs1 == {p \in S \cup {r} : nd[p].high = m}
<1>1. lows \in SUBSET S /\ highs \in SUBSET S /\ r \notin lows /\ r \notin highs
  OBVIOUS
<1>2. /\ nd[r].low = m => lows1 = lows \cup {r}
      /\ nd[r].low # m => lows1 = lows
      /\ nd[r].high = m => highs1 = highs \cup {r}
      /\ nd[r].high # m => highs1 = highs
  OBVIOUS
<1>3. /\ EdgesIn(nd, S, m) = Cardinality(lows) + Cardinality(highs)
      /\ EdgesIn(nd, S \cup {r}, m) = Cardinality(lows1) + Cardinality(highs1)
  BY DEF EdgesIn
<1> HIDE DEF lows, highs, lows1, highs1
<1>4. IsFiniteSet(lows) /\ IsFiniteSet(highs)
  BY <1>1, FS_Subset
<1>5. Cardinality(lows) \in Nat /\ Cardinality(highs) \in Nat
  BY <1>4, FS_CardinalityType
<1>6. /\ Cardinality(lows \cup {r}) = Cardinality(lows) + 1
      /\ Cardinality(highs \cup {r}) = Cardinality(highs) + 1
  BY <1>1, <1>4, FS_AddElement
<1>7. Cardinality(lows1) = Cardinality(lows) + One(nd[r].low = m)
  BY <1>2, <1>5, <1>6 DEF One
<1>8. Cardinality(highs1) = Cardinality(highs) + One(nd[r].high = m)
  BY <1>2, <1>5, <1>6 DEF One
<1>9. One(nd[r].low = m) \in Nat /\ One(nd[r].high = m) \in Nat
  BY DEF One
<1> QED
  BY <1>3, <1>5, <1>7, <1>8, <1>9

(* Two finite sets without a common member.                                *)
LEMMA TwoParts ==
  ASSUME NEW S, IsFiniteSet(S), NEW a \in SUBSET S, NEW b \in SUBSET S, a \cap b = {}
  PROVE  /\ Cardinality(a \cup b) = Cardinality(a) + Cardinality(b)
         /\ Cardinality(a) \in Nat /\ Cardinality(b) \in Nat
<1>1. IsFiniteSet(a) /\ IsFiniteSet(b)
  BY FS_Subset
<1>2. Cardinality(a) \in Nat /\ Cardinality(b) \in Nat /\ Cardinality(a \cap b) = 0
  BY <1>1, FS_CardinalityType, FS_EmptySet
<1>3. Cardinality(a \cup b) = Cardinality(a) + Cardinality(b) - Cardinality(a \cap b)
  BY <1>1, FS_Union
<1> QED
  BY <1>2, <1>3

(* The edges from a part of a set and from the rest.                       *)
LEMMA EdgesSplit ==
  ASSUME NEW nd, NEW S, IsFiniteSet(S), NEW D \in SUBSET S, NEW m
  PROVE  EdgesIn(nd, S, m) = EdgesIn(nd, D, m) + EdgesIn(nd, S \ D, m)
<1> DEFINE lows1 == {p \in D : nd[p].low = m}
           lows2 == {p \in S \ D : nd[p].low = m}
           highs1 == {p \in D : nd[p].high = m}
           highs2 == {p \in S \ D : nd[p].high = m}
<1>1. /\ lows1 \in SUBSET S /\ lows2 \in SUBSET S /\ lows1 \cap lows2 = {}
      /\ {p \in S : nd[p].low = m} = lows1 \cup lows2
  OBVIOUS
<1>2. /\ highs1 \in SUBSET S /\ highs2 \in SUBSET S /\ highs1 \cap highs2 = {}
      /\ {p \in S : nd[p].high = m} = highs1 \cup highs2
  OBVIOUS
<1>3. /\ EdgesIn(nd, S, m) = Cardinality(lows1 \cup lows2) + Cardinality(highs1 \cup highs2)
      /\ EdgesIn(nd, D, m) = Cardinality(lows1) + Cardinality(highs1)
      /\ EdgesIn(nd, S \ D, m) = Cardinality(lows2) + Cardinality(highs2)
  BY <1>1, <1>2 DEF EdgesIn
<1> HIDE DEF lows1, lows2, highs1, highs2
<1>4. /\ Cardinality(lows1 \cup lows2) = Cardinality(lows1) + Cardinality(lows2)
      /\ Cardinality(lows1) \in Nat /\ Cardinality(lows2) \in Nat
  BY <1>1, TwoParts
<1>5. /\ Cardinality(highs1 \cup highs2) = Cardinality(highs1) + Cardinality(highs2)
      /\ Cardinality(highs1) \in Nat /\ Cardinality(highs2) \in Nat
  BY <1>2, TwoParts
<1> QED
  BY <1>3, <1>4, <1>5

(* Reference counts that saturate.                                         *)
LEMMA Counting ==
  ASSUME NEW c \in 0..MaxRef, NEW k \in Nat, NEW j \in Nat
  PROVE  /\ Incref(c, j) \in 0..MaxRef /\ Decref(c, j) \in 0..MaxRef
         /\ j # 0 => Incref(c, j) # 0
         /\ Incref(c, j) >= c
         /\ Covers(c, k) => Covers(Incref(c, j), k + j)
         /\ Covers(c, k + j) => Covers(Decref(c, j), k)
         /\ Covers(c, k + j) => Covers(c, k)
         /\ Decref(0, j) = 0
         /\ Covers(0, k) => k = 0
         /\ Covers(c, k) <=> c >= Incref(k, 0)
<1>1. MaxRef \in Nat /\ MaxRef # 0
  BY ReorderLimits
<1>2. Incref(c, j) = IF c + j < MaxRef THEN c + j ELSE MaxRef
  BY DEF Incref
<1>3. Decref(c, j) = IF c = MaxRef THEN MaxRef ELSE IF c > j THEN c - j ELSE 0
  BY DEF Decref
<1>4. Decref(0, j) = 0
  BY <1>1 DEF Decref
<1>5. Covers(c, k) <=> c >= Incref(k, 0)
  BY <1>1 DEF Covers, Incref
<1>6. Covers(c, k + j) => Covers(Decref(c, j), k)
  BY <1>1, <1>3 DEF Covers
<1>7. Covers(c, k) => Covers(Incref(c, j), k + j)
  BY <1>1, <1>2 DEF Covers
<1>8. Covers(c, k + j) => Covers(c, k)
  BY <1>1 DEF Covers
<1>9. Covers(0, k) => k = 0
  BY <1>1 DEF Covers
<1>10. /\ Incref(c, j) \in 0..MaxRef /\ (j # 0 => Incref(c, j) # 0) /\ Incref(c, j) >= c
  BY <1>1, <1>2
<1>11. Decref(c, j) \in 0..MaxRef
  BY <1>1, <1>3
<1> QED
  BY <1>4, <1>5, <1>6, <1>7, <1>8, <1>9, <1>10, <1>11

-----------------------------------------------------------------------------
(* Tables.                                                                 *)

TakenOf(s, fr) == (2..(s - 1)) \ ToSet(fr)

NodeOf(s) == [refcou : 0..MaxRef, level : 0..MaxVars, low : -1..(s - 1), high : 0..(s - 1)]

(* A table of s slots whose children, counts and free list are sound, with *)
(* num variables.                                                          *)
SoundTable(s, nd, fr, num) ==
  /\ s \in Nat /\ s > 2 /\ s >= InitSize /\ IsPrime(s)
  /\ Distinct(2..(s - 1), fr)
  /\ nd \in [0..(s - 1) -> NodeOf(s)]
  /\ \A n \in Terminal : nd[n].low = n /\ nd[n].high = n /\ nd[n].level = num
  /\ \A n \in TakenOf(s, fr) : /\ nd[n].low \in Terminal \cup TakenOf(s, fr)
                               /\ nd[n].high \in Terminal \cup TakenOf(s, fr)
                               /\ nd[n].level \in 0..(num - 1)
  /\ \A n \in ToSet(fr) : nd[n].refcou = 0

(* A node has the same variable and children in two tables.                *)
SameRow(nd, new, n) ==
  new[n].level = nd[n].level /\ new[n].low = nd[n].low /\ new[n].high = nd[n].high

(* The slots in use, the constants and the free list share the table out.  *)
LEMMA TakenFacts ==
  ASSUME NEW s, NEW nd, NEW fr, NEW num, SoundTable(s, nd, fr, num)
  PROVE  /\ TakenOf(s, fr) \subseteq 2..(s - 1) /\ IsFiniteSet(TakenOf(s, fr))
         /\ Terminal \cup TakenOf(s, fr) \subseteq 0..(s - 1)
         /\ Terminal \cap TakenOf(s, fr) = {}
         /\ ToSet(fr) \subseteq 2..(s - 1) /\ ToSet(fr) \cap TakenOf(s, fr) = {}
         /\ TakenOf(s, fr) \cup ToSet(fr) = 2..(s - 1)
         /\ \A n \in 0..(s - 1) : /\ nd[n] \in NodeOf(s) /\ nd[n].refcou \in 0..MaxRef
                                  /\ nd[n].level \in 0..MaxVars
                                  /\ nd[n].low \in -1..(s - 1) /\ nd[n].high \in 0..(s - 1)
<1>1. s \in Nat /\ s > 2 /\ Distinct(2..(s - 1), fr) /\ nd \in [0..(s - 1) -> NodeOf(s)]
  BY DEF SoundTable
<1>2. ToSet(fr) \subseteq 2..(s - 1)
  BY <1>1, DistinctLength
<1>3. IsFiniteSet(2..(s - 1))
  BY <1>1, FS_Interval
<1>4. TakenOf(s, fr) \in SUBSET (2..(s - 1))
  BY DEF TakenOf
<1>5. IsFiniteSet(TakenOf(s, fr))
  BY <1>3, <1>4, FS_Subset
<1>6. Terminal \cup TakenOf(s, fr) \subseteq 0..(s - 1) /\ Terminal \cap TakenOf(s, fr) = {}
  BY <1>1, <1>4 DEF Terminal, FALSEBDD, TRUEBDD
<1>7. \A n \in 0..(s - 1) : nd[n] \in NodeOf(s)
  BY <1>1
<1>8. \A n \in 0..(s - 1) : /\ nd[n].refcou \in 0..MaxRef /\ nd[n].level \in 0..MaxVars
                            /\ nd[n].low \in -1..(s - 1) /\ nd[n].high \in 0..(s - 1)
  BY <1>7 DEF NodeOf
<1> QED
  BY <1>2, <1>4, <1>5, <1>6, <1>7, <1>8 DEF TakenOf

-----------------------------------------------------------------------------
(* The size of a table that grows.                                         *)

(* Max and Min of the community modules, for sets of numbers.              *)
LEMMA MaximumIsGreatest ==
  ASSUME NEW S \in SUBSET Nat, S # {}, NEW cap \in Nat, \A x \in S : x <= cap
  PROVE  Max(S) \in S /\ \A y \in S : Max(S) >= y
<1> DEFINE D == {cap - x : x \in S}
<1>1. D \in SUBSET Nat /\ D # {}
  <2>1. \A x \in S : cap - x \in Nat
    OBVIOUS
  <2>2. PICK x \in S : TRUE
    OBVIOUS
  <2> QED
    BY <2>1, <2>2
<1>2. PICK d \in D : \A y \in D : ~ (y < d)
  BY <1>1, LeastExists
<1>3. PICK x \in S : d = cap - x
  OBVIOUS
<1>4. \A y \in S : x >= y
  <2> SUFFICES ASSUME NEW y \in S PROVE x >= y
    OBVIOUS
  <2>1. cap - y \in D
    OBVIOUS
  <2> HIDE DEF D
  <2>2. ~ (cap - y < cap - x)
    BY <2>1, <1>2, <1>3
  <2>3. x \in Nat /\ y \in Nat
    OBVIOUS
  <2> QED
    BY <2>2, <2>3
<1> QED
  BY <1>4 DEF Max

(* The least number of a set.                                              *)
LEMMA MinimumIsLeast ==
  ASSUME NEW S \in SUBSET Nat, S # {}
  PROVE  Min(S) \in S /\ \A y \in S : Min(S) <= y
<1>1. PICK x \in S : \A y \in S : ~ (y < x)
  BY LeastExists
<1>2. \A y \in S : x <= y
  BY <1>1
<1> QED
  BY <1>2 DEF Min

(* The limit allows no larger table.                                       *)
AtLimit(s) == s >= Limit /\ Limit > 0

(* A resize gives the table more slots, or the limit forbids it.           *)
Grows(s) == AtLimit(s) \/ NextSize(s) > s

(* bdd_noderesize gives the table a prime size, no smaller than before.    *)
LEMMA NextSizes ==
  ASSUME NEW s \in Nat, s > 2, IsPrime(s), ~ AtLimit(s)
  PROVE  NextSize(s) \in Nat /\ NextSize(s) >= s /\ IsPrime(NextSize(s))
<1> DEFINE caps == {2 * s, s + MaxIncrease} \cup (IF Limit > 0 THEN {Limit} ELSE {})
           cap == Min(caps)
           P == {p \in 2..cap : IsPrime(p)}
<1>1. caps \in SUBSET Nat /\ caps # {} /\ \A c \in caps : c >= s
  BY ReorderLimits DEF AtLimit
<1> HIDE DEF caps
<1>2. cap \in Nat /\ cap >= s
  BY <1>1, MinimumIsLeast
<1> HIDE DEF cap
<1>3. s \in P /\ P \in SUBSET Nat /\ \A p \in P : p <= cap
  BY <1>2
<1>4. Max(P) \in P /\ \A y \in P : Max(P) >= y
  BY <1>2, <1>3, MaximumIsGreatest
<1>5. NextSize(s) = Max(P)
  BY DEF NextSize, P, cap, caps
<1> QED
  BY <1>3, <1>4, <1>5

-----------------------------------------------------------------------------
(* What reorder_makenode does to a table.                                  *)

IsTable(t) ==
  t = [size |-> t.size, node |-> t.node, free |-> t.free, error |-> t.error,
       resized |-> t.resized, hidden |-> t.hidden, res |-> t.res]

SoundRec(t, num) ==
  /\ IsTable(t)
  /\ SoundTable(t.size, t.node, t.free, num)
  /\ t.error \in BOOLEAN /\ t.resized \in BOOLEAN

(* bdd_noderesize gives the table more free slots, or leaves it as it is.  *)
LEMMA ResizeSound ==
  ASSUME NEW t, NEW num, SoundRec(t, num), t.free = << >>, Grows(t.size)
  PROVE  LET u == Resize(t)
         IN  /\ SoundRec(u, num) /\ u.size >= t.size
             /\ TakenOf(u.size, u.free) = TakenOf(t.size, t.free)
             /\ \A n \in 0..(t.size - 1) : u.node[n] = t.node[n]
             /\ u.error = t.error /\ u.hidden = t.hidden /\ u.res = t.res
             /\ u.free = << >> => AtLimit(t.size)
             /\ ~ AtLimit(t.size) => u.free # << >>
<1> DEFINE u == Resize(t)
           s == t.size
<1>1. SoundTable(t.size, t.node, t.free, num) /\ IsTable(t)
      /\ t.error \in BOOLEAN /\ t.resized \in BOOLEAN
  BY DEF SoundRec
<1>2. s \in Nat /\ s > 2 /\ IsPrime(s) /\ s >= InitSize
  BY <1>1 DEF SoundTable
<1>3. CASE AtLimit(s)
  <2>1. u = [t EXCEPT !.resized = TRUE]
    BY <1>3 DEF Resize, AtLimit
  <2>2. /\ u.size = t.size /\ u.node = t.node /\ u.free = t.free /\ u.error = t.error
        /\ u.hidden = t.hidden /\ u.res = t.res /\ u.resized \in BOOLEAN /\ IsTable(u)
    BY <2>1, <1>1 DEF IsTable
  <2> HIDE DEF u
  <2>3. SoundRec(u, num)
    <3>1. u.error \in BOOLEAN
      BY <1>1, <2>2, Zenon
    <3>2. SoundTable(u.size, u.node, u.free, num)
      BY <1>1, <2>2, Zenon
    <3> QED
      BY <2>2, <3>1, <3>2 DEF SoundRec
  <2>4. TakenOf(u.size, u.free) = TakenOf(t.size, t.free)
    BY <2>2
  <2>5. u.size >= t.size
    BY <2>2, <1>2
  <2> QED
    BY <2>2, <2>3, <2>4, <2>5, <1>3 DEF u
<1>4. CASE ~ AtLimit(s)
  <2> DEFINE z == NextSize(s)
             new == s..(z - 1)
             nodes == [n \in 0..(z - 1) |-> IF n < s THEN t.node[n] ELSE FreeNode]
  <2>1. z \in Nat /\ z > s /\ IsPrime(z)
    BY <1>2, <1>4, NextSizes DEF Grows
  <2>2. u = [t EXCEPT !.size = z, !.node = nodes,
                      !.free = Ascending(new) \o t.free, !.resized = TRUE]
    <3>1. ~ (t.size >= Limit /\ Limit > 0)
      BY <1>4 DEF AtLimit
    <3>2. z # s
      BY <2>1, <1>2
    <3> QED
      BY <3>1, <3>2 DEF Resize
  <2>3. Ascending(new) \o t.free = Ascending(new)
    <3>0. s \in Int /\ z - 1 \in Int
      BY <1>2, <2>1
    <3>1. new \in SUBSET Nat /\ IsFiniteSet(new)
      BY <1>2, <3>0, FS_Interval
    <3>2. Ascending(new) \in Seq(new)
      BY <3>1, AscendingLists DEF Distinct
    <3> QED
      BY <3>2, ConcatEmptySeq
  <2> HIDE DEF z, new, nodes, u
  <2>4. /\ u.size = z /\ u.node = nodes /\ u.free = Ascending(new) /\ u.error = t.error
        /\ u.hidden = t.hidden /\ u.res = t.res /\ u.resized \in BOOLEAN /\ IsTable(u)
    BY <2>2, <2>3, <1>1 DEF IsTable
  <2>5. new \in SUBSET Nat /\ IsFiniteSet(new) /\ new \subseteq 2..(z - 1) /\ new # {}
    <3>1. s \in Int /\ z - 1 \in Int
      BY <1>2, <2>1
    <3>2. IsFiniteSet(new)
      BY <3>1, FS_Interval DEF new
    <3>3. s \in new
      BY <1>2, <2>1 DEF new
    <3> QED
      BY <1>2, <3>2, <3>3 DEF new
  <2>6. Distinct(new, Ascending(new)) /\ ToSet(Ascending(new)) = new
    BY <2>5, AscendingLists
  <2>7. Distinct(2..(z - 1), Ascending(new))
    BY <2>5, <2>6, SeqMonotonic DEF Distinct
  <2>8. TakenOf(z, Ascending(new)) = 2..(s - 1) /\ TakenOf(s, t.free) = 2..(s - 1)
    <3>1. ToSet(t.free) = {}
      BY DEF ToSet
    <3> QED
      BY <3>1, <2>6, <2>1, <1>2 DEF TakenOf, new
  <2>9. \A n \in 0..(s - 1) : n \in 0..(z - 1) /\ nodes[n] = t.node[n]
    BY <1>2, <2>1 DEF nodes
  <2>10. \A n \in new : nodes[n] = FreeNode
    BY <1>2, <2>1 DEF nodes, new
  <2>11. \A n \in 0..(z - 1) : n \in 0..(s - 1) \/ n \in new
    BY <1>2, <2>1 DEF new
  <2>12. \A n \in 0..(s - 1) : nodes[n] \in NodeOf(z)
    <3> SUFFICES ASSUME NEW n \in 0..(s - 1) PROVE t.node[n] \in NodeOf(z)
      BY <2>9
    <3>1. t.node[n] \in NodeOf(s)
      BY <1>1, TakenFacts
    <3>2. -1..(s - 1) \subseteq -1..(z - 1) /\ 0..(s - 1) \subseteq 0..(z - 1)
      BY <2>1, <1>2
    <3> QED
      BY <3>1, <3>2 DEF NodeOf
  <2>13. FreeNode \in NodeOf(z) /\ FreeNode.refcou = 0
    <3>1. 0 \in 0..MaxRef /\ 0 \in 0..MaxVars /\ -1 \in -1..(z - 1) /\ 0 \in 0..(z - 1)
      BY <2>1, <1>2, ReorderLimits, ReorderVars
    <3> QED
      BY <3>1 DEF FreeNode, NodeOf
  <2>14. nodes \in [0..(z - 1) -> NodeOf(z)]
    <3>1. \A n \in 0..(z - 1) : nodes[n] \in NodeOf(z)
      BY <2>10, <2>11, <2>12, <2>13
    <3>2. nodes = [n \in 0..(z - 1) |-> nodes[n]]
      BY DEF nodes
    <3> QED
      BY <3>1, <3>2
  <2>15. /\ \A n \in Terminal : n \in 0..(s - 1)
         /\ \A n \in TakenOf(s, t.free) : n \in 0..(s - 1)
    BY <1>1, TakenFacts
  <2>16. SoundTable(z, nodes, Ascending(new), num)
    <3>1. \A n \in Terminal : nodes[n].low = n /\ nodes[n].high = n /\ nodes[n].level = num
      BY <1>1, <2>9, <2>15 DEF SoundTable
    <3>2. TakenOf(z, Ascending(new)) = TakenOf(s, t.free)
      BY <2>8
    <3>3. \A n \in TakenOf(s, t.free) : /\ nodes[n].low \in Terminal \cup TakenOf(s, t.free)
                                         /\ nodes[n].high \in Terminal \cup TakenOf(s, t.free)
                                         /\ nodes[n].level \in 0..(num - 1)
      BY <1>1, <2>9, <2>15 DEF SoundTable
    <3>4. \A n \in ToSet(Ascending(new)) : nodes[n].refcou = 0
      BY <2>6, <2>10, <2>13
    <3>5. z > 2 /\ z >= InitSize
      BY <2>1, <1>2, ReorderSizes
    <3> QED
      BY <3>1, <3>2, <3>3, <3>4, <3>5, <2>1, <2>7, <2>14 DEF SoundTable
  <2>17. Ascending(new) # << >>
    <3>1. ToSet(Ascending(new)) # {}
      BY <2>5, <2>6
    <3> QED
      BY <3>1 DEF ToSet
  <2>18. SoundRec(u, num)
    <3>1. u.error \in BOOLEAN
      BY <1>1, <2>4, Zenon
    <3>2. SoundTable(u.size, u.node, u.free, num)
      BY <2>4, <2>16, Zenon
    <3> QED
      BY <2>4, <3>1, <3>2 DEF SoundRec
  <2>19. TakenOf(u.size, u.free) = TakenOf(t.size, t.free)
    BY <2>4, <2>8
  <2>20. u.size >= t.size
    BY <2>1, <2>4, <1>2
  <2>21. \A n \in 0..(t.size - 1) : u.node[n] = t.node[n]
    BY <2>4, <2>9
  <2> QED
    BY <2>4, <2>17, <2>18, <2>19, <2>20, <2>21, <1>4 DEF u
<1> QED
  BY <1>3, <1>4

-----------------------------------------------------------------------------
(* One more and one reference less.                                        *)

(* INCREF changes one count, which then covers one more reference.         *)
LEMMA CountUpSound ==
  ASSUME NEW s \in Nat, s > 2, NEW nd \in [0..(s - 1) -> NodeOf(s)], NEW n \in 0..(s - 1)
  PROVE  LET u == CountUp(nd, n)
         IN  /\ u \in [0..(s - 1) -> NodeOf(s)]
             /\ \A x \in 0..(s - 1) : SameRow(nd, u, x) /\ (x # n => u[x] = nd[x])
             /\ \A x \in Terminal : u[x] = nd[x]
             /\ \A x \in 2..(s - 1) : \A k \in Nat :
                  Covers(nd[x].refcou, k) => Covers(u[x].refcou, k + One(x = n))
<1> DEFINE u == CountUp(nd, n)
<1>1. \A x \in 0..(s - 1) : /\ nd[x] \in NodeOf(s) /\ nd[x].refcou \in 0..MaxRef
  BY DEF NodeOf
<1>2. CASE n \in Terminal
  <2>1. u = nd
    BY <1>2 DEF CountUp
  <2>2. \A x \in 2..(s - 1) : One(x = n) = 0
    BY <1>2 DEF Terminal, FALSEBDD, TRUEBDD, One
  <2>3. \A x \in 2..(s - 1) : \A k \in Nat : k + One(x = n) = k
    BY <2>2
  <2> QED
    BY <2>1, <2>3 DEF SameRow
<1>3. CASE n \notin Terminal
  <2>1. u = [nd EXCEPT ![n].refcou = Incref(@, 1)]
    BY <1>3 DEF CountUp
  <2>2. u = [nd EXCEPT ![n] = [nd[n] EXCEPT !.refcou = Incref(nd[n].refcou, 1)]]
    BY <2>1
  <2>3. Incref(nd[n].refcou, 1) \in 0..MaxRef
    BY <1>1, Counting
  <2>4. [nd[n] EXCEPT !.refcou = Incref(nd[n].refcou, 1)] \in NodeOf(s)
    BY <1>1, <2>3 DEF NodeOf
  <2>5. u \in [0..(s - 1) -> NodeOf(s)] /\ (\A x \in 0..(s - 1) : x # n => u[x] = nd[x])
        /\ u[n] = [nd[n] EXCEPT !.refcou = Incref(nd[n].refcou, 1)]
    BY <2>2, <2>4
  <2>6. /\ u[n].refcou = Incref(nd[n].refcou, 1)
        /\ SameRow(nd, u, n)
    BY <2>5, <1>1 DEF NodeOf, SameRow
  <2>7. \A x \in 0..(s - 1) : SameRow(nd, u, x)
    BY <2>5, <2>6 DEF SameRow
  <2>8. ASSUME NEW x \in 2..(s - 1), NEW k \in Nat, Covers(nd[x].refcou, k)
        PROVE  Covers(u[x].refcou, k + One(x = n))
    <3>1. CASE x = n
      <4>1. Covers(Incref(nd[x].refcou, 1), k + 1)
        BY <2>8, <1>1, Counting
      <4> QED
        BY <4>1, <3>1, <2>6 DEF One
    <3>2. CASE x # n
      <4>1. k + One(x = n) = k
        BY <3>2 DEF One
      <4> QED
        BY <4>1, <3>2, <2>5, <2>8
    <3> QED
      BY <3>1, <3>2
  <2>9. \A x \in Terminal : u[x] = nd[x]
    BY <2>5, <1>3 DEF Terminal, FALSEBDD, TRUEBDD
  <2> HIDE DEF u
  <2> QED
    BY <2>5, <2>7, <2>8, <2>9 DEF u
<1> QED
  BY <1>2, <1>3

(* DECREF changes one count, which still covers all references but one.    *)
LEMMA CountDownSound ==
  ASSUME NEW s \in Nat, s > 2, NEW nd \in [0..(s - 1) -> NodeOf(s)], NEW n \in 0..(s - 1)
  PROVE  LET u == CountDown(nd, n)
         IN  /\ u \in [0..(s - 1) -> NodeOf(s)]
             /\ \A x \in 0..(s - 1) : SameRow(nd, u, x) /\ (x # n => u[x] = nd[x])
             /\ \A x \in Terminal : u[x] = nd[x]
             /\ \A x \in 0..(s - 1) : nd[x].refcou = 0 => u[x].refcou = 0
             /\ \A x \in 2..(s - 1) : \A k \in Nat :
                  Covers(nd[x].refcou, k + One(x = n)) => Covers(u[x].refcou, k)
<1> DEFINE u == CountDown(nd, n)
<1>1. \A x \in 0..(s - 1) : /\ nd[x] \in NodeOf(s) /\ nd[x].refcou \in 0..MaxRef
  BY DEF NodeOf
<1>2. CASE n \in Terminal
  <2>1. u = nd
    BY <1>2 DEF CountDown
  <2>2. \A x \in 2..(s - 1) : One(x = n) = 0
    BY <1>2 DEF Terminal, FALSEBDD, TRUEBDD, One
  <2>3. \A x \in 2..(s - 1) : \A k \in Nat : k + One(x = n) = k
    BY <2>2
  <2> QED
    BY <2>1, <2>3 DEF SameRow
<1>3. CASE n \notin Terminal
  <2>1. u = [nd EXCEPT ![n].refcou = Decref(@, 1)]
    BY <1>3 DEF CountDown
  <2>2. u = [nd EXCEPT ![n] = [nd[n] EXCEPT !.refcou = Decref(nd[n].refcou, 1)]]
    BY <2>1
  <2>3. Decref(nd[n].refcou, 1) \in 0..MaxRef
    BY <1>1, Counting
  <2>4. [nd[n] EXCEPT !.refcou = Decref(nd[n].refcou, 1)] \in NodeOf(s)
    BY <1>1, <2>3 DEF NodeOf
  <2>5. u \in [0..(s - 1) -> NodeOf(s)] /\ (\A x \in 0..(s - 1) : x # n => u[x] = nd[x])
        /\ u[n] = [nd[n] EXCEPT !.refcou = Decref(nd[n].refcou, 1)]
    BY <2>2, <2>4
  <2>6. /\ u[n].refcou = Decref(nd[n].refcou, 1)
        /\ SameRow(nd, u, n)
    BY <2>5, <1>1 DEF NodeOf, SameRow
  <2>7. \A x \in 0..(s - 1) : SameRow(nd, u, x)
    BY <2>5, <2>6 DEF SameRow
  <2>8. ASSUME NEW x \in 2..(s - 1), NEW k \in Nat, Covers(nd[x].refcou, k + One(x = n))
        PROVE  Covers(u[x].refcou, k)
    <3>1. CASE x = n
      <4>1. Covers(nd[x].refcou, k + 1)
        BY <3>1, <2>8 DEF One
      <4>2. Covers(Decref(nd[x].refcou, 1), k)
        BY <4>1, <1>1, Counting
      <4> QED
        BY <4>2, <3>1, <2>6
    <3>2. CASE x # n
      <4>1. k + One(x = n) = k
        BY <3>2 DEF One
      <4> QED
        BY <4>1, <3>2, <2>5, <2>8
    <3> QED
      BY <3>1, <3>2
  <2>9. \A x \in Terminal : u[x] = nd[x]
    BY <2>5, <1>3 DEF Terminal, FALSEBDD, TRUEBDD
  <2>10. \A x \in 0..(s - 1) : nd[x].refcou = 0 => u[x].refcou = 0
    <3>1. Decref(0, 1) = 0
      BY ReorderLimits DEF Decref
    <3> QED
      BY <3>1, <2>5, <2>6
  <2> HIDE DEF u
  <2> QED
    BY <2>5, <2>7, <2>8, <2>9, <2>10 DEF u
<1> QED
  BY <1>2, <1>3

(* A table in which only counts of nodes in use change stays sound.        *)
LEMMA SoundRows ==
  ASSUME NEW s, NEW nd, NEW fr, NEW num, SoundTable(s, nd, fr, num),
         NEW new \in [0..(s - 1) -> NodeOf(s)],
         \A x \in Terminal \cup TakenOf(s, fr) : SameRow(nd, new, x),
         \A x \in ToSet(fr) : new[x].refcou = 0
  PROVE  SoundTable(s, new, fr, num)
<1>1. \A n \in Terminal : new[n].low = n /\ new[n].high = n /\ new[n].level = num
  BY DEF SoundTable, SameRow
<1>2. \A n \in TakenOf(s, fr) : /\ new[n].low \in Terminal \cup TakenOf(s, fr)
                               /\ new[n].high \in Terminal \cup TakenOf(s, fr)
                               /\ new[n].level \in 0..(num - 1)
  BY DEF SoundTable, SameRow
<1> QED
  BY <1>1, <1>2 DEF SoundTable

Used(t) == TakenOf(t.size, t.free)

(* The outcome of reorder_makenode(v, lo, hi): the node is in the table,   *)
(* it or the one that was there, no other node has changed, and whoever    *)
(* asked for it is counted.                                                *)
Outcome(t, u, v, lo, hi, num) ==
  /\ SoundRec(u, num) /\ u.size >= t.size /\ u.hidden = t.hidden
  /\ Used(u) = Used(t) \cup ({u.res} \ Terminal)
  /\ u.res \in Terminal \cup Used(u)
  /\ \A x \in Terminal \cup Used(t) : SameRow(t.node, u.node, x)
  /\ \/ lo = hi /\ u.res = lo
     \/ /\ lo # hi /\ u.res \notin Terminal \cup t.hidden
        /\ u.node[u.res].level = v /\ u.node[u.res].low = lo /\ u.node[u.res].high = hi
     \/ lo # hi /\ u.error /\ u.res = FALSEBDD
  /\ t.error => u.error
  /\ \A x \in Used(t) : \A k \in Nat :
       Covers(t.node[x].refcou, k + EdgesIn(t.node, Used(t), x)) =>
         Covers(u.node[x].refcou, k + EdgesIn(u.node, Used(u), x) + One(x = u.res))
  /\ \A x \in Used(u) \ Used(t) : Covers(u.node[x].refcou, EdgesIn(u.node, Used(u), x) + 1)

(* One more edge to a node that is in the table.                           *)
LEMMA FoundSound ==
  ASSUME NEW t, NEW num, SoundRec(t, num), NEW n \in Terminal \cup Used(t)
  PROVE  LET u == Found(t, n)
         IN  /\ SoundRec(u, num) /\ u.size = t.size /\ u.free = t.free /\ u.hidden = t.hidden
             /\ u.error = t.error /\ u.res = n
             /\ Used(u) = Used(t)
             /\ \A x \in Terminal \cup Used(t) : SameRow(t.node, u.node, x)
             /\ \A x \in Used(t) : \A k \in Nat :
                  Covers(t.node[x].refcou, k + EdgesIn(t.node, Used(t), x)) =>
                    Covers(u.node[x].refcou, k + EdgesIn(u.node, Used(u), x) + One(x = u.res))
<1> DEFINE u == Found(t, n)
           s == t.size
           nodes == CountUp(t.node, n)
<1>1. SoundTable(t.size, t.node, t.free, num) /\ IsTable(t)
      /\ t.error \in BOOLEAN /\ t.resized \in BOOLEAN
  BY DEF SoundRec
<1>2. s \in Nat /\ s > 2 /\ t.node \in [0..(s - 1) -> NodeOf(s)]
  BY <1>1 DEF SoundTable
<1>3. /\ Used(t) \subseteq 2..(s - 1) /\ IsFiniteSet(Used(t)) /\ Terminal \cup Used(t) \subseteq 0..(s - 1)
      /\ ToSet(t.free) \subseteq 2..(s - 1) /\ ToSet(t.free) \cap Used(t) = {}
      /\ Terminal \cap ToSet(t.free) = {}
  BY <1>1, TakenFacts DEF Used, Terminal, FALSEBDD, TRUEBDD
<1>4. n \in 0..(s - 1)
  BY <1>3
<1>5. /\ nodes \in [0..(s - 1) -> NodeOf(s)]
      /\ \A x \in 0..(s - 1) : SameRow(t.node, nodes, x) /\ (x # n => nodes[x] = t.node[x])
      /\ \A x \in 2..(s - 1) : \A k \in Nat :
           Covers(t.node[x].refcou, k) => Covers(nodes[x].refcou, k + One(x = n))
  <2> DEFINE nd == t.node
  <2>1. s \in Nat /\ s > 2 /\ nd \in [0..(s - 1) -> NodeOf(s)] /\ n \in 0..(s - 1)
    BY <1>2, <1>4
  <2> HIDE DEF s, nd
  <2>2. /\ CountUp(nd, n) \in [0..(s - 1) -> NodeOf(s)]
        /\ \A x \in 0..(s - 1) : SameRow(nd, CountUp(nd, n), x)
                                 /\ (x # n => CountUp(nd, n)[x] = nd[x])
        /\ \A x \in 2..(s - 1) : \A k \in Nat :
             Covers(nd[x].refcou, k) => Covers(CountUp(nd, n)[x].refcou, k + One(x = n))
    BY <2>1, CountUpSound
  <2> QED
    BY <2>2 DEF s, nd
<1>6. u = [t EXCEPT !.node = nodes, !.res = n]
  BY DEF Found
<1> HIDE DEF nodes, u
<1>7. /\ u.size = s /\ u.node = nodes /\ u.free = t.free /\ u.error = t.error
      /\ u.hidden = t.hidden /\ u.res = n /\ u.resized = t.resized /\ IsTable(u)
  BY <1>1, <1>6 DEF IsTable
<1>8. \A x \in ToSet(t.free) : nodes[x].refcou = 0
  <2> SUFFICES ASSUME NEW x \in ToSet(t.free) PROVE nodes[x].refcou = 0
    OBVIOUS
  <2>1. x # n /\ x \in 0..(s - 1)
    BY <1>3
  <2>2. t.node[x].refcou = 0
    BY <1>1 DEF SoundTable
  <2> QED
    BY <2>1, <2>2, <1>5
<1>9. SoundTable(s, nodes, t.free, num)
  BY <1>1, <1>3, <1>5, <1>8, SoundRows DEF Used
<1>10. SoundRec(u, num)
  <2>1. u.error \in BOOLEAN
    BY <1>1, <1>7, Zenon
  <2>2. u.resized \in BOOLEAN
    BY <1>1, <1>7, Zenon
  <2>3. SoundTable(u.size, u.node, u.free, num)
    BY <1>7, <1>9, Zenon
  <2> QED
    BY <2>1, <2>2, <2>3, <1>7 DEF SoundRec
<1>11. Used(u) = Used(t)
  BY <1>7 DEF Used
<1>12. \A x \in Terminal \cup Used(t) : SameRow(t.node, u.node, x)
  BY <1>3, <1>5, <1>7
<1>13. ASSUME NEW x \in Used(t), NEW k \in Nat,
              Covers(t.node[x].refcou, k + EdgesIn(t.node, Used(t), x))
       PROVE  Covers(u.node[x].refcou, k + EdgesIn(u.node, Used(u), x) + One(x = u.res))
  <2>1. EdgesIn(u.node, Used(u), x) = EdgesIn(t.node, Used(t), x)
    BY <1>11, <1>12, EdgesSame DEF SameRow
  <2>2. EdgesIn(t.node, Used(t), x) \in Nat
    BY <1>3, EdgesNumber
  <2>3. k + EdgesIn(t.node, Used(t), x) \in Nat /\ x \in 2..(s - 1)
    BY <2>2, <1>3
  <2>4. Covers(nodes[x].refcou, (k + EdgesIn(t.node, Used(t), x)) + One(x = n))
    BY <2>3, <1>5, <1>13
  <2> QED
    BY <2>4, <2>1, <1>7
<1> QED
  BY <1>7, <1>10, <1>11, <1>12, <1>13 DEF u

(* A new node takes the first free slot.                                   *)
LEMMA NewNodeSound ==
  ASSUME NEW t, NEW num \in Nat, num <= MaxVars, SoundRec(t, num), t.free # << >>,
         NEW v \in 0..(num - 1), NEW lo \in Terminal \cup Used(t), NEW hi \in Terminal \cup Used(t),
         lo # hi, t.hidden \subseteq Used(t)
  PROVE  Outcome(t, NewNode(t, v, lo, hi), v, lo, hi, num)
         /\ NewNode(t, v, lo, hi).error = t.error
<1> DEFINE u == NewNode(t, v, lo, hi)
           s == t.size
           r == Head(t.free)
           nd == t.node
           row == [refcou |-> 1, level |-> v, low |-> lo, high |-> hi]
           filled == [nd EXCEPT ![r] = row]
           nodes1 == CountUp(filled, lo)
           nodes == CountUp(nodes1, hi)
           T == Used(t)
<1>1. SoundTable(t.size, t.node, t.free, num) /\ IsTable(t)
      /\ t.error \in BOOLEAN /\ t.resized \in BOOLEAN
  BY DEF SoundRec
<1>2. s \in Nat /\ s > 2 /\ nd \in [0..(s - 1) -> NodeOf(s)] /\ Distinct(2..(s - 1), t.free)
      /\ (\A x \in ToSet(t.free) : nd[x].refcou = 0)
      /\ (\A x \in Terminal : nd[x].low = x /\ nd[x].high = x /\ nd[x].level = num)
      /\ (\A x \in T : /\ nd[x].low \in Terminal \cup T /\ nd[x].high \in Terminal \cup T
                       /\ nd[x].level \in 0..(num - 1))
  BY <1>1 DEF SoundTable, Used
<1>3. /\ T \subseteq 2..(s - 1) /\ IsFiniteSet(T) /\ Terminal \cup T \subseteq 0..(s - 1)
      /\ ToSet(t.free) \subseteq 2..(s - 1) /\ ToSet(t.free) \cap T = {}
      /\ T \cup ToSet(t.free) = 2..(s - 1)
      /\ Terminal \cap ToSet(t.free) = {} /\ Terminal \cap T = {}
  BY <1>1, TakenFacts DEF Used, Terminal, FALSEBDD, TRUEBDD
<1>4. /\ r \in ToSet(t.free) /\ r \in 2..(s - 1) /\ Distinct(2..(s - 1), Tail(t.free))
      /\ ToSet(Tail(t.free)) = ToSet(t.free) \ {r}
  BY <1>2, DistinctTail
<1>5. r \notin T /\ r \notin Terminal /\ r # lo /\ r # hi /\ r < s
  BY <1>3, <1>4, <1>2
<1>6. u = [t EXCEPT !.node = nodes, !.free = Tail(t.free), !.res = r]
  BY <1>5 DEF NewNode
<1>7. lo \in 0..(s - 1) /\ hi \in 0..(s - 1)
  BY <1>3
<1> HIDE DEF u, r, s, nd, T
<1>8. row \in NodeOf(s) /\ row.refcou = 1
  <2>1. 1 \in 0..MaxRef
    BY ReorderLimits
  <2>2. v \in 0..MaxVars
    BY ReorderVars
  <2>3. 0..(s - 1) \subseteq -1..(s - 1)
    BY <1>2
  <2> QED
    BY <2>1, <2>2, <2>3, <1>7 DEF NodeOf
<1>9. /\ filled \in [0..(s - 1) -> NodeOf(s)] /\ filled[r] = row
      /\ \A x \in 0..(s - 1) : x # r => filled[x] = nd[x]
  BY <1>2, <1>4, <1>8
<1> HIDE DEF filled
<1>10. /\ nodes1 \in [0..(s - 1) -> NodeOf(s)]
       /\ \A x \in 0..(s - 1) : SameRow(filled, nodes1, x) /\ (x # lo => nodes1[x] = filled[x])
       /\ \A x \in 2..(s - 1) : \A k \in Nat :
            Covers(filled[x].refcou, k) => Covers(nodes1[x].refcou, k + One(x = lo))
  <2>1. s \in Nat /\ s > 2 /\ lo \in 0..(s - 1) /\ filled \in [0..(s - 1) -> NodeOf(s)]
    BY <1>2, <1>7, <1>9
  <2>2. LET w == CountUp(filled, lo)
        IN  /\ w \in [0..(s - 1) -> NodeOf(s)]
            /\ \A x \in 0..(s - 1) : SameRow(filled, w, x) /\ (x # lo => w[x] = filled[x])
            /\ \A x \in 2..(s - 1) : \A k \in Nat :
                 Covers(filled[x].refcou, k) => Covers(w[x].refcou, k + One(x = lo))
    BY <2>1, CountUpSound
  <2> QED
    BY <2>2
<1> HIDE DEF nodes1
<1>11. /\ nodes \in [0..(s - 1) -> NodeOf(s)]
       /\ \A x \in 0..(s - 1) : SameRow(nodes1, nodes, x) /\ (x # hi => nodes[x] = nodes1[x])
       /\ \A x \in 2..(s - 1) : \A k \in Nat :
            Covers(nodes1[x].refcou, k) => Covers(nodes[x].refcou, k + One(x = hi))
  <2>1. s \in Nat /\ s > 2 /\ hi \in 0..(s - 1) /\ nodes1 \in [0..(s - 1) -> NodeOf(s)]
    BY <1>2, <1>7, <1>10
  <2>2. LET w == CountUp(nodes1, hi)
        IN  /\ w \in [0..(s - 1) -> NodeOf(s)]
            /\ \A x \in 0..(s - 1) : SameRow(nodes1, w, x) /\ (x # hi => w[x] = nodes1[x])
            /\ \A x \in 2..(s - 1) : \A k \in Nat :
                 Covers(nodes1[x].refcou, k) => Covers(w[x].refcou, k + One(x = hi))
    BY <2>1, CountUpSound
  <2> QED
    BY <2>2
<1> HIDE DEF nodes
<1>12. /\ u.size = s /\ u.node = nodes /\ u.free = Tail(t.free) /\ u.error = t.error
       /\ u.hidden = t.hidden /\ u.res = r /\ u.resized = t.resized /\ IsTable(u)
  BY <1>1, <1>6 DEF IsTable, s
<1>13. Used(u) = T \cup {r} /\ Used(u) = T \cup ({u.res} \ Terminal)
  <2>1. Used(u) = (2..(s - 1)) \ (ToSet(t.free) \ {r})
    BY <1>4, <1>12 DEF Used, TakenOf
  <2>2. T = (2..(s - 1)) \ ToSet(t.free)
    BY DEF T, Used, TakenOf, s
  <2>3. Used(u) = T \cup {r}
    BY <2>1, <2>2, <1>4
  <2> QED
    BY <2>3, <1>5, <1>12
<1>14. \A x \in Terminal \cup T : SameRow(nd, nodes, x)
  <2> SUFFICES ASSUME NEW x \in Terminal \cup T PROVE SameRow(nd, nodes, x)
    OBVIOUS
  <2>1. x \in 0..(s - 1) /\ x # r
    BY <1>3, <1>5
  <2> QED
    BY <2>1, <1>9, <1>10, <1>11 DEF SameRow
<1>15. nodes[r] = row
  BY <1>4, <1>5, <1>9, <1>10, <1>11, <1>3
<1>16. nodes[r].refcou = 1 /\ nodes[r].level = v /\ nodes[r].low = lo /\ nodes[r].high = hi
  BY <1>15
<1>17. SoundTable(s, nodes, Tail(t.free), num)
  <2>1. TakenOf(s, Tail(t.free)) = T \cup {r}
    BY <1>12, <1>13 DEF Used
  <2>2. \A x \in Terminal : nodes[x].low = x /\ nodes[x].high = x /\ nodes[x].level = num
    BY <1>2, <1>14 DEF SameRow
  <2>3. \A x \in T \cup {r} : /\ nodes[x].low \in Terminal \cup T \cup {r}
                              /\ nodes[x].high \in Terminal \cup T \cup {r}
                              /\ nodes[x].level \in 0..(num - 1)
    <3>1. \A x \in T : /\ nodes[x].low \in Terminal \cup T \cup {r}
                       /\ nodes[x].high \in Terminal \cup T \cup {r}
                       /\ nodes[x].level \in 0..(num - 1)
      BY <1>2, <1>14 DEF SameRow
    <3> QED
      BY <3>1, <1>16 DEF T
  <2>4. \A x \in ToSet(Tail(t.free)) : nodes[x].refcou = 0
    <3> SUFFICES ASSUME NEW x \in ToSet(t.free) \ {r} PROVE nodes[x].refcou = 0
      BY <1>4
    <3>1. x # lo /\ x # hi /\ x # r /\ x \in 0..(s - 1) /\ nd[x].refcou = 0
      BY <1>2, <1>3 DEF T
    <3> QED
      BY <3>1, <1>9, <1>10, <1>11
  <2>5. s >= InitSize /\ IsPrime(s)
    BY <1>1 DEF SoundTable, s
  <2> QED
    BY <2>1, <2>2, <2>3, <2>4, <2>5, <1>2, <1>4, <1>11 DEF SoundTable
<1>18. SoundRec(u, num)
  <2>1. u.error \in BOOLEAN
    BY <1>1, <1>12, Zenon
  <2>2. u.resized \in BOOLEAN
    BY <1>1, <1>12, Zenon
  <2>3. SoundTable(u.size, u.node, u.free, num)
    BY <1>12, <1>17, Zenon
  <2> QED
    BY <2>1, <2>2, <2>3, <1>12 DEF SoundRec
<1>19. \A x : EdgesIn(nodes, T \cup {r}, x) = EdgesIn(nd, T, x) + One(lo = x) + One(hi = x)
  <2> TAKE x
  <2>1. EdgesIn(nodes, T \cup {r}, x) = EdgesIn(nodes, T, x) + One(nodes[r].low = x) + One(nodes[r].high = x)
    BY <1>3, <1>5, EdgesAdd
  <2>2. EdgesIn(nodes, T, x) = EdgesIn(nd, T, x)
    BY <1>14, EdgesSame DEF SameRow
  <2> QED
    BY <2>1, <2>2, <1>16
<1>20. ASSUME NEW x \in T, NEW k \in Nat, Covers(nd[x].refcou, k + EdgesIn(nd, T, x))
       PROVE  Covers(nodes[x].refcou, k + EdgesIn(nodes, T \cup {r}, x) + One(x = r))
  <2>1. EdgesIn(nd, T, x) \in Nat /\ x \in 2..(s - 1) /\ x # r /\ x \in 0..(s - 1)
    BY <1>3, <1>5, EdgesNumber
  <2>2. One(x = r) = 0 /\ One(x = lo) \in Nat /\ One(x = hi) \in Nat
        /\ One(x = lo) = One(lo = x) /\ One(x = hi) = One(hi = x)
    BY <2>1 DEF One
  <2> DEFINE e == EdgesIn(nd, T, x)
             a == One(x = lo)
             b == One(x = hi)
  <2>3. Covers(filled[x].refcou, k + e)
    BY <2>1, <1>9, <1>20
  <2>4. k + e \in Nat
    BY <2>1
  <2>5. Covers(nodes1[x].refcou, (k + e) + a)
    BY <2>1, <2>3, <2>4, <1>10
  <2>6. (k + e) + a \in Nat
    BY <2>2, <2>4
  <2>7. Covers(nodes[x].refcou, ((k + e) + a) + b)
    BY <2>1, <2>5, <2>6, <1>11
  <2>8. EdgesIn(nodes, T \cup {r}, x) = e + a + b
    BY <2>2, <1>19
  <2> HIDE DEF e, a, b
  <2>9. k + EdgesIn(nodes, T \cup {r}, x) + One(x = r) = ((k + e) + a) + b
    BY <2>1, <2>2, <2>8 DEF e, a, b
  <2> QED
    BY <2>7, <2>9
<1>21. Covers(nodes[r].refcou, EdgesIn(nodes, T \cup {r}, r) + 1)
  <2>1. EdgesIn(nd, T, r) = 0
    <3>1. \A p \in T : nd[p].low # r /\ nd[p].high # r
      BY <1>2, <1>5
    <3> QED
      BY <3>1, <1>3, EdgesNumber
  <2>2. One(lo = r) = 0 /\ One(hi = r) = 0
    BY <1>5 DEF One
  <2>3. EdgesIn(nodes, T \cup {r}, r) = 0
    <3>1. EdgesIn(nodes, T \cup {r}, r) = EdgesIn(nd, T, r) + One(lo = r) + One(hi = r)
      BY <1>19, Zenon
    <3> QED
      BY <3>1, <2>1, <2>2
  <2> QED
    BY <2>3, <1>16 DEF Covers
<1>22. r \notin Terminal \cup t.hidden
  BY <1>5 DEF T
<1>23. u.size >= s
  BY <1>2, <1>12
<1>24. /\ \A x \in Terminal \cup Used(t) : SameRow(t.node, u.node, x)
       /\ \A x \in Used(t) : \A k \in Nat :
            Covers(t.node[x].refcou, k + EdgesIn(t.node, Used(t), x)) =>
              Covers(u.node[x].refcou, k + EdgesIn(u.node, Used(u), x) + One(x = u.res))
       /\ \A x \in Used(u) \ Used(t) : Covers(u.node[x].refcou, EdgesIn(u.node, Used(u), x) + 1)
  BY <1>12, <1>13, <1>14, <1>20, <1>21 DEF T, nd
<1>25. u.res \notin Terminal \cup t.hidden
       /\ u.node[u.res].level = v /\ u.node[u.res].low = lo /\ u.node[u.res].high = hi
  BY <1>12, <1>16, <1>22
<1>26. t.error => u.error
  BY <1>12
<1>27. u.res \in Terminal \cup Used(u) /\ Used(u) = Used(t) \cup ({u.res} \ Terminal)
  BY <1>13, <1>12 DEF T
<1>28. u.size >= t.size /\ u.hidden = t.hidden
  BY <1>12, <1>23 DEF s
<1>29. Outcome(t, u, v, lo, hi, num)
  BY <1>18, <1>24, <1>25, <1>26, <1>27, <1>28 DEF Outcome
<1> QED
  BY <1>12, <1>29 DEF u

(* reorder_makenode in a table that can grow.                              *)
LEMMA MakeSound ==
  ASSUME NEW t, NEW num \in Nat, num <= MaxVars, SoundRec(t, num), Grows(t.size),
         NEW v \in 0..(num - 1), NEW lo \in Terminal \cup Used(t), NEW hi \in Terminal \cup Used(t),
         t.hidden \subseteq Used(t)
  PROVE  Outcome(t, ReorderMakeNode(t, v, lo, hi), v, lo, hi, num)
<1> DEFINE found == {n \in Chain(t, v) : t.node[n].low = lo /\ t.node[n].high = hi}
           grown == IF t.free = << >> /\ ~ t.error THEN Resize(t) ELSE t
           u == ReorderMakeNode(t, v, lo, hi)
<1>1. SoundTable(t.size, t.node, t.free, num) /\ IsTable(t)
      /\ t.error \in BOOLEAN /\ t.resized \in BOOLEAN
  BY DEF SoundRec
<1>2. /\ Used(t) \subseteq 2..(t.size - 1) /\ IsFiniteSet(Used(t)) /\ Terminal \cup Used(t) \subseteq 0..(t.size - 1)
      /\ Terminal \cap Used(t) = {} /\ t.size \in Nat
  <2>1. t.size \in Nat
    BY <1>1 DEF SoundTable
  <2> QED
    BY <2>1, <1>1, TakenFacts DEF Used
<1>3. Chain(t, v) \subseteq Used(t) \ t.hidden /\ \A n \in Chain(t, v) : t.node[n].level = v
  BY DEF Chain, Used, TakenOf
<1>4. ASSUME NEW n \in Terminal \cup Used(t),
             \/ lo = hi /\ n = lo
             \/ lo # hi /\ n \notin Terminal \cup t.hidden /\ t.node[n].level = v
                 /\ t.node[n].low = lo /\ t.node[n].high = hi
      PROVE  Outcome(t, Found(t, n), v, lo, hi, num)
  <2> DEFINE w == Found(t, n)
  <2>1. /\ SoundRec(w, num) /\ w.size = t.size /\ w.free = t.free /\ w.hidden = t.hidden
        /\ w.error = t.error /\ w.res = n
        /\ Used(w) = Used(t)
        /\ \A x \in Terminal \cup Used(t) : SameRow(t.node, w.node, x)
        /\ \A x \in Used(t) : \A k \in Nat :
             Covers(t.node[x].refcou, k + EdgesIn(t.node, Used(t), x)) =>
               Covers(w.node[x].refcou, k + EdgesIn(w.node, Used(w), x) + One(x = w.res))
    BY FoundSound
  <2> HIDE DEF w
  <2>2. Used(w) = Used(t) \cup ({w.res} \ Terminal)
    BY <2>1, <1>2
  <2>3. w.size >= t.size
    BY <2>1, <1>2
  <2>4. \/ lo = hi /\ w.res = lo
        \/ /\ lo # hi /\ w.res \notin Terminal \cup t.hidden
           /\ w.node[w.res].level = v /\ w.node[w.res].low = lo /\ w.node[w.res].high = hi
    BY <2>1, <1>4 DEF SameRow
  <2>5. \A x \in Used(w) \ Used(t) : Covers(w.node[x].refcou, EdgesIn(w.node, Used(w), x) + 1)
    BY <2>1
  <2>6. w.res \in Terminal \cup Used(w)
    BY <2>1
  <2>7. t.error => w.error
    BY <2>1
  <2>8. Outcome(t, w, v, lo, hi, num)
    BY <2>1, <2>2, <2>3, <2>4, <2>5, <2>6, <2>7 DEF Outcome
  <2> QED
    BY <2>8 DEF w
<1>5. CASE lo = hi
  <2>1. u = Found(t, lo)
    BY <1>5 DEF ReorderMakeNode
  <2> QED
    BY <2>1, <1>4, <1>5
<1>6. CASE lo # hi /\ found # {}
  <2>1. u = Found(t, Min(found))
    BY <1>6 DEF ReorderMakeNode
  <2>2. found \in SUBSET Nat
    BY <1>2, <1>3
  <2>3. Min(found) \in found
    BY <1>6, <2>2, MinimumIsLeast
  <2>4. /\ Min(found) \in Used(t) /\ Min(found) \notin Terminal \cup t.hidden
        /\ t.node[Min(found)].level = v /\ t.node[Min(found)].low = lo
        /\ t.node[Min(found)].high = hi
    BY <2>3, <1>3, <1>2
  <2>5. Outcome(t, Found(t, Min(found)), v, lo, hi, num)
    BY <2>4, <1>4, <1>6
  <2> QED
    BY <2>1, <2>5
<1>7. /\ SoundRec(grown, num) /\ grown.size >= t.size /\ Used(grown) = Used(t)
      /\ \A n \in 0..(t.size - 1) : grown.node[n] = t.node[n]
      /\ grown.error = t.error /\ grown.hidden = t.hidden
  <2>1. CASE t.free = << >> /\ ~ t.error
    <3>1. grown = Resize(t)
      BY <2>1
    <3> QED
      BY <3>1, <2>1, ResizeSound DEF Used
  <2>2. CASE ~ (t.free = << >> /\ ~ t.error)
    BY <2>2, <1>2
  <2> QED
    BY <2>1, <2>2
<1>8. CASE lo # hi /\ found = {} /\ grown.free # << >>
  <2>1. u = NewNode(grown, v, lo, hi)
    BY <1>8 DEF ReorderMakeNode
  <2> HIDE DEF u, grown
  <2>2. Outcome(grown, u, v, lo, hi, num) /\ u.error = grown.error
    <3>1. lo \in Terminal \cup Used(grown) /\ hi \in Terminal \cup Used(grown)
          /\ grown.hidden \subseteq Used(grown)
      BY <1>7
    <3> QED
      BY <2>1, <3>1, <1>7, <1>8, NewNodeSound
  <2>3. \A x \in Terminal \cup Used(t) : grown.node[x] = t.node[x]
    BY <1>2, <1>7
  <2>4. u.size >= t.size
    <3>1. grown.size \in Nat /\ u.size \in Nat /\ u.size >= grown.size
      BY <2>2, <1>7 DEF Outcome, SoundRec, SoundTable
    <3> QED
      BY <3>1, <1>7, <1>2
  <2>5. \A x \in Terminal \cup Used(t) : SameRow(t.node, u.node, x)
    BY <2>2, <2>3, <1>7 DEF Outcome, SameRow
  <2>6. ASSUME NEW x \in Used(t), NEW k \in Nat,
               Covers(t.node[x].refcou, k + EdgesIn(t.node, Used(t), x))
        PROVE  Covers(u.node[x].refcou, k + EdgesIn(u.node, Used(u), x) + One(x = u.res))
    <3>1. EdgesIn(grown.node, Used(grown), x) = EdgesIn(t.node, Used(t), x)
      BY <2>3, <1>7, EdgesSame
    <3>2. Covers(grown.node[x].refcou, k + EdgesIn(grown.node, Used(grown), x))
      BY <2>3, <2>6, <3>1
    <3> QED
      BY <3>2, <2>2, <1>7 DEF Outcome
  <2>7. \A x \in Used(u) \ Used(t) : Covers(u.node[x].refcou, EdgesIn(u.node, Used(u), x) + 1)
    BY <2>2, <1>7 DEF Outcome
  <2>8. /\ SoundRec(u, num) /\ u.hidden = t.hidden
        /\ Used(u) = Used(t) \cup ({u.res} \ Terminal)
        /\ u.res \in Terminal \cup Used(u)
        /\ t.error => u.error
    BY <2>2, <1>7 DEF Outcome
  <2>9. \/ lo = hi /\ u.res = lo
        \/ /\ lo # hi /\ u.res \notin Terminal \cup t.hidden
           /\ u.node[u.res].level = v /\ u.node[u.res].low = lo /\ u.node[u.res].high = hi
        \/ lo # hi /\ u.error /\ u.res = FALSEBDD
    BY <2>2, <1>7 DEF Outcome
  <2>10. Outcome(t, u, v, lo, hi, num)
    BY <2>4, <2>5, <2>6, <2>7, <2>8, <2>9 DEF Outcome
  <2> QED
    BY <2>10 DEF u
<1>9. CASE lo # hi /\ found = {} /\ grown.free = << >>
  <2>1. u = [grown EXCEPT !.error = TRUE, !.res = FALSEBDD]
    BY <1>9 DEF ReorderMakeNode
  <2> HIDE DEF u, grown
  <2>2. IsTable(grown) /\ grown.resized \in BOOLEAN
    BY <1>7 DEF SoundRec
  <2>3. /\ u.size = grown.size /\ u.node = grown.node /\ u.free = grown.free /\ u.error = TRUE
        /\ u.hidden = grown.hidden /\ u.res = FALSEBDD /\ u.resized = grown.resized /\ IsTable(u)
    BY <2>1, <2>2 DEF IsTable
  <2>4. SoundRec(u, num)
    <3>1. u.error \in BOOLEAN
      BY <2>3, Zenon
    <3>2. u.resized \in BOOLEAN
      BY <2>2, <2>3, Zenon
    <3>3. SoundTable(u.size, u.node, u.free, num)
      BY <2>3, <1>7, Zenon DEF SoundRec
    <3> QED
      BY <2>3, <3>1, <3>2, <3>3 DEF SoundRec
  <2>5. Used(u) = Used(t)
    BY <2>3, <1>7 DEF Used
  <2>6. \A x \in Terminal \cup Used(t) : u.node[x] = t.node[x]
    BY <2>3, <1>2, <1>7
  <2>7. ASSUME NEW x \in Used(t), NEW k \in Nat,
               Covers(t.node[x].refcou, k + EdgesIn(t.node, Used(t), x))
        PROVE  Covers(u.node[x].refcou, k + EdgesIn(u.node, Used(u), x) + One(x = u.res))
    <3>1. EdgesIn(u.node, Used(u), x) = EdgesIn(t.node, Used(t), x)
      BY <2>5, <2>6, EdgesSame
    <3>2. x # u.res
      BY <2>3, <1>2 DEF Terminal
    <3>3. One(x = u.res) = 0
      BY <3>2 DEF One
    <3>4. EdgesIn(t.node, Used(t), x) \in Nat
      BY <1>2, EdgesNumber
    <3>5. k + EdgesIn(u.node, Used(u), x) + One(x = u.res) = k + EdgesIn(t.node, Used(t), x)
      BY <3>1, <3>3, <3>4
    <3> QED
      BY <3>5, <2>6, <2>7
  <2>8. u.size >= t.size
    BY <2>3, <1>7
  <2>9. Used(u) = Used(t) \cup ({u.res} \ Terminal) /\ u.res \in Terminal \cup Used(u)
    BY <2>3, <2>5 DEF Terminal
  <2>10. \A x \in Terminal \cup Used(t) : SameRow(t.node, u.node, x)
    BY <2>6 DEF SameRow
  <2>11. t.error => u.error
    BY <2>3
  <2>12. \A x \in Used(u) \ Used(t) : Covers(u.node[x].refcou, EdgesIn(u.node, Used(u), x) + 1)
    BY <2>5
  <2>13. u.error /\ u.res = FALSEBDD /\ u.hidden = t.hidden
    BY <2>3, <1>7
  <2>14. Outcome(t, u, v, lo, hi, num)
    BY <2>4, <2>7, <2>8, <2>9, <2>10, <2>11, <2>12, <2>13, <1>9 DEF Outcome
  <2> QED
    BY <2>14 DEF u
<1> QED
  BY <1>5, <1>6, <1>8, <1>9

-----------------------------------------------------------------------------
(* Recursive functions of the slots.                                       *)

(* No slot in use is reached from its children.                            *)
IsRank(s, nd, fr, rank) ==
  /\ rank \in [0..(s - 1) -> Nat]
  /\ \A n \in TakenOf(s, fr) : rank[nd[n].low] < rank[n] /\ rank[nd[n].high] < rank[n]

Acyclic(s, nd, fr) == \E rank : IsRank(s, nd, fr, rank)

(* The recursive definition of Below has a solution: tables are acyclic.   *)
LEMMA BelowEquation ==
  ASSUME SoundTable(size, node, free, varnum)
  PROVE  Below = [n \in 0..(size - 1) |->
                    IF n \in Terminal \/ node[n].low = -1 THEN {}
                    ELSE {n} \cup Below[node[n].low] \cup Below[node[n].high]]
<1> DEFINE S == 0..(size - 1)
           Body(f) == [n \in S |-> IF n \in Terminal \/ node[n].low = -1 THEN {}
                                   ELSE {n} \cup f[node[n].low] \cup f[node[n].high]]
           F == [f \in [S -> SUBSET S] |-> Body(f)]
<1>1. \A n \in S : node[n].low # -1 => node[n].low \in S /\ node[n].high \in S
  <2>1. size \in Nat /\ \A n \in S : node[n].low \in -1..(size - 1) /\ node[n].high \in 0..(size - 1)
    <3>1. size \in Nat
      BY DEF SoundTable
    <3> QED
      BY <3>1, TakenFacts
  <2> QED
    BY <2>1
<1>2. ASSUME NEW f \in [S -> SUBSET S]
      PROVE  Body(f) \in [S -> SUBSET S]
  BY <1>1
<1>3. F \in [[S -> SUBSET S] -> [S -> SUBSET S]]
  BY <1>2
<1>4. ASSUME NEW f \in [S -> SUBSET S], NEW g \in [S -> SUBSET S],
             \A x \in S : f[x] \subseteq g[x], NEW x \in S
      PROVE  F[f][x] \subseteq F[g][x]
  <2>1. F[f] = Body(f) /\ F[g] = Body(g)
    OBVIOUS
  <2> HIDE DEF F
  <2>2. CASE x \in Terminal \/ node[x].low = -1
    BY <2>1, <2>2
  <2>3. CASE ~ (x \in Terminal \/ node[x].low = -1)
    <3>1. Body(f)[x] = {x} \cup f[node[x].low] \cup f[node[x].high]
      BY <2>3
    <3>2. Body(g)[x] = {x} \cup g[node[x].low] \cup g[node[x].high]
      BY <2>3
    <3>3. f[node[x].low] \subseteq g[node[x].low] /\ f[node[x].high] \subseteq g[node[x].high]
      BY <2>3, <1>1, <1>4
    <3> QED
      BY <2>1, <3>1, <3>2, <3>3
  <2> QED
    BY <2>2, <2>3
<1>5. PICK f \in [S -> SUBSET S] : f = F[f]
  <2> HIDE DEF F
  <2>1. \A f, g \in [S -> SUBSET S] : (\A x \in S : f[x] \subseteq g[x]) =>
                                        \A x \in S : F[f][x] \subseteq F[g][x]
    BY <1>4
  <2>2. Monotone(F, S, S)
    BY <2>1, <1>3 DEF Monotone
  <2>3. HasFixedPoint(F, S, S)
    BY <2>2, FixedPoint
  <2> QED
    BY <2>3 DEF HasFixedPoint
<1>6. f = Body(f)
  BY <1>5
<1> QED
  BY <1>6 DEF Below

(* The slots below a slot in use are in use, and with each its children.   *)
LEMMA BelowClosed ==
  ASSUME SoundTable(size, node, free, varnum), Acyclic(size, node, free)
  PROVE  /\ \A n \in Terminal : Below[n] = {}
         /\ \A n \in Taken : /\ n \in Below[n] /\ Below[n] \subseteq Taken
                             /\ Below[n] = {n} \cup Below[node[n].low] \cup Below[node[n].high]
                             /\ \A m \in Below[n] : /\ node[m].low \in Terminal \cup Below[n]
                                                    /\ node[m].high \in Terminal \cup Below[n]
<1>1. PICK rank : IsRank(size, node, free, rank)
  BY DEF Acyclic
<1>2. Below = [n \in 0..(size - 1) |->
                 IF n \in Terminal \/ node[n].low = -1 THEN {}
                 ELSE {n} \cup Below[node[n].low] \cup Below[node[n].high]]
  BY BelowEquation
<1>3. /\ Taken = TakenOf(size, free) /\ Taken \subseteq 0..(size - 1) /\ Terminal \subseteq 0..(size - 1)
      /\ Terminal \cap Taken = {}
  BY TakenFacts DEF Taken, TakenOf, Slots, FreeSet
<1>4. \A n \in Taken : /\ node[n].low \in Terminal \cup Taken
                       /\ node[n].high \in Terminal \cup Taken
  BY <1>3 DEF SoundTable
<1>5. \A n \in Taken : node[n].low # -1
  BY <1>4 DEF Taken, Slots, Terminal, FALSEBDD, TRUEBDD
<1>6. \A n \in Terminal : Below[n] = {}
  BY <1>2, <1>3
<1>7. \A n \in Taken : Below[n] = {n} \cup Below[node[n].low] \cup Below[node[n].high]
  BY <1>2, <1>3, <1>5
<1> DEFINE Good(n) == /\ Below[n] \subseteq Taken
                      /\ \A m \in Below[n] : /\ node[m].low \in Terminal \cup Below[n]
                                             /\ node[m].high \in Terminal \cup Below[n]
           Bad == {n \in Taken : ~ Good(n)}
<1>8. \A n \in Taken : n \in Below[n]
  BY <1>7
<1>9. Bad = {}
  <2> SUFFICES ASSUME Bad # {} PROVE FALSE
    OBVIOUS
  <2>1. PICK n \in Bad : \A m \in Bad : ~ (rank[m] < rank[n])
    <3>1. Bad \in SUBSET (0..(size - 1)) /\ rank \in [0..(size - 1) -> Nat]
      BY <1>1, <1>3 DEF IsRank
    <3> QED
      BY <3>1, LeastRank
  <2>2. n \in Taken /\ rank[node[n].low] < rank[n] /\ rank[node[n].high] < rank[n]
    BY <1>1, <1>3 DEF IsRank
  <2> DEFINE lo == node[n].low
             hi == node[n].high
  <2>3. lo \notin Bad /\ hi \notin Bad
    BY <2>1, <2>2
  <2>4. /\ lo \in Terminal \/ (lo \in Taken /\ Good(lo))
        /\ hi \in Terminal \/ (hi \in Taken /\ Good(hi))
    BY <2>2, <2>3, <1>4
  <2>5. Below[n] = {n} \cup Below[lo] \cup Below[hi]
    BY <1>7
  <2>6. Below[lo] \subseteq Taken /\ \A m \in Below[lo] : /\ node[m].low \in Terminal \cup Below[lo]
                                                          /\ node[m].high \in Terminal \cup Below[lo]
    BY <2>4, <1>6
  <2>7. Below[hi] \subseteq Taken /\ \A m \in Below[hi] : /\ node[m].low \in Terminal \cup Below[hi]
                                                          /\ node[m].high \in Terminal \cup Below[hi]
    BY <2>4, <1>6
  <2>8. lo \in Terminal \cup Below[lo] /\ hi \in Terminal \cup Below[hi]
    BY <2>4, <1>8
  <2> HIDE DEF lo, hi
  <2>9. Below[n] \subseteq Taken
    BY <2>2, <2>5, <2>6, <2>7
  <2>10. ASSUME NEW m \in Below[n]
         PROVE  /\ node[m].low \in Terminal \cup Below[n]
                /\ node[m].high \in Terminal \cup Below[n]
    <3>1. CASE m = n
      BY <3>1, <2>5, <2>8 DEF lo, hi
    <3>2. CASE m \in Below[lo]
      BY <3>2, <2>5, <2>6
    <3>3. CASE m \in Below[hi]
      BY <3>3, <2>5, <2>7
    <3> QED
      BY <2>5, <3>1, <3>2, <3>3
  <2> QED
    BY <2>9, <2>10
<1> QED
  BY <1>6, <1>7, <1>8, <1>9

(* bddlevel2var[] is a permutation that leaves the terminals' level alone. *)
IsOrder(lv, num) ==
  /\ num \in Nat /\ lv \in [0..num -> 0..num]
  /\ \A k, l \in 0..num : lv[k] = lv[l] => k = l
  /\ \A v \in 0..num : \E l \in 0..num : lv[l] = v
  /\ lv[num] = num

(* bddlevel2var[] and bddvar2level[] are each other's inverses.            *)
LEMMA OrderFacts ==
  ASSUME IsOrder(level2var, varnum)
  PROVE  /\ \A v \in 0..varnum : Var2Level(v) \in 0..varnum /\ level2var[Var2Level(v)] = v
         /\ \A l \in 0..varnum : Var2Level(level2var[l]) = l
         /\ \A v \in Variable : Var2Level(v) \in Variable
         /\ \A l \in Variable : level2var[l] \in Variable
<1>1. \A v \in 0..varnum : Var2Level(v) \in 0..varnum /\ level2var[Var2Level(v)] = v
  BY DEF IsOrder, Var2Level
<1>2. \A l \in 0..varnum : Var2Level(level2var[l]) = l
  BY <1>1 DEF IsOrder
<1>3. varnum \in Nat /\ varnum \in 0..varnum
  BY DEF IsOrder
<1>4. ASSUME NEW v \in Variable PROVE Var2Level(v) \in Variable
  <2>1. v \in 0..varnum /\ v # varnum
    BY <1>3 DEF Variable
  <2>2. Var2Level(v) # varnum
    BY <2>1, <1>1 DEF IsOrder
  <2> QED
    BY <2>1, <2>2, <1>1, <1>3 DEF Variable
<1>5. ASSUME NEW l \in Variable PROVE level2var[l] \in Variable
  <2>1. l \in 0..varnum /\ l # varnum
    BY <1>3 DEF Variable
  <2>2. level2var[l] # varnum /\ level2var[l] \in 0..varnum
    BY <2>1, <1>3 DEF IsOrder
  <2> QED
    BY <2>2, <1>3 DEF Variable
<1> QED
  BY <1>1, <1>2, <1>4, <1>5

-----------------------------------------------------------------------------
(* What mark_roots finds.                                                  *)

(* What addref_rec meets below a node is in use.                           *)
LEMMA UnrootedTaken ==
  ASSUME SoundTable(size, node, free, varnum), Acyclic(size, node, free)
  PROVE  \A n \in Taken : Unrooted[n] \subseteq Taken
<1> DEFINE kids(n) == {d \in Children(n) : node[d].refcou = 0}
           Body(f) == [n \in Taken |-> UNION {{c} \cup f[c] : c \in kids(n)}]
           F == [f \in [Taken -> SUBSET Taken] |-> Body(f)]
<1>1. PICK rank : IsRank(size, node, free, rank)
  BY DEF Acyclic
<1>2. Taken = TakenOf(size, free) /\ Taken \subseteq 0..(size - 1)
  BY TakenFacts DEF Taken, TakenOf, Slots, FreeSet
<1>3. \A n \in Taken : kids(n) \subseteq Taken /\ \A c \in kids(n) : rank[c] < rank[n]
  <2> SUFFICES ASSUME NEW n \in Taken, NEW c \in kids(n) PROVE c \in Taken /\ rank[c] < rank[n]
    OBVIOUS
  <2>1. c \in {node[n].low, node[n].high} \ Terminal
    BY DEF Children
  <2>2. node[n].low \in Terminal \cup Taken /\ node[n].high \in Terminal \cup Taken
    BY <1>2 DEF SoundTable
  <2>3. rank[node[n].low] < rank[n] /\ rank[node[n].high] < rank[n]
    BY <1>1, <1>2 DEF IsRank
  <2> QED
    BY <2>1, <2>2, <2>3
<1> HIDE DEF kids
<1>4. ASSUME NEW f \in [Taken -> SUBSET Taken]
      PROVE  Body(f) \in [Taken -> SUBSET Taken]
  <2>1. \A n \in Taken : \A c \in kids(n) : {c} \cup f[c] \subseteq Taken
    BY <1>3
  <2>2. \A n \in Taken : UNION {{c} \cup f[c] : c \in kids(n)} \subseteq Taken
    BY <2>1
  <2> QED
    BY <2>2
<1>5. F \in [[Taken -> SUBSET Taken] -> [Taken -> SUBSET Taken]]
  BY <1>4
<1>6. ASSUME NEW f \in [Taken -> SUBSET Taken], NEW g \in [Taken -> SUBSET Taken],
             \A x \in Taken : f[x] \subseteq g[x], NEW x \in Taken
      PROVE  F[f][x] \subseteq F[g][x]
  <2>1. F[f] = Body(f) /\ F[g] = Body(g)
    OBVIOUS
  <2> HIDE DEF F
  <2>2. F[f][x] = UNION {{c} \cup f[c] : c \in kids(x)}
    BY <2>1
  <2>3. F[g][x] = UNION {{c} \cup g[c] : c \in kids(x)}
    BY <2>1
  <2>4. \A c \in kids(x) : f[c] \subseteq g[c]
    BY <1>3, <1>6
  <2> QED
    BY <2>2, <2>3, <2>4
<1>7. Unrooted = Body(Unrooted)
  <2>1. \A f, g \in [Taken -> SUBSET Taken] :
          (\A x \in Taken : f[x] \subseteq g[x]) => \A x \in Taken : F[f][x] \subseteq F[g][x]
    BY <1>6
  <2>2. Monotone(F, Taken, Taken)
    <3> HIDE DEF F
    <3> QED
      BY <2>1, <1>5 DEF Monotone
  <2>3. HasFixedPoint(F, Taken, Taken)
    <3> HIDE DEF F
    <3> QED
      BY <2>2, FixedPoint
  <2>4. PICK f \in [Taken -> SUBSET Taken] : f = F[f]
    BY <2>3 DEF HasFixedPoint
  <2>5. f = Body(f)
    BY <2>4
  <2> QED
    BY <2>5 DEF Unrooted, kids
<1>8. \A n \in Taken : Unrooted[n] = UNION {{c} \cup Unrooted[c] : c \in kids(n)}
  BY <1>7
<1> DEFINE Bad == {n \in Taken : ~ (Unrooted[n] \subseteq Taken)}
<1>9. Bad = {}
  <2> SUFFICES ASSUME Bad # {} PROVE FALSE
    OBVIOUS
  <2>1. PICK n \in Bad : \A m \in Bad : ~ (rank[m] < rank[n])
    <3>1. Bad \in SUBSET (0..(size - 1)) /\ rank \in [0..(size - 1) -> Nat]
      BY <1>1, <1>2 DEF IsRank
    <3> HIDE DEF Bad
    <3> QED
      BY <3>1, LeastRank
  <2>2. \A c \in kids(n) : c \in Taken /\ Unrooted[c] \subseteq Taken
    BY <2>1, <1>3
  <2> QED
    BY <2>1, <2>2, <1>8
<1> QED
  BY <1>9

(* The interaction matrix is about variables.                              *)
LEMMA DependenciesVariable ==
  ASSUME SoundTable(size, node, free, varnum), Acyclic(size, node, free),
         IsOrder(level2var, varnum)
  PROVE  \A n \in Counted : Dependencies[n] \subseteq Variable
<1> DEFINE met == [n \in Counted |->
                     {c \in UNION {Children(m) : m \in VisitedFrom[n]} :
                        c \in VisitedFrom[n] => EdgesTo(c, VisitedFrom[n]) > 1}]
           own(n) == {level2var[node[m].level] : m \in VisitedFrom[n]}
           earlier(n) == IF met[n] = {} THEN {} ELSE {k \in Counted : k < n}
           meets(n, V) == \E m \in met[n] : level2var[node[m].level] \in V
           Body(f) == [n \in Counted |->
                         {level2var[node[m].level] : m \in VisitedFrom[n]} \cup
                         UNION {{v \in f[k] : \E m \in met[n] : level2var[node[m].level] \in f[k]} :
                                  k \in IF met[n] = {} THEN {} ELSE {k \in Counted : k < n}}]
           F == [f \in [Counted -> SUBSET Variable] |-> Body(f)]
<1>1. Taken = TakenOf(size, free) /\ Taken \subseteq 0..(size - 1)
  BY TakenFacts DEF Taken, TakenOf, Slots, FreeSet
<1>2. Counted \subseteq Taken /\ Counted \subseteq Nat
  <2>1. \A n \in FreeSet : node[n].refcou = 0
    BY DEF SoundTable, FreeSet
  <2>2. size \in Nat
    BY DEF SoundTable
  <2> QED
    BY <2>1, <2>2 DEF Counted, Taken, Slots
<1>3. \A n \in Counted : VisitedFrom[n] \subseteq Taken
  BY <1>2, UnrootedTaken DEF VisitedFrom
<1>4. \A n \in Counted : own(n) \subseteq Variable
  <2> SUFFICES ASSUME NEW n \in Counted, NEW m \in VisitedFrom[n] PROVE level2var[node[m].level] \in Variable
    OBVIOUS
  <2>1. m \in Taken
    BY <1>3
  <2>2. node[m].level \in Variable
    BY <2>1, <1>1 DEF SoundTable, Variable
  <2> QED
    BY <2>2, OrderFacts
<1>5. \A n \in Counted : earlier(n) \subseteq Counted /\ \A k \in earlier(n) : k < n
  OBVIOUS
<1>6. \A f : Body(f) = [n \in Counted |->
                  own(n) \cup UNION {{v \in f[k] : meets(n, f[k])} : k \in earlier(n)}]
  OBVIOUS
<1>7. \A n, V, W : V \subseteq W /\ meets(n, V) => meets(n, W)
  OBVIOUS
<1>8. Dependencies = CHOOSE f : f = Body(f)
  BY DEF Dependencies
<1> HIDE DEF own, earlier, meets, Body
<1>9. ASSUME NEW f \in [Counted -> SUBSET Variable]
      PROVE  Body(f) \in [Counted -> SUBSET Variable]
  <2>1. \A n \in Counted : \A k \in earlier(n) : {v \in f[k] : meets(n, f[k])} \subseteq Variable
    BY <1>5
  <2>2. \A n \in Counted : UNION {{v \in f[k] : meets(n, f[k])} : k \in earlier(n)} \subseteq Variable
    BY <2>1
  <2> QED
    BY <2>2, <1>4, <1>6
<1>10. F \in [[Counted -> SUBSET Variable] -> [Counted -> SUBSET Variable]]
  BY <1>9
<1>11. ASSUME NEW f \in [Counted -> SUBSET Variable], NEW g \in [Counted -> SUBSET Variable],
              \A x \in Counted : f[x] \subseteq g[x], NEW x \in Counted
       PROVE  F[f][x] \subseteq F[g][x]
  <2>1. F[f] = Body(f) /\ F[g] = Body(g)
    OBVIOUS
  <2> HIDE DEF F
  <2>2. F[f][x] = own(x) \cup UNION {{v \in f[k] : meets(x, f[k])} : k \in earlier(x)}
    BY <2>1, <1>6
  <2>3. F[g][x] = own(x) \cup UNION {{v \in g[k] : meets(x, g[k])} : k \in earlier(x)}
    BY <2>1, <1>6
  <2>4. \A k \in earlier(x) : f[k] \subseteq g[k] /\ (meets(x, f[k]) => meets(x, g[k]))
    BY <1>5, <1>7, <1>11
  <2>5. \A k \in earlier(x) : {v \in f[k] : meets(x, f[k])} \subseteq {v \in g[k] : meets(x, g[k])}
    BY <2>4
  <2> QED
    BY <2>2, <2>3, <2>5
<1>12. Dependencies = Body(Dependencies)
  <2>1. \A f, g \in [Counted -> SUBSET Variable] :
          (\A x \in Counted : f[x] \subseteq g[x]) => \A x \in Counted : F[f][x] \subseteq F[g][x]
    BY <1>11
  <2>2. Monotone(F, Counted, Variable)
    <3> HIDE DEF F
    <3> QED
      BY <2>1, <1>10 DEF Monotone
  <2>3. HasFixedPoint(F, Counted, Variable)
    <3> HIDE DEF F
    <3> QED
      BY <2>2, FixedPoint
  <2>4. PICK f \in [Counted -> SUBSET Variable] : f = F[f]
    BY <2>3 DEF HasFixedPoint
  <2>5. f = Body(f)
    BY <2>4
  <2> QED
    BY <2>5, <1>8
<1>13. \A n \in Counted :
         Dependencies[n] = own(n) \cup UNION {{v \in Dependencies[k] : meets(n, Dependencies[k])} : k \in earlier(n)}
  BY <1>12, <1>6
<1> DEFINE Bad == {n \in Counted : ~ (Dependencies[n] \subseteq Variable)}
<1>14. Bad = {}
  <2> SUFFICES ASSUME Bad # {} PROVE FALSE
    OBVIOUS
  <2>1. PICK n \in Bad : \A m \in Bad : ~ (m < n)
    <3>1. Bad \in SUBSET Nat
      BY <1>2
    <3> QED
      BY <3>1, LeastExists
  <2>2. \A k \in earlier(n) : Dependencies[k] \subseteq Variable
    BY <2>1, <1>5
  <2> QED
    BY <2>1, <2>2, <1>4, <1>13
<1> QED
  BY <1>14

-----------------------------------------------------------------------------
(* The inductive invariant.                                                *)

Shape ==
  /\ SoundTable(size, node, free, varnum) /\ Acyclic(size, node, free)
  /\ varnum \in FirstVars..MaxVars /\ IsOrder(level2var, varnum)

Records ==
  /\ errorcond \in BOOLEAN /\ resized \in BOOLEAN /\ lost \in BOOLEAN
  /\ phase \in {"idle", "ready", "swap"}
  /\ iactmtx \subseteq Variable \X Variable
  /\ upper \in 0..(MaxVars - 1)
  /\ phase = "swap" => upper \in Variable /\ Var2Level(upper) < varnum - 1
  /\ pending \subseteq Taken /\ (phase # "swap" => pending = {})

(* Between reorderings a count covers the references of the program, and   *)
(* the edges as well while one is on, when the program only holds roots.   *)
Counts ==
  /\ held \in [0..(size - 1) -> Nat] /\ extroots \subseteq Slots
  /\ phase = "idle" => \A n \in Slots : Covers(node[n].refcou, held[n])
  /\ phase # "idle" => \A n \in Slots : /\ Covers(node[n].refcou, held[n] + EdgesIn(node, Taken, n))
                                        /\ held[n] > 0 => n \in extroots

Inv == Shape /\ Records /\ Counts

(* What the invariant says of slots, nodes and variables, in one place.    *)
LEMMA SlotFacts ==
  ASSUME Shape
  PROVE  /\ size \in Nat /\ size > 2 /\ IsFiniteSet(Slots) /\ Slots \subseteq Nat
         /\ Taken = TakenOf(size, free) /\ Taken \subseteq Slots /\ IsFiniteSet(Taken)
         /\ FreeSet \subseteq Slots /\ FreeSet \cap Taken = {} /\ Slots = Taken \cup FreeSet
         /\ Terminal \cup Slots = 0..(size - 1) /\ Terminal \cap Slots = {}
         /\ node \in [0..(size - 1) -> NodeOf(size)]
         /\ \A n \in 0..(size - 1) : /\ node[n].refcou \in 0..MaxRef /\ node[n].level \in 0..MaxVars
                                     /\ node[n].low \in -1..(size - 1)
                                     /\ node[n].high \in 0..(size - 1)
         /\ \A n \in Taken : /\ node[n].low \in Terminal \cup Taken
                             /\ node[n].high \in Terminal \cup Taken
                             /\ node[n].level \in Variable
         /\ \A n \in FreeSet : node[n].refcou = 0
         /\ \A n \in Terminal : node[n].low = n /\ node[n].high = n /\ node[n].level = varnum
         /\ varnum \in Nat /\ varnum \in 1..MaxVars /\ MaxVars \in Nat
<1>1. SoundTable(size, node, free, varnum) /\ varnum \in FirstVars..MaxVars
  BY DEF Shape
<1>2. size \in Nat /\ size > 2 /\ node \in [0..(size - 1) -> NodeOf(size)]
  BY <1>1 DEF SoundTable
<1>3. Slots \subseteq Nat /\ IsFiniteSet(Slots)
  <2>1. 2 \in Int /\ size - 1 \in Int
    BY <1>2
  <2>2. IsFiniteSet(Slots)
    BY <2>1, FS_Interval DEF Slots
  <2> QED
    BY <1>2, <2>2 DEF Slots
<1>4. Taken = TakenOf(size, free)
  BY DEF Taken, TakenOf, Slots, FreeSet
<1>5. Taken \subseteq Slots /\ IsFiniteSet(Taken) /\ FreeSet \subseteq Slots /\ FreeSet \cap Taken = {}
      /\ Slots = Taken \cup FreeSet
  BY <1>1, <1>4, TakenFacts DEF Slots, FreeSet
<1>6. Terminal \cup Slots = 0..(size - 1) /\ Terminal \cap Slots = {}
  BY <1>2 DEF Terminal, FALSEBDD, TRUEBDD, Slots
<1>7. \A n \in 0..(size - 1) : /\ node[n].refcou \in 0..MaxRef /\ node[n].level \in 0..MaxVars
                               /\ node[n].low \in -1..(size - 1) /\ node[n].high \in 0..(size - 1)
  BY <1>1, TakenFacts
<1>8. /\ \A n \in Taken : /\ node[n].low \in Terminal \cup Taken
                          /\ node[n].high \in Terminal \cup Taken
                          /\ node[n].level \in Variable
      /\ \A n \in FreeSet : node[n].refcou = 0
      /\ \A n \in Terminal : node[n].low = n /\ node[n].high = n /\ node[n].level = varnum
  BY <1>1, <1>4 DEF SoundTable, Variable, FreeSet
<1>9. varnum \in Nat /\ varnum \in 1..MaxVars /\ MaxVars \in Nat
  BY <1>1, ReorderVars
<1> QED
  BY <1>2, <1>3, <1>4, <1>5, <1>6, <1>7, <1>8, <1>9

(* The table that bdd_init and bdd_setvarnum make.                         *)
LEMMA InitInv == Init => Inv
<1> SUFFICES ASSUME Init PROVE Inv
  OBVIOUS
<1> DEFINE s == InitSize
           f == FirstVars
           rest == (2 * f + 2)..(s - 1)
<1>1. f \in Nat /\ f > 0 /\ s \in Nat /\ s >= 2 * f + 2 /\ s > 2 /\ IsPrime(s) /\ MaxVars \in Nat
      /\ MaxVars >= f /\ MaxRef \in Nat
  BY ReorderVars, ReorderSizes, ReorderLimits
<1>2. /\ size = s /\ varnum = f /\ free = Ascending(rest) /\ level2var = [l \in 0..f |-> l]
      /\ phase = "idle" /\ extroots = {} /\ iactmtx = {} /\ pending = {} /\ upper = 0
      /\ resized = FALSE /\ errorcond = FALSE /\ lost = FALSE
      /\ held = [n \in 0..(s - 1) |-> 0]
  BY DEF Init
<1>3. /\ \A n \in Terminal : node[n] = [refcou |-> MaxRef, level |-> f, low |-> n, high |-> n]
      /\ \A n \in 2..(2 * f + 1) :
           node[n] = [refcou |-> MaxRef, level |-> (n - 2) \div 2, low |-> n % 2, high |-> 1 - (n % 2)]
      /\ \A n \in rest : node[n] = FreeNode
  <2>1. \A n \in 0..(s - 1) : node[n] =
          CASE n \in Terminal -> [refcou |-> MaxRef, level |-> f, low |-> n, high |-> n]
            [] n \in 2..(2 * f + 1) ->
                 [refcou |-> MaxRef, level |-> (n - 2) \div 2, low |-> n % 2, high |-> 1 - (n % 2)]
            [] OTHER -> FreeNode
    BY DEF Init
  <2>2. \A n \in Terminal : n \in 0..(s - 1) /\ n \notin 2..(2 * f + 1)
    BY <1>1 DEF Terminal, FALSEBDD, TRUEBDD
  <2>3. \A n \in 2..(2 * f + 1) : n \in 0..(s - 1) /\ n \notin Terminal
    BY <1>1 DEF Terminal, FALSEBDD, TRUEBDD
  <2>4. \A n \in rest : n \in 0..(s - 1) /\ n \notin Terminal /\ n \notin 2..(2 * f + 1)
    BY <1>1 DEF Terminal, FALSEBDD, TRUEBDD
  <2> HIDE DEF rest
  <2>6. \A n \in Terminal : node[n] = [refcou |-> MaxRef, level |-> f, low |-> n, high |-> n]
    BY <2>1, <2>2
  <2>7. \A n \in 2..(2 * f + 1) :
          node[n] = [refcou |-> MaxRef, level |-> (n - 2) \div 2, low |-> n % 2, high |-> 1 - (n % 2)]
    BY <2>1, <2>3
  <2>8. \A n \in rest : node[n] = FreeNode
    BY <2>1, <2>4
  <2> QED
    BY <2>6, <2>7, <2>8
<1>4. \A n \in 2..(2 * f + 1) : n % 2 \in Terminal /\ 1 - (n % 2) \in Terminal /\ (n - 2) \div 2 \in 0..(f - 1)
  <2> SUFFICES ASSUME NEW n \in 2..(2 * f + 1)
               PROVE  n % 2 \in Terminal /\ 1 - (n % 2) \in Terminal /\ (n - 2) \div 2 \in 0..(f - 1)
    OBVIOUS
  <2>1. n \in Int /\ n >= 2 /\ n <= 2 * f + 1
    BY <1>1
  <2>2. n % 2 \in 0..1
    BY <2>1
  <2>3. (n - 2) \div 2 \in 0..(f - 1)
    BY <1>1, <2>1
  <2> QED
    BY <2>2, <2>3 DEF Terminal, FALSEBDD, TRUEBDD
<1>5. /\ \A n \in Terminal : node[n].refcou = MaxRef /\ node[n].low = n /\ node[n].high = n /\ node[n].level = f
      /\ \A n \in 2..(2 * f + 1) : node[n].low \in Terminal /\ node[n].high \in Terminal
                                   /\ node[n].level \in 0..(f - 1)
      /\ \A n \in rest : node[n].refcou = 0
  <2>1. \A n \in Terminal : node[n].refcou = MaxRef /\ node[n].low = n /\ node[n].high = n /\ node[n].level = f
    <3> SUFFICES ASSUME NEW n \in Terminal
                 PROVE  node[n].refcou = MaxRef /\ node[n].low = n /\ node[n].high = n /\ node[n].level = f
      OBVIOUS
    <3>1. node[n] = [refcou |-> MaxRef, level |-> f, low |-> n, high |-> n]
      BY <1>3
    <3> QED
      BY <3>1
  <2>2. \A n \in 2..(2 * f + 1) : node[n].low \in Terminal /\ node[n].high \in Terminal
                                  /\ node[n].level \in 0..(f - 1)
    <3> SUFFICES ASSUME NEW n \in 2..(2 * f + 1)
                 PROVE  node[n].low \in Terminal /\ node[n].high \in Terminal
                        /\ node[n].level \in 0..(f - 1)
      OBVIOUS
    <3>1. node[n] = [refcou |-> MaxRef, level |-> (n - 2) \div 2, low |-> n % 2, high |-> 1 - (n % 2)]
      BY <1>3
    <3>2. node[n].low = n % 2 /\ node[n].high = 1 - (n % 2) /\ node[n].level = (n - 2) \div 2
      BY <3>1
    <3> QED
      BY <3>2, <1>4
  <2>3. \A n \in rest : node[n].refcou = 0
    BY <1>3 DEF FreeNode
  <2> QED
    BY <2>1, <2>2, <2>3
<1>6. node \in [0..(s - 1) -> NodeOf(s)]
  <2> SUFFICES ASSUME NEW n \in 0..(s - 1) PROVE node[n] \in NodeOf(s)
    <3>1. node = [n \in 0..(s - 1) |-> node[n]]
      BY DEF Init
    <3> QED
      BY <3>1
  <2>0. Terminal \subseteq 0..(s - 1) /\ Terminal \subseteq -1..(s - 1)
    BY <1>1 DEF Terminal, FALSEBDD, TRUEBDD
  <2>1. MaxRef \in 0..MaxRef /\ 0 \in 0..MaxRef /\ f \in 0..MaxVars /\ 0 \in 0..MaxVars
        /\ 0..(f - 1) \subseteq 0..MaxVars
    BY <1>1
  <2>2. CASE n \in Terminal
    <3>1. node[n] = [refcou |-> MaxRef, level |-> f, low |-> n, high |-> n]
      BY <2>2, <1>3
    <3>2. n \in -1..(s - 1)
      BY <2>2, <2>0
    <3>3. MaxRef \in 0..MaxRef /\ f \in 0..MaxVars
      BY <2>1
    <3>4. [refcou |-> MaxRef, level |-> f, low |-> n, high |-> n] \in NodeOf(s)
      BY <3>2, <3>3 DEF NodeOf
    <3> QED
      BY <3>1, <3>4
  <2>3. CASE n \in 2..(2 * f + 1)
    <3>1. n % 2 \in Terminal /\ 1 - (n % 2) \in Terminal /\ (n - 2) \div 2 \in 0..MaxVars
      BY <2>1, <2>3, <1>4
    <3>2. [refcou |-> MaxRef, level |-> (n - 2) \div 2, low |-> n % 2, high |-> 1 - (n % 2)] \in NodeOf(s)
      <4>1. n % 2 \in -1..(s - 1) /\ 1 - (n % 2) \in 0..(s - 1)
        BY <3>1, <2>0
      <4> QED
        BY <3>1, <4>1, <2>1 DEF NodeOf
    <3> QED
      BY <3>2, <2>3, <1>3
  <2>4. CASE n \in rest
    <3>1. -1 \in -1..(s - 1) /\ 0 \in 0..(s - 1)
      BY <1>1
    <3>2. FreeNode \in NodeOf(s)
      BY <3>1, <2>1 DEF FreeNode, NodeOf
    <3> QED
      BY <3>2, <2>4, <1>3
  <2>5. n \in Terminal \/ n \in 2..(2 * f + 1) \/ n \in rest
    BY <1>1 DEF Terminal, FALSEBDD, TRUEBDD
  <2> QED
    BY <2>2, <2>3, <2>4, <2>5
<1>7. Distinct(2..(s - 1), free) /\ ToSet(free) = rest
  <2>1. 2 * f + 2 \in Int /\ s - 1 \in Int
    BY <1>1
  <2>2. rest \in SUBSET Nat /\ rest \subseteq 2..(s - 1)
    BY <1>1
  <2>3. IsFiniteSet(rest)
    BY <2>1, FS_Interval
  <2> HIDE DEF rest
  <2>4. Distinct(rest, free) /\ ToSet(free) = rest
    BY <2>2, <2>3, <1>2, AscendingLists
  <2> QED
    BY <2>2, <2>4, SeqMonotonic DEF Distinct
<1>8. TakenOf(s, free) = 2..(2 * f + 1)
  BY <1>1, <1>7 DEF TakenOf
<1> HIDE DEF s, f, rest
<1>9. SoundTable(s, node, free, f)
  <2>1. \A n \in TakenOf(s, free) : /\ node[n].low \in Terminal \cup TakenOf(s, free)
                                    /\ node[n].high \in Terminal \cup TakenOf(s, free)
                                    /\ node[n].level \in 0..(f - 1)
    BY <1>5, <1>8
  <2>2. s >= InitSize
    BY <1>1 DEF s
  <2> QED
    BY <2>1, <2>2, <1>1, <1>5, <1>6, <1>7 DEF SoundTable
<1>10. Acyclic(s, node, free)
  <2> DEFINE rank == [n \in 0..(s - 1) |-> IF n \in Terminal THEN 0 ELSE 1]
  <2>1. rank \in [0..(s - 1) -> Nat]
    OBVIOUS
  <2>2. ASSUME NEW n \in TakenOf(s, free) PROVE rank[node[n].low] < rank[n] /\ rank[node[n].high] < rank[n]
    <3>1. node[n].low \in Terminal /\ node[n].high \in Terminal
      BY <1>5, <1>8
    <3>2. Terminal \subseteq 0..(s - 1) /\ n \in 0..(s - 1) /\ n \notin Terminal
      BY <1>1 DEF Terminal, FALSEBDD, TRUEBDD, TakenOf
    <3>3. rank[n] = 1 /\ rank[node[n].low] = 0 /\ rank[node[n].high] = 0
      BY <3>1, <3>2
    <3> QED
      BY <3>3
  <2> HIDE DEF rank
  <2>3. IsRank(s, node, free, rank)
    BY <2>1, <2>2 DEF IsRank
  <2> QED
    BY <2>3 DEF Acyclic
<1>11. IsOrder(level2var, f)
  BY <1>1, <1>2 DEF IsOrder
<1>12. Shape
  BY <1>1, <1>2, <1>9, <1>10, <1>11 DEF Shape, f
<1>13. Records
  <2>1. errorcond \in BOOLEAN
    BY <1>2
  <2>2. resized \in BOOLEAN
    BY <1>2
  <2>3. lost \in BOOLEAN
    BY <1>2
  <2>4. upper \in 0..(MaxVars - 1)
    BY <1>1, <1>2 DEF f
  <2> QED
    BY <2>1, <2>2, <2>3, <2>4, <1>2 DEF Records
<1>14. Counts
  <2>1. \A n \in Slots : held[n] = 0 /\ n \in 0..(s - 1)
    BY <1>1, <1>2 DEF Slots
  <2>2. \A n \in 0..(s - 1) : node[n].refcou \in 0..MaxRef
    BY <1>6 DEF NodeOf
  <2>3. \A n \in Slots : Covers(node[n].refcou, held[n])
    BY <2>1, <2>2, <1>1 DEF Covers
  <2> QED
    BY <2>3, <1>2 DEF Counts
<1> QED
  BY <1>12, <1>13, <1>14 DEF Inv

-----------------------------------------------------------------------------
(* Collections.                                                            *)

(* A slot of the free list has a place in every table.                     *)
LEMMA FreeNodeFacts ==
  ASSUME NEW s \in Nat, s > 2
  PROVE  FreeNode \in NodeOf(s) /\ FreeNode.refcou = 0
<1>1. 0 \in 0..MaxRef /\ 0 \in 0..MaxVars /\ -1 \in -1..(s - 1) /\ 0 \in 0..(s - 1)
  BY ReorderLimits, ReorderVars
<1> QED
  BY <1>1 DEF FreeNode, NodeOf

Reach(R) == UNION {Below[n] : n \in R}

(* What is reached from slots in use can be kept by itself.                *)
LEMMA ReachClosed ==
  ASSUME Shape, NEW R \in SUBSET Taken
  PROVE  /\ Reach(R) \subseteq Taken /\ R \subseteq Reach(R)
         /\ \A n \in Reach(R) : /\ node[n].low \in Terminal \cup Reach(R)
                                /\ node[n].high \in Terminal \cup Reach(R)
<1> DEFINE K == Reach(R)
<1>1. \A n \in Taken : /\ n \in Below[n] /\ Below[n] \subseteq Taken
                       /\ \A m \in Below[n] : /\ node[m].low \in Terminal \cup Below[n]
                                              /\ node[m].high \in Terminal \cup Below[n]
  BY BelowClosed DEF Shape
<1>2. K \subseteq Taken /\ R \subseteq K
  BY <1>1 DEF Reach
<1>3. ASSUME NEW m \in K PROVE node[m].low \in Terminal \cup K /\ node[m].high \in Terminal \cup K
  <2>1. PICK n \in R : m \in Below[n]
    BY DEF Reach
  <2>2. Below[n] \subseteq K
    BY DEF Reach
  <2>3. node[m].low \in Terminal \cup Below[n] /\ node[m].high \in Terminal \cup Below[n]
    BY <1>1, <2>1
  <2> QED
    BY <2>2, <2>3
<1> QED
  BY <1>2, <1>3

(* A collection that keeps a part of the table.                            *)
LEMMA Sweep ==
  ASSUME Shape, NEW K \in SUBSET Taken,
         \A n \in K : node[n].low \in Terminal \cup K /\ node[n].high \in Terminal \cup K,
         NEW fr, Distinct(Slots, fr), ToSet(fr) = Slots \ K,
         NEW new \in [0..(size - 1) -> NodeOf(size)],
         \A n \in Terminal : SameRow(node, new, n),
         \A n \in K : new[n].low = node[n].low /\ new[n].high = node[n].high /\ new[n].level \in Variable,
         \A n \in Slots \ K : new[n].refcou = 0
  PROVE  SoundTable(size, new, fr, varnum) /\ Acyclic(size, new, fr) /\ TakenOf(size, fr) = K
<1>1. TakenOf(size, fr) = K
  BY SlotFacts DEF TakenOf, Slots
<1>2. SoundTable(size, new, fr, varnum)
  <2>1. \A n \in Terminal : new[n].low = n /\ new[n].high = n /\ new[n].level = varnum
    BY SlotFacts DEF SameRow
  <2>2. \A n \in K : /\ new[n].low \in Terminal \cup K /\ new[n].high \in Terminal \cup K
                     /\ new[n].level \in 0..(varnum - 1)
    BY DEF Variable
  <2>3. size \in Nat /\ size > 2 /\ size >= InitSize /\ IsPrime(size)
    BY DEF Shape, SoundTable
  <2> QED
    BY <2>1, <2>2, <2>3, <1>1 DEF SoundTable, Slots
<1>3. PICK rank : IsRank(size, node, free, rank)
  BY DEF Shape, Acyclic
<1>4. IsRank(size, new, fr, rank)
  <2>1. \A n \in K : n \in TakenOf(size, free)
    BY SlotFacts
  <2> QED
    BY <2>1, <1>1, <1>3 DEF IsRank
<1> QED
  BY <1>1, <1>2, <1>4 DEF Acyclic

(* A free list rebuilt from a set of slots lists just these.               *)
LEMMA AscendingSlots ==
  ASSUME Shape, NEW G \in SUBSET Slots
  PROVE  Distinct(Slots, Ascending(G)) /\ ToSet(Ascending(G)) = G
<1>1. IsFiniteSet(Slots) /\ Slots \subseteq Nat
  BY SlotFacts
<1>2. G \in SUBSET Nat /\ IsFiniteSet(G)
  BY <1>1, FS_Subset
<1>3. Distinct(G, Ascending(G)) /\ ToSet(Ascending(G)) = G
  BY <1>2, AscendingLists
<1> QED
  BY <1>3, SeqMonotonic DEF Distinct

(* No slot of the free list has a count.                                   *)
LEMMA CountedTaken ==
  ASSUME Shape
  PROVE  Counted \subseteq Taken
BY SlotFacts DEF Counted

(* bdd_gbc.                                                                *)
LEMMA GbcStep ==
  ASSUME Inv, Gbc
  PROVE  Inv'
<1>1. Shape /\ Records /\ Counts
  BY DEF Inv
<1>2. /\ phase = "idle" /\ size' = size /\ held' = held /\ varnum' = varnum /\ level2var' = level2var
      /\ phase' = phase /\ extroots' = extroots /\ iactmtx' = iactmtx /\ pending' = pending
      /\ upper' = upper /\ errorcond' = errorcond /\ resized' = resized /\ lost' = lost
      /\ node' = Cleared(node, Slots \ Reachable) /\ free' = Ascending(Slots \ Reachable)
  BY DEF Gbc, Called, Idle
<1> DEFINE K == Reachable
<1>3. K = Reach(Counted)
  BY DEF Reachable, Reach
<1> HIDE DEF K
<1>4. /\ K \subseteq Taken /\ Counted \subseteq K
      /\ \A n \in K : node[n].low \in Terminal \cup K /\ node[n].high \in Terminal \cup K
  <2>1. Counted \in SUBSET Taken
    BY <1>1, CountedTaken
  <2> QED
    BY <1>1, <1>3, <2>1, ReachClosed
<1>5. Distinct(Slots, free') /\ ToSet(free') = Slots \ K
  BY <1>1, <1>2, AscendingSlots DEF K
<1>6. /\ node' \in [0..(size - 1) -> NodeOf(size)]
      /\ \A n \in 0..(size - 1) : n \in Terminal \cup K => node'[n] = node[n]
      /\ \A n \in Slots \ K : node'[n] = FreeNode
  <2>1. node \in [0..(size - 1) -> NodeOf(size)] /\ Terminal \cap Slots = {} /\ size \in Nat /\ size > 2
        /\ Terminal \cup Slots = 0..(size - 1)
    BY <1>1, SlotFacts
  <2>2. node' = [n \in 0..(size - 1) |-> IF n \in Slots \ K THEN FreeNode ELSE node[n]]
    BY <2>1, <1>2 DEF Cleared, K
  <2>3. FreeNode \in NodeOf(size)
    BY <2>1, FreeNodeFacts
  <2> QED
    BY <2>1, <2>2, <2>3
<1>7. Terminal \cup Slots = 0..(size - 1) /\ size \in Nat /\ size > 2 /\ Taken \subseteq Slots
      /\ \A n \in Taken : node[n].level \in Variable
  BY <1>1, SlotFacts
<1>8. /\ \A n \in Terminal : SameRow(node, node', n)
      /\ \A n \in K : node'[n].low = node[n].low /\ node'[n].high = node[n].high
                      /\ node'[n].level \in Variable
      /\ \A n \in Slots \ K : node'[n].refcou = 0
  <2>1. \A n \in Terminal \cup K : node'[n] = node[n]
    BY <1>4, <1>6, <1>7
  <2>2. \A n \in Slots \ K : node'[n].refcou = 0
    BY <1>6, <1>7, FreeNodeFacts
  <2> QED
    BY <2>1, <2>2, <1>4, <1>7 DEF SameRow
<1>9. SoundTable(size, node', free', varnum) /\ Acyclic(size, node', free')
  BY <1>1, <1>4, <1>5, <1>6, <1>8, Sweep
<1>10. Shape'
  BY <1>1, <1>2, <1>9 DEF Shape
<1>11. Slots' = Slots /\ Variable' = Variable
  BY <1>2 DEF Slots, Variable
<1>12. Records'
  <2>1. pending = {}
    BY <1>1, <1>2 DEF Records
  <2> QED
    BY <2>1, <1>1, <1>2, <1>11 DEF Records
<1>13. Counts'
  <2>1. \A n \in Slots : Covers(node'[n].refcou, held[n])
    <3> SUFFICES ASSUME NEW n \in Slots PROVE Covers(node'[n].refcou, held[n])
      OBVIOUS
    <3>1. Covers(node[n].refcou, held[n]) /\ node[n].refcou \in 0..MaxRef /\ held[n] \in Nat
      BY <1>1, <1>2, <1>7, SlotFacts DEF Counts
    <3>2. CASE n \in K
      BY <3>1, <3>2, <1>6, <1>7
    <3>3. CASE n \notin K
      <4>1. n \notin Counted
        BY <3>3, <1>4
      <4>2. node[n].refcou = 0
        BY <4>1, <3>1, ReorderLimits DEF Counted
      <4>3. node'[n].refcou = 0
        BY <3>3, <1>8
      <4> QED
        BY <3>1, <4>2, <4>3
    <3> QED
      BY <3>2, <3>3
  <2>2. held' \in [0..(size' - 1) -> Nat] /\ extroots' \subseteq Slots'
    BY <1>1, <1>2, <1>11 DEF Counts
  <2> QED
    BY <2>1, <2>2, <1>2, <1>11 DEF Counts
<1> QED
  BY <1>10, <1>12, <1>13 DEF Inv

(* A slot that is not counted is not held.                                 *)
LEMMA HeldCounted ==
  ASSUME Shape, Counts, phase = "idle"
  PROVE  \A n \in Slots : /\ held[n] \in Nat /\ (held[n] > 0 => n \in Counted)
                          /\ (n \notin Counted => held[n] = 0)
<1> SUFFICES ASSUME NEW n \in Slots
             PROVE  held[n] \in Nat /\ (n \notin Counted => held[n] = 0)
  OBVIOUS
<1>1. held[n] \in Nat /\ Covers(node[n].refcou, held[n]) /\ node[n].refcou \in 0..MaxRef
  <2>1. n \in 0..(size - 1)
    BY SlotFacts
  <2> QED
    BY <2>1, SlotFacts DEF Counts
<1>2. ASSUME n \notin Counted PROVE held[n] = 0
  <2>1. node[n].refcou = 0
    BY <1>1, <1>2, ReorderLimits DEF Counted
  <2> QED
    BY <2>1, <1>1, ReorderLimits DEF Covers
<1> QED
  BY <1>1, <1>2

(* reorder_init.                                                           *)
LEMMA StartStep ==
  ASSUME Inv, Start
  PROVE  Inv'
<1>1. Shape /\ Records /\ Counts
  BY DEF Inv
<1> DEFINE K == Reachable
           matrix == UNION {Dependencies[n] \X Dependencies[n] : n \in Counted}
           marked(n) == [node[n] EXCEPT !.level = level2var[@], !.refcou = Incref(@, EdgesTo(n, K))]
<1>2. /\ phase = "idle" /\ phase' = "ready" /\ size' = size /\ held' = held /\ varnum' = varnum
      /\ level2var' = level2var /\ pending' = pending
      /\ upper' = upper /\ errorcond' = errorcond /\ resized' = resized
      /\ extroots' = Counted /\ iactmtx' = matrix
      /\ lost' = (lost \/ ~ (Interacting \subseteq matrix))
      /\ free' = Ascending(Slots \ K)
  BY DEF Start, Idle
<1>3. node' = [n \in DOMAIN node |-> CASE n \in Terminal -> node[n]
                                        [] n \in K -> marked(n)
                                        [] OTHER -> FreeNode]
  BY DEF Start
<1>4. K = Reach(Counted)
  BY DEF Reachable, Reach
<1> HIDE DEF K, matrix, marked
<1>5. /\ K \subseteq Taken /\ Counted \subseteq K
      /\ \A n \in K : node[n].low \in Terminal \cup K /\ node[n].high \in Terminal \cup K
  <2>1. Counted \in SUBSET Taken
    BY <1>1, CountedTaken
  <2> QED
    BY <1>1, <1>4, <2>1, ReachClosed
<1>6. Distinct(Slots, free') /\ ToSet(free') = Slots \ K
  BY <1>1, <1>2, AscendingSlots
<1>7. /\ node \in [0..(size - 1) -> NodeOf(size)] /\ Terminal \cap Slots = {} /\ size \in Nat /\ size > 2
      /\ Terminal \cup Slots = 0..(size - 1) /\ Taken \subseteq Slots /\ IsFiniteSet(Taken)
      /\ \A n \in Taken : node[n].level \in Variable
  BY <1>1, SlotFacts
<1>8. /\ \A n \in Terminal : node'[n] = node[n]
      /\ \A n \in K : node'[n] = marked(n)
      /\ \A n \in Slots \ K : node'[n] = FreeNode
  <2>1. \A n \in 0..(size - 1) : node'[n] = CASE n \in Terminal -> node[n]
                                              [] n \in K -> marked(n)
                                              [] OTHER -> FreeNode
    BY <1>3, <1>7
  <2>2. /\ \A n \in Terminal : n \in 0..(size - 1) /\ n \notin K
        /\ \A n \in K : n \in 0..(size - 1) /\ n \notin Terminal
        /\ \A n \in Slots \ K : n \in 0..(size - 1) /\ n \notin Terminal /\ n \notin K
    BY <1>5, <1>7
  <2> QED
    BY <2>1, <2>2
<1>9. ASSUME NEW n \in K
      PROVE  /\ EdgesTo(n, K) = EdgesIn(node, K, n) /\ EdgesTo(n, K) \in Nat
             /\ node'[n] \in NodeOf(size)
             /\ node'[n].low = node[n].low /\ node'[n].high = node[n].high
             /\ node'[n].level \in Variable
             /\ node'[n].refcou = Incref(node[n].refcou, EdgesTo(n, K))
             /\ node[n].refcou \in 0..MaxRef
  <2>1. IsFiniteSet(K)
    BY <1>5, <1>7, FS_Subset
  <2>2. EdgesTo(n, K) = EdgesIn(node, K, n)
    BY DEF EdgesTo, EdgesIn
  <2>3. EdgesTo(n, K) \in Nat
    BY <2>1, <2>2, EdgesNumber
  <2>4. n \in 0..(size - 1) /\ node[n] \in NodeOf(size) /\ node[n].refcou \in 0..MaxRef
        /\ node[n].level \in Variable
    BY <1>5, <1>7 DEF NodeOf
  <2>5. Incref(node[n].refcou, EdgesTo(n, K)) \in 0..MaxRef
    BY <2>3, <2>4, Counting
  <2>6. level2var[node[n].level] \in Variable /\ Variable \subseteq 0..MaxVars
    <3>1. IsOrder(level2var, varnum) /\ varnum \in Nat /\ varnum \in 1..MaxVars /\ MaxVars \in Nat
      BY <1>1, SlotFacts DEF Shape
    <3>2. Variable \subseteq 0..MaxVars
      BY <3>1 DEF Variable
    <3> QED
      BY <3>1, <3>2, <2>4, OrderFacts
  <2> DEFINE l == level2var[node[n].level]
             c == Incref(node[n].refcou, EdgesTo(n, K))
  <2>7. node'[n] = [node[n] EXCEPT !.level = l, !.refcou = c]
    BY <1>8 DEF marked
  <2>8. l \in Variable /\ l \in 0..MaxVars /\ c \in 0..MaxRef
    BY <2>5, <2>6
  <2> HIDE DEF l, c
  <2>9. /\ node'[n] \in NodeOf(size) /\ node'[n].low = node[n].low /\ node'[n].high = node[n].high
        /\ node'[n].level = l /\ node'[n].refcou = c
    BY <2>4, <2>7, <2>8 DEF NodeOf
  <2> QED
    BY <2>2, <2>3, <2>4, <2>8, <2>9 DEF c
<1>10. node' \in [0..(size - 1) -> NodeOf(size)]
  <2>1. \A n \in 0..(size - 1) : node'[n] \in NodeOf(size)
    <3> SUFFICES ASSUME NEW n \in 0..(size - 1) PROVE node'[n] \in NodeOf(size)
      OBVIOUS
    <3>1. CASE n \in Terminal
      BY <3>1, <1>7, <1>8
    <3>2. CASE n \in K
      BY <3>2, <1>9
    <3>3. CASE n \in Slots \ K
      BY <3>3, <1>7, <1>8, FreeNodeFacts
    <3> QED
      BY <3>1, <3>2, <3>3, <1>7
  <2>2. DOMAIN node = 0..(size - 1)
    BY <1>7
  <2>3. node' = [n \in 0..(size - 1) |-> node'[n]]
    BY <1>3, <2>2
  <2> QED
    BY <2>1, <2>3
<1>11. /\ \A n \in Terminal : SameRow(node, node', n)
       /\ \A n \in K : node'[n].low = node[n].low /\ node'[n].high = node[n].high
                       /\ node'[n].level \in Variable
       /\ \A n \in Slots \ K : node'[n].refcou = 0
  <2>1. \A n \in Terminal : SameRow(node, node', n)
    BY <1>8 DEF SameRow
  <2>2. \A n \in Slots \ K : node'[n].refcou = 0
    BY <1>7, <1>8, FreeNodeFacts
  <2> QED
    BY <2>1, <2>2, <1>9
<1>12. SoundTable(size, node', free', varnum) /\ Acyclic(size, node', free') /\ TakenOf(size, free') = K
  BY <1>1, <1>5, <1>6, <1>10, <1>11, Sweep
<1>13. Shape'
  BY <1>1, <1>2, <1>12 DEF Shape
<1>14. Slots' = Slots /\ Variable' = Variable /\ Taken' = K
  BY <1>2, <1>12 DEF Slots, Variable, Taken, FreeSet, TakenOf
<1>15. Records'
  <2>1. pending = {}
    BY <1>1, <1>2 DEF Records
  <2>2. lost' \in BOOLEAN
    BY <1>2, Zenon
  <2>3. iactmtx' \subseteq Variable \X Variable
    <3>1. \A n \in Counted : Dependencies[n] \subseteq Variable
      BY <1>1, DependenciesVariable DEF Shape
    <3> QED
      BY <3>1, <1>2 DEF matrix
  <2> QED
    BY <2>1, <2>2, <2>3, <1>1, <1>2, <1>14 DEF Records
<1>16. Counts'
  <2>1. ASSUME NEW n \in Slots
        PROVE  Covers(node'[n].refcou, held[n] + EdgesIn(node', K, n)) /\ (held[n] > 0 => n \in Counted)
    <3>1. /\ held[n] \in Nat /\ (held[n] > 0 => n \in Counted) /\ (n \notin Counted => held[n] = 0)
      BY <1>1, <1>2, HeldCounted
    <3>2. EdgesIn(node', K, n) = EdgesIn(node, K, n)
      BY <1>11, EdgesSame
    <3>3. IsFiniteSet(K)
      BY <1>5, <1>7, FS_Subset
    <3>4. CASE n \in K
      <4>1. EdgesTo(n, K) = EdgesIn(node, K, n) /\ EdgesTo(n, K) \in Nat
            /\ node'[n].refcou = Incref(node[n].refcou, EdgesTo(n, K)) /\ node[n].refcou \in 0..MaxRef
        BY <3>4, <1>9
      <4>2. Covers(node[n].refcou, held[n])
        BY <1>1, <1>2 DEF Counts
      <4>3. Covers(Incref(node[n].refcou, EdgesTo(n, K)), held[n] + EdgesTo(n, K))
        BY <3>1, <4>1, <4>2, Counting
      <4> QED
        BY <3>1, <3>2, <4>1, <4>3
    <3>5. CASE n \notin K
      <4>1. EdgesIn(node, K, n) = 0
        <5>1. \A p \in K : node[p].low # n /\ node[p].high # n
          BY <3>5, <1>5, <1>7
        <5> QED
          BY <5>1, <3>3, EdgesNumber
      <4>2. held[n] = 0
        BY <3>1, <3>5, <1>5
      <4>3. held[n] + EdgesIn(node', K, n) = 0 /\ node'[n].refcou = 0
        BY <4>1, <4>2, <3>2, <3>5, <1>11
      <4>4. Covers(0, 0)
        BY DEF Covers
      <4> QED
        BY <3>1, <4>3, <4>4
    <3> QED
      BY <3>4, <3>5
  <2>2. held' \in [0..(size' - 1) -> Nat] /\ extroots' \subseteq Slots'
    BY <1>1, <1>2, <1>14 DEF Counts, Counted
  <2> QED
    BY <2>1, <2>2, <1>2, <1>14 DEF Counts
<1> QED
  BY <1>13, <1>15, <1>16 DEF Inv

(* reorder_done.                                                           *)
LEMMA DoneStep ==
  ASSUME Inv, Done
  PROVE  Inv'
<1>1. Shape /\ Records /\ Counts
  BY DEF Inv
<1> DEFINE R == {m \in extroots : node[m].refcou > 0}
           K == Reach(R)
           back(n) == [node[n] EXCEPT !.level = Var2Level(@), !.refcou = IF n \in extroots THEN @ ELSE 0]
           plain == [n \in DOMAIN node |-> IF n \in Terminal THEN node[n] ELSE back(n)]
<1>2. /\ phase = "ready" /\ phase' = "idle" /\ size' = size /\ held' = held /\ varnum' = varnum
      /\ level2var' = level2var /\ pending' = pending
      /\ upper' = upper /\ errorcond' = errorcond /\ resized' = resized
      /\ extroots' = {} /\ iactmtx' = {} /\ lost' = lost
  BY DEF Done
<1>3. free' = Ascending(Slots \ K) /\ node' = Cleared(plain, Slots \ K)
  BY DEF Done, Reach
<1>4. /\ node \in [0..(size - 1) -> NodeOf(size)] /\ Terminal \cap Slots = {} /\ size \in Nat /\ size > 2
      /\ Terminal \cup Slots = 0..(size - 1) /\ Taken \subseteq Slots /\ IsFiniteSet(Taken)
      /\ Slots = Taken \cup FreeSet /\ (\A n \in FreeSet : node[n].refcou = 0)
      /\ \A n \in Taken : node[n].level \in Variable
  BY <1>1, SlotFacts
<1>5. R \in SUBSET Taken
  <2>1. extroots \subseteq Slots
    BY <1>1 DEF Counts
  <2> QED
    BY <2>1, <1>4
<1> HIDE DEF K
<1>6. /\ K \subseteq Taken /\ R \subseteq K
      /\ \A n \in K : node[n].low \in Terminal \cup K /\ node[n].high \in Terminal \cup K
  BY <1>1, <1>5, ReachClosed DEF K
<1>7. Distinct(Slots, free') /\ ToSet(free') = Slots \ K
  BY <1>1, <1>3, AscendingSlots
<1> HIDE DEF back
<1>8. /\ \A n \in Terminal : node'[n] = node[n]
      /\ \A n \in K : node'[n] = back(n)
      /\ \A n \in Slots \ K : node'[n] = FreeNode
      /\ node' = [n \in 0..(size - 1) |-> node'[n]]
  <2>1. node' = [n \in 0..(size - 1) |-> IF n \in Slots \ K THEN FreeNode
                                         ELSE IF n \in Terminal THEN node[n] ELSE back(n)]
    BY <1>3, <1>4 DEF Cleared
  <2>2. /\ \A n \in Terminal : n \in 0..(size - 1) /\ n \notin Slots
        /\ \A n \in K : n \in 0..(size - 1) /\ n \notin Terminal
        /\ \A n \in Slots : n \in 0..(size - 1)
    BY <1>4, <1>6
  <2> QED
    BY <2>1, <2>2
<1>9. ASSUME NEW n \in K
      PROVE  /\ node'[n] \in NodeOf(size)
             /\ node'[n].low = node[n].low /\ node'[n].high = node[n].high
             /\ node'[n].level \in Variable
             /\ node'[n].refcou = IF n \in extroots THEN node[n].refcou ELSE 0
  <2>1. n \in 0..(size - 1) /\ node[n] \in NodeOf(size) /\ node[n].refcou \in 0..MaxRef
        /\ node[n].level \in Variable
    BY <1>4, <1>6 DEF NodeOf
  <2>2. Var2Level(node[n].level) \in Variable /\ Variable \subseteq 0..MaxVars
    <3>1. IsOrder(level2var, varnum) /\ varnum \in Nat /\ varnum \in 1..MaxVars /\ MaxVars \in Nat
      BY <1>1, SlotFacts DEF Shape
    <3>2. Variable \subseteq 0..MaxVars
      BY <3>1 DEF Variable
    <3> QED
      BY <3>1, <3>2, <2>1, OrderFacts
  <2> DEFINE l == Var2Level(node[n].level)
             c == IF n \in extroots THEN node[n].refcou ELSE 0
  <2>3. node'[n] = [node[n] EXCEPT !.level = l, !.refcou = c]
    BY <1>8 DEF back
  <2>4. l \in Variable /\ l \in 0..MaxVars /\ c \in 0..MaxRef
    <3>1. 0 \in 0..MaxRef
      BY ReorderLimits
    <3>2. c = node[n].refcou \/ c = 0
      BY Zenon
    <3>3. c \in 0..MaxRef
      BY <3>1, <3>2, <2>1, Zenon
    <3> QED
      BY <2>2, <3>3
  <2> HIDE DEF l, c
  <2>5. /\ node'[n] \in NodeOf(size) /\ node'[n].low = node[n].low /\ node'[n].high = node[n].high
        /\ node'[n].level = l /\ node'[n].refcou = c
    BY <2>1, <2>3, <2>4 DEF NodeOf
  <2> QED
    BY <2>4, <2>5 DEF c
<1>10. node' \in [0..(size - 1) -> NodeOf(size)]
  <2>1. \A n \in 0..(size - 1) : node'[n] \in NodeOf(size)
    <3> SUFFICES ASSUME NEW n \in 0..(size - 1) PROVE node'[n] \in NodeOf(size)
      OBVIOUS
    <3>1. CASE n \in Terminal
      BY <3>1, <1>4, <1>8
    <3>2. CASE n \in K
      BY <3>2, <1>9
    <3>3. CASE n \in Slots \ K
      BY <3>3, <1>4, <1>8, FreeNodeFacts
    <3> QED
      BY <3>1, <3>2, <3>3, <1>4
  <2>2. node' = [n \in 0..(size - 1) |-> node'[n]]
    BY <1>8
  <2> QED
    BY <2>1, <2>2
<1>11. /\ \A n \in Terminal : SameRow(node, node', n)
       /\ \A n \in K : node'[n].low = node[n].low /\ node'[n].high = node[n].high
                       /\ node'[n].level \in Variable
       /\ \A n \in Slots \ K : node'[n].refcou = 0
  <2>1. \A n \in Terminal : SameRow(node, node', n)
    BY <1>8 DEF SameRow
  <2>2. \A n \in Slots \ K : node'[n].refcou = 0
    BY <1>4, <1>8, FreeNodeFacts
  <2> QED
    BY <2>1, <2>2, <1>9
<1>12. SoundTable(size, node', free', varnum) /\ Acyclic(size, node', free')
  BY <1>1, <1>6, <1>7, <1>10, <1>11, Sweep
<1>13. Shape'
  BY <1>1, <1>2, <1>12 DEF Shape
<1>14. Slots' = Slots /\ Variable' = Variable
  BY <1>2 DEF Slots, Variable
<1>15. Records'
  <2>1. pending = {}
    BY <1>1, <1>2 DEF Records
  <2>2. iactmtx' \subseteq Variable \X Variable /\ pending' \subseteq Taken'
    BY <2>1, <1>2
  <2> QED
    BY <2>1, <2>2, <1>1, <1>2, <1>14 DEF Records
<1>16. Counts'
  <2>1. ASSUME NEW n \in Slots
        PROVE  Covers(node'[n].refcou, held[n])
    <3>1. /\ held[n] \in Nat /\ Covers(node[n].refcou, held[n] + EdgesIn(node, Taken, n))
          /\ (held[n] > 0 => n \in extroots) /\ node[n].refcou \in 0..MaxRef
          /\ EdgesIn(node, Taken, n) \in Nat
      <4>1. n \in 0..(size - 1)
        BY <1>4
      <4> QED
        BY <4>1, <1>1, <1>2, <1>4, EdgesNumber DEF Counts, NodeOf
    <3>2. Covers(node[n].refcou, held[n])
      BY <3>1, Counting
    <3>3. CASE n \in K /\ n \in extroots
      BY <3>2, <3>3, <1>9
    <3>4. CASE n \notin extroots
      <4>1. held[n] = 0
        BY <3>1, <3>4
      <4>2. node'[n].refcou = 0
        BY <3>4, <1>9, <1>11
      <4> QED
        BY <4>1, <4>2 DEF Covers
    <3>5. CASE n \notin K /\ n \in extroots
      <4>1. node[n].refcou = 0
        BY <3>1, <3>5, <1>6, ReorderLimits
      <4>2. node'[n].refcou = 0
        BY <3>5, <1>11
      <4> QED
        BY <3>2, <4>1, <4>2
    <3> QED
      BY <3>3, <3>4, <3>5
  <2>2. held' \in [0..(size' - 1) -> Nat] /\ extroots' \subseteq Slots'
    BY <1>1, <1>2, <1>14 DEF Counts
  <2> QED
    BY <2>1, <2>2, <1>2, <1>14 DEF Counts
<1> QED
  BY <1>13, <1>15, <1>16 DEF Inv

-----------------------------------------------------------------------------
(* The exchange of two variables.                                          *)

(* The order is still a permutation when two levels have traded places.    *)
LEMMA ExchangedOrder ==
  ASSUME IsOrder(level2var, varnum), NEW v \in Variable, Var2Level(v) < varnum - 1
  PROVE  IsOrder(Exchanged(v), varnum)
<1> DEFINE l == Var2Level(v)
           w == level2var[l + 1]
           new == Exchanged(v)
<1>1. varnum \in Nat /\ level2var \in [0..varnum -> 0..varnum] /\ level2var[varnum] = varnum
  BY DEF IsOrder
<1>2. l \in Variable /\ l \in 0..varnum /\ l + 1 \in Variable /\ l + 1 \in 0..varnum /\ l # l + 1
      /\ level2var[l] = v /\ v \in 0..varnum
  <2>1. v \in 0..varnum
    BY <1>1 DEF Variable
  <2>2. l \in Variable /\ level2var[l] = v
    BY <2>1, OrderFacts
  <2> HIDE DEF l
  <2>3. l < varnum - 1
    BY DEF l
  <2> QED
    BY <2>1, <2>2, <2>3, <1>1 DEF Variable
<1>3. w \in Variable /\ w \in 0..varnum
  BY <1>1, <1>2, OrderFacts DEF Variable
<1>4. new = [level2var EXCEPT ![l] = w, ![l + 1] = v]
  BY DEF Exchanged
<1> HIDE DEF l, w, new
<1>5. /\ new \in [0..varnum -> 0..varnum] /\ new[l] = w /\ new[l + 1] = v
      /\ \A k \in 0..varnum : k # l /\ k # l + 1 => new[k] = level2var[k]
  BY <1>1, <1>2, <1>3, <1>4
<1>6. new[varnum] = varnum
  <2>1. varnum \in 0..varnum /\ varnum # l /\ varnum # l + 1
    BY <1>1, <1>2 DEF Variable
  <2> QED
    BY <2>1, <1>1, <1>5
<1>7. \A x \in 0..varnum : \E k \in 0..varnum : new[k] = x
  <2> SUFFICES ASSUME NEW x \in 0..varnum PROVE \E k \in 0..varnum : new[k] = x
    OBVIOUS
  <2>1. PICK k \in 0..varnum : level2var[k] = x
    BY DEF IsOrder
  <2>2. CASE k = l
    BY <2>1, <2>2, <1>2, <1>5
  <2>3. CASE k = l + 1
    BY <2>1, <2>3, <1>2, <1>5 DEF w
  <2>4. CASE k # l /\ k # l + 1
    BY <2>1, <2>4, <1>5
  <2> QED
    BY <2>2, <2>3, <2>4
<1>8. \A j, k \in 0..varnum : new[j] = new[k] => j = k
  <2> SUFFICES ASSUME NEW j \in 0..varnum, NEW k \in 0..varnum, new[j] = new[k] PROVE j = k
    OBVIOUS
  <2> DEFINE old(i) == IF i = l THEN l + 1 ELSE IF i = l + 1 THEN l ELSE i
  <2>1. \A i \in 0..varnum : old(i) \in 0..varnum /\ new[i] = level2var[old(i)]
    BY <1>2, <1>5 DEF w
  <2>2. old(j) = old(k)
    <3>1. /\ old(j) \in 0..varnum /\ new[j] = level2var[old(j)]
          /\ old(k) \in 0..varnum /\ new[k] = level2var[old(k)]
      BY <2>1
    <3>2. \A a, b \in 0..varnum : level2var[a] = level2var[b] => a = b
      BY DEF IsOrder
    <3>3. level2var[old(j)] = level2var[old(k)]
      BY <3>1
    <3> HIDE DEF old
    <3> QED
      BY <3>1, <3>2, <3>3
  <2> QED
    BY <2>2, <1>2
<1>9. IsOrder(new, varnum)
  BY <1>1, <1>5, <1>6, <1>7, <1>8 DEF IsOrder
<1> QED
  BY <1>9 DEF new

(* Independent variables: no node is touched.                              *)
LEMMA IndependentStep ==
  ASSUME Inv, NEW v \in Variable, ExchangeIndependent(v)
  PROVE  Inv'
<1>1. Shape /\ Records /\ Counts
  BY DEF Inv
<1>2. /\ Var2Level(v) < varnum - 1 /\ level2var' = Exchanged(v) /\ phase = "ready"
      /\ size' = size /\ node' = node /\ free' = free /\ held' = held /\ varnum' = varnum
      /\ phase' = phase /\ extroots' = extroots /\ iactmtx' = iactmtx /\ pending' = pending
      /\ upper' = upper /\ errorcond' = errorcond /\ resized' = resized /\ lost' = lost
  BY DEF ExchangeIndependent, Exchange
<1>3. Slots' = Slots /\ Variable' = Variable /\ Taken' = Taken
  BY <1>2 DEF Slots, Variable, Taken, FreeSet
<1>4. Shape'
  BY <1>1, <1>2, ExchangedOrder DEF Shape
<1>5. Records'
  BY <1>1, <1>2, <1>3 DEF Records
<1>6. Counts'
  BY <1>1, <1>2, <1>3 DEF Counts
<1> QED
  BY <1>4, <1>5, <1>6 DEF Inv

(* The nodes of the upper variable wait to be rewritten.                   *)
LEMMA DownSimpleStep ==
  ASSUME Inv, NEW v \in Variable, DownSimple(v)
  PROVE  Inv'
<1>1. Shape /\ Records /\ Counts
  BY DEF Inv
<1>2. /\ Var2Level(v) < varnum - 1 /\ level2var' = level2var /\ phase = "ready" /\ phase' = "swap"
      /\ size' = size /\ node' = node /\ free' = free /\ held' = held /\ varnum' = varnum
      /\ extroots' = extroots /\ iactmtx' = iactmtx /\ pending' = Dependent(v)
      /\ upper' = v /\ errorcond' = errorcond /\ resized' = FALSE /\ lost' = lost
  BY DEF DownSimple
<1>3. Slots' = Slots /\ Variable' = Variable /\ Taken' = Taken
  BY <1>2 DEF Slots, Variable, Taken, FreeSet
<1>4. Shape'
  BY <1>1, <1>2 DEF Shape
<1>5. Records'
  <2>1. upper' \in 0..(MaxVars - 1)
    <3>1. varnum \in 1..MaxVars /\ MaxVars \in Nat /\ varnum \in Nat
      BY <1>1, SlotFacts
    <3> QED
      BY <3>1, <1>2 DEF Variable
  <2>2. upper' \in Variable' /\ Var2Level(upper)' < varnum' - 1
    BY <1>2, <1>3 DEF Var2Level
  <2>3. pending' \subseteq Taken'
    BY <1>2, <1>3 DEF Dependent
  <2>4. resized' \in BOOLEAN
    BY <1>2, Zenon
  <2> QED
    BY <2>1, <2>2, <2>3, <2>4, <1>1, <1>2, <1>3 DEF Records
<1>6. Counts'
  BY <1>1, <1>2, <1>3 DEF Counts
<1> QED
  BY <1>4, <1>5, <1>6 DEF Inv

(* bdd_delref.                                                             *)
LEMMA ReleaseStep ==
  ASSUME Inv, NEW n \in Slots, Release(n)
  PROVE  Inv'
<1>1. Shape /\ Records /\ Counts
  BY DEF Inv
<1>2. /\ phase = "idle" /\ held[n] > 0 /\ held' = [held EXCEPT ![n] = held[n] - 1]
      /\ node' = [node EXCEPT ![n].refcou = Decref(@, 1)] /\ level2var' = level2var
      /\ size' = size /\ free' = free /\ varnum' = varnum
      /\ phase' = phase /\ extroots' = extroots /\ iactmtx' = iactmtx /\ pending' = pending
      /\ upper' = upper /\ errorcond' = errorcond /\ resized' = resized /\ lost' = lost
  BY DEF Release, Called, Idle
<1>3. Slots' = Slots /\ Variable' = Variable /\ Taken' = Taken
  BY <1>2 DEF Slots, Variable, Taken, FreeSet
<1>4. /\ node \in [0..(size - 1) -> NodeOf(size)] /\ Terminal \cap Slots = {} /\ size \in Nat /\ size > 2
      /\ Terminal \cup Slots = 0..(size - 1) /\ Taken = TakenOf(size, free) /\ Taken \subseteq Slots
      /\ (\A x \in FreeSet : node[x].refcou = 0) /\ FreeSet \subseteq Slots
  BY <1>1, SlotFacts
<1>5. n \in 0..(size - 1) /\ n \notin Terminal /\ held \in [0..(size - 1) -> Nat] /\ held[n] \in Nat
  BY <1>1, <1>4 DEF Counts
<1>6. node' = CountDown(node, n)
  BY <1>2, <1>5 DEF CountDown
<1>7. /\ node' \in [0..(size - 1) -> NodeOf(size)]
      /\ \A x \in 0..(size - 1) : SameRow(node, node', x) /\ (x # n => node'[x] = node[x])
      /\ \A x \in 0..(size - 1) : node[x].refcou = 0 => node'[x].refcou = 0
  BY <1>4, <1>5, <1>6, CountDownSound
<1>8. \A x \in Terminal \cup TakenOf(size, free) : SameRow(node, node', x)
  BY <1>4, <1>7
<1>9. \A x \in ToSet(free) : node'[x].refcou = 0
  BY <1>4, <1>7 DEF FreeSet
<1>10. SoundTable(size, node', free, varnum)
  BY <1>1, <1>7, <1>8, <1>9, SoundRows DEF Shape
<1>11. Acyclic(size, node', free)
  <2>1. PICK rank : IsRank(size, node, free, rank)
    BY <1>1 DEF Shape, Acyclic
  <2>2. IsRank(size, node', free, rank)
    BY <2>1, <1>8 DEF IsRank, SameRow
  <2> QED
    BY <2>2 DEF Acyclic
<1>12. Shape'
  BY <1>1, <1>2, <1>10, <1>11 DEF Shape
<1>13. Records'
  BY <1>1, <1>2, <1>3 DEF Records
<1>14. Counts'
  <2>1. held' \in [0..(size - 1) -> Nat] /\ held'[n] = held[n] - 1
        /\ \A x \in 0..(size - 1) : x # n => held'[x] = held[x]
    BY <1>2, <1>5
  <2>2. Covers(node'[n].refcou, held[n] - 1)
    <3>1. node[n] \in NodeOf(size) /\ node[n].refcou \in 0..MaxRef
      BY <1>4, <1>5 DEF NodeOf
    <3>2. Covers(node[n].refcou, (held[n] - 1) + 1) /\ held[n] - 1 \in Nat
      <4>1. (held[n] - 1) + 1 = held[n] /\ held[n] - 1 \in Nat
        BY <1>2, <1>5
      <4>2. Covers(node[n].refcou, held[n])
        BY <1>1, <1>2 DEF Counts
      <4> QED
        BY <4>1, <4>2
    <3>3. Covers(Decref(node[n].refcou, 1), held[n] - 1)
      <4> DEFINE c == node[n].refcou
                 k == held[n] - 1
      <4>1. c \in 0..MaxRef /\ k \in Nat /\ Covers(c, k + 1) /\ 1 \in Nat
        BY <3>1, <3>2
      <4> HIDE DEF c, k
      <4>2. Covers(c, k + 1) => Covers(Decref(c, 1), k)
        BY <4>1, Counting
      <4> QED
        BY <4>1, <4>2 DEF c, k
    <3>4. node'[n].refcou = Decref(node[n].refcou, 1)
      BY <1>2, <1>4, <1>5, <3>1 DEF NodeOf
    <3> QED
      BY <3>3, <3>4
  <2>3. \A x \in Slots : Covers(node'[x].refcou, held'[x])
    <3> SUFFICES ASSUME NEW x \in Slots PROVE Covers(node'[x].refcou, held'[x])
      OBVIOUS
    <3>1. CASE x = n
      BY <3>1, <2>1, <2>2
    <3>2. CASE x # n
      <4>1. node'[x] = node[x] /\ held'[x] = held[x]
        BY <3>2, <2>1, <1>4, <1>7
      <4> QED
        BY <4>1, <1>1, <1>2 DEF Counts
    <3> QED
      BY <3>1, <3>2
  <2> QED
    BY <2>1, <2>3, <1>1, <1>2, <1>3 DEF Counts
<1> QED
  BY <1>12, <1>13, <1>14 DEF Inv

-----------------------------------------------------------------------------
(* New nodes.                                                              *)

(* Nodes made in free slots over nodes in use close no cycle.              *)
LEMMA AcyclicNew ==
  ASSUME NEW s, NEW nd, NEW fr, NEW num, SoundTable(s, nd, fr, num), Acyclic(s, nd, fr),
         NEW R \in SUBSET ToSet(fr), NEW new, NEW fr2,
         \A x \in TakenOf(s, fr) : new[x].low = nd[x].low /\ new[x].high = nd[x].high,
         \A x \in R : new[x].low \in Terminal \cup TakenOf(s, fr)
                      /\ new[x].high \in Terminal \cup TakenOf(s, fr),
         TakenOf(s, fr2) \subseteq TakenOf(s, fr) \cup R
  PROVE  Acyclic(s, new, fr2)
<1> DEFINE T == TakenOf(s, fr)
<1>1. PICK rank : IsRank(s, nd, fr, rank)
  BY DEF Acyclic
<1>2. rank \in [0..(s - 1) -> Nat] /\ \A n \in T : rank[nd[n].low] < rank[n] /\ rank[nd[n].high] < rank[n]
  BY <1>1 DEF IsRank
<1>3. /\ T \subseteq 0..(s - 1) /\ Terminal \subseteq 0..(s - 1) /\ Terminal \cap T = {}
      /\ ToSet(fr) \cap T = {} /\ ToSet(fr) \subseteq 0..(s - 1) /\ ToSet(fr) \cap Terminal = {}
  BY TakenFacts DEF Terminal, FALSEBDD, TRUEBDD
<1>4. \A x \in T : nd[x].low \in Terminal \cup T /\ nd[x].high \in Terminal \cup T
  BY DEF SoundTable
<1> DEFINE up == [x \in 0..(s - 1) |-> IF x \in R THEN rank[new[x].low] + rank[new[x].high] + 1 ELSE rank[x]]
<1>5. \A x \in R : /\ new[x].low \in 0..(s - 1) /\ new[x].high \in 0..(s - 1)
                   /\ new[x].low \notin R /\ new[x].high \notin R
                   /\ rank[new[x].low] \in Nat /\ rank[new[x].high] \in Nat
  <2>1. \A x \in R : /\ new[x].low \in 0..(s - 1) /\ new[x].high \in 0..(s - 1)
                     /\ new[x].low \notin R /\ new[x].high \notin R
    BY <1>3
  <2> QED
    BY <2>1, <1>2
<1>6. up \in [0..(s - 1) -> Nat]
  <2>1. \A x \in R : rank[new[x].low] + rank[new[x].high] + 1 \in Nat
    BY <1>5
  <2>2. \A x \in 0..(s - 1) : rank[x] \in Nat
    BY <1>2
  <2> QED
    BY <2>1, <2>2
<1>7. \A x \in 0..(s - 1) : up[x] = IF x \in R THEN rank[new[x].low] + rank[new[x].high] + 1 ELSE rank[x]
  OBVIOUS
<1> HIDE DEF up
<1>8. \A x \in Terminal \cup T : up[x] = rank[x] /\ x \notin R
  BY <1>3, <1>7
<1>9. ASSUME NEW n \in TakenOf(s, fr2) PROVE up[new[n].low] < up[n] /\ up[new[n].high] < up[n]
  <2>1. CASE n \in T
    <3>1. up[n] = rank[n] /\ up[nd[n].low] = rank[nd[n].low] /\ up[nd[n].high] = rank[nd[n].high]
      BY <2>1, <1>4, <1>8
    <3> QED
      BY <3>1, <2>1, <1>2
  <2>2. CASE n \in R
    <3>1. up[new[n].low] = rank[new[n].low] /\ up[new[n].high] = rank[new[n].high]
      BY <2>2, <1>8
    <3>2. up[n] = rank[new[n].low] + rank[new[n].high] + 1
      BY <2>2, <1>3, <1>7
    <3> QED
      BY <3>1, <3>2, <2>2, <1>5
  <2> QED
    BY <2>1, <2>2
<1>10. IsRank(s, new, fr2, up)
  BY <1>6, <1>9 DEF IsRank
<1> QED
  BY <1>10 DEF Acyclic

(* bdd_extvarnum(1).                                                       *)
LEMMA AddVariableStep ==
  ASSUME Inv, AddVariable
  PROVE  Inv'
<1>1. Shape /\ Records /\ Counts
  BY DEF Inv
<1> DEFINE pos == free[1]
           neg == free[2]
           posrow == [refcou |-> MaxRef, level |-> varnum, low |-> FALSEBDD, high |-> TRUEBDD]
           negrow == [refcou |-> MaxRef, level |-> varnum, low |-> TRUEBDD, high |-> FALSEBDD]
           v == varnum + 1
<1>2. /\ phase = "idle" /\ varnum < MaxVars /\ Len(free) >= 2
      /\ node' = [node EXCEPT ![pos] = posrow, ![neg] = negrow,
                              ![FALSEBDD].level = v, ![TRUEBDD].level = v]
      /\ free' = Tail(Tail(free)) /\ varnum' = v
      /\ level2var' = [l \in 0..(varnum + 1) |-> IF l < varnum THEN level2var[l] ELSE l]
      /\ size' = size /\ held' = held
      /\ phase' = phase /\ extroots' = extroots /\ iactmtx' = iactmtx /\ pending' = pending
      /\ upper' = upper /\ errorcond' = errorcond /\ resized' = resized /\ lost' = lost
  BY DEF AddVariable, Called, Idle
<1>3. /\ node \in [0..(size - 1) -> NodeOf(size)] /\ Terminal \cap Slots = {} /\ size \in Nat /\ size > 2
      /\ Terminal \cup Slots = 0..(size - 1) /\ Taken = TakenOf(size, free) /\ Taken \subseteq Slots
      /\ FreeSet \cap Taken = {} /\ FreeSet \subseteq Slots /\ Slots = Taken \cup FreeSet
      /\ (\A x \in FreeSet : node[x].refcou = 0)
      /\ (\A n \in Taken : /\ node[n].low \in Terminal \cup Taken
                           /\ node[n].high \in Terminal \cup Taken
                           /\ node[n].level \in Variable)
      /\ \A n \in Terminal : node[n].low = n /\ node[n].high = n
  BY <1>1, SlotFacts
<1>4. varnum \in Nat /\ varnum \in 1..MaxVars /\ MaxVars \in Nat /\ v \in 1..MaxVars /\ v \in 0..MaxVars
      /\ varnum \in FirstVars..MaxVars /\ FirstVars \in Nat /\ v \in FirstVars..MaxVars
      /\ varnum \in 0..MaxVars
  BY <1>1, <1>2, SlotFacts, ReorderVars DEF Shape
<1>5. /\ pos \in FreeSet /\ neg \in FreeSet /\ pos # neg
      /\ Distinct(2..(size - 1), free') /\ ToSet(free') = FreeSet \ {pos, neg}
  <2>1. Distinct(2..(size - 1), free)
    BY <1>1 DEF Shape, SoundTable
  <2>2. free \in Seq(2..(size - 1)) /\ free # << >> /\ Len(free) \in Nat
    BY <1>2, <2>1 DEF Distinct
  <2>3. /\ Distinct(2..(size - 1), Tail(free)) /\ Head(free) \in ToSet(free) /\ Head(free) = pos
        /\ ToSet(Tail(free)) = ToSet(free) \ {Head(free)}
    BY <2>1, <2>2, DistinctTail
  <2>4. /\ Tail(free) \in Seq(2..(size - 1)) /\ Len(Tail(free)) = Len(free) - 1
        /\ Tail(free) # << >> /\ Tail(free)[1] = neg
    <3>1. Tail(free) \in Seq(2..(size - 1)) /\ Len(Tail(free)) = Len(free) - 1
          /\ \A i \in 1..(Len(free) - 1) : Tail(free)[i] = free[i + 1]
      BY <2>2, HeadTailProperties
    <3>2. 1 \in 1..(Len(free) - 1) /\ 1 + 1 = 2
      BY <1>2, <2>2
    <3>3. Len(Tail(free)) # 0
      BY <3>1, <1>2, <2>2
    <3>4. Tail(free) # << >>
      BY <3>1, <3>3, EmptySeq
    <3>5. Tail(free)[1] = free[1 + 1]
      BY <3>1, <3>2
    <3>6. free[1 + 1] = neg
      BY <3>2
    <3> QED
      BY <3>1, <3>4, <3>5, <3>6
  <2>5. /\ Distinct(2..(size - 1), Tail(Tail(free))) /\ Head(Tail(free)) \in ToSet(Tail(free))
        /\ Head(Tail(free)) = neg
        /\ ToSet(Tail(Tail(free))) = ToSet(Tail(free)) \ {Head(Tail(free))}
    BY <2>3, <2>4, DistinctTail
  <2> QED
    BY <2>3, <2>5, <1>2 DEF FreeSet
<1> HIDE DEF pos, neg, v
<1>6. posrow \in NodeOf(size) /\ negrow \in NodeOf(size)
  <2>1. MaxRef \in 0..MaxRef /\ varnum \in 0..MaxVars /\ FALSEBDD \in 0..(size - 1)
        /\ TRUEBDD \in 0..(size - 1) /\ FALSEBDD \in -1..(size - 1) /\ TRUEBDD \in -1..(size - 1)
    BY <1>3, <1>4, ReorderLimits DEF FALSEBDD, TRUEBDD
  <2> QED
    BY <2>1 DEF NodeOf
<1>7. pos \in 0..(size - 1) /\ neg \in 0..(size - 1) /\ pos \notin Terminal /\ neg \notin Terminal
      /\ pos # FALSEBDD /\ pos # TRUEBDD /\ neg # FALSEBDD /\ neg # TRUEBDD
      /\ FALSEBDD \in 0..(size - 1) /\ TRUEBDD \in 0..(size - 1) /\ FALSEBDD # TRUEBDD
  BY <1>3, <1>5 DEF Terminal, FALSEBDD, TRUEBDD
<1>8. /\ node' = [n \in 0..(size - 1) |-> IF n = pos THEN posrow ELSE IF n = neg THEN negrow
                                          ELSE IF n \in Terminal THEN [node[n] EXCEPT !.level = v]
                                          ELSE node[n]]
  <2> DEFINE first == [node EXCEPT ![pos] = posrow, ![neg] = negrow]
  <2>1. first = [n \in 0..(size - 1) |-> IF n = pos THEN posrow ELSE IF n = neg THEN negrow ELSE node[n]]
    BY <1>3, <1>5, <1>7
  <2>2. node' = [first EXCEPT ![FALSEBDD].level = v, ![TRUEBDD].level = v]
    BY <1>2
  <2> HIDE DEF first, posrow, negrow
  <2>3. node' = [first EXCEPT ![FALSEBDD] = [first[FALSEBDD] EXCEPT !.level = v],
                              ![TRUEBDD] = [first[TRUEBDD] EXCEPT !.level = v]]
    BY <2>1, <2>2, <1>7
  <2>4. first[FALSEBDD] = node[FALSEBDD] /\ first[TRUEBDD] = node[TRUEBDD]
    BY <2>1, <1>7
  <2>5. node' = [first EXCEPT ![FALSEBDD] = [node[FALSEBDD] EXCEPT !.level = v],
                              ![TRUEBDD] = [node[TRUEBDD] EXCEPT !.level = v]]
    BY <2>3, <2>4
  <2>6. DOMAIN node' = 0..(size - 1) /\ node' = [n \in DOMAIN node' |-> node'[n]]
    BY <2>1, <2>5
  <2>7. ASSUME NEW n \in 0..(size - 1)
        PROVE  node'[n] = IF n = pos THEN posrow ELSE IF n = neg THEN negrow
                          ELSE IF n \in Terminal THEN [node[n] EXCEPT !.level = v] ELSE node[n]
    <3>1. CASE n \in Terminal
      <4>1. n = FALSEBDD \/ n = TRUEBDD
        BY <3>1 DEF Terminal
      <4>2. node'[FALSEBDD] = [node[FALSEBDD] EXCEPT !.level = v]
            /\ node'[TRUEBDD] = [node[TRUEBDD] EXCEPT !.level = v]
        BY <2>1, <2>5, <1>7
      <4> QED
        BY <4>1, <4>2, <3>1, <1>7
    <3>2. CASE n \notin Terminal
      <4>1. node'[n] = first[n]
        BY <3>2, <2>1, <2>5 DEF Terminal
      <4> QED
        BY <4>1, <3>2, <2>1
    <3> QED
      BY <3>1, <3>2
  <2> QED
    BY <2>6, <2>7
<1>9. /\ node'[pos] = posrow /\ node'[neg] = negrow
      /\ \A n \in Terminal : node'[n] = [node[n] EXCEPT !.level = v]
      /\ \A n \in Slots : n # pos /\ n # neg => node'[n] = node[n]
  <2>1. \A n \in Terminal : n \in 0..(size - 1) /\ n # pos /\ n # neg
    BY <1>3, <1>7
  <2>2. \A n \in Slots : n \in 0..(size - 1) /\ n \notin Terminal
    BY <1>3
  <2> QED
    BY <2>1, <2>2, <1>5, <1>7, <1>8
<1>10. \A n \in Terminal : /\ node'[n] \in NodeOf(size) /\ node'[n].low = n /\ node'[n].high = n
                           /\ node'[n].level = v
  <2> SUFFICES ASSUME NEW n \in Terminal
               PROVE  /\ node'[n] \in NodeOf(size) /\ node'[n].low = n /\ node'[n].high = n
                      /\ node'[n].level = v
    OBVIOUS
  <2>1. node[n] \in NodeOf(size) /\ node[n].low = n /\ node[n].high = n
    BY <1>3
  <2>2. node'[n] = [node[n] EXCEPT !.level = v]
    BY <1>9
  <2>3. [node[n] EXCEPT !.level = v] \in NodeOf(size)
    BY <2>1, <1>4 DEF NodeOf
  <2> QED
    BY <2>1, <2>2, <2>3 DEF NodeOf
<1>11. node' \in [0..(size - 1) -> NodeOf(size)]
  <2>1. \A n \in 0..(size - 1) : node'[n] \in NodeOf(size)
    <3> SUFFICES ASSUME NEW n \in 0..(size - 1) PROVE node'[n] \in NodeOf(size)
      OBVIOUS
    <3>1. CASE n \in Terminal
      BY <3>1, <1>10
    <3>2. CASE n \in Slots
      BY <3>2, <1>3, <1>6, <1>9
    <3> QED
      BY <3>1, <3>2, <1>3
  <2> QED
    BY <2>1, <1>8
<1>12. TakenOf(size, free') = Taken \cup {pos, neg}
  BY <1>3, <1>5 DEF TakenOf, Slots
<1>13. \A n \in Taken : node'[n] = node[n] /\ n # pos /\ n # neg
  BY <1>3, <1>5, <1>9
<1>14. SoundTable(size, node', free', v)
  <2>1. \A n \in Taken \cup {pos, neg} : /\ node'[n].low \in Terminal \cup Taken \cup {pos, neg}
                                         /\ node'[n].high \in Terminal \cup Taken \cup {pos, neg}
                                         /\ node'[n].level \in 0..(v - 1)
    <3>1. \A n \in Taken : /\ node'[n].low \in Terminal \cup Taken
                           /\ node'[n].high \in Terminal \cup Taken
                           /\ node'[n].level \in 0..(v - 1)
      <4>1. Variable \subseteq 0..(v - 1)
        BY <1>4 DEF Variable, v
      <4> QED
        BY <4>1, <1>3, <1>13
    <3>2. varnum \in 0..(v - 1)
      BY <1>4 DEF v
    <3>3. /\ node'[pos].low \in Terminal /\ node'[pos].high \in Terminal /\ node'[pos].level = varnum
          /\ node'[neg].low \in Terminal /\ node'[neg].high \in Terminal /\ node'[neg].level = varnum
      BY <1>9 DEF Terminal
    <3> QED
      BY <3>1, <3>2, <3>3
  <2>2. \A n \in ToSet(free') : node'[n].refcou = 0
    BY <1>3, <1>5, <1>9
  <2>3. size >= InitSize /\ IsPrime(size)
    BY <1>1 DEF Shape, SoundTable
  <2> QED
    BY <2>1, <2>2, <2>3, <1>3, <1>5, <1>10, <1>11, <1>12 DEF SoundTable
<1>15. Acyclic(size, node', free')
  <2>1. {pos, neg} \in SUBSET ToSet(free)
    BY <1>5 DEF FreeSet
  <2>2. \A x \in {pos, neg} : node'[x].low \in Terminal \cup TakenOf(size, free)
                              /\ node'[x].high \in Terminal \cup TakenOf(size, free)
    BY <1>9 DEF Terminal
  <2>3. \A x \in TakenOf(size, free) : node'[x].low = node[x].low /\ node'[x].high = node[x].high
    BY <1>3, <1>13
  <2>4. TakenOf(size, free') \subseteq TakenOf(size, free) \cup {pos, neg}
    BY <1>3, <1>12
  <2>5. SoundTable(size, node, free, varnum) /\ Acyclic(size, node, free)
    BY <1>1 DEF Shape
  <2> QED
    BY <2>1, <2>2, <2>3, <2>4, <2>5, AcyclicNew
<1>16. IsOrder(level2var', v)
  <2>1. /\ level2var \in [0..varnum -> 0..varnum] /\ level2var[varnum] = varnum
        /\ (\A k, l \in 0..varnum : level2var[k] = level2var[l] => k = l)
        /\ (\A x \in 0..varnum : \E l \in 0..varnum : level2var[l] = x)
    BY <1>1 DEF Shape, IsOrder
  <2>2. /\ level2var' \in [0..v -> 0..v] /\ level2var'[v] = v
        /\ \A l \in 0..varnum : level2var'[l] = level2var[l]
    <3>1. level2var' = [l \in 0..v |-> IF l < varnum THEN level2var[l] ELSE l]
      BY <1>2 DEF v
    <3>2. \A l \in 0..varnum : l \in 0..v /\ l # v /\ (l < varnum \/ l = varnum) /\ v \in 0..v /\ ~ (v < varnum)
      BY <1>4 DEF v
    <3>3. \A l \in 0..v : l = v \/ l \in 0..varnum
      BY <1>4 DEF v
    <3> HIDE DEF v
    <3>4. \A l \in 0..varnum : level2var'[l] = level2var[l]
      <4> SUFFICES ASSUME NEW l \in 0..varnum PROVE level2var'[l] = level2var[l]
        OBVIOUS
      <4>1. level2var'[l] = IF l < varnum THEN level2var[l] ELSE l
        BY <3>1, <3>2
      <4>2. CASE l < varnum
        BY <4>1, <4>2
      <4>3. CASE l = varnum
        <5>1. ~ (l < varnum)
          BY <4>3, <1>4
        <5> QED
          BY <4>1, <4>3, <5>1, <2>1
      <4> QED
        BY <4>2, <4>3, <3>2
    <3>5. v \in 0..v /\ level2var'[v] = v
      <4>1. varnum \in 0..varnum
        BY <1>4
      <4>2. v \in 0..v /\ ~ (v < varnum)
        BY <3>2, <4>1
      <4> QED
        BY <3>1, <4>2
    <3>6. \A l \in 0..v : level2var'[l] \in 0..v
      BY <3>2, <3>3, <3>4, <3>5, <2>1
    <3>7. level2var' \in [0..v -> 0..v]
      BY <3>1, <3>6
    <3> QED
      BY <3>4, <3>5, <3>7
  <2>3. \A l \in 0..v : l = v \/ l \in 0..varnum
    BY <1>4 DEF v
  <2>4. \A l \in 0..varnum : l \in 0..v /\ l # v
    BY <1>4 DEF v
  <2>5. \A l \in 0..varnum : level2var'[l] \in 0..varnum
    BY <2>1, <2>2
  <2>6. \A x \in 0..v : \E l \in 0..v : level2var'[l] = x
    BY <2>1, <2>2, <2>3, <2>4
  <2>7. \A k, l \in 0..v : level2var'[k] = level2var'[l] => k = l
    BY <2>1, <2>2, <2>3, <2>4, <2>5
  <2>8. v \in Nat
    BY <1>4
  <2> QED
    BY <2>2, <2>6, <2>7, <2>8 DEF IsOrder
<1>17. Shape'
  BY <1>2, <1>4, <1>14, <1>15, <1>16 DEF Shape
<1>18. Slots' = Slots /\ Variable \subseteq Variable'
  BY <1>2, <1>4 DEF Slots, Variable, v
<1>19. Records'
  <2>1. pending = {}
    BY <1>1, <1>2 DEF Records
  <2>2. pending' \subseteq Taken' /\ iactmtx' \subseteq Variable' \X Variable'
    BY <2>1, <1>1, <1>2, <1>18 DEF Records
  <2> QED
    BY <2>1, <2>2, <1>1, <1>2 DEF Records
<1>20. Counts'
  <2>1. \A n \in Slots : Covers(node'[n].refcou, held[n])
    <3>1. node'[pos].refcou = MaxRef /\ node'[neg].refcou = MaxRef
      BY <1>9
    <3>2. \A n \in Slots : Covers(node[n].refcou, held[n])
      BY <1>1, <1>2 DEF Counts
    <3> QED
      BY <3>1, <3>2, <1>9 DEF Covers
  <2> QED
    BY <2>1, <1>1, <1>2, <1>18 DEF Counts
<1> QED
  BY <1>17, <1>19, <1>20 DEF Inv

(* What the program can name is in use.                                    *)
LEMMA KnownTaken ==
  ASSUME Shape, Counts, phase = "idle"
  PROVE  Known \subseteq Terminal \cup Taken
<1>1. \A n \in {m \in Slots : held[m] > 0} \cup Counted : n \in Counted
  BY HeldCounted
<1>2. Counted \in SUBSET Taken
  BY CountedTaken
<1>3. Reach(Counted) \subseteq Taken
  BY <1>2, ReachClosed
<1>4. Known \subseteq Terminal \cup Reach(Counted)
  BY <1>1 DEF Known, Reach
<1> QED
  BY <1>3, <1>4

(* bdd_addref of the result of bdd_makenode.                               *)
LEMMA BuildStep ==
  ASSUME Inv, NEW l \in Variable, NEW lo \in Known, NEW hi \in Known, Build(l, lo, hi)
  PROVE  Inv'
<1>1. Shape /\ Records /\ Counts
  BY DEF Inv
<1> DEFINE found == {n \in Taken : node[n].level = l /\ node[n].low = lo /\ node[n].high = hi}
           r == Head(free)
           filled == [node EXCEPT ![r] = [@ EXCEPT !.level = l, !.low = lo, !.high = hi]]
<1>2. /\ phase = "idle" /\ level2var' = level2var /\ size' = size /\ varnum' = varnum
      /\ phase' = phase /\ extroots' = extroots /\ iactmtx' = iactmtx /\ pending' = pending
      /\ upper' = upper /\ errorcond' = errorcond /\ resized' = resized /\ lost' = lost
  BY DEF Build, Called, Idle
<1>3. \/ free' = free /\ \E n \in found : Hold(n, node)
      \/ free # << >> /\ Hold(r, filled) /\ free' = Tail(free)
  BY DEF Build
<1>4. /\ node \in [0..(size - 1) -> NodeOf(size)] /\ Terminal \cap Slots = {} /\ size \in Nat /\ size > 2
      /\ Terminal \cup Slots = 0..(size - 1) /\ Taken = TakenOf(size, free) /\ Taken \subseteq Slots
      /\ FreeSet \cap Taken = {} /\ FreeSet \subseteq Slots /\ Slots = Taken \cup FreeSet
      /\ (\A x \in FreeSet : node[x].refcou = 0)
      /\ (\A n \in Taken : /\ node[n].low \in Terminal \cup Taken
                           /\ node[n].high \in Terminal \cup Taken
                           /\ node[n].level \in Variable)
      /\ \A n \in Terminal : node[n].low = n /\ node[n].high = n /\ node[n].level = varnum
  BY <1>1, SlotFacts
<1>5. held \in [0..(size - 1) -> Nat] /\ extroots \subseteq Slots
      /\ \A n \in Slots : Covers(node[n].refcou, held[n])
  BY <1>1, <1>2 DEF Counts
<1>6. lo \in Terminal \cup Taken /\ hi \in Terminal \cup Taken
  BY <1>1, <1>2, KnownTaken
<1>7. ASSUME NEW n \in Slots, NEW nodes \in [0..(size - 1) -> NodeOf(size)],
             \A x \in Slots : nodes[x].refcou = node[x].refcou, Hold(n, nodes)
      PROVE  /\ node' \in [0..(size - 1) -> NodeOf(size)]
             /\ \A x \in 0..(size - 1) : SameRow(nodes, node', x) /\ (x # n => node'[x] = nodes[x])
             /\ held' \in [0..(size - 1) -> Nat]
             /\ \A x \in Slots : Covers(node'[x].refcou, held'[x])
  <2>1. n \notin Terminal /\ n \in 0..(size - 1)
    BY <1>4
  <2>2. node' = CountUp(nodes, n)
    BY <1>7, <2>1 DEF Hold, CountUp
  <2>3. /\ node' \in [0..(size - 1) -> NodeOf(size)]
        /\ \A x \in 0..(size - 1) : SameRow(nodes, node', x) /\ (x # n => node'[x] = nodes[x])
    BY <2>1, <2>2, <1>4, CountUpSound
  <2>4. held' \in [0..(size - 1) -> Nat] /\ held'[n] = held[n] + 1
        /\ \A x \in 0..(size - 1) : x # n => held'[x] = held[x]
    BY <2>1, <1>5, <1>7 DEF Hold
  <2>5. ASSUME NEW x \in Slots PROVE Covers(node'[x].refcou, held'[x])
    <3>1. x \in 0..(size - 1) /\ held[x] \in Nat /\ Covers(nodes[x].refcou, held[x])
          /\ nodes[x] \in NodeOf(size) /\ nodes[x].refcou \in 0..MaxRef
      <4>1. x \in 0..(size - 1)
        BY <1>4
      <4>2. nodes[x] \in NodeOf(size)
        BY <4>1, <1>7
      <4> QED
        BY <4>1, <4>2, <1>5, <1>7 DEF NodeOf
    <3>2. CASE x = n
      <4>1. Covers(Incref(nodes[x].refcou, 1), held[x] + 1)
        BY <3>1, Counting
      <4>2. node'[x].refcou = Incref(nodes[x].refcou, 1)
        BY <3>1, <3>2, <1>7 DEF Hold, NodeOf
      <4> QED
        BY <4>1, <4>2, <3>2, <2>4
    <3>3. CASE x # n
      BY <3>1, <3>3, <2>3, <2>4
    <3> QED
      BY <3>2, <3>3
  <2> QED
    BY <2>3, <2>4, <2>5
<1>8. ASSUME SoundTable(size, node', free', varnum), Acyclic(size, node', free'),
             held' \in [0..(size - 1) -> Nat],
             \A x \in Slots : Covers(node'[x].refcou, held'[x])
      PROVE  Inv'
  <2>1. Slots' = Slots /\ Variable' = Variable
    BY <1>2 DEF Slots, Variable
  <2>2. Shape'
    BY <1>1, <1>2, <1>8 DEF Shape
  <2>3. Records'
    <3>1. pending = {}
      BY <1>1, <1>2 DEF Records
    <3>2. pending' \subseteq Taken'
      BY <3>1, <1>2
    <3>3. Var2Level(upper)' = Var2Level(upper)
      BY <1>2 DEF Var2Level
    <3> QED
      BY <3>1, <3>2, <3>3, <2>1, <1>1, <1>2 DEF Records
  <2>4. Counts'
    BY <2>1, <1>2, <1>5, <1>8 DEF Counts
  <2> QED
    BY <2>2, <2>3, <2>4 DEF Inv
<1> HIDE DEF r, filled
<1>9. CASE free' = free /\ \E n \in found : Hold(n, node)
  <2>1. PICK n \in found : Hold(n, node)
    BY <1>9
  <2>2. n \in Slots
    BY <1>4
  <2>3. /\ node' \in [0..(size - 1) -> NodeOf(size)]
        /\ \A x \in 0..(size - 1) : SameRow(node, node', x) /\ (x # n => node'[x] = node[x])
        /\ held' \in [0..(size - 1) -> Nat]
        /\ \A x \in Slots : Covers(node'[x].refcou, held'[x])
    BY <2>1, <2>2, <1>4, <1>7
  <2>4. \A x \in Terminal \cup TakenOf(size, free) : SameRow(node, node', x)
    BY <1>4, <2>3
  <2>5. \A x \in ToSet(free) : node'[x].refcou = 0
    <3>1. n \notin FreeSet
      BY <1>4
    <3> QED
      BY <3>1, <2>3, <1>4 DEF FreeSet
  <2>6. SoundTable(size, node', free, varnum)
    BY <2>3, <2>4, <2>5, <1>1, SoundRows DEF Shape
  <2>7. Acyclic(size, node', free)
    <3>1. PICK rank : IsRank(size, node, free, rank)
      BY <1>1 DEF Shape, Acyclic
    <3>2. IsRank(size, node', free, rank)
      BY <3>1, <2>4 DEF IsRank, SameRow
    <3> QED
      BY <3>2 DEF Acyclic
  <2> QED
    BY <2>3, <2>6, <2>7, <1>8, <1>9
<1>10. CASE free # << >> /\ Hold(r, filled) /\ free' = Tail(free)
  <2>1. /\ r \in FreeSet /\ Distinct(2..(size - 1), free') /\ ToSet(free') = FreeSet \ {r}
    <3>1. Distinct(2..(size - 1), free)
      BY <1>1 DEF Shape, SoundTable
    <3> QED
      BY <3>1, <1>10, DistinctTail DEF FreeSet, r
  <2>2. r \in Slots /\ r \notin Taken /\ r \in 0..(size - 1) /\ r \notin Terminal
    BY <2>1, <1>4
  <2>3. node[r] \in NodeOf(size) /\ node[r].refcou = 0
    BY <2>1, <2>2, <1>4
  <2> DEFINE row == [node[r] EXCEPT !.level = l, !.low = lo, !.high = hi]
  <2>4. row \in NodeOf(size) /\ row.refcou = 0 /\ row.level = l /\ row.low = lo /\ row.high = hi
    <3>1. l \in 0..MaxVars
      <4>1. varnum \in Nat /\ varnum \in 1..MaxVars /\ MaxVars \in Nat
        BY <1>1, SlotFacts
      <4> QED
        BY <4>1 DEF Variable
    <3>2. lo \in -1..(size - 1) /\ hi \in 0..(size - 1)
      <4>1. lo \in 0..(size - 1) /\ hi \in 0..(size - 1)
        BY <1>4, <1>6
      <4> QED
        BY <4>1, <1>4
    <3> QED
      BY <3>1, <3>2, <2>3 DEF NodeOf
  <2>5. filled = [node EXCEPT ![r] = row]
    BY DEF filled
  <2> HIDE DEF row
  <2>6. /\ filled \in [0..(size - 1) -> NodeOf(size)] /\ filled[r] = row
        /\ \A x \in 0..(size - 1) : x # r => filled[x] = node[x]
    BY <2>2, <2>4, <2>5, <1>4
  <2>7. \A x \in Slots : filled[x].refcou = node[x].refcou
    BY <2>3, <2>4, <2>6, <1>4
  <2>8. /\ node' \in [0..(size - 1) -> NodeOf(size)]
        /\ \A x \in 0..(size - 1) : SameRow(filled, node', x) /\ (x # r => node'[x] = filled[x])
        /\ held' \in [0..(size - 1) -> Nat]
        /\ \A x \in Slots : Covers(node'[x].refcou, held'[x])
    BY <2>2, <2>6, <2>7, <1>7, <1>10
  <2>9. /\ \A x \in Terminal \cup Taken : node'[x] = node[x]
        /\ node'[r].level = l /\ node'[r].low = lo /\ node'[r].high = hi
    <3>1. \A x \in Terminal \cup Taken : x \in 0..(size - 1) /\ x # r
      BY <2>2, <1>4
    <3> QED
      BY <3>1, <2>2, <2>4, <2>6, <2>8 DEF SameRow
  <2>10. TakenOf(size, free') = Taken \cup {r}
    BY <2>1, <2>2, <1>4 DEF TakenOf, Slots
  <2>11. SoundTable(size, node', free', varnum)
    <3>1. \A x \in Taken \cup {r} : /\ node'[x].low \in Terminal \cup Taken \cup {r}
                                    /\ node'[x].high \in Terminal \cup Taken \cup {r}
                                    /\ node'[x].level \in 0..(varnum - 1)
      BY <2>9, <1>4, <1>6 DEF Variable
    <3>2. \A x \in Terminal : node'[x].low = x /\ node'[x].high = x /\ node'[x].level = varnum
      BY <2>9, <1>4
    <3>3. \A x \in ToSet(free') : node'[x].refcou = 0
      <4>1. \A x \in FreeSet \ {r} : x \in 0..(size - 1) /\ x # r
        BY <1>4
      <4> QED
        BY <4>1, <2>1, <2>6, <2>8, <1>4
    <3>4. size >= InitSize /\ IsPrime(size)
      BY <1>1 DEF Shape, SoundTable
    <3> QED
      BY <3>1, <3>2, <3>3, <3>4, <2>1, <2>8, <2>10, <1>4 DEF SoundTable
  <2>12. Acyclic(size, node', free')
    <3>1. {r} \in SUBSET ToSet(free)
      BY <2>1 DEF FreeSet
    <3>2. \A x \in {r} : node'[x].low \in Terminal \cup TakenOf(size, free)
                         /\ node'[x].high \in Terminal \cup TakenOf(size, free)
      BY <2>9, <1>4, <1>6
    <3>3. \A x \in TakenOf(size, free) : node'[x].low = node[x].low /\ node'[x].high = node[x].high
      BY <2>9, <1>4
    <3>4. TakenOf(size, free') \subseteq TakenOf(size, free) \cup {r}
      BY <2>10, <1>4
    <3>5. SoundTable(size, node, free, varnum) /\ Acyclic(size, node, free)
      BY <1>1 DEF Shape
    <3> QED
      BY <3>1, <3>2, <3>3, <3>4, <3>5, AcyclicNew
  <2> QED
    BY <2>8, <2>11, <2>12, <1>8
<1> QED
  BY <1>3, <1>9, <1>10

(* reorder_localGbc, and reorder_rehashAll after a resize: no node that is *)
(* kept has lost a child, since dead nodes have no edge to them.           *)
LEMMA LocalGbcStep ==
  ASSUME Inv, LocalGbc
  PROVE  Inv'
<1>1. Shape /\ Records /\ Counts
  BY DEF Inv
<1> DEFINE dead == {n \in Taken : node[n].level = Lower /\ node[n].refcou = 0}
           less(m) == [node[m] EXCEPT !.refcou = Decref(@, EdgesTo(m, dead))]
           counted == [m \in DOMAIN node |-> IF m \in Terminal THEN node[m] ELSE less(m)]
           L == Taken \ dead
           K == Slots \ ToSet(free')
<1>2. /\ phase = "swap" /\ pending = {} /\ phase' = "ready" /\ upper' = 0 /\ resized' = FALSE
      /\ level2var' = Exchanged(upper)
      /\ size' = size /\ held' = held /\ errorcond' = errorcond /\ varnum' = varnum
      /\ extroots' = extroots /\ iactmtx' = iactmtx /\ pending' = pending /\ lost' = lost
      /\ node' = Cleared(counted, dead)
      /\ free' = IF resized THEN Ascending({n \in Slots : counted[n].refcou = 0})
                 ELSE Ascending(dead) \o free
  BY DEF LocalGbc, Exchange
<1>3. /\ node \in [0..(size - 1) -> NodeOf(size)] /\ Terminal \cap Slots = {} /\ size \in Nat /\ size > 2
      /\ Terminal \cup Slots = 0..(size - 1) /\ Taken \subseteq Slots /\ IsFiniteSet(Taken)
      /\ FreeSet \cap Taken = {} /\ FreeSet \subseteq Slots /\ Slots = Taken \cup FreeSet
      /\ (\A x \in FreeSet : node[x].refcou = 0)
      /\ (\A n \in Taken : /\ node[n].low \in Terminal \cup Taken
                           /\ node[n].high \in Terminal \cup Taken
                           /\ node[n].level \in Variable)
  BY <1>1, SlotFacts
<1>4. dead \in SUBSET Taken /\ L \in SUBSET Taken /\ dead \subseteq Slots /\ dead \cap Terminal = {}
      /\ \A n \in dead : node[n].refcou = 0
  BY <1>3
<1> HIDE DEF dead
<1>5. IsFiniteSet(dead) /\ IsFiniteSet(L)
  BY <1>3, <1>4, FS_Subset
<1>6. ASSUME NEW n \in Slots
      PROVE  /\ node[n] \in NodeOf(size) /\ node[n].refcou \in 0..MaxRef
             /\ EdgesTo(n, dead) = EdgesIn(node, dead, n)
             /\ EdgesIn(node, dead, n) \in Nat /\ EdgesIn(node, L, n) \in Nat
             /\ EdgesIn(node, Taken, n) = EdgesIn(node, dead, n) + EdgesIn(node, L, n)
             /\ held[n] \in Nat
             /\ Covers(node[n].refcou, held[n] + EdgesIn(node, Taken, n))
             /\ counted[n] = less(n) /\ less(n) \in NodeOf(size)
             /\ less(n).refcou = Decref(node[n].refcou, EdgesIn(node, dead, n))
             /\ less(n).low = node[n].low /\ less(n).high = node[n].high
             /\ less(n).level = node[n].level
             /\ Decref(node[n].refcou, EdgesIn(node, dead, n)) \in 0..MaxRef
             /\ n \in 0..(size - 1) /\ n \notin Terminal
  <2>1. n \in 0..(size - 1) /\ n \notin Terminal
    BY <1>3
  <2>2. node[n] \in NodeOf(size) /\ node[n].refcou \in 0..MaxRef
    BY <2>1, <1>3 DEF NodeOf
  <2>3. EdgesTo(n, dead) = EdgesIn(node, dead, n)
    BY DEF EdgesTo, EdgesIn
  <2>4. EdgesIn(node, dead, n) \in Nat /\ EdgesIn(node, L, n) \in Nat
    BY <1>5, EdgesNumber
  <2>5. EdgesIn(node, Taken, n) = EdgesIn(node, dead, n) + EdgesIn(node, L, n)
    BY <1>3, <1>4, EdgesSplit
  <2>6. held[n] \in Nat /\ Covers(node[n].refcou, held[n] + EdgesIn(node, Taken, n))
    BY <2>1, <1>1, <1>2 DEF Counts
  <2>7. counted[n] = less(n)
    BY <2>1, <1>3
  <2>8. Decref(node[n].refcou, EdgesIn(node, dead, n)) \in 0..MaxRef
    BY <2>2, <2>4, Counting
  <2>9. /\ less(n) \in NodeOf(size)
        /\ less(n).refcou = Decref(node[n].refcou, EdgesIn(node, dead, n))
        /\ less(n).low = node[n].low /\ less(n).high = node[n].high
        /\ less(n).level = node[n].level
    BY <2>2, <2>3, <2>8 DEF NodeOf
  <2> HIDE DEF less, counted, L
  <2> QED
    BY <2>1, <2>2, <2>3, <2>4, <2>5, <2>6, <2>7, <2>8, <2>9
<1>7. /\ \A n \in Terminal : node'[n] = node[n]
      /\ \A n \in dead : node'[n] = FreeNode
      /\ \A n \in Slots \ dead : node'[n] = less(n)
      /\ node' = [n \in 0..(size - 1) |-> node'[n]]
  <2>1. node' = [n \in 0..(size - 1) |-> IF n \in dead THEN FreeNode
                                         ELSE IF n \in Terminal THEN node[n] ELSE less(n)]
    BY <1>2, <1>3 DEF Cleared
  <2> HIDE DEF less
  <2>2. /\ \A n \in Terminal : n \in 0..(size - 1) /\ n \notin dead
        /\ \A n \in Slots : n \in 0..(size - 1) /\ n \notin Terminal
    BY <1>3, <1>4
  <2> QED
    BY <2>1, <2>2, <1>4
<1>8. ASSUME NEW n \in Slots
      PROVE  node'[n].refcou = Decref(node[n].refcou, EdgesIn(node, dead, n))
             /\ Covers(node'[n].refcou, held[n] + EdgesIn(node, L, n))
             /\ node'[n] \in NodeOf(size)
  <2>1. node'[n].refcou = Decref(node[n].refcou, EdgesIn(node, dead, n)) /\ node'[n] \in NodeOf(size)
    <3>1. CASE n \in dead
      <4>1. Decref(0, EdgesIn(node, dead, n)) = 0
        BY <1>6, ReorderLimits, Counting DEF Decref
      <4> QED
        BY <3>1, <4>1, <1>3, <1>4, <1>7, FreeNodeFacts
    <3>2. CASE n \notin dead
      <4>1. node'[n] = less(n)
        BY <3>2, <1>7
      <4> HIDE DEF less
      <4> QED
        BY <4>1, <1>6
    <3> QED
      BY <3>1, <3>2
  <2> DEFINE c == node[n].refcou
             h == held[n]
             d == EdgesIn(node, dead, n)
             k == EdgesIn(node, L, n)
  <2>2. c \in 0..MaxRef /\ h \in Nat /\ d \in Nat /\ k \in Nat
    BY <1>6
  <2>3. Covers(c, (h + k) + d)
    <3>1. Covers(c, h + EdgesIn(node, Taken, n)) /\ EdgesIn(node, Taken, n) = d + k
      BY <1>6
    <3> HIDE DEF c, h, d, k
    <3>2. h + (d + k) = (h + k) + d
      BY <2>2
    <3> QED
      BY <3>1, <3>2
  <2>4. Covers(Decref(c, d), h + k)
    <3> HIDE DEF c, h, d, k
    <3>1. h + k \in Nat
      BY <2>2
    <3> QED
      BY <3>1, <2>2, <2>3, Counting
  <2> QED
    BY <2>1, <2>4
<1>9. Distinct(Slots, free') /\ ToSet(free') \subseteq Slots /\ dead \cup FreeSet \subseteq ToSet(free')
      /\ (\A n \in ToSet(free') : node'[n].refcou = 0)
      /\ (~ resized => ToSet(free') = dead \cup FreeSet)
      /\ (resized => \A n \in K : node'[n].refcou # 0)
  <2>1. CASE resized
    <3> DEFINE G == {n \in Slots : counted[n].refcou = 0}
    <3>1. \A n \in Slots : counted[n].refcou = node'[n].refcou
      <4> HIDE DEF counted, less
      <4> SUFFICES ASSUME NEW n \in Slots PROVE counted[n].refcou = node'[n].refcou
        OBVIOUS
      <4>1. counted[n].refcou = Decref(node[n].refcou, EdgesIn(node, dead, n))
        BY <1>6
      <4> QED
        BY <4>1, <1>8
    <3>2. free' = Ascending(G)
      BY <1>2, <2>1
    <3> HIDE DEF counted
    <3>3. \A n \in G : n \in Slots /\ node'[n].refcou = 0
      BY <3>1
    <3>4. \A n \in Slots \ G : node'[n].refcou # 0
      BY <3>1
    <3>5. dead \cup FreeSet \subseteq G
      <4> SUFFICES ASSUME NEW n \in dead \cup FreeSet PROVE n \in G
        OBVIOUS
      <4>1. n \in Slots /\ node[n].refcou = 0
        BY <1>3, <1>4
      <4>2. Decref(0, EdgesIn(node, dead, n)) = 0
        BY <4>1, <1>6, ReorderLimits, Counting DEF Decref
      <4>3. node'[n].refcou = 0
        BY <4>1, <4>2, <1>8
      <4> QED
        BY <4>1, <4>3, <3>1
    <3> HIDE DEF G
    <3>6. G \in SUBSET Slots
      BY <3>3
    <3>7. Distinct(Slots, free') /\ ToSet(free') = G
      BY <3>2, <3>6, <1>1, AscendingSlots
    <3> QED
      BY <3>3, <3>4, <3>5, <3>6, <3>7, <2>1
  <2>2. CASE ~ resized
    <3>1. free' = Ascending(dead) \o free
      BY <1>2, <2>2
    <3>2. Distinct(Slots, Ascending(dead)) /\ ToSet(Ascending(dead)) = dead
      BY <1>1, <1>4, AscendingSlots
    <3>3. Distinct(Slots, free) /\ ToSet(free) = FreeSet
      BY <1>1 DEF Shape, SoundTable, Slots, FreeSet
    <3>4. dead \cap FreeSet = {}
      BY <1>3, <1>4
    <3>5. Distinct(Slots, free') /\ ToSet(free') = dead \cup FreeSet
      <4>1. ToSet(Ascending(dead)) \cap ToSet(free) = {}
        BY <3>2, <3>3, <3>4
      <4>2. Distinct(Slots, Ascending(dead) \o free)
            /\ ToSet(Ascending(dead) \o free) = ToSet(Ascending(dead)) \cup ToSet(free)
        BY <4>1, <3>2, <3>3, DistinctConcat
      <4> QED
        BY <4>2, <3>1, <3>2, <3>3
    <3>6. \A n \in dead \cup FreeSet : node'[n].refcou = 0
      <4> SUFFICES ASSUME NEW n \in dead \cup FreeSet PROVE node'[n].refcou = 0
        OBVIOUS
      <4>1. n \in Slots /\ node[n].refcou = 0
        BY <1>3, <1>4
      <4>2. Decref(0, EdgesIn(node, dead, n)) = 0
        BY <4>1, <1>6, ReorderLimits, Counting DEF Decref
      <4> QED
        BY <4>1, <4>2, <1>8
    <3>7. dead \cup FreeSet \subseteq Slots
      BY <1>3, <1>4
    <3> QED
      BY <3>5, <3>6, <3>7, <2>2
  <2> QED
    BY <2>1, <2>2
<1> HIDE DEF less, counted
<1>10. K \subseteq L /\ K \in SUBSET Taken /\ ToSet(free') = Slots \ K
  BY <1>3, <1>9
<1> HIDE DEF K
<1>11. ASSUME NEW n \in K, NEW c \in Taken, node[n].low = c \/ node[n].high = c
       PROVE  c \in K
  <2>1. c \in Slots /\ n \in L
    BY <1>3, <1>10
  <2>2. EdgesIn(node, L, c) # 0
    BY <2>1, <1>5, <1>11, EdgesNumber
  <2>3. node'[c].refcou # 0
    <3>1. Covers(node'[c].refcou, held[c] + EdgesIn(node, L, c)) /\ held[c] \in Nat
          /\ EdgesIn(node, L, c) \in Nat
      BY <2>1, <1>6, <1>8
    <3>2. held[c] + EdgesIn(node, L, c) \in Nat /\ held[c] + EdgesIn(node, L, c) # 0
      BY <3>1, <2>2
    <3> QED
      BY <3>1, <3>2, ReorderLimits DEF Covers
  <2>4. c \notin ToSet(free')
    BY <2>3, <1>9
  <2> QED
    BY <2>1, <2>4 DEF K
<1>12. \A n \in K : node[n].low \in Terminal \cup K /\ node[n].high \in Terminal \cup K
  BY <1>3, <1>10, <1>11
<1>13. node' \in [0..(size - 1) -> NodeOf(size)]
  <2>1. \A n \in 0..(size - 1) : node'[n] \in NodeOf(size)
    <3> SUFFICES ASSUME NEW n \in 0..(size - 1) PROVE node'[n] \in NodeOf(size)
      OBVIOUS
    <3>1. CASE n \in Terminal
      BY <3>1, <1>3, <1>7
    <3>2. CASE n \in Slots
      BY <3>2, <1>8
    <3> QED
      BY <3>1, <3>2, <1>3
  <2> QED
    BY <2>1, <1>7
<1>14. /\ \A n \in Terminal : SameRow(node, node', n)
       /\ \A n \in K : SameRow(node, node', n) /\ node'[n].level \in Variable
       /\ \A n \in Slots \ K : node'[n].refcou = 0
  <2>1. \A n \in Terminal : SameRow(node, node', n)
    BY <1>7 DEF SameRow
  <2>2. \A n \in Slots \ K : node'[n].refcou = 0
    BY <1>9, <1>10
  <2>3. ASSUME NEW n \in K PROVE SameRow(node, node', n) /\ node'[n].level \in Variable
    <3>1. n \in Slots \ dead /\ n \in Taken
      BY <1>3, <1>9, <1>10
    <3>2. node'[n] = less(n)
      BY <3>1, <1>7
    <3> QED
      BY <3>1, <3>2, <1>3, <1>6 DEF SameRow
  <2> QED
    BY <2>1, <2>2, <2>3
<1>15. SoundTable(size, node', free', varnum) /\ Acyclic(size, node', free') /\ TakenOf(size, free') = K
  <2>1. \A n \in K : node'[n].low = node[n].low /\ node'[n].high = node[n].high /\ node'[n].level \in Variable
    BY <1>14 DEF SameRow
  <2> QED
    BY <2>1, <1>1, <1>9, <1>10, <1>12, <1>13, <1>14, Sweep
<1>16. IsOrder(level2var', varnum)
  BY <1>1, <1>2, ExchangedOrder DEF Shape, Records
<1>17. Shape'
  BY <1>1, <1>2, <1>15, <1>16 DEF Shape
<1>18. Slots' = Slots /\ Variable' = Variable /\ Taken' = K
  BY <1>2, <1>15 DEF Slots, Variable, Taken, FreeSet, TakenOf
<1>19. Records'
  <2>1. 0 \in 0..(MaxVars - 1)
    BY <1>1, SlotFacts
  <2>2. resized' \in BOOLEAN
    BY <1>2, Zenon
  <2>3. pending' = {} /\ phase' = "ready" /\ upper' = 0
    BY <1>2
  <2>4. iactmtx' \subseteq Variable' \X Variable'
    BY <1>1, <1>2, <1>18 DEF Records
  <2>5. errorcond' \in BOOLEAN /\ lost' \in BOOLEAN
    BY <1>1, <1>2 DEF Records
  <2> QED
    BY <2>1, <2>2, <2>3, <2>4, <2>5 DEF Records
<1>20. Counts'
  <2>1. ASSUME NEW n \in Slots
        PROVE  Covers(node'[n].refcou, held[n] + EdgesIn(node', K, n))
    <3>1. EdgesIn(node', K, n) = EdgesIn(node, K, n)
      BY <1>14, EdgesSame DEF SameRow
    <3>2. EdgesIn(node, L, n) = EdgesIn(node, K, n) + EdgesIn(node, L \ K, n)
      BY <1>5, <1>10, EdgesSplit
    <3>3. EdgesIn(node, K, n) \in Nat /\ EdgesIn(node, L \ K, n) \in Nat
      <4>1. IsFiniteSet(K) /\ IsFiniteSet(L \ K)
        <5>1. K \in SUBSET L /\ L \ K \in SUBSET L
          BY <1>10
        <5> QED
          BY <5>1, <1>5, FS_Subset
      <4> QED
        BY <4>1, EdgesNumber
    <3>4. Covers(node'[n].refcou, held[n] + EdgesIn(node, L, n)) /\ held[n] \in Nat
          /\ node'[n].refcou \in 0..MaxRef
      BY <1>6, <1>8
    <3> DEFINE c == node'[n].refcou
               a == EdgesIn(node, K, n)
               b == EdgesIn(node, L \ K, n)
               h == held[n]
    <3>5. Covers(c, (h + a) + b) /\ h + a \in Nat
      <4>1. h + (a + b) = (h + a) + b /\ h + a \in Nat
        BY <3>3, <3>4
      <4>2. Covers(c, h + (a + b))
        BY <3>2, <3>4
      <4> HIDE DEF c, a, b, h
      <4> QED
        BY <4>1, <4>2
    <3>6. Covers(c, h + a)
      <4> HIDE DEF a, h
      <4> QED
        BY <3>3, <3>4, <3>5, Counting
    <3> QED
      BY <3>1, <3>6
  <2>2. \A n \in Slots : held[n] > 0 => n \in extroots
    BY <1>1, <1>2 DEF Counts
  <2>3. held' \in [0..(size' - 1) -> Nat] /\ extroots' \subseteq Slots'
    BY <1>1, <1>2, <1>18 DEF Counts
  <2> QED
    BY <2>1, <2>2, <2>3, <1>2, <1>18 DEF Counts
<1> QED
  BY <1>17, <1>19, <1>20 DEF Inv

-----------------------------------------------------------------------------
(* One turn of the loop of reorder_swap.                                   *)

(* No resize that starts from a table of at most Top slots is in vain,     *)
(* except at the limit: there is a prime between a size and the next one.  *)
GrowsUpTo(Top) == \A s \in InitSize..Top : IsPrime(s) => Grows(s)

(* The grandchildren of a node are in use and lie below it.                *)
LEMMA CofactorsTaken ==
  ASSUME Shape, NEW n \in Taken, NEW rank, IsRank(size, node, free, rank),
         NEW f \in {Cofactors(n).f00, Cofactors(n).f01, Cofactors(n).f10, Cofactors(n).f11}
  PROVE  f \in Terminal \cup Taken /\ rank[f] < rank[n]
<1>1. /\ \A m \in Taken : node[m].low \in Terminal \cup Taken /\ node[m].high \in Terminal \cup Taken
      /\ \A m \in Terminal : node[m].low = m /\ node[m].high = m
      /\ Terminal \cup Taken \subseteq 0..(size - 1) /\ Taken = TakenOf(size, free)
  BY SlotFacts
<1>2. /\ rank \in [0..(size - 1) -> Nat]
      /\ \A m \in Taken : rank[node[m].low] < rank[m] /\ rank[node[m].high] < rank[m]
  BY <1>1 DEF IsRank
<1>3. PICK c \in {node[n].low, node[n].high} : f \in {c, node[c].low, node[c].high}
  BY DEF Cofactors
<1>4. c \in Terminal \cup Taken /\ rank[c] < rank[n]
  BY <1>1, <1>2
<1>5. CASE c \in Terminal
  BY <1>1, <1>3, <1>4, <1>5
<1>6. CASE c \in Taken
  <2>1. /\ node[c].low \in Terminal \cup Taken /\ rank[node[c].low] < rank[c]
        /\ node[c].high \in Terminal \cup Taken /\ rank[node[c].high] < rank[c]
    BY <1>1, <1>2, <1>6
  <2>2. rank[n] \in Nat /\ rank[c] \in Nat /\ rank[node[c].low] \in Nat /\ rank[node[c].high] \in Nat
    BY <1>1, <1>2, <1>4, <2>1
  <2> QED
    BY <2>1, <2>2, <1>3, <1>4
<1> QED
  BY <1>4, <1>5, <1>6

(* reorder_makenode never makes the table smaller.                         *)
LEMMA MakeSize ==
  ASSUME NEW t, NEW num, SoundRec(t, num), NEW v, NEW lo, NEW hi
  PROVE  ReorderMakeNode(t, v, lo, hi).size \in Nat /\ ReorderMakeNode(t, v, lo, hi).size >= t.size
<1>1. t.size \in Nat /\ t.size > 2 /\ IsPrime(t.size) /\ IsTable(t)
  BY DEF SoundRec, SoundTable
<1>2. Resize(t).size \in Nat /\ Resize(t).size >= t.size
  <2>1. CASE AtLimit(t.size)
    <3>1. Resize(t) = [t EXCEPT !.resized = TRUE]
      BY <2>1 DEF Resize, AtLimit
    <3>2. Resize(t).size = t.size
      BY <3>1, <1>1 DEF IsTable
    <3> QED
      BY <3>2, <1>1
  <2>2. CASE ~ AtLimit(t.size)
    <3>1. NextSize(t.size) \in Nat /\ NextSize(t.size) >= t.size
      BY <2>2, <1>1, NextSizes
    <3>2. Resize(t).size = NextSize(t.size)
      BY <2>2, <1>1 DEF Resize, AtLimit, IsTable
    <3> QED
      BY <3>1, <3>2
  <2> QED
    BY <2>1, <2>2
<1> DEFINE grown == IF t.free = << >> /\ ~ t.error THEN Resize(t) ELSE t
           found == {n \in Chain(t, v) : t.node[n].low = lo /\ t.node[n].high = hi}
<1>3. grown.size \in Nat /\ grown.size >= t.size
  BY <1>1, <1>2
<1>4. IsTable(grown)
  <2>1. IsTable(Resize(t))
    <3>1. CASE AtLimit(t.size)
      BY <3>1, <1>1 DEF Resize, AtLimit, IsTable
    <3>2. CASE ~ AtLimit(t.size)
      BY <3>2, <1>1 DEF Resize, AtLimit, IsTable
    <3> QED
      BY <3>1, <3>2
  <2> QED
    BY <2>1, <1>1
<1>5. \A x : Found(t, x).size = t.size
  BY <1>1 DEF Found, IsTable
<1>6. NewNode(grown, v, lo, hi).size = grown.size
  <2> HIDE DEF grown
  <2> QED
    BY <1>4 DEF NewNode, IsTable
<1>7. [grown EXCEPT !.error = TRUE, !.res = FALSEBDD].size = grown.size
  <2> HIDE DEF grown
  <2> QED
    BY <1>4 DEF IsTable
<1>8. ReorderMakeNode(t, v, lo, hi) =
        CASE lo = hi -> Found(t, lo)
          [] lo # hi /\ found # {} -> Found(t, Min(found))
          [] lo # hi /\ found = {} /\ grown.free # << >> -> NewNode(grown, v, lo, hi)
          [] lo # hi /\ found = {} /\ grown.free = << >> ->
               [grown EXCEPT !.error = TRUE, !.res = FALSEBDD]
  BY DEF ReorderMakeNode
<1> HIDE DEF grown, found
<1>9. CASE lo = hi
  BY <1>9, <1>8, <1>5, <1>1
<1>10. CASE lo # hi /\ found # {}
  BY <1>10, <1>8, <1>5, <1>1
<1>11. CASE lo # hi /\ found = {} /\ grown.free # << >>
  BY <1>11, <1>8, <1>6, <1>3
<1>12. CASE lo # hi /\ found = {} /\ grown.free = << >>
  BY <1>12, <1>8, <1>7, <1>3
<1> QED
  BY <1>9, <1>10, <1>11, <1>12

First(n)  == ReorderMakeNode(Table, upper, Cofactors(n).f00, Cofactors(n).f10)
Second(n) == ReorderMakeNode(First(n), upper, Cofactors(n).f01, Cofactors(n).f11)

(* The table as it is, and after each of the two nodes has been made.      *)
LEMMA TwoMade ==
  ASSUME Inv, NEW Top \in Nat, GrowsUpTo(Top), size <= Top, phase = "swap",
         NEW n \in pending, Second(n).size <= Top
  PROVE  /\ Used(Table) = Taken /\ Table.size = size /\ Table.node = node
         /\ Table.free = free /\ Table.hidden = pending /\ Table.error = errorcond
         /\ Outcome(Table, First(n), upper, Cofactors(n).f00, Cofactors(n).f10, varnum)
         /\ Outcome(First(n), Second(n), upper, Cofactors(n).f01, Cofactors(n).f11, varnum)
<1>1. Shape /\ Records
  BY DEF Inv
<1>2. /\ Table.size = size /\ Table.node = node /\ Table.free = free /\ Table.hidden = pending
      /\ Table.error = errorcond /\ Table.resized = resized /\ IsTable(Table)
  BY DEF Table, IsTable
<1>3. Used(Table) = Taken
  BY <1>1, <1>2, SlotFacts DEF Used
<1>4. varnum \in Nat /\ varnum <= MaxVars
  <2>1. varnum \in Nat /\ varnum \in 1..MaxVars /\ MaxVars \in Nat
    BY <1>1, SlotFacts
  <2> QED
    BY <2>1
<1>5. upper \in 0..(varnum - 1)
  BY <1>1 DEF Records, Variable
<1>6. SoundRec(Table, varnum)
  BY <1>1, <1>2 DEF SoundRec, Shape, Records
<1>7. Table.hidden \subseteq Used(Table) /\ n \in Taken
  BY <1>1, <1>2, <1>3 DEF Records
<1>8. /\ size \in Nat /\ size >= InitSize /\ IsPrime(size) /\ InitSize \in Nat
  BY <1>1, ReorderSizes DEF Shape, SoundTable
<1>9. Grows(Table.size)
  <2>1. size \in InitSize..Top
    BY <1>8
  <2> QED
    BY <2>1, <1>2, <1>8 DEF GrowsUpTo
<1>10. \A f \in {Cofactors(n).f00, Cofactors(n).f01, Cofactors(n).f10, Cofactors(n).f11} :
         f \in Terminal \cup Taken
  <2>1. PICK rank : IsRank(size, node, free, rank)
    BY <1>1 DEF Shape, Acyclic
  <2> QED
    BY <2>1, <1>1, <1>7, CofactorsTaken
<1> HIDE DEF Table
<1>11. Outcome(Table, First(n), upper, Cofactors(n).f00, Cofactors(n).f10, varnum)
  BY <1>3, <1>4, <1>5, <1>6, <1>7, <1>9, <1>10, MakeSound DEF First
<1>12. /\ SoundRec(First(n), varnum) /\ First(n).size >= size /\ First(n).hidden = pending
       /\ Taken \subseteq Used(First(n))
  BY <1>2, <1>3, <1>11 DEF Outcome
<1>13. Grows(First(n).size)
  <2>1. First(n).size \in Nat /\ IsPrime(First(n).size)
    BY <1>12 DEF SoundRec, SoundTable
  <2>2. Second(n).size \in Nat /\ Second(n).size >= First(n).size
    BY <1>12, MakeSize DEF Second
  <2>3. SoundTable(First(n).size, First(n).node, First(n).free, varnum)
    BY <1>12 DEF SoundRec
  <2>4. First(n).size >= InitSize
    BY <2>3 DEF SoundTable
  <2>5. First(n).size \in InitSize..Top
    BY <2>1, <2>2, <2>4, <1>8
  <2> QED
    BY <2>1, <2>5 DEF GrowsUpTo
<1>14. First(n).hidden \subseteq Used(First(n))
  BY <1>1, <1>12 DEF Records
<1>15. \A f \in {Cofactors(n).f00, Cofactors(n).f01, Cofactors(n).f10, Cofactors(n).f11} :
         f \in Terminal \cup Used(First(n))
  BY <1>10, <1>12
<1>16. Outcome(First(n), Second(n), upper, Cofactors(n).f01, Cofactors(n).f11, varnum)
  BY <1>4, <1>5, <1>12, <1>13, <1>14, <1>15, MakeSound DEF Second
<1> QED
  BY <1>2, <1>3, <1>11, <1>16

(* The node that was asked for, and the false it is in its place.          *)
LEMMA OutcomeNode ==
  ASSUME NEW t, NEW u, NEW v, NEW lo, NEW hi, NEW num, Outcome(t, u, v, lo, hi, num)
  PROVE  \/ lo = hi /\ u.res = lo
         \/ u.node[u.res].low = lo /\ u.node[u.res].high = hi
         \/ u.res = FALSEBDD
BY DEF Outcome

(* The children of a node in use are constants or in use.                  *)
LEMMA SoundChildren ==
  ASSUME NEW s, NEW nd, NEW fr, NEW num, SoundTable(s, nd, fr, num)
  PROVE  \A n \in TakenOf(s, fr) : /\ nd[n].low \in Terminal \cup TakenOf(s, fr)
                                   /\ nd[n].high \in Terminal \cup TakenOf(s, fr)
BY DEF SoundTable

(* One turn of the loop: the node trades its children for the two that     *)
(* reorder_makenode gave, whose counts have taken the edges into account.  *)
LEMMA SwapStep ==
  ASSUME Inv, NEW Top \in Nat, GrowsUpTo(Top), size <= Top, size' <= Top,
         NEW n \in pending, SwapNode(n)
  PROVE  Inv'
<1>1. Shape /\ Records /\ Counts
  BY Zenon DEF Inv
<1> DEFINE f == Cofactors(n)
           t0 == First(n)
           t1 == Second(n)
           U0 == Used(t0)
           U1 == Used(t1)
           N == 0..(t1.size - 1)
           low == node[n].low
           high == node[n].high
           c0 == CountDown(t1.node, low)
           c1 == CountDown(c0, high)
<1>2. /\ phase = "swap" /\ size' = t1.size /\ free' = t1.free /\ errorcond' = t1.error
      /\ node' = [c1 EXCEPT ![n].level = Lower, ![n].low = t0.res, ![n].high = t1.res]
      /\ resized' = t1.resized /\ pending' = pending \ {n}
      /\ held' = [m \in 0..(t1.size - 1) |-> IF m < size THEN held[m] ELSE 0]
      /\ varnum' = varnum /\ level2var' = level2var /\ phase' = phase /\ extroots' = extroots
      /\ iactmtx' = iactmtx /\ upper' = upper /\ lost' = lost
  BY DEF SwapNode, First, Second
<1>3. /\ Outcome(Table, t0, upper, f.f00, f.f10, varnum)
      /\ Outcome(t0, t1, upper, f.f01, f.f11, varnum)
      /\ Used(Table) = Taken /\ Table.size = size /\ Table.node = node
      /\ Table.hidden = pending
  BY <1>1, <1>2, TwoMade
<1>4. /\ size \in Nat /\ size > 2 /\ Slots = Taken \cup FreeSet /\ FreeSet \cap Taken = {}
      /\ Terminal \cap Slots = {} /\ Terminal \cup Slots = 0..(size - 1)
      /\ Taken = TakenOf(size, free) /\ Taken \subseteq Slots
      /\ (\A x \in FreeSet : node[x].refcou = 0)
      /\ (\A x \in Taken : node[x].low \in Terminal \cup Taken /\ node[x].high \in Terminal \cup Taken
                           /\ node[x].level \in Variable)
      /\ (\A x \in 0..(size - 1) : node[x].refcou \in 0..MaxRef)
      /\ \A x \in Terminal : node[x].low = x /\ node[x].high = x /\ node[x].level = varnum
  BY <1>1, SlotFacts
<1>5. n \in Taken /\ low \in Terminal \cup Taken /\ high \in Terminal \cup Taken
  BY <1>1, <1>4 DEF Records
<1>6. Lower \in Variable
  <2>1. upper \in Variable /\ Var2Level(upper) < varnum - 1 /\ IsOrder(level2var, varnum)
    BY <1>1, <1>2 DEF Records, Shape
  <2>2. Var2Level(upper) \in Variable /\ \A l \in Variable : level2var[l] \in Variable
    BY <2>1, OrderFacts
  <2>3. varnum \in Nat
    BY <1>1, SlotFacts
  <2>4. Var2Level(upper) + 1 \in Variable
    BY <2>1, <2>2, <2>3 DEF Variable
  <2> QED
    BY <2>2, <2>4 DEF Lower
<1> HIDE DEF f, t0, t1
<1>7. /\ SoundRec(t1, varnum) /\ SoundTable(t1.size, t1.node, t1.free, varnum)
      /\ t1.size \in Nat /\ t0.size \in Nat /\ size <= t0.size /\ t0.size <= t1.size /\ t1.size > 2
      /\ t0.res \in Terminal \cup U0 /\ t1.res \in Terminal \cup U1
      /\ U0 = Taken \cup ({t0.res} \ Terminal) /\ U1 = U0 \cup ({t1.res} \ Terminal)
      /\ t0.hidden = pending
  <2>1. SoundRec(t0, varnum) /\ SoundRec(t1, varnum)
    BY <1>3 DEF Outcome
  <2>2. SoundTable(t0.size, t0.node, t0.free, varnum) /\ SoundTable(t1.size, t1.node, t1.free, varnum)
    BY <2>1 DEF SoundRec
  <2>3. t0.size \in Nat /\ t1.size \in Nat /\ t1.size > 2
    BY <2>2 DEF SoundTable
  <2>4. /\ t0.size >= size /\ t1.size >= t0.size /\ t0.hidden = pending
        /\ t0.res \in Terminal \cup U0 /\ t1.res \in Terminal \cup U1
        /\ U0 = Taken \cup ({t0.res} \ Terminal) /\ U1 = U0 \cup ({t1.res} \ Terminal)
    BY <1>3 DEF Outcome
  <2> QED
    BY <2>1, <2>2, <2>3, <2>4, <1>4
<1>8. \A x \in Terminal \cup Taken : SameRow(node, t1.node, x) /\ SameRow(node, t0.node, x)
  <2>1. \A x \in Terminal \cup Taken : SameRow(node, t0.node, x)
    BY <1>3 DEF Outcome
  <2>2. \A x \in Terminal \cup U0 : SameRow(t0.node, t1.node, x)
    BY <1>3 DEF Outcome
  <2> QED
    BY <2>1, <2>2, <1>7 DEF SameRow
<1>9. /\ U1 = TakenOf(t1.size, t1.free) /\ U1 \subseteq 2..(t1.size - 1) /\ IsFiniteSet(U1)
      /\ Terminal \cap U1 = {} /\ Terminal \cup U1 \subseteq N
      /\ t1.node \in [N -> NodeOf(t1.size)]
      /\ U1 \cup ToSet(t1.free) = 2..(t1.size - 1) /\ ToSet(t1.free) \cap U1 = {}
      /\ (\A x \in N : t1.node[x].refcou \in 0..MaxRef)
      /\ (\A x \in ToSet(t1.free) : t1.node[x].refcou = 0)
      /\ \A x \in U1 : /\ t1.node[x].low \in Terminal \cup U1 /\ t1.node[x].high \in Terminal \cup U1
                       /\ t1.node[x].level \in Variable
  <2>1. U1 = TakenOf(t1.size, t1.free)
    BY DEF Used
  <2>2. /\ t1.node \in [N -> NodeOf(t1.size)]
        /\ (\A x \in ToSet(t1.free) : t1.node[x].refcou = 0)
        /\ \A x \in U1 : /\ t1.node[x].low \in Terminal \cup U1 /\ t1.node[x].high \in Terminal \cup U1
                         /\ t1.node[x].level \in Variable
    BY <1>7, <2>1 DEF SoundTable, Variable
  <2>3. LET T == TakenOf(t1.size, t1.free)
        IN  /\ T \subseteq 2..(t1.size - 1) /\ IsFiniteSet(T)
            /\ Terminal \cup T \subseteq 0..(t1.size - 1) /\ Terminal \cap T = {}
            /\ ToSet(t1.free) \cap T = {} /\ T \cup ToSet(t1.free) = 2..(t1.size - 1)
            /\ \A x \in 0..(t1.size - 1) : t1.node[x].refcou \in 0..MaxRef
    <3>1. SoundTable(t1.size, t1.node, t1.free, varnum)
      BY <1>7
    <3> QED
      BY <3>1, TakenFacts
  <2> HIDE DEF U1
  <2> QED
    BY <2>1, <2>2, <2>3
<1> HIDE DEF U0, U1
<1>10. n \in U0 /\ n \in U1 /\ low \in Terminal \cup U1 /\ high \in Terminal \cup U1
       /\ low \in N /\ high \in N /\ n \in N /\ n \notin Terminal /\ n \notin ToSet(t1.free)
       /\ t0.res \in Terminal \cup U1 /\ Taken \subseteq U0 /\ U0 \subseteq U1
  BY <1>4, <1>5, <1>7, <1>9
<1>11. /\ c1 \in [N -> NodeOf(t1.size)]
       /\ \A x \in N : SameRow(t1.node, c1, x)
       /\ \A x \in N : t1.node[x].refcou = 0 => c1[x].refcou = 0
       /\ \A x \in 2..(t1.size - 1) : \A k \in Nat :
            Covers(t1.node[x].refcou, k + One(x = low) + One(x = high)) => Covers(c1[x].refcou, k)
  <2>1. /\ c0 \in [N -> NodeOf(t1.size)]
        /\ \A x \in N : SameRow(t1.node, c0, x)
        /\ \A x \in N : t1.node[x].refcou = 0 => c0[x].refcou = 0
        /\ \A x \in 2..(t1.size - 1) : \A k \in Nat :
             Covers(t1.node[x].refcou, k + One(x = low)) => Covers(c0[x].refcou, k)
    <3> DEFINE s == t1.size
               nd == t1.node
    <3>1. s \in Nat /\ s > 2 /\ nd \in [0..(s - 1) -> NodeOf(s)] /\ low \in 0..(s - 1)
      BY <1>7, <1>9, <1>10
    <3> HIDE DEF s, nd, low
    <3>2. LET u == CountDown(nd, low)
          IN  /\ u \in [0..(s - 1) -> NodeOf(s)]
              /\ \A x \in 0..(s - 1) : SameRow(nd, u, x)
              /\ \A x \in 0..(s - 1) : nd[x].refcou = 0 => u[x].refcou = 0
              /\ \A x \in 2..(s - 1) : \A k \in Nat :
                   Covers(nd[x].refcou, k + One(x = low)) => Covers(u[x].refcou, k)
      BY <3>1, CountDownSound
    <3> QED
      BY <3>2 DEF s, nd
  <2> HIDE DEF c0
  <2>2. /\ c1 \in [N -> NodeOf(t1.size)]
        /\ \A x \in N : SameRow(c0, c1, x)
        /\ \A x \in N : c0[x].refcou = 0 => c1[x].refcou = 0
        /\ \A x \in 2..(t1.size - 1) : \A k \in Nat :
             Covers(c0[x].refcou, k + One(x = high)) => Covers(c1[x].refcou, k)
    <3> HIDE DEF high
    <3>1. t1.size \in Nat /\ t1.size > 2 /\ c0 \in [0..(t1.size - 1) -> NodeOf(t1.size)]
          /\ high \in 0..(t1.size - 1)
      BY <1>7, <1>10, <2>1
    <3> QED
      BY <3>1, CountDownSound
  <2> HIDE DEF c1
  <2>3. ASSUME NEW x \in 2..(t1.size - 1), NEW k \in Nat,
               Covers(t1.node[x].refcou, k + One(x = low) + One(x = high))
        PROVE  Covers(c1[x].refcou, k)
    <3>1. One(x = low) \in Nat /\ One(x = high) \in Nat
      BY DEF One
    <3>2. k + One(x = high) \in Nat
      BY <3>1
    <3>3. (k + One(x = high)) + One(x = low) = k + One(x = low) + One(x = high)
      BY <3>1
    <3>4. Covers(c0[x].refcou, k + One(x = high))
      BY <2>1, <2>3, <3>2, <3>3
    <3> QED
      BY <2>2, <3>4
  <2>4. \A x \in N : SameRow(t1.node, c1, x)
    BY <2>1, <2>2 DEF SameRow
  <2> QED
    BY <2>1, <2>2, <2>3, <2>4
<1> HIDE DEF c0, c1
<1>12. /\ node' \in [N -> NodeOf(t1.size)]
       /\ node'[n].level = Lower /\ node'[n].low = t0.res /\ node'[n].high = t1.res
       /\ \A x \in N : node'[x].refcou = c1[x].refcou
       /\ \A x \in N \ {n} : SameRow(t1.node, node', x)
  <2>1. c1[n] \in NodeOf(t1.size)
    BY <1>10, <1>11
  <2> DEFINE row == [c1[n] EXCEPT !.level = Lower, !.low = t0.res, !.high = t1.res]
  <2>2. node' = [c1 EXCEPT ![n] = row]
    BY <1>2
  <2>3. /\ row.level = Lower /\ row.low = t0.res /\ row.high = t1.res
        /\ row.refcou = c1[n].refcou /\ row \in NodeOf(t1.size)
    <3>1. t0.res \in N /\ t1.res \in N
      BY <1>7, <1>9, <1>10
    <3>2. t0.res \in -1..(t1.size - 1) /\ t1.res \in 0..(t1.size - 1)
      BY <3>1, <1>7
    <3>3. Lower \in 0..MaxVars
      <4>1. varnum \in Nat /\ varnum \in 1..MaxVars /\ MaxVars \in Nat
        BY <1>1, SlotFacts
      <4> QED
        BY <4>1, <1>6 DEF Variable
    <3> QED
      BY <2>1, <3>2, <3>3 DEF NodeOf
  <2> HIDE DEF row
  <2>4. node'[n] = row /\ \A x \in N \ {n} : node'[x] = c1[x]
    BY <2>2, <1>10, <1>11
  <2>5. node' \in [N -> NodeOf(t1.size)]
    BY <2>2, <2>3, <1>11
  <2> QED
    BY <2>3, <2>4, <2>5, <1>11 DEF SameRow
<1>13. SoundTable(size', node', free', varnum')
  <2>1. \A x \in Terminal : node'[x].low = x /\ node'[x].high = x /\ node'[x].level = varnum
    <3>1. \A x \in Terminal : x \in N \ {n}
      BY <1>9, <1>10
    <3> QED
      BY <3>1, <1>12, <1>8, <1>4 DEF SameRow
  <2>2. ASSUME NEW x \in U1
        PROVE  /\ node'[x].low \in Terminal \cup U1 /\ node'[x].high \in Terminal \cup U1
               /\ node'[x].level \in Variable
    <3>1. CASE x = n
      BY <3>1, <1>6, <1>7, <1>10, <1>12
    <3>2. CASE x # n
      BY <3>2, <1>9, <1>12 DEF SameRow
    <3> QED
      BY <3>1, <3>2
  <2>3. \A x \in ToSet(t1.free) : node'[x].refcou = 0
    <3>1. \A x \in ToSet(t1.free) : x \in N
      <4>1. ToSet(t1.free) \subseteq 2..(t1.size - 1)
        BY <1>9
      <4> QED
        BY <4>1, <1>7
    <3> QED
      BY <3>1, <1>9, <1>11, <1>12
  <2>4. /\ t1.size \in Nat /\ t1.size > 2 /\ t1.size >= InitSize /\ IsPrime(t1.size)
        /\ Distinct(2..(t1.size - 1), t1.free)
    BY <1>7 DEF SoundTable
  <2> QED
    BY <2>1, <2>2, <2>3, <2>4, <1>2, <1>9, <1>12 DEF SoundTable, Variable
<1>14. Acyclic(size', node', free')
  <2>1. PICK rank : IsRank(size, node, free, rank)
    BY <1>1 DEF Shape, Acyclic
  <2>2. /\ rank \in [0..(size - 1) -> Nat] /\ Terminal \cup Taken \subseteq 0..(size - 1)
        /\ \A x \in Taken : rank[node[x].low] < rank[x] /\ rank[node[x].high] < rank[x]
    BY <2>1, <1>4 DEF IsRank
  <2>3. \A g \in {f.f00, f.f01, f.f10, f.f11} : g \in Terminal \cup Taken /\ rank[g] < rank[n]
    BY <2>1, <1>1, <1>5, CofactorsTaken DEF f
  <2>4. rank[n] \in Nat /\ rank[n] > 0
    <3>1. low \in 0..(size - 1) /\ n \in 0..(size - 1) /\ rank[low] < rank[n]
      BY <2>2, <1>5
    <3>2. rank[low] \in Nat /\ rank[n] \in Nat
      BY <3>1, <2>2
    <3> QED
      BY <3>1, <3>2
  <2> DEFINE r == rank[n]
             M == {t0.res, t1.res}
             Low(x) == x \in M /\ (x \notin Terminal \cup Taken \/ rank[x] >= r)
             up == [x \in N |-> IF x \in M /\ (x \notin Terminal \cup Taken \/ rank[x] >= r)
                                THEN 2 * r - 1
                                ELSE IF x \in Terminal \cup Taken THEN 2 * rank[x] ELSE 0]
  <2>5. up \in [N -> Nat]
    <3>1. 2 * r - 1 \in Nat
      BY <2>4
    <3>2. \A x \in Terminal \cup Taken : 2 * rank[x] \in Nat
      BY <2>2
    <3> QED
      BY <3>1, <3>2
  <2>6. /\ \A x \in N : up[x] = IF x \in M /\ (x \notin Terminal \cup Taken \/ rank[x] >= r)
                                THEN 2 * r - 1
                                ELSE IF x \in Terminal \cup Taken THEN 2 * rank[x] ELSE 0
    OBVIOUS
  <2>7. Terminal \cup U1 \subseteq N /\ U1 = Taken \cup (M \ Terminal) /\ Terminal \cup Taken \subseteq N
    BY <1>7, <1>9, <1>10
  <2> HIDE DEF up
  <2>8. \A x \in Terminal \cup Taken : up[x] <= 2 * rank[x] /\ rank[x] \in Nat /\ up[x] \in Nat
    BY <2>2, <2>4, <2>5, <2>6, <2>7
  <2>9. ASSUME NEW x \in M PROVE up[x] < 2 * r /\ up[x] \in Nat
    <3>1. x \in N /\ up[x] \in Nat
      BY <1>7, <1>10, <2>5, <2>7
    <3>2. CASE x \notin Terminal \cup Taken \/ rank[x] >= r
      <4>1. up[x] = 2 * r - 1
        BY <3>1, <3>2, <2>6
      <4> QED
        BY <4>1, <3>1, <2>4
    <3>3. CASE x \in Terminal \cup Taken /\ ~ (rank[x] >= r)
      <4>1. up[x] = 2 * rank[x]
        BY <3>1, <3>3, <2>6
      <4>2. rank[x] \in Nat /\ rank[x] < r
        BY <3>3, <2>4, <2>8
      <4> QED
        BY <4>1, <4>2, <3>1, <2>4
    <3> QED
      BY <3>2, <3>3
  <2>10. \A x \in Taken : x \notin M => up[x] = 2 * rank[x]
    BY <2>6, <2>7
  (* The children of a node that was asked for lie below n. *)
  <2>11. ASSUME NEW x \in M \ Terminal
         PROVE  \/ x \in Taken /\ rank[x] < r
                \/ \A c \in {t1.node[x].low, t1.node[x].high} : c \in Terminal \cup Taken /\ rank[c] < r
    <3>1. ASSUME NEW u, NEW lo \in {f.f00, f.f01, f.f10, f.f11}, NEW hi \in {f.f00, f.f01, f.f10, f.f11},
                 u.res = x, SameRow(u.node, t1.node, x),
                 \/ lo = hi /\ u.res = lo
                 \/ u.node[u.res].low = lo /\ u.node[u.res].high = hi
                 \/ u.res = FALSEBDD
          PROVE  \/ x \in Taken /\ rank[x] < r
                 \/ \A c \in {t1.node[x].low, t1.node[x].high} : c \in Terminal \cup Taken /\ rank[c] < r
      <4>1. u.res # FALSEBDD
        BY <2>11, <3>1 DEF Terminal
      <4>2. CASE lo = hi /\ u.res = lo
        BY <4>2, <3>1, <2>3, <2>11
      <4>3. CASE u.node[u.res].low = lo /\ u.node[u.res].high = hi
        <5>1. t1.node[x].low = lo /\ t1.node[x].high = hi
          BY <4>3, <3>1 DEF SameRow
        <5>2. lo \in Terminal \cup Taken /\ rank[lo] < r /\ hi \in Terminal \cup Taken /\ rank[hi] < r
          BY <2>3, Zenon
        <5> QED
          BY <5>1, <5>2
      <4> QED
        BY <4>1, <4>2, <4>3, <3>1
    <3>2. CASE x = t0.res
      <4>1. SameRow(t0.node, t1.node, x)
        <5>1. x \in U0
          BY <3>2, <1>7
        <5>2. \A y \in Terminal \cup U0 : SameRow(t0.node, t1.node, y)
          BY <1>3 DEF Outcome, U0
        <5> QED
          BY <5>1, <5>2
      <4>2. \/ f.f00 = f.f10 /\ t0.res = f.f00
            \/ t0.node[t0.res].low = f.f00 /\ t0.node[t0.res].high = f.f10
            \/ t0.res = FALSEBDD
        BY <1>3, OutcomeNode
      <4> QED
        BY <4>1, <4>2, <3>1, <3>2
    <3>3. CASE x = t1.res
      <4>1. SameRow(t1.node, t1.node, x)
        BY DEF SameRow
      <4>2. \/ f.f01 = f.f11 /\ t1.res = f.f01
            \/ t1.node[t1.res].low = f.f01 /\ t1.node[t1.res].high = f.f11
            \/ t1.res = FALSEBDD
        BY <1>3, OutcomeNode
      <4> QED
        BY <4>1, <4>2, <3>1, <3>3
    <3> QED
      BY <3>2, <3>3
  <2>12. ASSUME NEW x \in U1 PROVE up[node'[x].low] < up[x] /\ up[node'[x].high] < up[x]
    <3>1. CASE x = n
      <4>1. up[n] = 2 * r \/ (n \in M /\ up[n] < 2 * r)
        BY <2>9, <2>10, <1>5
      <4>2. n \notin M
        <5>1. n \in pending /\ n # FALSEBDD /\ ~ (rank[n] < r)
          BY <2>4, <1>10 DEF Terminal
        <5>2. \/ t0.res \in {f.f00} \/ t0.res \notin pending \/ t0.res = FALSEBDD
          BY <1>3 DEF Outcome
        <5>3. \/ t1.res \in {f.f01} \/ t1.res \notin pending \/ t1.res = FALSEBDD
          BY <1>3, <1>7 DEF Outcome
        <5> QED
          BY <5>1, <5>2, <5>3, <2>3
      <4> QED
        BY <4>1, <4>2, <3>1, <2>9, <1>12
    <3>2. CASE x \in Taken \ {n} /\ ~ (x \in M /\ rank[x] >= r)
      <4>1. x \in N /\ up[x] = 2 * rank[x]
        BY <3>2, <2>6, <2>7
      <4>2. SameRow(node, node', x)
        <5>1. SameRow(node, t1.node, x) /\ SameRow(t1.node, node', x)
          BY <3>2, <4>1, <1>8, <1>12
        <5> QED
          BY <5>1 DEF SameRow
      <4>3. ASSUME NEW c \in {node[x].low, node[x].high} PROVE up[c] < up[x]
        <5>1. c \in Terminal \cup Taken /\ rank[c] < rank[x]
          BY <3>2, <2>2, <1>4
        <5>2. up[c] <= 2 * rank[c] /\ rank[c] \in Nat /\ up[c] \in Nat /\ rank[x] \in Nat
          BY <5>1, <3>2, <2>8
        <5> QED
          BY <5>1, <5>2, <4>1
      <4> QED
        BY <4>2, <4>3 DEF SameRow
    <3>3. CASE x # n /\ x \in M \ Terminal /\ (x \in Taken => rank[x] >= r)
      <4>1. x \in N /\ up[x] = 2 * r - 1
        <5>1. x \in N /\ (x \notin Terminal \cup Taken \/ rank[x] >= r)
          BY <3>3, <2>7
        <5> QED
          BY <5>1, <3>3, <2>6
      <4>2. ~ (x \in Taken /\ rank[x] < r)
        BY <3>3, <2>4, <2>8
      <4>3. ASSUME NEW c \in {t1.node[x].low, t1.node[x].high} PROVE up[c] < up[x]
        <5>1. c \in Terminal \cup Taken /\ rank[c] < r
          BY <3>3, <4>2, <2>11
        <5>2. up[c] <= 2 * rank[c] /\ rank[c] \in Nat /\ up[c] \in Nat
          BY <5>1, <2>8
        <5> QED
          BY <5>1, <5>2, <4>1, <2>4
      <4>4. SameRow(t1.node, node', x)
        BY <3>3, <4>1, <1>12
      <4> QED
        BY <4>3, <4>4 DEF SameRow
    <3>4. x \notin Terminal /\ (x \in Taken \/ x \in M)
      BY <1>9, <2>7
    <3> QED
      BY <3>1, <3>2, <3>3, <3>4
  <2>13. IsRank(size', node', free', up)
    BY <2>5, <2>12, <1>2, <1>9 DEF IsRank
  <2> QED
    BY <2>13 DEF Acyclic
<1>15. Shape'
  BY <1>1, <1>2, <1>13, <1>14 DEF Shape
<1>16. Records'
  <2>1. Variable' = Variable /\ Var2Level(upper)' = Var2Level(upper)
    BY <1>2 DEF Variable, Var2Level
  <2>2. Taken' = U1
    BY <1>2, <1>9 DEF Taken, Slots, FreeSet, TakenOf
  <2>3. errorcond' \in BOOLEAN /\ resized' \in BOOLEAN
    <3>1. t1.error \in BOOLEAN /\ t1.resized \in BOOLEAN
      BY <1>7 DEF SoundRec
    <3>2. errorcond' \in BOOLEAN
      BY <3>1, <1>2, Zenon
    <3>3. resized' \in BOOLEAN
      BY <3>1, <1>2, Zenon
    <3> QED
      BY <3>2, <3>3
  <2>4. pending' \subseteq Taken' /\ (phase' # "swap" => pending' = {})
    <3>1. pending \subseteq Taken
      BY <1>1 DEF Records
    <3> QED
      BY <3>1, <2>2, <1>2, <1>10
  <2>5. lost' \in BOOLEAN
    <3>1. lost \in BOOLEAN
      BY <1>1 DEF Records
    <3> QED
      BY <3>1, <1>2, Zenon
  <2>6. phase' \in {"idle", "ready", "swap"} /\ iactmtx' \subseteq Variable' \X Variable'
        /\ upper' \in 0..(MaxVars - 1)
        /\ (phase' = "swap" => upper' \in Variable' /\ Var2Level(upper)' < varnum' - 1)
    BY <2>1, <1>1, <1>2 DEF Records
  <2> QED
    BY <2>3, <2>4, <2>5, <2>6 DEF Records
<1>17. Counts'
  <2>1. held \in [0..(size - 1) -> Nat] /\ extroots \subseteq Slots
        /\ \A x \in Slots : Covers(node[x].refcou, held[x] + EdgesIn(node, Taken, x))
                           /\ (held[x] > 0 => x \in extroots)
    BY <1>1, <1>2 DEF Counts
  <2>2. /\ Slots' = 2..(t1.size - 1) /\ Taken' = U1
        /\ Slots \subseteq Slots' /\ 0..(size - 1) \subseteq N /\ Slots' \subseteq N
        /\ \A x \in Slots' : x < size => x \in Slots
    BY <1>2, <1>4, <1>7, <1>9 DEF Taken, Slots, FreeSet, TakenOf
  <2>3. held' \in [N -> Nat] /\ (\A x \in N : held'[x] = IF x < size THEN held[x] ELSE 0)
    <3>1. \A x \in N : x < size => x \in 0..(size - 1)
      BY <1>4, <1>7
    <3> QED
      BY <3>1, <2>1, <1>2
  <2>4. \A x \in Slots : x < size /\ x \in N /\ held'[x] = held[x] /\ held[x] \in Nat
    <3>1. \A x \in Slots : x \in 0..(size - 1)
      BY <1>4
    <3> QED
      BY <3>1, <2>1, <2>2, <2>3, <1>4
  <2>5. \A x \in Slots' \ Taken : held'[x] = 0
    <3>1. IsFiniteSet(Taken)
      BY <1>1, SlotFacts
    <3>2. ASSUME NEW x \in FreeSet PROVE held[x] = 0
      <4>1. x \in Slots /\ node[x].refcou = 0 /\ held[x] \in Nat /\ EdgesIn(node, Taken, x) \in Nat
        BY <1>4, <2>4, <3>1, EdgesNumber
      <4>2. Covers(0, held[x] + EdgesIn(node, Taken, x)) /\ 0 \in 0..MaxRef
        BY <4>1, <2>1, ReorderLimits
      <4>3. held[x] + EdgesIn(node, Taken, x) \in Nat
        BY <4>1
      <4>4. held[x] + EdgesIn(node, Taken, x) = 0
        BY <4>2, <4>3, Counting
      <4> QED
        BY <4>1, <4>4
    <3>3. \A x \in Slots' \ Taken : x < size => x \in FreeSet
      BY <2>2, <1>4
    <3> QED
      BY <3>2, <3>3, <2>2, <2>3, <2>4, <1>4
  <2>6. \A x \in Slots' : held'[x] > 0 => x \in extroots
    <3>1. \A x \in Slots' : held'[x] > 0 => x \in Taken
      BY <2>5
    <3> QED
      BY <3>1, <2>1, <2>4, <1>4
  (* A node counts both edges of n already when it has been asked for.      *)
  <2>7. ASSUME NEW x \in U1
        PROVE  Covers(t1.node[x].refcou,
                      (held'[x] + One(x = t0.res)) + EdgesIn(t1.node, U1, x) + One(x = t1.res))
    <3> DEFINE g == One(x = t0.res)
               e0 == EdgesIn(t0.node, U0, x)
               e1 == EdgesIn(t1.node, U1, x)
    <3>1. g \in Nat /\ e0 \in Nat /\ e1 \in Nat /\ held'[x] \in Nat /\ x \in Slots' /\ IsFiniteSet(U0)
      <4>1. IsFiniteSet(U0)
        BY <1>9, <1>10, FS_Subset
      <4>2. e0 \in Nat /\ e1 \in Nat
        BY <4>1, <1>9, EdgesNumber
      <4>3. x \in Slots' /\ held'[x] \in Nat
        BY <2>2, <2>3, <1>9
      <4> QED
        BY <4>1, <4>2, <4>3 DEF One
    <3>2. CASE x \in U0
      <4>1. \A k \in Nat : Covers(t0.node[x].refcou, k + e0) =>
              Covers(t1.node[x].refcou, k + e1 + One(x = t1.res))
        BY <3>2, <1>3 DEF Outcome, U0, U1
      <4>2. Covers(t0.node[x].refcou, (held'[x] + g) + e0)
        <5>1. CASE x \in Taken
          <6>1. \A k \in Nat : Covers(node[x].refcou, k + EdgesIn(node, Taken, x)) =>
                  Covers(t0.node[x].refcou, k + e0 + g)
            BY <5>1, <1>3 DEF Outcome, U0
          <6>2. Covers(t0.node[x].refcou, held'[x] + e0 + g)
            BY <5>1, <6>1, <2>1, <2>4, <1>4
          <6>3. held'[x] + e0 + g = (held'[x] + g) + e0
            BY <3>1
          <6> QED
            BY <6>2, <6>3
        <5>2. CASE x \notin Taken
          <6>1. held'[x] = 0 /\ g = 1
            BY <5>2, <3>1, <3>2, <2>5, <1>7 DEF One
          <6>2. Covers(t0.node[x].refcou, e0 + 1)
            BY <5>2, <3>2, <1>3 DEF Outcome, U0
          <6>3. (held'[x] + g) + e0 = e0 + 1
            BY <6>1, <3>1
          <6> QED
            BY <6>2, <6>3
        <5> QED
          BY <5>1, <5>2
      <4>3. held'[x] + g \in Nat
        BY <3>1
      <4> QED
        BY <4>1, <4>2, <4>3
    <3>3. CASE x \notin U0
      <4>1. held'[x] = 0 /\ g = 0 /\ One(x = t1.res) = 1
        <5>1. x \notin Taken /\ x \notin Terminal /\ x # t0.res /\ x = t1.res
          BY <3>3, <1>7, <1>9, <1>10
        <5> QED
          BY <5>1, <3>1, <2>5 DEF One
      <4>2. Covers(t1.node[x].refcou, e1 + 1)
        BY <3>3, <1>3 DEF Outcome, U0, U1
      <4>3. (held'[x] + g) + e1 + One(x = t1.res) = e1 + 1
        BY <4>1, <3>1
      <4> QED
        BY <4>2, <4>3
    <3> QED
      BY <3>2, <3>3
  <2>8. ASSUME NEW x \in U1 PROVE Covers(node'[x].refcou, held'[x] + EdgesIn(node', U1, x))
    <3> DEFINE rest == U1 \ {n}
               e == EdgesIn(t1.node, rest, x)
               g0 == One(x = t0.res)
               g1 == One(x = t1.res)
    <3>1. /\ IsFiniteSet(rest) /\ n \notin rest /\ U1 = rest \cup {n} /\ rest \subseteq N \ {n}
      BY <1>9, <1>10, FS_Subset
    <3> HIDE DEF rest
    <3>2. EdgesIn(t1.node, U1, x) = e + One(x = low) + One(x = high)
      <4>1. EdgesIn(t1.node, rest \cup {n}, x)
              = e + One(t1.node[n].low = x) + One(t1.node[n].high = x)
        BY <3>1, EdgesAdd
      <4>2. t1.node[n].low = low /\ t1.node[n].high = high
        BY <1>5, <1>8 DEF SameRow
      <4> QED
        BY <4>1, <4>2, <3>1 DEF One
    <3>3. EdgesIn(node', U1, x) = e + g0 + g1
      <4>1. EdgesIn(node', rest \cup {n}, x)
              = EdgesIn(node', rest, x) + One(node'[n].low = x) + One(node'[n].high = x)
        BY <3>1, EdgesAdd
      <4>2. EdgesIn(node', rest, x) = e
        <5>1. \A y \in rest : node'[y].low = t1.node[y].low /\ node'[y].high = t1.node[y].high
          BY <3>1, <1>12 DEF SameRow
        <5> QED
          BY <5>1, EdgesSame
      <4> QED
        BY <4>1, <4>2, <3>1, <1>12 DEF One
    <3>4. e \in Nat /\ g0 \in Nat /\ g1 \in Nat /\ One(x = low) \in Nat /\ One(x = high) \in Nat
          /\ held'[x] \in Nat /\ x \in 2..(t1.size - 1) /\ x \in N
      <4>1. e \in Nat
        BY <3>1, EdgesNumber
      <4>2. x \in 2..(t1.size - 1) /\ x \in N /\ held'[x] \in Nat
        BY <2>2, <2>3, <1>9
      <4> QED
        BY <4>1, <4>2 DEF One
    <3> HIDE DEF e, g0, g1
    <3>5. Covers(t1.node[x].refcou, (held'[x] + (e + g0 + g1)) + One(x = low) + One(x = high))
      <4>1. Covers(t1.node[x].refcou, (held'[x] + g0) + (e + One(x = low) + One(x = high)) + g1)
        BY <2>7, <3>2 DEF g0, g1
      <4>2. (held'[x] + g0) + (e + One(x = low) + One(x = high)) + g1
              = (held'[x] + (e + g0 + g1)) + One(x = low) + One(x = high)
        BY <3>4
      <4> QED
        BY <4>1, <4>2
    <3>6. held'[x] + (e + g0 + g1) \in Nat
      BY <3>4
    <3>7. Covers(c1[x].refcou, held'[x] + (e + g0 + g1))
      BY <3>4, <3>5, <3>6, <1>11
    <3> QED
      BY <3>3, <3>4, <3>7, <1>12
  <2>9. ASSUME NEW x \in ToSet(t1.free) PROVE held'[x] + EdgesIn(node', U1, x) = 0
    <3>1. x \in Slots' /\ x \notin U1 /\ x \notin Terminal /\ x \notin Taken
      <4>1. \A y \in 2..(t1.size - 1) : y \notin Terminal
        BY DEF Terminal, FALSEBDD, TRUEBDD
      <4> QED
        <5>1. x \in 2..(t1.size - 1) /\ x \notin U1 /\ Taken \subseteq U1
          BY <1>9, <1>10
        <5> QED
          BY <5>1, <4>1, <2>2
    <3>2. held'[x] = 0
      BY <3>1, <2>5
    <3>3. \A y \in U1 : node'[y].low \in Terminal \cup U1 /\ node'[y].high \in Terminal \cup U1
      <4>1. U1 = TakenOf(size', free')
        BY <1>2, <1>9
      <4> QED
        <5>1. \A y \in TakenOf(size', free') : /\ node'[y].low \in Terminal \cup TakenOf(size', free')
                                              /\ node'[y].high \in Terminal \cup TakenOf(size', free')
          BY <1>13, SoundChildren
        <5> QED
          BY <4>1, <5>1
    <3>4. EdgesIn(node', U1, x) = 0
      <4>1. IsFiniteSet(U1)
        BY <1>9
      <4>2. \A y \in U1 : node'[y].low # x /\ node'[y].high # x
        BY <3>1, <3>3
      <4> QED
        BY <4>1, <4>2, EdgesNumber
    <3> QED
      BY <3>2, <3>4
  <2>10. ASSUME NEW x \in Slots'
         PROVE  Covers(node'[x].refcou, held'[x] + EdgesIn(node', Taken', x))
    <3>1. CASE x \in U1
      BY <3>1, <2>2, <2>8
    <3>2. CASE x \in ToSet(t1.free)
      <4>1. held'[x] + EdgesIn(node', Taken', x) = 0
        BY <3>2, <2>2, <2>9
      <4>2. x \in N /\ node'[x] \in NodeOf(t1.size)
        BY <2>2, <1>12
      <4>3. node'[x].refcou \in Nat
        BY <4>2 DEF NodeOf
      <4> QED
        BY <4>1, <4>3 DEF Covers
    <3> QED
      BY <3>1, <3>2, <2>2, <1>9
  <2> QED
    BY <2>1, <2>2, <2>3, <2>6, <2>10, <1>2 DEF Counts
<1> QED
  BY <1>15, <1>16, <1>17 DEF Inv

-----------------------------------------------------------------------------
(* The theorem.                                                            *)

(* What the invariant says of a state is more than what TLC checks of it.  *)
LEMMA InvSound == Inv => TableSound
<1> SUFFICES ASSUME Inv PROVE TableSound
  OBVIOUS
<1>1. Shape /\ Records /\ Counts
  BY DEF Inv
<1>2. /\ size \in Nat /\ size > 2 /\ IsFiniteSet(Taken) /\ Taken \subseteq Slots
      /\ FreeSet \subseteq Slots /\ Terminal \cap Slots = {} /\ Terminal \cup Slots = 0..(size - 1)
      /\ node \in [0..(size - 1) -> NodeOf(size)] /\ varnum \in Nat /\ varnum \in 1..MaxVars
      /\ (\A n \in 0..(size - 1) : node[n].refcou \in 0..MaxRef)
      /\ \A n \in Taken : node[n].low \in Terminal \cup Taken /\ node[n].high \in Terminal \cup Taken
  BY <1>1, SlotFacts
<1>3. TypeOK
  <2>1. FreeSet \subseteq Slots /\ Len(free) = Cardinality(FreeSet)
    <3>1. Distinct(2..(size - 1), free)
      BY <1>1 DEF Shape, SoundTable
    <3> QED
      BY <3>1, <1>2, DistinctLength DEF FreeSet
  <2>2. /\ level2var \in [0..varnum -> 0..varnum]
        /\ \A v \in 0..varnum : \E l \in 0..varnum : level2var[l] = v
    BY <1>1 DEF Shape, IsOrder
  <2>3. /\ errorcond \in BOOLEAN /\ resized \in BOOLEAN /\ lost \in BOOLEAN
        /\ phase \in {"idle", "ready", "swap"} /\ pending \subseteq Taken
        /\ iactmtx \subseteq Variable \X Variable /\ upper \in 0..(MaxVars - 1)
    BY <1>1 DEF Records
  <2>4. extroots \subseteq Slots /\ held \in [0..(size - 1) -> Nat]
    BY <1>1 DEF Counts
  <2> QED
    BY <2>1, <2>2, <2>3, <2>4, <1>2 DEF TypeOK, NodeOf
<1>4. NoDanglingChild
  BY <1>2 DEF NoDanglingChild, Children
<1>5. CountsCover
  <2> SUFFICES ASSUME phase # "idle", NEW n \in Taken
               PROVE  node[n].refcou >= Incref(held[n], EdgesTo(n, Taken))
    BY DEF CountsCover
  <2>1. EdgesTo(n, Taken) = EdgesIn(node, Taken, n)
    BY DEF EdgesTo, EdgesIn
  <2>2. n \in Slots /\ n \in 0..(size - 1) /\ node[n].refcou \in 0..MaxRef
    BY <1>2
  <2>3. held[n] \in Nat /\ EdgesIn(node, Taken, n) \in Nat
    BY <2>2, <1>1, <1>2, EdgesNumber DEF Counts
  <2>4. Covers(node[n].refcou, held[n] + EdgesIn(node, Taken, n))
    BY <2>2, <1>1 DEF Counts
  <2>5. held[n] + EdgesIn(node, Taken, n) \in Nat
    BY <2>3
  <2>6. node[n].refcou >= Incref(held[n] + EdgesIn(node, Taken, n), 0)
    BY <2>2, <2>4, <2>5, Counting
  <2>7. Incref(held[n] + EdgesIn(node, Taken, n), 0) = Incref(held[n], EdgesIn(node, Taken, n))
    BY <2>3 DEF Incref
  <2> QED
    BY <2>1, <2>6, <2>7
<1> QED
  BY <1>3, <1>4, <1>5 DEF TableSound

(* Nothing happens.                                                        *)
LEMMA StutterStep ==
  ASSUME Inv, UNCHANGED vars
  PROVE  Inv'
<1>1. /\ size' = size /\ node' = node /\ free' = free /\ errorcond' = errorcond
      /\ varnum' = varnum /\ level2var' = level2var /\ phase' = phase /\ extroots' = extroots
      /\ iactmtx' = iactmtx /\ pending' = pending /\ upper' = upper /\ resized' = resized
      /\ held' = held /\ lost' = lost
  BY DEF vars
<1>2. Taken' = Taken /\ Slots' = Slots /\ Variable' = Variable /\ Var2Level(upper)' = Var2Level(upper)
  BY <1>1 DEF Taken, Slots, FreeSet, Variable, Var2Level
<1>3. Shape'
  BY <1>1 DEF Inv, Shape
<1>4. Records'
  BY <1>1, <1>2 DEF Inv, Records
<1>5. Counts'
  BY <1>1, <1>2 DEF Inv, Counts
<1> QED
  BY <1>3, <1>4, <1>5 DEF Inv

(* Every step of the program and of a reordering keeps the invariant.      *)
LEMMA InvStep ==
  ASSUME NEW Top \in Nat, GrowsUpTo(Top), Inv, [Next]_vars, size <= Top, size' <= Top
  PROVE  Inv'
<1>1. CASE ProgramStep
  <2>1. CASE \E l \in Variable, lo \in Known, hi \in Known : Build(l, lo, hi)
    BY <2>1, BuildStep
  <2>2. CASE \E n \in Slots : Release(n)
    BY <2>2, ReleaseStep
  <2>3. CASE Gbc
    BY <2>3, GbcStep
  <2>4. CASE AddVariable
    BY <2>4, AddVariableStep
  <2> QED
    BY <1>1, <2>1, <2>2, <2>3, <2>4 DEF ProgramStep
<1>2. CASE ReorderStep
  <2>1. CASE Start
    BY <2>1, StartStep
  <2>2. CASE \E v \in Variable : ExchangeIndependent(v) \/ DownSimple(v)
    BY <2>2, IndependentStep, DownSimpleStep
  <2>3. CASE \E n \in pending : SwapNode(n)
    BY <2>3, SwapStep
  <2>4. CASE LocalGbc
    BY <2>4, LocalGbcStep
  <2>5. CASE Done
    BY <2>5, DoneStep
  <2> QED
    BY <1>2, <2>1, <2>2, <2>3, <2>4, <2>5 DEF ReorderStep
<1>3. CASE UNCHANGED vars
  BY <1>3, StutterStep
<1> QED
  BY <1>1, <1>2, <1>3 DEF Next

(* The inductive invariant holds of every state while the table is within  *)
(* Top slots, when the table can grow from every smaller prime.            *)
THEOREM ReorderInvariant ==
  ASSUME NEW Top \in Nat, GrowsUpTo(Top)
  PROVE  Spec /\ [](size <= Top) => []Inv
<1>1. Inv /\ size <= Top /\ (size <= Top)' /\ [Next]_vars => Inv'
  BY InvStep
<1> QED
  BY <1>1, InitInv, PTL DEF Spec

(* reorder_vardown, reorder_localGbc, reorder_rehashAll and reorder_done   *)
(* reclaim no node in use: through every step of every reordering, half    *)
(* way through an exchange and after a failed or a successful resize too,  *)
(* no node in use has a child on the free list, and each has a count that  *)
(* covers its edges and the references of the program. Top is the width of *)
(* a table (an int in the code); the one step left out is the resize that  *)
(* finds no larger prime below its bound, after which NewNode writes past  *)
(* the end of the table.                                                   *)
THEOREM TableSoundHolds ==
  ASSUME NEW Top \in Nat, GrowsUpTo(Top)
  PROVE  Spec /\ [](size <= Top) => []TableSound
<1>1. Spec /\ [](size <= Top) => []Inv
  BY ReorderInvariant
<1> QED
  BY <1>1, InvSound, PTL

-----------------------------------------------------------------------------
(* Functions of nodes.                                                     *)

Points == SUBSET (0..(MaxVars - 1))

(* The function of a node of variable v: at the points without v that of   *)
(* its low child, at the others that of its high child.                    *)
Shannon(f, v, lo, hi) == {a \in f[lo] : v \notin a} \cup {a \in f[hi] : v \in a}

(* f gives the constants and the nodes of T their functions; var has the   *)
(* variable of each.                                                       *)
Denotes(f, T, nd, var) ==
  /\ f[FALSEBDD] = {} /\ f[TRUEBDD] = Points
  /\ \A n \in T : f[n] = Shannon(f, var[n], nd[n].low, nd[n].high)

Vars == [n \in 0..(size - 1) |-> VarOf(n)]

(* The recursive definition of the functions has a solution.               *)
LEMMA FunctionsEquation ==
  ASSUME SoundTable(size, node, free, varnum)
  PROVE  Functions_ = [n \in 0..(size - 1) |->
           IF n \in Terminal \/ node[n].low = -1
           THEN IF n = TRUEBDD THEN Points ELSE {}
           ELSE Shannon(Functions_, VarOf(n), node[n].low, node[n].high)]
<1> DEFINE S == 0..(size - 1)
           Body(f) == [n \in S |-> IF n \in Terminal \/ node[n].low = -1
                                   THEN IF n = TRUEBDD THEN Points ELSE {}
                                   ELSE Shannon(f, VarOf(n), node[n].low, node[n].high)]
           F == [f \in [S -> SUBSET Points] |-> Body(f)]
<1>1. \A n \in S : node[n].low # -1 => node[n].low \in S /\ node[n].high \in S
  <2>1. size \in Nat /\ \A n \in S : node[n].low \in -1..(size - 1) /\ node[n].high \in 0..(size - 1)
    <3>1. size \in Nat
      BY DEF SoundTable
    <3> QED
      BY <3>1, TakenFacts
  <2> QED
    BY <2>1
<1>2. ASSUME NEW f \in [S -> SUBSET Points]
      PROVE  Body(f) \in [S -> SUBSET Points]
  <2>1. ASSUME NEW n \in S, ~ (n \in Terminal \/ node[n].low = -1)
        PROVE  Shannon(f, VarOf(n), node[n].low, node[n].high) \subseteq Points
    <3>1. f[node[n].low] \subseteq Points /\ f[node[n].high] \subseteq Points
      BY <1>1, <2>1
    <3> QED
      BY <3>1 DEF Shannon
  <2> QED
    BY <2>1
<1>3. F \in [[S -> SUBSET Points] -> [S -> SUBSET Points]]
  BY <1>2
<1>4. ASSUME NEW f \in [S -> SUBSET Points], NEW g \in [S -> SUBSET Points],
             \A x \in S : f[x] \subseteq g[x], NEW x \in S
      PROVE  F[f][x] \subseteq F[g][x]
  <2>1. F[f] = Body(f) /\ F[g] = Body(g)
    OBVIOUS
  <2> HIDE DEF F
  <2>2. CASE x \in Terminal \/ node[x].low = -1
    BY <2>1, <2>2
  <2>3. CASE ~ (x \in Terminal \/ node[x].low = -1)
    <3>1. Body(f)[x] = Shannon(f, VarOf(x), node[x].low, node[x].high)
      BY <2>3
    <3>2. Body(g)[x] = Shannon(g, VarOf(x), node[x].low, node[x].high)
      BY <2>3
    <3>3. f[node[x].low] \subseteq g[node[x].low] /\ f[node[x].high] \subseteq g[node[x].high]
      BY <2>3, <1>1, <1>4
    <3> QED
      BY <2>1, <3>1, <3>2, <3>3 DEF Shannon
  <2> QED
    BY <2>2, <2>3
<1>5. PICK f \in [S -> SUBSET Points] : f = F[f]
  <2> HIDE DEF F
  <2>1. \A f, g \in [S -> SUBSET Points] : (\A x \in S : f[x] \subseteq g[x]) =>
                                        \A x \in S : F[f][x] \subseteq F[g][x]
    BY <1>4
  <2>2. Monotone(F, S, Points)
    BY <2>1, <1>3 DEF Monotone
  <2>3. HasFixedPoint(F, S, Points)
    BY <2>2, FixedPoint
  <2> QED
    BY <2>3 DEF HasFixedPoint
<1>6. f = Body(f)
  BY <1>5
<1>7. Functions_ = CHOOSE h : h = Body(h)
  BY Zenon DEF Functions_, Shannon, Points
<1> HIDE DEF Body
<1>8. Functions_ = Body(Functions_)
  BY <1>6, <1>7
<1> QED
  BY <1>8 DEF Body

(* What a function of nodes denotes, in a table that is sound.             *)
LEMMA FunctionsDenote == Inv => Denotes(Functions_, Taken, node, Vars)
<1> SUFFICES ASSUME Inv PROVE Denotes(Functions_, Taken, node, Vars)
  OBVIOUS
<1>1. Shape
  BY DEF Inv
<1>2. /\ size \in Nat /\ size > 2 /\ Taken \subseteq Slots /\ Terminal \cap Slots = {}
      /\ Terminal \cup Slots = 0..(size - 1)
      /\ \A n \in Taken : node[n].low \in Terminal \cup Taken
  BY <1>1, SlotFacts
<1> DEFINE sat == Functions_
<1>3. \A n \in 0..(size - 1) :
        sat[n] = IF n \in Terminal \/ node[n].low = -1
                 THEN IF n = TRUEBDD THEN Points ELSE {}
                 ELSE Shannon(sat, VarOf(n), node[n].low, node[n].high)
  <2>1. SoundTable(size, node, free, varnum)
    BY <1>1 DEF Shape
  <2>2. sat = [n \in 0..(size - 1) |->
                 IF n \in Terminal \/ node[n].low = -1
                 THEN IF n = TRUEBDD THEN Points ELSE {}
                 ELSE Shannon(sat, VarOf(n), node[n].low, node[n].high)]
    BY <2>1, FunctionsEquation
  <2> HIDE DEF sat
  <2> QED
    BY <2>2
<1> HIDE DEF sat
<1>4. sat[FALSEBDD] = {} /\ sat[TRUEBDD] = Points
  <2>1. FALSEBDD \in Terminal /\ TRUEBDD \in Terminal /\ FALSEBDD # TRUEBDD
    BY DEF Terminal, FALSEBDD, TRUEBDD
  <2>2. FALSEBDD \in 0..(size - 1) /\ TRUEBDD \in 0..(size - 1)
    BY <1>2, <2>1
  <2> QED
    BY <1>3, <2>1, <2>2
<1>5. ASSUME NEW n \in Taken PROVE sat[n] = Shannon(sat, Vars[n], node[n].low, node[n].high)
  <2>1. n \in 0..(size - 1) /\ n \notin Terminal
    BY <1>2
  <2>2. node[n].low # -1
    <3>1. node[n].low \in 0..(size - 1)
      BY <1>2
    <3> QED
      BY <3>1, <1>2
  <2>3. Vars[n] = VarOf(n)
    BY <2>1 DEF Vars
  <2> QED
    BY <1>3, <2>1, <2>2, <2>3
<1> QED
  BY <1>4, <1>5 DEF Denotes, sat

(* The nodes of T are closed under children, of which none is cyclic.      *)
Grounded(D, T, nd, rank) ==
  /\ T \in SUBSET D /\ rank \in [D -> Nat]
  /\ \A n \in T : /\ nd[n].low \in Terminal \cup T /\ nd[n].high \in Terminal \cup T
                  /\ rank[nd[n].low] < rank[n] /\ rank[nd[n].high] < rank[n]

(* There is only one way to give the nodes of an acyclic table functions.  *)
LEMMA OneDenotation ==
  ASSUME NEW D, NEW T, NEW rank, NEW nd, NEW var, Grounded(D, T, nd, rank),
         NEW f, NEW g, Denotes(f, T, nd, var), Denotes(g, T, nd, var)
  PROVE  \A n \in Terminal \cup T : f[n] = g[n]
<1>0. /\ T \in SUBSET D /\ rank \in [D -> Nat]
      /\ \A n \in T : /\ nd[n].low \in Terminal \cup T /\ nd[n].high \in Terminal \cup T
                      /\ rank[nd[n].low] < rank[n] /\ rank[nd[n].high] < rank[n]
  BY DEF Grounded
<1> DEFINE Bad == {n \in T : f[n] # g[n]}
<1>1. \A n \in Terminal : f[n] = g[n]
  BY DEF Denotes, Terminal
<1>2. Bad = {}
  <2> SUFFICES ASSUME Bad # {} PROVE FALSE
    OBVIOUS
  <2>1. PICK n \in Bad : \A m \in Bad : ~ (rank[m] < rank[n])
    <3>1. Bad \in SUBSET D
      BY <1>0
    <3> HIDE DEF Bad
    <3> QED
      BY <3>1, <1>0, LeastRank
  <2>2. n \in T /\ f[n] # g[n]
    OBVIOUS
  <2>3. nd[n].low \notin Bad /\ nd[n].high \notin Bad
    BY <2>1, <2>2, <1>0
  <2>4. f[nd[n].low] = g[nd[n].low] /\ f[nd[n].high] = g[nd[n].high]
    BY <1>0, <1>1, <2>2, <2>3
  <2>5. /\ f[n] = Shannon(f, var[n], nd[n].low, nd[n].high)
        /\ g[n] = Shannon(g, var[n], nd[n].low, nd[n].high)
    BY <2>2 DEF Denotes
  <2> QED
    BY <2>2, <2>4, <2>5 DEF Shannon
<1> QED
  BY <1>1, <1>2

(* What denotes the functions of the next table agrees with Functions_.    *)
LEMMA NextFunctions ==
  ASSUME Inv', NEW g, Denotes(g, Taken', node', Vars')
  PROVE  \A n \in Terminal \cup Taken' : Functions_'[n] = g[n]
<1>1. Denotes(Functions_, Taken, node, Vars)'
  BY FunctionsDenote, PTL
<1>2. Denotes(Functions_', Taken', node', Vars')
  BY <1>1 DEF Denotes, Shannon, Points
<1>3. Shape'
  BY DEF Inv
<1>4. PICK rank : IsRank(size', node', free', rank)
  BY <1>3 DEF Shape, Acyclic
<1>5. SoundTable(size', node', free', varnum')
  BY <1>3 DEF Shape
<1>6. Taken' = TakenOf(size', free')
  BY DEF Taken, Slots, FreeSet, TakenOf
<1>7. Taken' \subseteq 0..(size' - 1)
  BY <1>5, <1>6, TakenFacts
<1>8. \A n \in Taken' : node'[n].low \in Terminal \cup Taken' /\ node'[n].high \in Terminal \cup Taken'
  BY <1>5, <1>6, SoundChildren
<1>9. /\ rank \in [0..(size' - 1) -> Nat]
      /\ \A n \in Taken' : rank[node'[n].low] < rank[n] /\ rank[node'[n].high] < rank[n]
  BY <1>4, <1>6 DEF IsRank
<1> DEFINE D == 0..(size' - 1)
           T == Taken'
           nd == node'
           var == Vars'
           f == Functions_'
<1>10. Grounded(D, T, nd, rank)
  BY <1>7, <1>8, <1>9 DEF Grounded
<1>11. Denotes(f, T, nd, var) /\ Denotes(g, T, nd, var)
  BY <1>2
<1> HIDE DEF D, T, nd, var, f
<1>12. \A n \in Terminal \cup T : f[n] = g[n]
  BY <1>10, <1>11, OneDenotation
<1> QED
  BY <1>12 DEF T, f

(* What the program holds has a count, and is in use.                      *)
LEMMA HeldTaken == Inv => \A n \in Slots : held[n] > 0 => n \in Taken
<1> SUFFICES ASSUME Inv, NEW n \in Slots, held[n] > 0 PROVE n \in Taken
  OBVIOUS
<1>1. Shape /\ Counts
  BY DEF Inv
<1>2. /\ IsFiniteSet(Taken) /\ Slots = Taken \cup FreeSet
      /\ Terminal \cup Slots = 0..(size - 1) /\ \A m \in FreeSet : node[m].refcou = 0
  BY <1>1, SlotFacts
<1>3. n \in 0..(size - 1) /\ held[n] \in Nat /\ EdgesIn(node, Taken, n) \in Nat
  <2>1. n \in 0..(size - 1) /\ EdgesIn(node, Taken, n) \in Nat
    BY <1>2, EdgesNumber
  <2> QED
    BY <2>1, <1>1 DEF Counts
<1>4. PICK k \in Nat : k > 0 /\ Covers(node[n].refcou, k)
  <2>1. CASE phase = "idle"
    <3>1. Covers(node[n].refcou, held[n])
      BY <1>1, <2>1 DEF Counts
    <3> QED
      BY <3>1, <1>3
  <2>2. CASE phase # "idle"
    <3>1. Covers(node[n].refcou, held[n] + EdgesIn(node, Taken, n))
      BY <1>1, <2>2 DEF Counts
    <3>2. held[n] + EdgesIn(node, Taken, n) \in Nat /\ held[n] + EdgesIn(node, Taken, n) > 0
      BY <1>3
    <3> QED
      BY <3>1, <3>2
  <2> QED
    BY <2>1, <2>2
<1>5. node[n].refcou # 0
  BY <1>4, ReorderLimits DEF Covers
<1> QED
  BY <1>2, <1>5

(* The nodes in use are slots of the table.                                *)
LEMMA TakenInTable == Inv => Taken \subseteq 0..(size - 1)
<1> SUFFICES ASSUME Inv PROVE Taken \subseteq 0..(size - 1)
  OBVIOUS
<1>1. Taken \subseteq Slots /\ Terminal \cup Slots = 0..(size - 1)
  BY SlotFacts DEF Inv
<1> QED
  BY <1>1

(* No constant is a node in use.                                           *)
LEMMA TakenApart == Inv => Taken \cap Terminal = {}
<1> SUFFICES ASSUME Inv PROVE Taken \cap Terminal = {}
  OBVIOUS
<1>1. Taken \subseteq Slots /\ Terminal \cap Slots = {}
  BY SlotFacts DEF Inv
<1> QED
  BY <1>1

(* No node in use is marked as a free slot.                                *)
LEMMA LowChild == Inv => \A m \in Taken : node[m].low # -1
<1> SUFFICES ASSUME Inv, NEW m \in Taken PROVE node[m].low # -1
  OBVIOUS
<1>1. /\ size \in Nat /\ size > 2 /\ Taken \subseteq Slots /\ Terminal \cup Slots = 0..(size - 1)
      /\ node[m].low \in Terminal \cup Taken
  BY SlotFacts DEF Inv
<1>2. node[m].low \in 0..(size - 1)
  BY <1>1
<1> QED
  BY <1>1, <1>2

(* A node with the row it had before.                                      *)
RowKept(n) ==
  node'[n].low = node[n].low /\ node'[n].high = node[n].high /\ VarOf(n)' = VarOf(n)

(* Nodes may go, and those that stay have the rows they had.               *)
RowsLeft == Taken' \subseteq Taken /\ \A n \in Taken' : RowKept(n)

(* Nodes that are left as they are keep their functions when others go.    *)
LEMMA FunctionsLeft ==
  ASSUME Inv, Inv', RowsLeft
  PROVE  \A n \in Taken' : Functions_'[n] = Functions_[n]
<1>0. Taken' \subseteq Taken /\ \A n \in Taken' : RowKept(n)
  BY DEF RowsLeft
<1>1. Denotes(Functions_, Taken, node, Vars)
  BY FunctionsDenote
<1>2. Taken \subseteq 0..(size - 1)
  BY TakenInTable
<1>3. Taken' \subseteq 0..(size' - 1)
  <2>1. (Taken \subseteq 0..(size - 1))'
    BY TakenInTable, PTL
  <2> QED
    BY <2>1
<1>4. Denotes(Functions_, Taken', node', Vars')
  <2>1. Functions_[FALSEBDD] = {} /\ Functions_[TRUEBDD] = Points
    BY <1>1 DEF Denotes
  <2>2. ASSUME NEW n \in Taken'
        PROVE  Functions_[n] = Shannon(Functions_, Vars'[n], node'[n].low, node'[n].high)
    <3>1. n \in Taken /\ n \in 0..(size - 1) /\ n \in 0..(size' - 1)
      BY <1>0, <1>2, <1>3
    <3>2. Functions_[n] = Shannon(Functions_, Vars[n], node[n].low, node[n].high)
      BY <3>1, <1>1 DEF Denotes
    <3>3. Vars[n] = VarOf(n)
      BY <3>1 DEF Vars
    <3>4. Vars'[n] = VarOf(n)'
      BY <3>1 DEF Vars
    <3> QED
      BY <3>2, <3>3, <3>4, <1>0 DEF RowKept
  <2> QED
    BY <2>1, <2>2 DEF Denotes
<1> QED
  BY <1>4, NextFunctions

(* When nodes are added, those in use keep their functions, and the new    *)
(* ones have those their children give them.                               *)
LEMMA FunctionsAdded ==
  ASSUME Inv, Inv', Taken \subseteq Taken', \A n \in Taken : RowKept(n),
         \A n \in Taken' \ Taken : /\ node'[n].low \in Terminal \cup Taken
                                   /\ node'[n].high \in Terminal \cup Taken
  PROVE  /\ \A n \in Terminal \cup Taken : Functions_'[n] = Functions_[n]
         /\ \A n \in Taken' \ Taken :
              Functions_'[n] = Shannon(Functions_, VarOf(n)', node'[n].low, node'[n].high)
<1> DEFINE g == [n \in Terminal \cup Taken' |->
                   IF n \in Terminal \cup Taken THEN Functions_[n]
                   ELSE Shannon(Functions_, VarOf(n)', node'[n].low, node'[n].high)]
<1>1. Denotes(Functions_, Taken, node, Vars)
  BY FunctionsDenote
<1>2. Taken \subseteq 0..(size - 1) /\ Terminal \cap Taken = {}
      /\ \A n \in Taken : node[n].low \in Terminal \cup Taken /\ node[n].high \in Terminal \cup Taken
  <2>1. Taken \subseteq Slots /\ Terminal \cap Slots = {}
        /\ \A n \in Taken : node[n].low \in Terminal \cup Taken /\ node[n].high \in Terminal \cup Taken
    BY SlotFacts DEF Inv
  <2> QED
    BY <2>1, TakenInTable
<1>3. Taken' \subseteq 0..(size' - 1)
  <2>1. (Taken \subseteq 0..(size - 1))'
    BY TakenInTable, PTL
  <2> QED
    BY <2>1
<1>4. \A n \in Terminal \cup Taken : g[n] = Functions_[n]
  OBVIOUS
<1>5. \A n \in Taken' \ Taken : n \notin Terminal => 
        g[n] = Shannon(Functions_, VarOf(n)', node'[n].low, node'[n].high)
  OBVIOUS
<1>6. \A n \in Taken' : n \notin Terminal
  <2>1. (Taken \cap Terminal = {})'
    BY TakenApart, PTL
  <2> QED
    BY <2>1 DEF Terminal
<1> HIDE DEF g
<1>7. \A n \in Taken' : Vars'[n] = VarOf(n)'
  BY <1>3 DEF Vars
<1>8. \A n \in Taken : Vars[n] = VarOf(n)
  BY <1>2 DEF Vars
<1>9. Denotes(g, Taken', node', Vars')
  <2>1. g[FALSEBDD] = {} /\ g[TRUEBDD] = Points
    BY <1>1, <1>4 DEF Denotes, Terminal
  <2>2. ASSUME NEW n \in Taken'
        PROVE  g[n] = Shannon(g, Vars'[n], node'[n].low, node'[n].high)
    <3>1. CASE n \in Taken
      <4>1. Functions_[n] = Shannon(Functions_, Vars[n], node[n].low, node[n].high)
        BY <3>1, <1>1 DEF Denotes
      <4>2. /\ node'[n].low = node[n].low /\ node'[n].high = node[n].high /\ Vars'[n] = Vars[n]
        BY <3>1, <1>7, <1>8 DEF RowKept
      <4>3. g[node[n].low] = Functions_[node[n].low] /\ g[node[n].high] = Functions_[node[n].high]
            /\ g[n] = Functions_[n]
        BY <3>1, <1>2, <1>4
      <4> QED
        BY <4>1, <4>2, <4>3 DEF Shannon
    <3>2. CASE n \notin Taken
      <4>1. g[n] = Shannon(Functions_, Vars'[n], node'[n].low, node'[n].high)
        BY <3>2, <1>5, <1>6, <1>7
      <4>2. g[node'[n].low] = Functions_[node'[n].low] /\ g[node'[n].high] = Functions_[node'[n].high]
        BY <3>2, <1>4
      <4> QED
        BY <4>1, <4>2 DEF Shannon
    <3> QED
      BY <3>1, <3>2
  <2> QED
    BY <2>1, <2>2 DEF Denotes
<1>10. \A n \in Terminal \cup Taken' : Functions_'[n] = g[n]
  BY <1>9, NextFunctions
<1> QED
  BY <1>4, <1>5, <1>6, <1>10


(* A step that adds no node keeps the functions of what is held after it.  *)
LEMMA KeptLeft ==
  ASSUME Inv, Inv', FunctionsKept, RowsLeft,
         \A n \in Taken' : held'[n] > 0 => held[n] > 0 /\ meaning'[n] = meaning[n]
  PROVE  FunctionsKept'
<1>1. \A n \in Taken' : Functions_'[n] = Functions_[n]
  BY FunctionsLeft
<1>2. \A n \in Slots' : held'[n] > 0 => n \in Taken'
  <2>1. (\A n \in Slots : held[n] > 0 => n \in Taken)'
    BY HeldTaken, PTL
  <2> QED
    BY <2>1
<1>3. Taken \subseteq Slots
  BY SlotFacts DEF Inv
<1>4. \A n \in Slots : held[n] > 0 => Functions_[n] = meaning[n]
  BY DEF FunctionsKept
<1>5. ASSUME NEW n \in Slots', held'[n] > 0
      PROVE  n \in Taken' /\ Functions_'[n] = meaning'[n]
  BY <1>1, <1>2, <1>3, <1>4, <1>5 DEF RowsLeft
<1> HIDE DEF Functions_
<1> QED
  BY <1>5 DEF FunctionsKept

(* Nothing happens, or no node is touched.                                 *)
LEMMA SameRows ==
  ASSUME \/ UNCHANGED vars
         \/ \E v \in Variable : ExchangeIndependent(v) \/ DownSimple(v)
  PROVE  Taken' = Taken /\ RowsLeft /\ held' = held /\ meaning' = meaning
<1>1. /\ size' = size /\ node' = node /\ free' = free /\ held' = held /\ meaning' = meaning
      /\ \/ phase' = phase /\ level2var' = level2var
         \/ phase # "idle" /\ phase' # "idle"
  BY DEF vars, ExchangeIndependent, DownSimple
<1>2. Taken' = Taken /\ \A n \in Taken : RowKept(n)
  BY <1>1 DEF Taken, Slots, FreeSet, RowKept, VarOf
<1> QED
  BY <1>1, <1>2 DEF RowsLeft

(* Such a step keeps functions.                                            *)
LEMMA SameKept ==
  ASSUME Inv, Inv', FunctionsKept,
         \/ UNCHANGED vars
         \/ \E v \in Variable : ExchangeIndependent(v) \/ DownSimple(v)
  PROVE  FunctionsKept'
<1>1. Taken' = Taken /\ RowsLeft /\ held' = held /\ meaning' = meaning
  BY SameRows
<1> QED
  BY <1>1, KeptLeft

(* The slots that meaning records functions for.                           *)
Meant == DOMAIN meaning = 0..(size - 1)

(* bdd_delref.                                                             *)
LEMMA ReleaseRows ==
  ASSUME Inv, NEW n \in Slots, Release(n)
  PROVE  Taken' = Taken /\ RowsLeft
<1>1. Shape /\ Counts
  BY DEF Inv
<1>2. /\ phase = "idle" /\ held[n] > 0 /\ held' = [held EXCEPT ![n] = held[n] - 1]
      /\ node' = [node EXCEPT ![n].refcou = Decref(@, 1)] /\ level2var' = level2var
      /\ meaning' = IF held[n] = 1 THEN [meaning EXCEPT ![n] = {}] ELSE meaning
      /\ size' = size /\ free' = free /\ phase' = phase
  BY DEF Release, Called, Idle
<1>3. Slots' = Slots /\ Taken' = Taken
  BY <1>2 DEF Slots, Taken, FreeSet
<1>4. /\ node \in [0..(size - 1) -> NodeOf(size)] /\ Terminal \cap Slots = {} /\ size \in Nat /\ size > 2
      /\ Terminal \cup Slots = 0..(size - 1) /\ Taken \subseteq Slots
  BY <1>1, SlotFacts
<1>5. n \in 0..(size - 1) /\ n \notin Terminal /\ held \in [0..(size - 1) -> Nat] /\ held[n] \in Nat
  BY <1>1, <1>4 DEF Counts
<1>6. node' = CountDown(node, n)
  BY <1>2, <1>5 DEF CountDown
<1>7. \A x \in 0..(size - 1) : SameRow(node, node', x)
  BY <1>4, <1>5, <1>6, CountDownSound
<1>8. \A x \in Taken : RowKept(x)
  BY <1>2, <1>4, <1>7 DEF SameRow, RowKept, VarOf
<1> QED
  BY <1>3, <1>8 DEF RowsLeft

(* What stays held keeps its function.                                     *)
LEMMA ReleaseKept ==
  ASSUME Inv, Inv', Meant, FunctionsKept, NEW n \in Slots, Release(n)
  PROVE  FunctionsKept'
<1>1. Taken' = Taken /\ RowsLeft
  BY ReleaseRows
<1>2. /\ held[n] > 0 /\ held' = [held EXCEPT ![n] = held[n] - 1]
      /\ meaning' = IF held[n] = 1 THEN [meaning EXCEPT ![n] = {}] ELSE meaning
  BY DEF Release
<1>4. Taken \subseteq 0..(size - 1)
  BY TakenInTable
<1>5. n \in 0..(size - 1) /\ held \in [0..(size - 1) -> Nat] /\ held[n] \in Nat
  <2>1. Terminal \cup Slots = 0..(size - 1)
    BY SlotFacts DEF Inv
  <2> QED
    BY <2>1 DEF Inv, Counts
<1>9. ASSUME NEW x \in Taken, held'[x] > 0
      PROVE  held[x] > 0 /\ meaning'[x] = meaning[x]
  <2>1. x \in 0..(size - 1)
    BY <1>4
  <2>2. CASE x = n
    <3>1. held'[n] = held[n] - 1
      BY <1>2, <1>5
    <3>2. held[n] # 1
      BY <1>9, <2>2, <3>1
    <3> QED
      BY <3>2, <2>2, <1>2
  <2>3. CASE x # n
    <3>1. held'[x] = held[x]
      BY <2>1, <2>3, <1>2, <1>5
    <3>2. meaning'[x] = meaning[x]
      BY <2>1, <2>3, <1>2 DEF Meant
    <3> QED
      BY <3>1, <3>2, <1>9
  <2> QED
    BY <2>2, <2>3
<1> QED
  BY <1>1, <1>9, KeptLeft

(* bdd_gbc.                                                                *)
LEMMA GbcRows ==
  ASSUME Inv, Gbc
  PROVE  RowsLeft /\ held' = held /\ meaning' = meaning
<1>1. Shape
  BY DEF Inv
<1>2. /\ phase = "idle" /\ size' = size /\ held' = held /\ level2var' = level2var
      /\ phase' = phase /\ meaning' = meaning
      /\ node' = Cleared(node, Slots \ Reachable) /\ free' = Ascending(Slots \ Reachable)
  BY DEF Gbc, Called, Idle
<1> DEFINE K == Reachable
<1>3. K = Reach(Counted)
  BY DEF Reachable, Reach
<1> HIDE DEF K
<1>4. K \subseteq Taken
  <2>1. Counted \in SUBSET Taken
    BY <1>1, CountedTaken
  <2> QED
    BY <1>1, <1>3, <2>1, ReachClosed
<1>5. ToSet(free') = Slots \ K
  BY <1>1, <1>2, AscendingSlots DEF K
<1>6. Taken' = K
  <2>1. Taken' = Slots \ ToSet(free')
    BY <1>2 DEF Taken, Slots, FreeSet
  <2>2. Taken \subseteq Slots
    BY <1>1, SlotFacts
  <2> QED
    BY <2>1, <2>2, <1>4, <1>5
<1>7. \A n \in K : node'[n] = node[n]
  <2>1. DOMAIN node = 0..(size - 1) /\ Taken \subseteq 0..(size - 1)
    BY <1>1, SlotFacts
  <2> QED
    BY <2>1, <1>2, <1>4 DEF Cleared, K
<1>8. \A n \in K : RowKept(n)
  BY <1>2, <1>7 DEF RowKept, VarOf
<1> QED
  BY <1>2, <1>4, <1>6, <1>8 DEF RowsLeft

(* reorder_init turns levels into variables: no node gets another.         *)
LEMMA StartRows ==
  ASSUME Inv, Start
  PROVE  RowsLeft /\ Taken' = Reach(Counted) /\ held' = held /\ meaning' = meaning
<1>1. Shape
  BY DEF Inv
<1> DEFINE K == Reachable
<1>2. /\ phase = "idle" /\ size' = size /\ held' = held /\ phase' = "ready" /\ meaning' = meaning
      /\ free' = Ascending(Slots \ K)
  BY DEF Start, Idle
<1>3. node' = [n \in DOMAIN node |->
                 CASE n \in Terminal -> node[n]
                   [] n \in K -> [node[n] EXCEPT !.level = level2var[@],
                                                 !.refcou = Incref(@, EdgesTo(n, K))]
                   [] OTHER -> FreeNode]
  BY DEF Start
<1>4. K = Reach(Counted)
  BY DEF Reachable, Reach
<1> HIDE DEF K
<1>5. K \subseteq Taken
  <2>1. Counted \in SUBSET Taken
    BY <1>1, CountedTaken
  <2> QED
    BY <1>1, <1>4, <2>1, ReachClosed
<1>6. ToSet(free') = Slots \ K
  BY <1>1, <1>2, AscendingSlots
<1>7. /\ node \in [0..(size - 1) -> NodeOf(size)] /\ Terminal \cap Slots = {}
      /\ Terminal \cup Slots = 0..(size - 1) /\ Taken \subseteq Slots
  BY <1>1, SlotFacts
<1>8. Taken' = K
  <2>1. Taken' = Slots \ ToSet(free')
    BY <1>2 DEF Taken, Slots, FreeSet
  <2> QED
    BY <2>1, <1>5, <1>6, <1>7
<1>9. ASSUME NEW n \in K PROVE RowKept(n)
  <2>1. n \in 0..(size - 1) /\ n \notin Terminal
    BY <1>5, <1>7
  <2>2. node'[n] = [node[n] EXCEPT !.level = level2var[@], !.refcou = Incref(@, EdgesTo(n, K))]
    BY <2>1, <1>3, <1>7
  <2>3. node[n] \in NodeOf(size)
    BY <2>1, <1>7
  <2>4. /\ node'[n].low = node[n].low /\ node'[n].high = node[n].high
        /\ node'[n].level = level2var[node[n].level]
    BY <2>2, <2>3 DEF NodeOf
  <2>5. VarOf(n) = level2var[node[n].level] /\ VarOf(n)' = node'[n].level
    BY <1>2 DEF VarOf
  <2> QED
    BY <2>4, <2>5 DEF RowKept
<1> QED
  BY <1>2, <1>4, <1>5, <1>8, <1>9 DEF RowsLeft

(* reorder_done turns variables into levels: no node gets another.         *)
LEMMA DoneRows ==
  ASSUME Inv, Done
  PROVE  RowsLeft /\ held' = held /\ meaning' = meaning
<1>1. Shape /\ Counts
  BY DEF Inv
<1> DEFINE R == {m \in extroots : node[m].refcou > 0}
           K == Reach(R)
           back(n) == [node[n] EXCEPT !.level = Var2Level(@), !.refcou = IF n \in extroots THEN @ ELSE 0]
           plain == [n \in DOMAIN node |-> IF n \in Terminal THEN node[n] ELSE back(n)]
<1>2. /\ phase = "ready" /\ phase' = "idle" /\ size' = size /\ held' = held /\ meaning' = meaning
      /\ level2var' = level2var
  BY DEF Done
<1>3. free' = Ascending(Slots \ K) /\ node' = Cleared(plain, Slots \ K)
  BY DEF Done, Reach
<1>4. /\ node \in [0..(size - 1) -> NodeOf(size)] /\ Terminal \cap Slots = {}
      /\ Terminal \cup Slots = 0..(size - 1) /\ Taken \subseteq Slots
      /\ Slots = Taken \cup FreeSet /\ (\A n \in FreeSet : node[n].refcou = 0)
      /\ \A n \in Taken : node[n].level \in Variable
  BY <1>1, SlotFacts
<1>5. R \in SUBSET Taken
  <2>1. extroots \subseteq Slots
    BY <1>1 DEF Counts
  <2> QED
    BY <2>1, <1>4
<1> HIDE DEF K
<1>6. K \subseteq Taken
  BY <1>1, <1>5, ReachClosed DEF K
<1>7. ToSet(free') = Slots \ K
  BY <1>1, <1>3, AscendingSlots
<1>8. Taken' = K
  <2>1. Taken' = Slots \ ToSet(free')
    BY <1>2 DEF Taken, Slots, FreeSet
  <2> QED
    BY <2>1, <1>4, <1>6, <1>7
<1>9. ASSUME NEW n \in K PROVE RowKept(n)
  <2>1. n \in 0..(size - 1) /\ n \notin Terminal /\ n \in Taken
    BY <1>4, <1>6
  <2>2. node'[n] = back(n)
    BY <2>1, <1>3, <1>4 DEF Cleared
  <2>3. node[n] \in NodeOf(size)
    BY <2>1, <1>4
  <2>4. /\ node'[n].low = node[n].low /\ node'[n].high = node[n].high
        /\ node'[n].level = Var2Level(node[n].level)
    BY <2>2, <2>3 DEF NodeOf
  <2>5. VarOf(n) = node[n].level /\ VarOf(n)' = level2var[node'[n].level]
    BY <1>2 DEF VarOf
  <2>6. level2var[Var2Level(node[n].level)] = node[n].level
    <3>1. IsOrder(level2var, varnum) /\ varnum \in Nat
      BY <1>1, SlotFacts DEF Shape
    <3>2. node[n].level \in 0..varnum
      BY <2>1, <1>4, <3>1 DEF Variable
    <3> QED
      BY <3>1, <3>2, OrderFacts
  <2> QED
    BY <2>4, <2>5, <2>6 DEF RowKept
<1> QED
  BY <1>2, <1>6, <1>8, <1>9 DEF RowsLeft

(* reorder_localGbc and reorder_rehashAll.                                 *)
LEMMA LocalGbcRows ==
  ASSUME Inv, Inv', LocalGbc
  PROVE  RowsLeft /\ held' = held /\ meaning' = meaning
<1>1. Shape
  BY DEF Inv
<1> DEFINE dead == {n \in Taken : node[n].level = Lower /\ node[n].refcou = 0}
           less(m) == [node[m] EXCEPT !.refcou = Decref(@, EdgesTo(m, dead))]
           counted == [m \in DOMAIN node |-> IF m \in Terminal THEN node[m] ELSE less(m)]
<1>2. /\ phase = "swap" /\ phase' = "ready" /\ size' = size /\ held' = held /\ meaning' = meaning
      /\ node' = Cleared(counted, dead)
      /\ free' = IF resized THEN Ascending({n \in Slots : counted[n].refcou = 0})
                 ELSE Ascending(dead) \o free
  BY DEF LocalGbc
<1>3. /\ node \in [0..(size - 1) -> NodeOf(size)] /\ Terminal \cap Slots = {} /\ size \in Nat /\ size > 2
      /\ Terminal \cup Slots = 0..(size - 1) /\ Taken \subseteq Slots /\ IsFiniteSet(Taken)
      /\ FreeSet \subseteq Slots /\ Slots = Taken \cup FreeSet
      /\ (\A x \in FreeSet : node[x].refcou = 0)
  BY <1>1, SlotFacts
<1>4. dead \in SUBSET Taken
  OBVIOUS
<1> HIDE DEF dead
<1>5. FreeSet \subseteq ToSet(free')
  <2>1. CASE resized
    <3> DEFINE G == {n \in Slots : counted[n].refcou = 0}
    <3>1. ASSUME NEW n \in FreeSet PROVE counted[n].refcou = 0
      <4>1. n \in 0..(size - 1) /\ n \notin Terminal /\ node[n] \in NodeOf(size) /\ node[n].refcou = 0
        BY <1>3
      <4>2. EdgesTo(n, dead) \in Nat
        <5>1. IsFiniteSet(dead)
          BY <1>3, <1>4, FS_Subset
        <5>2. EdgesTo(n, dead) = EdgesIn(node, dead, n)
          BY DEF EdgesTo, EdgesIn
        <5> QED
          BY <5>1, <5>2, EdgesNumber
      <4>3. Decref(0, EdgesTo(n, dead)) = 0
        BY <4>2, ReorderLimits DEF Decref
      <4>4. counted[n] = less(n)
        BY <4>1, <1>3
      <4>5. less(n).refcou = Decref(node[n].refcou, EdgesTo(n, dead))
        BY <4>1 DEF NodeOf
      <4> QED
        BY <4>1, <4>3, <4>4, <4>5
    <3> HIDE DEF counted
    <3>2. FreeSet \subseteq G /\ G \in SUBSET Slots
      BY <3>1, <1>3
    <3> HIDE DEF G
    <3>3. free' = Ascending(G)
      BY <1>2, <2>1 DEF G
    <3>4. ToSet(Ascending(G)) = G
      BY <1>1, <3>2, AscendingSlots
    <3> QED
      BY <3>2, <3>3, <3>4
  <2>2. CASE ~ resized
    <3>1. free' = Ascending(dead) \o free
      BY <1>2, <2>2
    <3>2. Ascending(dead) \in Seq(Slots) /\ free \in Seq(Slots)
      <4>1. dead \in SUBSET Slots
        BY <1>3, <1>4
      <4>2. Distinct(Slots, Ascending(dead)) /\ Distinct(Slots, free)
        BY <4>1, <1>1, AscendingSlots DEF Shape, SoundTable, Slots
      <4> QED
        BY <4>2 DEF Distinct
    <3>3. ToSet(free) \subseteq ToSet(Ascending(dead) \o free)
      <4> DEFINE a == Ascending(dead)
      <4> HIDE DEF a
      <4>1. ASSUME NEW i \in DOMAIN free
            PROVE  \E j \in DOMAIN (a \o free) : (a \o free)[j] = free[i]
        <5>1. a \in Seq(Slots) /\ free \in Seq(Slots)
          BY <3>2 DEF a
        <5>2. Len(a) + i \in DOMAIN (a \o free) /\ (a \o free)[Len(a) + i] = free[i]
          BY <5>1
        <5> QED
          BY <5>2
      <4>2. ToSet(free) \subseteq ToSet(a \o free)
        BY <4>1 DEF ToSet
      <4> QED
        BY <4>2 DEF a
    <3> QED
      BY <3>1, <3>3 DEF FreeSet
  <2> QED
    BY <2>1, <2>2
<1>6. Taken' = Slots \ ToSet(free')
  BY <1>2 DEF Taken, Slots, FreeSet
<1>7. Taken' \subseteq Taken
  BY <1>3, <1>5, <1>6
<1>8. ASSUME NEW n \in Taken' PROVE RowKept(n)
  <2>1. n \in 0..(size - 1) /\ n \notin Terminal /\ n \in Slots
    BY <1>3, <1>6
  <2>2. n \notin dead
    <3>1. (\A m \in Taken : node[m].low # -1)'
      BY LowChild, PTL
    <3>2. n \in dead => node'[n] = FreeNode
      BY <2>1, <1>2, <1>3 DEF Cleared
    <3> QED
      BY <3>1, <3>2 DEF FreeNode
  <2>3. node'[n] = less(n)
    BY <2>1, <2>2, <1>2, <1>3 DEF Cleared
  <2>4. node[n] \in NodeOf(size)
    BY <2>1, <1>3
  <2>5. node'[n].low = node[n].low /\ node'[n].high = node[n].high /\ node'[n].level = node[n].level
    BY <2>3, <2>4 DEF NodeOf
  <2> QED
    BY <2>5, <1>2 DEF RowKept, VarOf
<1> QED
  BY <1>2, <1>7, <1>8 DEF RowsLeft

(* Collections, and steps from levels to variables and back, keep the      *)
(* functions of what is held.                                              *)
LEMMA CollectionKept ==
  ASSUME Inv, Inv', FunctionsKept, Gbc \/ Start \/ LocalGbc \/ Done
  PROVE  FunctionsKept'
<1>1. RowsLeft /\ held' = held /\ meaning' = meaning
  BY GbcRows, StartRows, LocalGbcRows, DoneRows
<1>2. Taken' \subseteq Taken
  BY <1>1 DEF RowsLeft
<1> QED
  BY <1>1, <1>2, KeptLeft

(* A step that only adds nodes keeps the functions of what was held.       *)
LEMMA KeptAdded ==
  ASSUME Inv, Inv', Taken \subseteq Taken', \A n \in Taken : RowKept(n),
         \A n \in Taken' \ Taken : /\ node'[n].low \in Terminal \cup Taken
                                   /\ node'[n].high \in Terminal \cup Taken,
         \A n \in Taken' : held'[n] > 0 =>
           meaning'[n] = IF n \in Taken THEN Functions_[n]
                         ELSE Shannon(Functions_, VarOf(n)', node'[n].low, node'[n].high)
  PROVE  FunctionsKept'
<1>1. /\ \A n \in Terminal \cup Taken : Functions_'[n] = Functions_[n]
      /\ \A n \in Taken' \ Taken :
           Functions_'[n] = Shannon(Functions_, VarOf(n)', node'[n].low, node'[n].high)
  BY FunctionsAdded
<1>2. \A n \in Slots' : held'[n] > 0 => n \in Taken'
  <2>1. (\A n \in Slots : held[n] > 0 => n \in Taken)'
    BY HeldTaken, PTL
  <2> QED
    BY <2>1
<1>3. ASSUME NEW n \in Slots', held'[n] > 0
      PROVE  n \in Taken' /\ Functions_'[n] = meaning'[n]
  <2>1. n \in Taken'
    BY <1>2, <1>3
  <2>2. CASE n \in Taken
    BY <2>1, <2>2, <1>1, <1>3
  <2>3. CASE n \notin Taken
    BY <2>1, <2>3, <1>1, <1>3
  <2> QED
    BY <2>1, <2>2, <2>3
<1> HIDE DEF Functions_
<1> QED
  BY <1>3 DEF FunctionsKept

(* bdd_extvarnum(1): the two nodes of the new variable are added, and the  *)
(* levels of the others stay those of their variables.                     *)
LEMMA AddVariableRows ==
  ASSUME Inv, AddVariable
  PROVE  \E pos, neg \in Slots \ Taken :
           /\ pos # neg /\ Taken' = Taken \cup {pos, neg} /\ \A n \in Taken : RowKept(n)
           /\ VarOf(pos)' = varnum /\ node'[pos].low = FALSEBDD /\ node'[pos].high = TRUEBDD
           /\ VarOf(neg)' = varnum /\ node'[neg].low = TRUEBDD /\ node'[neg].high = FALSEBDD
<1>1. Shape
  BY DEF Inv
<1>0. PICK pos, neg : pos = free[1] /\ neg = free[2]
  OBVIOUS
<1> DEFINE v == varnum + 1
           posrow == [refcou |-> MaxRef, level |-> varnum, low |-> FALSEBDD, high |-> TRUEBDD]
           negrow == [refcou |-> MaxRef, level |-> varnum, low |-> TRUEBDD, high |-> FALSEBDD]
<1>2. /\ phase = "idle" /\ phase' = phase /\ Len(free) >= 2
      /\ node' = [node EXCEPT ![pos] = posrow, ![neg] = negrow,
                              ![FALSEBDD].level = v, ![TRUEBDD].level = v]
      /\ free' = Tail(Tail(free))
      /\ level2var' = [l \in 0..(varnum + 1) |-> IF l < varnum THEN level2var[l] ELSE l]
      /\ size' = size
  BY <1>0 DEF AddVariable, Called, Idle
<1>3. /\ node \in [0..(size - 1) -> NodeOf(size)] /\ Terminal \cap Slots = {}
      /\ Terminal \cup Slots = 0..(size - 1) /\ Taken \subseteq Slots
      /\ FreeSet \cap Taken = {} /\ FreeSet \subseteq Slots /\ Slots = Taken \cup FreeSet
      /\ (\A n \in Taken : node[n].level \in Variable) /\ varnum \in Nat
  BY <1>1, SlotFacts
<1>4. pos \in FreeSet /\ neg \in FreeSet /\ pos # neg /\ ToSet(free') = FreeSet \ {pos, neg}
  <2>1. Distinct(2..(size - 1), free)
    BY <1>1 DEF Shape, SoundTable
  <2>2. free \in Seq(2..(size - 1)) /\ free # << >> /\ Len(free) \in Nat
    BY <1>2, <2>1 DEF Distinct
  <2>3. /\ Distinct(2..(size - 1), Tail(free)) /\ Head(free) \in ToSet(free) /\ Head(free) = pos
        /\ ToSet(Tail(free)) = ToSet(free) \ {Head(free)}
    BY <2>1, <2>2, <1>0, DistinctTail
  <2>4. /\ Tail(free) \in Seq(2..(size - 1)) /\ Len(Tail(free)) = Len(free) - 1
        /\ Tail(free) # << >> /\ Tail(free)[1] = neg
    <3>1. Tail(free) \in Seq(2..(size - 1)) /\ Len(Tail(free)) = Len(free) - 1
          /\ \A i \in 1..(Len(free) - 1) : Tail(free)[i] = free[i + 1]
      BY <2>2, HeadTailProperties
    <3>2. 1 \in 1..(Len(free) - 1) /\ 1 + 1 = 2
      BY <1>2, <2>2
    <3>3. Len(Tail(free)) # 0
      <4>1. Len(free) - 1 # 0
        <5>1. \A k \in Nat : k >= 2 => k - 1 # 0
          OBVIOUS
        <5> QED
          BY <5>1, <1>2, <2>2
      <4> QED
        BY <3>1, <4>1
    <3>4. Tail(free) # << >>
      BY <3>1, <3>3, EmptySeq
    <3>5. Tail(free)[1] = free[1 + 1] /\ free[1 + 1] = neg
      BY <3>1, <3>2, <1>0
    <3> QED
      BY <3>1, <3>4, <3>5
  <2>5. /\ Head(Tail(free)) \in ToSet(Tail(free)) /\ Head(Tail(free)) = neg
        /\ ToSet(Tail(Tail(free))) = ToSet(Tail(free)) \ {Head(Tail(free))}
    BY <2>3, <2>4, DistinctTail
  <2> QED
    BY <2>3, <2>5, <1>2 DEF FreeSet
<1> HIDE DEF v
<1>5. pos \in 0..(size - 1) /\ neg \in 0..(size - 1)
      /\ pos # FALSEBDD /\ pos # TRUEBDD /\ neg # FALSEBDD /\ neg # TRUEBDD
  BY <1>3, <1>4 DEF Terminal
<1>6. /\ node'[pos] = posrow /\ node'[neg] = negrow
      /\ \A n \in 0..(size - 1) : n \notin Terminal /\ n # pos /\ n # neg => node'[n] = node[n]
  <2> HIDE DEF posrow, negrow
  <2> QED
    BY <1>2, <1>3, <1>4, <1>5 DEF Terminal
<1>7. Taken' = Taken \cup {pos, neg}
  <2>1. Taken' = Slots \ ToSet(free')
    BY <1>2 DEF Taken, Slots, FreeSet
  <2> QED
    BY <2>1, <1>3, <1>4
<1>8. ASSUME NEW n \in Taken PROVE RowKept(n)
  <2>1. n \in 0..(size - 1) /\ n \notin Terminal /\ n # pos /\ n # neg
    BY <1>3, <1>4
  <2>2. node'[n] = node[n]
    BY <2>1, <1>6
  <2>3. level2var'[node[n].level] = level2var[node[n].level]
    <3>1. node[n].level \in 0..(varnum + 1) /\ node[n].level < varnum
      BY <1>3 DEF Variable
    <3> QED
      BY <3>1, <1>2
  <2> QED
    BY <2>2, <2>3, <1>2 DEF RowKept, VarOf
<1>9. /\ node'[pos].low = FALSEBDD /\ node'[pos].high = TRUEBDD /\ node'[pos].level = varnum
      /\ node'[neg].low = TRUEBDD /\ node'[neg].high = FALSEBDD /\ node'[neg].level = varnum
  BY <1>6
<1>10. level2var'[varnum] = varnum
  BY <1>2, <1>3
<1>11. VarOf(pos)' = varnum /\ VarOf(neg)' = varnum
  BY <1>2, <1>9, <1>10 DEF VarOf
<1>12. pos \in Slots \ Taken /\ neg \in Slots \ Taken
  BY <1>3, <1>4
<1> HIDE DEF posrow, negrow
<1> QED
  BY <1>4, <1>7, <1>8, <1>9, <1>11, <1>12, Zenon

(* The nodes of a new variable are not held yet.                           *)
LEMMA AddVariableKept ==
  ASSUME Inv, Inv', FunctionsKept, AddVariable
  PROVE  FunctionsKept'
<1>1. PICK pos, neg \in Slots \ Taken :
         /\ Taken' = Taken \cup {pos, neg} /\ \A n \in Taken : RowKept(n)
         /\ node'[pos].low \in Terminal /\ node'[pos].high \in Terminal
         /\ node'[neg].low \in Terminal /\ node'[neg].high \in Terminal
  BY AddVariableRows, Zenon DEF Terminal
<1>2. held' = held /\ meaning' = meaning
  BY DEF AddVariable
<1>3. Taken \subseteq Slots
  BY SlotFacts DEF Inv
<1>4. ASSUME NEW n \in Taken', held'[n] > 0
      PROVE  n \in Taken /\ meaning'[n] = Functions_[n]
  <2>1. n \in Slots /\ held[n] > 0
    BY <1>1, <1>2, <1>3, <1>4
  <2>2. n \in Taken
    BY <2>1, HeldTaken
  <2> QED
    BY <2>1, <2>2, <1>2 DEF FunctionsKept
<1>5. \A n \in Taken' \ Taken : /\ node'[n].low \in Terminal \cup Taken
                                /\ node'[n].high \in Terminal \cup Taken
  BY <1>1
<1>6. Taken \subseteq Taken'
  BY <1>1
<1> HIDE DEF Functions_
<1> QED
  BY <1>1, <1>4, <1>5, <1>6, KeptAdded

(* bdd_makenode and bdd_addref: the node was there, or it is a new one.    *)
LEMMA BuildRows ==
  ASSUME Inv, NEW l \in Variable, NEW lo \in Known, NEW hi \in Known, Build(l, lo, hi)
  PROVE  /\ lo \in Terminal \cup Taken /\ hi \in Terminal \cup Taken
         /\ \A x \in Taken : RowKept(x)
         /\ \/ \E n \in Taken :
                 /\ Taken' = Taken
                 /\ \A x \in Slots : x # n => held'[x] = held[x]
                 /\ meaning' = [meaning EXCEPT ![n] = Functions_[n]]
            \/ \E r \in Slots \ Taken :
                 /\ Taken' = Taken \cup {r}
                 /\ \A x \in Slots : x # r => held'[x] = held[x]
                 /\ meaning' = [meaning EXCEPT ![r] = Shannon(Functions_, level2var[l], lo, hi)]
                 /\ VarOf(r)' = level2var[l] /\ node'[r].low = lo /\ node'[r].high = hi
                 /\ \A x \in Taken :
                      ~ (node[x].level = l /\ node[x].low = lo /\ node[x].high = hi)
<1>1. Shape /\ Counts
  BY DEF Inv
<1>0. PICK r : r = Head(free)
  OBVIOUS
<1> DEFINE found == {n \in Taken : node[n].level = l /\ node[n].low = lo /\ node[n].high = hi}
           filled == [node EXCEPT ![r] = [@ EXCEPT !.level = l, !.low = lo, !.high = hi]]
           given == Shannon(Functions_, level2var[l], lo, hi)
<1>2. phase = "idle" /\ phase' = phase /\ level2var' = level2var /\ size' = size
  BY DEF Build, Called, Idle
<1>3. \/ /\ free' = free
         /\ \E n \in found : Hold(n, node) /\ meaning' = [meaning EXCEPT ![n] = Functions_[n]]
      \/ /\ found = {} /\ free # << >> /\ Hold(r, filled) /\ free' = Tail(free)
         /\ meaning' = [meaning EXCEPT ![r] = given]
  <2> HIDE DEF Functions_
  <2> QED
    BY <1>0, Zenon DEF Build, Shannon
<1> HIDE DEF Functions_
<1>4. /\ node \in [0..(size - 1) -> NodeOf(size)] /\ Terminal \cap Slots = {} /\ size \in Nat /\ size > 2
      /\ Terminal \cup Slots = 0..(size - 1) /\ Taken \subseteq Slots
      /\ FreeSet \cap Taken = {} /\ FreeSet \subseteq Slots /\ Slots = Taken \cup FreeSet
  BY <1>1, SlotFacts
<1>5. held \in [0..(size - 1) -> Nat]
  BY <1>1 DEF Counts
<1>6. lo \in Terminal \cup Taken /\ hi \in Terminal \cup Taken
  BY <1>1, <1>2, KnownTaken
<1>8. ASSUME NEW n \in Slots, NEW nodes \in [0..(size - 1) -> NodeOf(size)], Hold(n, nodes)
      PROVE  /\ \A x \in 0..(size - 1) : SameRow(nodes, node', x)
             /\ \A x \in Slots : x # n => held'[x] = held[x]
  <2>1. n \notin Terminal /\ n \in 0..(size - 1)
    BY <1>4
  <2>2. node' = CountUp(nodes, n)
    BY <1>8, <2>1 DEF Hold, CountUp
  <2>3. \A x \in 0..(size - 1) : SameRow(nodes, node', x)
    BY <2>1, <2>2, <1>4, <1>8, CountUpSound
  <2>4. \A x \in Slots : x # n => held'[x] = held[x]
    BY <2>1, <1>4, <1>5, <1>8 DEF Hold
  <2> QED
    BY <2>3, <2>4
<1> HIDE DEF filled, given
<1>9. CASE free' = free /\ \E n \in found : Hold(n, node) /\ meaning' = [meaning EXCEPT ![n] = Functions_[n]]
  <2>1. PICK n \in found : Hold(n, node) /\ meaning' = [meaning EXCEPT ![n] = Functions_[n]]
    BY <1>9
  <2>2. n \in Slots /\ n \in Taken
    BY <1>4
  <2>3. /\ \A x \in 0..(size - 1) : SameRow(node, node', x)
        /\ \A x \in Slots : x # n => held'[x] = held[x]
    BY <2>1, <2>2, <1>4, <1>8
  <2>4. Taken' = Taken
    BY <1>2, <1>9 DEF Taken, Slots, FreeSet
  <2>5. \A x \in Taken : RowKept(x)
    BY <2>3, <1>2, <1>4 DEF SameRow, RowKept, VarOf
  <2> QED
    BY <2>1, <2>2, <2>3, <2>4, <2>5, <1>6
<1>10. CASE /\ found = {} /\ free # << >> /\ Hold(r, filled) /\ free' = Tail(free)
            /\ meaning' = [meaning EXCEPT ![r] = given]
  <2>1. r \in FreeSet /\ ToSet(free') = FreeSet \ {r}
    <3>1. Distinct(2..(size - 1), free)
      BY <1>1 DEF Shape, SoundTable
    <3> QED
      BY <3>1, <1>0, <1>10, DistinctTail DEF FreeSet
  <2>2. r \in Slots /\ r \notin Taken /\ r \in 0..(size - 1)
    BY <2>1, <1>4
  <2>3. /\ filled \in [0..(size - 1) -> NodeOf(size)]
        /\ filled[r].level = l /\ filled[r].low = lo /\ filled[r].high = hi
        /\ \A x \in 0..(size - 1) : x # r => filled[x] = node[x]
    <3>1. node[r] \in NodeOf(size)
      BY <2>2, <1>4
    <3>2. l \in 0..MaxVars /\ lo \in -1..(size - 1) /\ hi \in 0..(size - 1)
      <4>1. varnum \in 1..MaxVars /\ varnum \in Nat /\ MaxVars \in Nat
        BY <1>1, SlotFacts
      <4>2. l \in 0..MaxVars
        BY <4>1 DEF Variable
      <4>3. lo \in 0..(size - 1) /\ hi \in 0..(size - 1)
        BY <1>4, <1>6
      <4> QED
        BY <4>2, <4>3, <1>4
    <3> DEFINE row == [node[r] EXCEPT !.level = l, !.low = lo, !.high = hi]
    <3>3. row \in NodeOf(size) /\ row.level = l /\ row.low = lo /\ row.high = hi
      BY <3>1, <3>2 DEF NodeOf
    <3>4. filled = [node EXCEPT ![r] = row]
      BY <2>2, <1>4 DEF filled
    <3> HIDE DEF row
    <3> QED
      BY <3>3, <3>4, <2>2, <1>4
  <2>4. /\ \A x \in 0..(size - 1) : SameRow(filled, node', x)
        /\ \A x \in Slots : x # r => held'[x] = held[x]
    BY <2>2, <2>3, <1>8, <1>10
  <2>5. Taken' = Taken \cup {r}
    <3>1. Taken' = Slots \ ToSet(free')
      BY <1>2 DEF Taken, Slots, FreeSet
    <3> QED
      BY <3>1, <2>1, <1>4
  <2>6. \A x \in Taken : RowKept(x)
    <3> SUFFICES ASSUME NEW x \in Taken PROVE RowKept(x)
      OBVIOUS
    <3>1. x \in 0..(size - 1) /\ x # r
      BY <1>4, <2>2
    <3> QED
      BY <3>1, <2>3, <2>4, <1>2 DEF SameRow, RowKept, VarOf
  <2>7. node'[r].low = lo /\ node'[r].high = hi /\ VarOf(r)' = level2var[l]
    BY <2>2, <2>3, <2>4, <1>2 DEF SameRow, VarOf
  <2>8. \A x \in Taken : ~ (node[x].level = l /\ node[x].low = lo /\ node[x].high = hi)
    BY <1>10
  <2>9. r \in Slots \ Taken
    BY <2>2
  <2>10. meaning' = [meaning EXCEPT ![r] = Shannon(Functions_, level2var[l], lo, hi)]
    BY <1>10 DEF given
  <2> HIDE DEF found
  <2> QED
    BY <2>4, <2>5, <2>6, <2>7, <2>8, <2>9, <2>10, <1>6
<1> QED
  BY <1>3, <1>9, <1>10

(* A node that is handed out stands for what its variable and children     *)
(* make of it.                                                             *)
LEMMA BuildKept ==
  ASSUME Inv, Inv', Meant, FunctionsKept,
         NEW l \in Variable, NEW lo \in Known, NEW hi \in Known, Build(l, lo, hi)
  PROVE  FunctionsKept'
<1> HIDE DEF Functions_
<1>1. lo \in Terminal \cup Taken /\ hi \in Terminal \cup Taken /\ \A x \in Taken : RowKept(x)
  BY BuildRows
<1>2. Taken \subseteq Slots /\ Taken \subseteq 0..(size - 1) /\ Terminal \cup Slots = 0..(size - 1)
  BY TakenInTable, SlotFacts DEF Inv
<1>3. ASSUME NEW x \in Slots, held[x] > 0
      PROVE  x \in Taken /\ meaning[x] = Functions_[x]
  BY <1>3 DEF FunctionsKept
<1>4. ASSUME NEW n \in Taken, Taken' = Taken, \A x \in Slots : x # n => held'[x] = held[x],
             meaning' = [meaning EXCEPT ![n] = Functions_[n]]
      PROVE  FunctionsKept'
  <2>1. ASSUME NEW x \in Taken, held'[x] > 0 PROVE meaning'[x] = Functions_[x]
    <3>1. x \in 0..(size - 1) /\ x \in Slots
      BY <1>2
    <3>2. CASE x = n
      BY <3>1, <3>2, <1>4 DEF Meant
    <3>3. CASE x # n
      <4>1. held[x] > 0
        BY <3>1, <3>3, <1>4, <2>1
      <4>2. meaning'[x] = meaning[x]
        BY <3>1, <3>3, <1>4 DEF Meant
      <4> QED
        BY <3>1, <4>1, <4>2, <1>3
    <3> QED
      BY <3>2, <3>3
  <2> QED
    BY <2>1, <1>1, <1>4, KeptAdded
<1>5. ASSUME NEW r \in Slots \ Taken, Taken' = Taken \cup {r},
             \A x \in Slots : x # r => held'[x] = held[x],
             meaning' = [meaning EXCEPT ![r] = Shannon(Functions_, level2var[l], lo, hi)],
             VarOf(r)' = level2var[l], node'[r].low = lo, node'[r].high = hi
      PROVE  FunctionsKept'
  <2>1. ASSUME NEW x \in Taken', held'[x] > 0
        PROVE  meaning'[x] = IF x \in Taken THEN Functions_[x]
                             ELSE Shannon(Functions_, VarOf(x)', node'[x].low, node'[x].high)
    <3>1. CASE x = r
      <4>1. r \in 0..(size - 1)
        BY <1>2
      <4>2. meaning'[r] = Shannon(Functions_, level2var[l], lo, hi)
        BY <4>1, <1>5 DEF Meant
      <4> QED
        BY <3>1, <4>2, <1>5
    <3>2. CASE x # r
      <4>1. x \in Taken /\ x \in Slots /\ x \in 0..(size - 1)
        BY <3>2, <1>2, <1>5
      <4>2. held[x] > 0
        BY <4>1, <3>2, <1>5, <2>1
      <4>3. meaning'[x] = meaning[x]
        BY <4>1, <3>2, <1>5 DEF Meant
      <4> QED
        BY <4>1, <4>2, <4>3, <1>3
    <3> QED
      BY <3>1, <3>2
  <2>2. \A x \in Taken' \ Taken : node'[x].low \in Terminal \cup Taken /\ node'[x].high \in Terminal \cup Taken
    BY <1>1, <1>5
  <2>3. Taken \subseteq Taken'
    BY <1>5
  <2> QED
    BY <2>1, <2>2, <2>3, <1>1, KeptAdded
<1>6. \/ \E n \in Taken :
           /\ Taken' = Taken
           /\ \A x \in Slots : x # n => held'[x] = held[x]
           /\ meaning' = [meaning EXCEPT ![n] = Functions_[n]]
      \/ \E r \in Slots \ Taken :
           /\ Taken' = Taken \cup {r}
           /\ \A x \in Slots : x # r => held'[x] = held[x]
           /\ meaning' = [meaning EXCEPT ![r] = Shannon(Functions_, level2var[l], lo, hi)]
           /\ VarOf(r)' = level2var[l] /\ node'[r].low = lo /\ node'[r].high = hi
           /\ \A x \in Taken : ~ (node[x].level = l /\ node[x].low = lo /\ node[x].high = hi)
  BY BuildRows
<1> QED
  BY <1>4, <1>5, <1>6

(* What waits to be rewritten is of the variable that moves down.          *)
Waiting == \A n \in pending : node[n].level = upper

(* The rows of the table after one turn of the loop.                       *)
LEMMA SwapRows ==
  ASSUME Inv, NEW Top \in Nat, GrowsUpTo(Top), size <= Top, size' <= Top,
         NEW n \in pending, SwapNode(n)
  PROVE  /\ Taken' = Taken \cup ({First(n).res, Second(n).res} \ Terminal)
         /\ \A x \in Taken : x # n => SameRow(node, node', x)
         /\ node'[n].level = Lower /\ node'[n].low = First(n).res /\ node'[n].high = Second(n).res
         /\ \A x \in Taken' : x # n => SameRow(Second(n).node, node', x)
         /\ \A x \in Taken \cup ({First(n).res} \ Terminal) :
              SameRow(First(n).node, Second(n).node, x)
<1>1. Shape /\ Records
  BY DEF Inv
<1> DEFINE t0 == First(n)
           t1 == Second(n)
           s == t1.size
           low == node[n].low
           high == node[n].high
           c0 == CountDown(t1.node, low)
           c1 == CountDown(c0, high)
<1>2. /\ phase = "swap" /\ size' = s /\ free' = t1.free
      /\ node' = [c1 EXCEPT ![n].level = Lower, ![n].low = t0.res, ![n].high = t1.res]
  BY DEF SwapNode, First, Second
<1>3. /\ Outcome(Table, t0, upper, Cofactors(n).f00, Cofactors(n).f10, varnum)
      /\ Outcome(t0, t1, upper, Cofactors(n).f01, Cofactors(n).f11, varnum)
      /\ Used(Table) = Taken /\ Table.node = node
  BY <1>1, <1>2, TwoMade
<1> HIDE DEF t0, t1
<1>4. /\ Used(t0) = Taken \cup ({t0.res} \ Terminal) /\ Used(t1) = Used(t0) \cup ({t1.res} \ Terminal)
      /\ \A x \in Terminal \cup Taken : SameRow(node, t0.node, x)
      /\ \A x \in Terminal \cup Used(t0) : SameRow(t0.node, t1.node, x)
      /\ SoundTable(t1.size, t1.node, t1.free, varnum)
  BY <1>3 DEF Outcome, SoundRec
<1>5. Taken' = Used(t1)
  BY <1>2 DEF Taken, Slots, FreeSet, Used, TakenOf
<1>6. s \in Nat /\ s > 2 /\ t1.node \in [0..(s - 1) -> NodeOf(s)] /\ Used(t1) \subseteq 0..(s - 1)
      /\ Terminal \subseteq 0..(s - 1)
  <2>1. s \in Nat /\ s > 2 /\ t1.node \in [0..(s - 1) -> NodeOf(s)]
    BY <1>4 DEF SoundTable
  <2>2. Terminal \cup Used(t1) \subseteq 0..(s - 1)
    BY <1>4, TakenFacts DEF Used
  <2> QED
    BY <2>1, <2>2
<1>7. n \in Taken /\ low \in 0..(s - 1) /\ high \in 0..(s - 1) /\ n \in 0..(s - 1)
  <2>1. n \in Taken /\ low \in Terminal \cup Taken /\ high \in Terminal \cup Taken
    BY <1>1, SlotFacts DEF Records
  <2> QED
    BY <2>1, <1>4, <1>6
<1> HIDE DEF s, low, high
<1>8. c0 \in [0..(s - 1) -> NodeOf(s)] /\ \A x \in 0..(s - 1) : SameRow(t1.node, c0, x)
  BY <1>6, <1>7, CountDownSound
<1> HIDE DEF c0
<1>9. c1 \in [0..(s - 1) -> NodeOf(s)] /\ \A x \in 0..(s - 1) : SameRow(c0, c1, x)
  BY <1>6, <1>7, <1>8, CountDownSound
<1> HIDE DEF c1
<1>10. /\ node'[n].level = Lower /\ node'[n].low = t0.res /\ node'[n].high = t1.res
       /\ \A x \in 0..(s - 1) : x # n => node'[x] = c1[x]
  <2>1. c1[n] \in NodeOf(s)
    BY <1>7, <1>9
  <2> DEFINE row == [c1[n] EXCEPT !.level = Lower, !.low = t0.res, !.high = t1.res]
  <2>2. node' = [c1 EXCEPT ![n] = row]
    BY <1>2
  <2>3. row.level = Lower /\ row.low = t0.res /\ row.high = t1.res
    BY <2>1 DEF NodeOf
  <2> HIDE DEF row
  <2> QED
    BY <2>2, <2>3, <1>7, <1>9
<1>11. \A x \in Taken' : x # n => SameRow(t1.node, node', x)
  BY <1>5, <1>6, <1>8, <1>9, <1>10 DEF SameRow
<1>12. \A x \in Taken : x # n => SameRow(node, node', x)
  BY <1>4, <1>5, <1>11 DEF SameRow
<1> QED
  BY <1>4, <1>5, <1>10, <1>11, <1>12 DEF t0, t1

(* What reorder_makenode gives for (upper, lo, hi) while nodes wait.       *)
Given(res, lo, hi) ==
  \/ lo = hi /\ res = lo
  \/ /\ lo # hi /\ res \notin Terminal \cup pending
     /\ node'[res].level = upper /\ node'[res].low = lo /\ node'[res].high = hi

(* The false it gives when there is no slot left.                          *)
Failed(res) == errorcond' /\ res = FALSEBDD

(* The two nodes that a rewritten one gets are the nodes that were asked   *)
(* for, when no error is set.                                              *)
LEMMA SwapGiven ==
  ASSUME Inv, NEW Top \in Nat, GrowsUpTo(Top), size <= Top, size' <= Top,
         NEW n \in pending, SwapNode(n)
  PROVE  /\ Given(First(n).res, Cofactors(n).f00, Cofactors(n).f10) \/ Failed(First(n).res)
         /\ Given(Second(n).res, Cofactors(n).f01, Cofactors(n).f11) \/ Failed(Second(n).res)
         /\ First(n).res \in Terminal \cup Taken' /\ Second(n).res \in Terminal \cup Taken'
<1>1. Records
  BY DEF Inv
<1> DEFINE t0 == First(n)
           t1 == Second(n)
           f == Cofactors(n)
<1>2. phase = "swap" /\ size' = t1.size /\ errorcond' = t1.error
  BY DEF SwapNode, First, Second
<1>3. /\ Outcome(Table, t0, upper, f.f00, f.f10, varnum)
      /\ Outcome(t0, t1, upper, f.f01, f.f11, varnum)
      /\ Table.hidden = pending
  BY <1>2, TwoMade
<1>4. /\ Taken' = Taken \cup ({t0.res, t1.res} \ Terminal)
      /\ \A x \in Taken' : x # n => SameRow(t1.node, node', x)
      /\ \A x \in Taken \cup ({t0.res} \ Terminal) : SameRow(t0.node, t1.node, x)
  BY SwapRows
<1> HIDE DEF t0, t1, f
<1>5. t0.hidden = pending /\ (t0.error => t1.error)
  BY <1>3 DEF Outcome
<1>6. Given(t0.res, f.f00, f.f10) \/ Failed(t0.res)
  <2>1. CASE f.f00 = f.f10 /\ t0.res = f.f00
    BY <2>1 DEF Given
  <2>2. CASE /\ f.f00 # f.f10 /\ t0.res \notin Terminal \cup pending
             /\ t0.node[t0.res].level = upper /\ t0.node[t0.res].low = f.f00
             /\ t0.node[t0.res].high = f.f10
    <3>1. SameRow(t0.node, t1.node, t0.res) /\ SameRow(t1.node, node', t0.res)
      BY <2>2, <1>4
    <3> QED
      BY <3>1, <2>2 DEF Given, SameRow
  <2>3. CASE t0.error /\ t0.res = FALSEBDD
    BY <2>3, <1>2, <1>5 DEF Failed
  <2> QED
    BY <2>1, <2>2, <2>3, <1>3 DEF Outcome
<1>7. Given(t1.res, f.f01, f.f11) \/ Failed(t1.res)
  <2>1. CASE f.f01 = f.f11 /\ t1.res = f.f01
    BY <2>1 DEF Given
  <2>2. CASE /\ f.f01 # f.f11 /\ t1.res \notin Terminal \cup pending
             /\ t1.node[t1.res].level = upper /\ t1.node[t1.res].low = f.f01
             /\ t1.node[t1.res].high = f.f11
    <3>1. SameRow(t1.node, node', t1.res)
      BY <2>2, <1>4
    <3> QED
      BY <3>1, <2>2 DEF Given, SameRow
  <2>3. CASE t1.error /\ t1.res = FALSEBDD
    BY <2>3, <1>2 DEF Failed
  <2> QED
    BY <2>1, <2>2, <2>3, <1>3, <1>5 DEF Outcome
<1> QED
  BY <1>4, <1>6, <1>7 DEF t0, t1, f

(* The function of a node of x over nodes of y is that of a node of y over *)
(* two nodes of x: the exchange of two variables in an expansion.          *)
LEMMA ExpansionsExchanged ==
  ASSUME NEW f, NEW g, NEW x, NEW y, NEW n, NEW low, NEW high,
         NEW f00, NEW f01, NEW f10, NEW f11, NEW r0, NEW r1,
         f[n] = Shannon(f, x, low, high),
         f[low] = Shannon(f, y, f00, f01), f[high] = Shannon(f, y, f10, f11),
         g[r0] = Shannon(f, x, f00, f10), g[r1] = Shannon(f, x, f01, f11)
  PROVE  f[n] = Shannon(g, y, r0, r1)
<1>1. ASSUME NEW a PROVE a \in f[n] <=> a \in Shannon(g, y, r0, r1)
  <2>1. a \in f[n] <=> (x \notin a /\ a \in f[low]) \/ (x \in a /\ a \in f[high])
    BY Zenon DEF Shannon
  <2>2. a \in f[low] <=> (y \notin a /\ a \in f[f00]) \/ (y \in a /\ a \in f[f01])
    BY Zenon DEF Shannon
  <2>3. a \in f[high] <=> (y \notin a /\ a \in f[f10]) \/ (y \in a /\ a \in f[f11])
    BY Zenon DEF Shannon
  <2>4. a \in g[r0] <=> (x \notin a /\ a \in f[f00]) \/ (x \in a /\ a \in f[f10])
    BY Zenon DEF Shannon
  <2>5. a \in g[r1] <=> (x \notin a /\ a \in f[f01]) \/ (x \in a /\ a \in f[f11])
    BY Zenon DEF Shannon
  <2>6. a \in Shannon(g, y, r0, r1) <=> (y \notin a /\ a \in g[r0]) \/ (y \in a /\ a \in g[r1])
    BY Zenon DEF Shannon
  <2> QED
    BY <2>1, <2>2, <2>3, <2>4, <2>5, <2>6
<1> QED
  BY <1>1, Zenon DEF Shannon

(* One turn of the loop keeps all functions: those of the nodes that were  *)
(* there, the rewritten one among them.                                    *)
LEMMA SwapFunctions ==
  ASSUME Inv, Inv', NEW Top \in Nat, GrowsUpTo(Top), size <= Top, size' <= Top, ~ errorcond',
         NEW n \in pending, SwapNode(n), Waiting
  PROVE  Taken \subseteq Taken' /\ \A x \in Taken : Functions_'[x] = Functions_[x]
<1>1. Shape /\ Records /\ phase = "swap" /\ phase' = "swap"
  BY DEF Inv, SwapNode
<1> DEFINE r0 == First(n).res
           r1 == Second(n).res
           c == Cofactors(n)
           f == Functions_
           g == [x \in Terminal \cup Taken' |->
                   IF x \in Terminal \cup Taken THEN f[x]
                   ELSE Shannon(f, upper, node'[x].low, node'[x].high)]
<1>2. /\ Taken' = Taken \cup ({r0, r1} \ Terminal)
      /\ \A x \in Taken : x # n => SameRow(node, node', x)
      /\ node'[n].level = Lower /\ node'[n].low = r0 /\ node'[n].high = r1
  BY SwapRows
<1>3. /\ Given(r0, c.f00, c.f10) /\ Given(r1, c.f01, c.f11)
      /\ r0 \in Terminal \cup Taken' /\ r1 \in Terminal \cup Taken'
  BY SwapGiven DEF Failed
<1>4. Denotes(f, Taken, node, Vars)
  BY FunctionsDenote
<1> HIDE DEF r0, r1, f
<1>5. /\ Taken \subseteq 0..(size - 1) /\ Taken \cap Terminal = {} /\ n \in Taken
      /\ pending \subseteq Taken
      /\ \A x \in Taken : node[x].low \in Terminal \cup Taken /\ node[x].high \in Terminal \cup Taken
      /\ \A x \in Terminal : node[x].low = x /\ node[x].high = x /\ node[x].level = varnum
  BY <1>1, SlotFacts, TakenInTable, TakenApart DEF Records
<1>6. Taken' \subseteq 0..(size' - 1) /\ Taken' \cap Terminal = {}
  <2>1. (Taken \subseteq 0..(size - 1))'
    BY TakenInTable, PTL
  <2>2. (Taken \cap Terminal = {})'
    BY TakenApart, PTL
  <2> QED
    BY <2>1, <2>2 DEF Terminal
<1>7. /\ \A x \in Taken : Vars[x] = node[x].level
      /\ \A x \in Taken' : Vars'[x] = node'[x].level
  BY <1>1, <1>5, <1>6 DEF Vars, VarOf
<1>8. /\ \A x \in Terminal \cup Taken : g[x] = f[x]
      /\ \A x \in Taken' \ Taken : g[x] = Shannon(f, upper, node'[x].low, node'[x].high)
  <2>1. \A x \in Taken' \ Taken : x \notin Terminal
    BY <1>6
  <2> QED
    BY <2>1, <1>2
<1> HIDE DEF g
<1>9. \A x \in {c.f00, c.f01, c.f10, c.f11} : x \in Terminal \cup Taken
  <2>1. PICK rank : IsRank(size, node, free, rank)
    BY <1>1 DEF Shape, Acyclic
  <2> QED
    BY <2>1, <1>1, <1>5, CofactorsTaken
<1>10. ASSUME NEW res \in Terminal \cup Taken', NEW lo \in Terminal \cup Taken,
              NEW hi \in Terminal \cup Taken, Given(res, lo, hi)
       PROVE  g[res] = Shannon(f, upper, lo, hi)
  <2>1. CASE lo = hi /\ res = lo
    <3>1. g[res] = f[lo]
      BY <2>1, <1>8
    <3>2. Shannon(f, upper, lo, lo) = f[lo]
      BY Zenon DEF Shannon
    <3> QED
      BY <3>1, <3>2, <2>1
  <2>2. CASE /\ res \notin Terminal \cup pending
             /\ node'[res].level = upper /\ node'[res].low = lo /\ node'[res].high = hi
    <3>1. CASE res \in Taken
      <4>1. SameRow(node, node', res)
        BY <2>2, <3>1, <1>2
      <4>2. node[res].level = upper /\ node[res].low = lo /\ node[res].high = hi
        BY <4>1, <2>2 DEF SameRow
      <4>3. f[res] = Shannon(f, upper, lo, hi)
        BY <4>2, <3>1, <1>4, <1>7 DEF Denotes
      <4> QED
        BY <4>3, <3>1, <1>8
    <3>2. CASE res \notin Taken
      BY <2>2, <3>2, <1>8
    <3> QED
      BY <3>1, <3>2
  <2> QED
    BY <2>1, <2>2, <1>10 DEF Given
<1>11. Lower \in Variable
  <2>1. upper \in Variable /\ Var2Level(upper) < varnum - 1 /\ IsOrder(level2var, varnum)
    BY <1>1 DEF Records, Shape
  <2>2. Var2Level(upper) \in Variable /\ \A l \in Variable : level2var[l] \in Variable
    BY <2>1, OrderFacts
  <2>3. varnum \in Nat
    BY <1>1, SlotFacts
  <2>4. Var2Level(upper) + 1 \in Variable
    BY <2>1, <2>2, <2>3 DEF Variable
  <2> QED
    BY <2>2, <2>4 DEF Lower
<1>12. ASSUME NEW x \in Terminal \cup Taken
       PROVE  f[x] = Shannon(f, Lower, IF node[x].level = Lower THEN node[x].low  ELSE x,
                                       IF node[x].level = Lower THEN node[x].high ELSE x)
  <2>1. CASE node[x].level = Lower
    <3>1. x \notin Terminal
      <4>1. Lower # varnum
        <5>1. varnum \in Nat
          BY <1>1, SlotFacts
        <5> QED
          BY <5>1, <1>11 DEF Variable
      <4> QED
        BY <4>1, <2>1, <1>5
    <3>2. f[x] = Shannon(f, Lower, node[x].low, node[x].high)
      BY <3>1, <2>1, <1>4, <1>7 DEF Denotes
    <3> QED
      BY <3>2, <2>1
  <2>2. CASE node[x].level # Lower
    <3>1. Shannon(f, Lower, x, x) = f[x]
      BY Zenon DEF Shannon
    <3> QED
      BY <3>1, <2>2
  <2> QED
    BY <2>1, <2>2
<1>13. f[n] = Shannon(g, Lower, r0, r1)
  <2> DEFINE low == node[n].low
             high == node[n].high
  <2>1. f[n] = Shannon(f, upper, low, high)
    BY <1>4, <1>5, <1>7 DEF Denotes, Waiting
  <2>2. low \in Terminal \cup Taken /\ high \in Terminal \cup Taken
    BY <1>5
  <2>3. /\ c.f00 = (IF node[low].level = Lower THEN node[low].low ELSE low)
        /\ c.f01 = (IF node[low].level = Lower THEN node[low].high ELSE low)
        /\ c.f10 = (IF node[high].level = Lower THEN node[high].low ELSE high)
        /\ c.f11 = (IF node[high].level = Lower THEN node[high].high ELSE high)
    BY DEF Cofactors
  <2> HIDE DEF low, high, c
  <2>4. f[low] = Shannon(f, Lower, c.f00, c.f01) /\ f[high] = Shannon(f, Lower, c.f10, c.f11)
    BY <2>2, <2>3, <1>12
  <2>5. g[r0] = Shannon(f, upper, c.f00, c.f10) /\ g[r1] = Shannon(f, upper, c.f01, c.f11)
    BY <1>3, <1>9, <1>10
  <2> QED
    BY <2>1, <2>4, <2>5, ExpansionsExchanged
<1>14. Denotes(g, Taken', node', Vars')
  <2>1. g[FALSEBDD] = {} /\ g[TRUEBDD] = Points
    BY <1>4, <1>8 DEF Denotes, Terminal
  <2>2. ASSUME NEW x \in Taken'
        PROVE  g[x] = Shannon(g, Vars'[x], node'[x].low, node'[x].high)
    <3>1. CASE x = n
      BY <3>1, <2>2, <1>2, <1>5, <1>7, <1>8, <1>13
    <3>2. CASE x # n /\ x \in Taken
      <4>1. SameRow(node, node', x)
        BY <3>2, <1>2
      <4>2. f[x] = Shannon(f, node[x].level, node[x].low, node[x].high)
        BY <3>2, <1>4, <1>7 DEF Denotes
      <4>3. Vars'[x] = node[x].level /\ node'[x].low = node[x].low /\ node'[x].high = node[x].high
        BY <4>1, <2>2, <1>7 DEF SameRow
      <4>4. g[x] = f[x] /\ g[node[x].low] = f[node[x].low] /\ g[node[x].high] = f[node[x].high]
        BY <3>2, <1>5, <1>8
      <4> QED
        BY <4>2, <4>3, <4>4 DEF Shannon
    <3>3. CASE x \notin Taken
      <4>1. PICK lo, hi \in {c.f00, c.f01, c.f10, c.f11} : Given(x, lo, hi)
        BY <3>3, <2>2, <1>2, <1>3
      <4>2. lo \in Terminal \cup Taken /\ hi \in Terminal \cup Taken /\ x \notin Terminal
        BY <4>1, <1>6, <1>9
      <4>3. node'[x].level = upper /\ node'[x].low = lo /\ node'[x].high = hi
        BY <4>1, <4>2, <3>3 DEF Given
      <4>4. g[x] = Shannon(f, upper, lo, hi)
        BY <4>3, <3>3, <1>8
      <4>5. g[lo] = f[lo] /\ g[hi] = f[hi] /\ Vars'[x] = upper
        BY <4>2, <4>3, <1>7, <1>8
      <4> QED
        BY <4>3, <4>4, <4>5 DEF Shannon
    <3> QED
      BY <3>1, <3>2, <3>3
  <2> QED
    BY <2>1, <2>2 DEF Denotes
<1>15. \A x \in Terminal \cup Taken' : Functions_'[x] = g[x]
  BY <1>14, NextFunctions
<1> QED
  BY <1>2, <1>8, <1>15 DEF f

(* reorder_swap.                                                           *)
LEMMA SwapKept ==
  ASSUME Inv, Inv', NEW Top \in Nat, GrowsUpTo(Top), size <= Top, size' <= Top, ~ errorcond',
         NEW n \in pending, SwapNode(n), Waiting, FunctionsKept
  PROVE  FunctionsKept'
<1>1. Taken \subseteq Taken' /\ \A x \in Taken : Functions_'[x] = Functions_[x]
  BY SwapFunctions
<1>2. /\ held' = [m \in 0..(size' - 1) |-> IF m < size THEN held[m] ELSE 0]
      /\ meaning' = [m \in 0..(size' - 1) |-> IF m < size THEN meaning[m] ELSE {}]
  BY DEF SwapNode
<1>3. size \in Nat /\ size' \in Nat
  <2>1. size \in Nat
    BY SlotFacts DEF Inv
  <2>2. size' \in Nat
    BY DEF Inv, Shape, SoundTable
  <2> QED
    BY <2>1, <2>2
<1> HIDE DEF Functions_
<1>4. ASSUME NEW x \in Slots', held'[x] > 0
      PROVE  x \in Taken' /\ Functions_'[x] = meaning'[x]
  <2>1. x \in 0..(size' - 1) /\ x \in 2..(size' - 1)
    <3>1. Slots' = 2..(size' - 1)
      BY DEF Slots
    <3>2. x \in 2..(size' - 1)
      BY <3>1
    <3> DEFINE s == size'
    <3>3. x \in 2..(s - 1) /\ s \in Nat
      BY <3>2, <1>3
    <3> HIDE DEF s
    <3>4. x \in 0..(s - 1)
      BY <3>3
    <3> QED
      BY <3>2, <3>4 DEF s
  <2>2. x < size /\ held[x] > 0 /\ meaning'[x] = meaning[x]
    BY <2>1, <1>2, <1>4
  <2>3. x \in Slots
    BY <2>1, <2>2, <1>3 DEF Slots
  <2>4. x \in Taken /\ Functions_[x] = meaning[x]
    BY <2>2, <2>3 DEF FunctionsKept
  <2> QED
    BY <2>2, <2>4, <1>1
<1> QED
  BY <1>4 DEF FunctionsKept

(* The slots that meaning records functions for stay those of the table.   *)
LEMMA MeantStep ==
  ASSUME Meant, [Next]_vars
  PROVE  Meant'
<1>1. CASE UNCHANGED vars
  BY <1>1 DEF Meant, vars
<1>2. ASSUME NEW l, NEW lo, NEW hi, Build(l, lo, hi) PROVE Meant'
  <2>1. size' = size
    BY <1>2 DEF Build
  <2>2. \E n, fn : meaning' = [meaning EXCEPT ![n] = fn]
    BY <1>2, Zenon DEF Build
  <2>3. DOMAIN meaning' = DOMAIN meaning
    BY <2>2
  <2> QED
    BY <2>1, <2>3 DEF Meant
<1>3. ASSUME NEW n, Release(n) PROVE Meant'
  BY <1>3 DEF Release, Meant
<1>4. ASSUME NEW n, SwapNode(n) PROVE Meant'
  BY <1>4 DEF SwapNode, Meant
<1>5. CASE Gbc \/ AddVariable \/ Start \/ LocalGbc \/ Done \/ \E v \in Variable : ExchangeIndependent(v) \/ DownSimple(v)
  <2>1. meaning' = meaning /\ size' = size
    BY <1>5 DEF Gbc, AddVariable, Start, LocalGbc, Done, ExchangeIndependent, DownSimple
  <2> QED
    BY <2>1 DEF Meant
<1> QED
  BY <1>1, <1>2, <1>3, <1>4, <1>5 DEF Next, ProgramStep, ReorderStep

(* What the program does between reorderings leaves these alone.           *)
LEMMA ProgramLeaves ==
  ASSUME ProgramStep
  PROVE  phase = "idle" /\ pending' = pending /\ errorcond' = errorcond
<1>1. ASSUME NEW l, NEW lo, NEW hi, Build(l, lo, hi)
      PROVE  phase = "idle" /\ pending' = pending /\ errorcond' = errorcond
  BY <1>1 DEF Build, Called, Idle
<1>2. ASSUME NEW n, Release(n)
      PROVE  phase = "idle" /\ pending' = pending /\ errorcond' = errorcond
  BY <1>2 DEF Release, Called, Idle
<1>3. ASSUME Gbc PROVE phase = "idle" /\ pending' = pending /\ errorcond' = errorcond
  BY <1>3 DEF Gbc, Called, Idle
<1>4. ASSUME AddVariable PROVE phase = "idle" /\ pending' = pending /\ errorcond' = errorcond
  BY <1>4 DEF AddVariable, Called, Idle
<1> QED
  BY <1>1, <1>2, <1>3, <1>4 DEF ProgramStep

(* What waits is of the upper variable until it has been rewritten.        *)
LEMMA WaitingStep ==
  ASSUME Inv, NEW Top \in Nat, GrowsUpTo(Top), size <= Top, size' <= Top, Waiting, [Next]_vars
  PROVE  Waiting'
<1>1. Records
  BY DEF Inv
<1>2. ASSUME pending = {}, pending' = pending PROVE Waiting'
  BY <1>2 DEF Waiting
<1>3. CASE UNCHANGED vars
  BY <1>3 DEF Waiting, vars
<1>4. CASE ProgramStep \/ Start
  <2>1. phase = "idle" /\ pending' = pending
    BY <1>4, ProgramLeaves DEF Start, Idle
  <2> QED
    BY <2>1, <1>1, <1>2 DEF Records
<1>5. CASE LocalGbc \/ Done \/ \E v \in Variable : ExchangeIndependent(v)
  <2>1. pending = {} /\ pending' = pending
    BY <1>5, <1>1 DEF LocalGbc, Done, ExchangeIndependent, Records
  <2> QED
    BY <2>1, <1>2
<1>6. ASSUME NEW v \in Variable, DownSimple(v) PROVE Waiting'
  BY <1>6 DEF DownSimple, Waiting, Dependent
<1>7. ASSUME NEW n \in pending, SwapNode(n) PROVE Waiting'
  <2>1. \A x \in Taken : x # n => SameRow(node, node', x)
    BY <1>7, SwapRows
  <2>2. pending' = pending \ {n} /\ upper' = upper /\ pending \subseteq Taken
    BY <1>1, <1>7 DEF SwapNode, Records
  <2> QED
    BY <2>1, <2>2 DEF Waiting, SameRow
<1> QED
  BY <1>3, <1>4, <1>5, <1>6, <1>7 DEF Next, ReorderStep

(* Without a limit on the table reorder_makenode never runs out of slots.  *)
LEMMA MakeUnlimited ==
  ASSUME Limit = 0, NEW t, NEW num, SoundRec(t, num), Grows(t.size), ~ t.error,
         NEW v, NEW lo, NEW hi
  PROVE  ~ ReorderMakeNode(t, v, lo, hi).error
<1>1. IsTable(t)
  BY DEF SoundRec
<1> DEFINE grown == IF t.free = << >> /\ ~ t.error THEN Resize(t) ELSE t
           found == {n \in Chain(t, v) : t.node[n].low = lo /\ t.node[n].high = hi}
<1>2. grown.free # << >> /\ ~ grown.error /\ IsTable(grown)
  <2>1. CASE t.free = << >>
    <3>1. LET u == Resize(t)
          IN  SoundRec(u, num) /\ u.error = t.error /\ (~ AtLimit(t.size) => u.free # << >>)
      BY <2>1, ResizeSound
    <3>2. ~ AtLimit(t.size)
      BY DEF AtLimit
    <3>3. grown = Resize(t)
      BY <2>1
    <3> HIDE DEF grown
    <3> QED
      BY <3>1, <3>2, <3>3 DEF SoundRec
  <2>2. CASE t.free # << >>
    <3>1. grown = t
      BY <2>2
    <3> HIDE DEF grown
    <3> QED
      BY <2>2, <3>1, <1>1
  <2> QED
    BY <2>1, <2>2
<1>3. ReorderMakeNode(t, v, lo, hi) =
        CASE lo = hi -> Found(t, lo)
          [] lo # hi /\ found # {} -> Found(t, Min(found))
          [] lo # hi /\ found = {} /\ grown.free # << >> -> NewNode(grown, v, lo, hi)
          [] lo # hi /\ found = {} /\ grown.free = << >> ->
               [grown EXCEPT !.error = TRUE, !.res = FALSEBDD]
  BY DEF ReorderMakeNode
<1> HIDE DEF grown, found
<1>4. \A x : Found(t, x).error = t.error
  BY <1>1 DEF Found, IsTable
<1>5. NewNode(grown, v, lo, hi).error = grown.error
  BY <1>2 DEF NewNode, IsTable
<1>6. CASE lo = hi
  BY <1>6, <1>3, <1>4
<1>7. CASE lo # hi /\ found # {}
  BY <1>7, <1>3, <1>4
<1>8. CASE lo # hi /\ found = {}
  BY <1>8, <1>2, <1>3, <1>5
<1> QED
  BY <1>6, <1>7, <1>8

(* An error stays set, and without a limit on the table none is ever set.  *)
LEMMA ErrorStep ==
  ASSUME Inv, NEW Top \in Nat, GrowsUpTo(Top), size <= Top, size' <= Top, [Next]_vars
  PROVE  /\ errorcond => errorcond'
         /\ Limit = 0 /\ ~ errorcond => ~ errorcond'
<1>1. CASE UNCHANGED vars
  <2>1. errorcond' = errorcond
    BY <1>1 DEF vars
  <2> QED
    BY <2>1
<1>2. CASE ProgramStep
  <2>1. errorcond' = errorcond
    BY <1>2, ProgramLeaves
  <2> QED
    BY <2>1
<1>3. CASE Start \/ LocalGbc \/ Done \/ \E v \in Variable : ExchangeIndependent(v) \/ DownSimple(v)
  <2>1. errorcond' = errorcond
    BY <1>3 DEF Start, LocalGbc, Done, ExchangeIndependent, DownSimple
  <2> QED
    BY <2>1
<1>4. ASSUME NEW n \in pending, SwapNode(n)
      PROVE  /\ errorcond => errorcond'
             /\ Limit = 0 /\ ~ errorcond => ~ errorcond'
  <2> DEFINE t0 == First(n)
             t1 == Second(n)
  <2>1. phase = "swap" /\ size' = t1.size /\ errorcond' = t1.error
    BY <1>4 DEF SwapNode, First, Second
  <2>2. /\ Table.error = errorcond /\ Table.size = size /\ Table.node = node /\ Table.free = free
        /\ Outcome(Table, t0, upper, Cofactors(n).f00, Cofactors(n).f10, varnum)
        /\ Outcome(t0, t1, upper, Cofactors(n).f01, Cofactors(n).f11, varnum)
    BY <2>1, TwoMade
  <2>3. errorcond => errorcond'
    <3> HIDE DEF t0, t1
    <3> QED
      BY <2>1, <2>2 DEF Outcome
  <2>4. ASSUME Limit = 0, ~ errorcond PROVE ~ errorcond'
    <3>1. \A s \in Nat : s \in InitSize..Top /\ IsPrime(s) => Grows(s)
      BY DEF GrowsUpTo
    <3>2. SoundRec(Table, varnum)
      <4>1. IsTable(Table) /\ Table.error = errorcond /\ Table.resized = resized
        BY DEF Table, IsTable
      <4>2. SoundTable(size, node, free, varnum) /\ errorcond \in BOOLEAN /\ resized \in BOOLEAN
        BY DEF Inv, Shape, Records
      <4> HIDE DEF Table
      <4> QED
        BY <4>1, <4>2, <2>2 DEF SoundRec
    <3> HIDE DEF t0, t1
    <3>3. /\ SoundRec(t0, varnum) /\ t0.size >= size /\ t1.size >= t0.size
          /\ SoundTable(t0.size, t0.node, t0.free, varnum)
      <4>1. SoundRec(t0, varnum) /\ t0.size >= size /\ t1.size >= t0.size
        BY <2>2 DEF Outcome
      <4> QED
        BY <4>1 DEF SoundRec
    <3>4. /\ size \in Nat /\ size >= InitSize /\ IsPrime(size) /\ InitSize \in Nat
          /\ t0.size \in Nat /\ t0.size >= InitSize /\ IsPrime(t0.size)
          /\ SoundTable(t1.size, t1.node, t1.free, varnum)
      BY <2>2, <3>3, ReorderSizes DEF Inv, Shape, SoundTable, Outcome, SoundRec
    <3>5. t1.size \in Nat /\ t1.size <= Top
      BY <2>1, <3>4 DEF SoundTable
    <3>6. Grows(Table.size) /\ Grows(t0.size)
      <4>1. size \in InitSize..Top /\ t0.size \in InitSize..Top
        BY <3>3, <3>4, <3>5
      <4> QED
        BY <4>1, <3>1, <3>4, <2>2
    <3>7. ~ t0.error
      BY <2>2, <2>4, <3>2, <3>6, MakeUnlimited DEF t0, First
    <3>8. ~ t1.error
      BY <2>4, <3>3, <3>6, <3>7, MakeUnlimited DEF t0, t1, Second
    <3> QED
      BY <2>1, <3>8
  <2> QED
    BY <2>3, <2>4
<1> QED
  BY <1>1, <1>2, <1>3, <1>4 DEF Next, ReorderStep

(* Inv and what else it takes to keep the functions of nodes.              *)
KeptInv == Inv /\ Meant /\ Waiting /\ (errorcond \/ FunctionsKept)

(* In the beginning nothing is held, and nothing waits.                    *)
LEMMA InitKept == Init => KeptInv
<1> SUFFICES ASSUME Init PROVE KeptInv
  OBVIOUS
<1>1. Inv
  BY InitInv
<1>2. Meant /\ Waiting
  BY DEF Init, Meant, Waiting
<1>3. FunctionsKept
  <2>1. size \in Nat
    BY <1>1, SlotFacts DEF Inv
  <2>2. size = InitSize /\ held = [n \in 0..(InitSize - 1) |-> 0]
    BY DEF Init
  <2>3. \A n \in Slots : held[n] = 0
    BY <2>1, <2>2 DEF Slots
  <2> HIDE DEF Functions_
  <2> QED
    BY <2>3 DEF FunctionsKept
<1> QED
  BY <1>1, <1>2, <1>3 DEF KeptInv

(* Every step keeps the functions of what the program holds.               *)
LEMMA KeptStep ==
  ASSUME NEW Top \in Nat, GrowsUpTo(Top), KeptInv, [Next]_vars, size <= Top, size' <= Top
  PROVE  KeptInv'
<1>1. Inv /\ Meant /\ Waiting /\ (errorcond \/ FunctionsKept)
  BY DEF KeptInv
<1>2. Inv'
  BY <1>1, InvStep
<1>3. Meant' /\ Waiting'
  BY <1>1, MeantStep, WaitingStep
<1>4. ASSUME ~ errorcond' PROVE FunctionsKept'
  <2>1. FunctionsKept
    BY <1>1, <1>4, ErrorStep
  <2>2. CASE ProgramStep
    <3>1. CASE \E l \in Variable, lo \in Known, hi \in Known : Build(l, lo, hi)
      BY <3>1, <2>1, <1>1, <1>2, BuildKept
    <3>2. CASE \E n \in Slots : Release(n)
      BY <3>2, <2>1, <1>1, <1>2, ReleaseKept
    <3>3. CASE Gbc
      BY <3>3, <2>1, <1>1, <1>2, CollectionKept
    <3>4. CASE AddVariable
      BY <3>4, <2>1, <1>1, <1>2, AddVariableKept
    <3> QED
      BY <2>2, <3>1, <3>2, <3>3, <3>4 DEF ProgramStep
  <2>3. CASE ReorderStep
    <3>1. CASE Start \/ LocalGbc \/ Done
      BY <3>1, <2>1, <1>1, <1>2, CollectionKept
    <3>2. CASE \E v \in Variable : ExchangeIndependent(v) \/ DownSimple(v)
      BY <3>2, <2>1, <1>1, <1>2, SameKept
    <3>3. CASE \E n \in pending : SwapNode(n)
      BY <3>3, <2>1, <1>1, <1>2, <1>4, SwapKept
    <3> QED
      BY <2>3, <3>1, <3>2, <3>3 DEF ReorderStep
  <2>4. CASE UNCHANGED vars
    BY <2>4, <2>1, <1>1, <1>2, SameKept
  <2> QED
    BY <2>2, <2>3, <2>4 DEF Next
<1> QED
  BY <1>2, <1>3, <1>4 DEF KeptInv

(* Reordering is invisible: through every step of every reordering, half   *)
(* way through an exchange too, a node the program holds stands for the    *)
(* function it was handed out for, until the first exchange that finds no  *)
(* slot in a table at its limit (reorder_swap then stores the false that   *)
(* reorder_makenode returns). The hypotheses are those of TableSoundHolds. *)
THEOREM FunctionsKeptTillError ==
  ASSUME NEW Top \in Nat, GrowsUpTo(Top)
  PROVE  Spec /\ [](size <= Top) => [](errorcond \/ FunctionsKept)
<1>1. KeptInv /\ size <= Top /\ (size <= Top)' /\ [Next]_vars => KeptInv'
  BY KeptStep
<1>2. KeptInv => errorcond \/ FunctionsKept
  BY DEF KeptInv
<1> QED
  BY <1>1, <1>2, InitKept, PTL DEF Spec

(* In a table without a limit (bdd_setmaxnodenum(0), which is the default) *)
(* there is no such exchange, and functions are kept forever.              *)
THEOREM FunctionsKeptHolds ==
  ASSUME NEW Top \in Nat, GrowsUpTo(Top), Limit = 0
  PROVE  Spec /\ [](size <= Top) => []FunctionsKept
<1>1. Init => ~ errorcond
  BY DEF Init
<1>2. KeptInv /\ ~ errorcond /\ size <= Top /\ (size <= Top)' /\ [Next]_vars
        => KeptInv' /\ ~ errorcond'
  <2> SUFFICES ASSUME KeptInv, ~ errorcond, size <= Top, size' <= Top, [Next]_vars
               PROVE  KeptInv' /\ ~ errorcond'
    OBVIOUS
  <2>1. KeptInv'
    BY KeptStep
  <2>2. ~ errorcond'
    BY ErrorStep DEF KeptInv
  <2> QED
    BY <2>1, <2>2
<1>3. KeptInv /\ ~ errorcond => FunctionsKept
  BY DEF KeptInv
<1> QED
  BY <1>1, <1>2, <1>3, InitKept, PTL DEF Spec

-----------------------------------------------------------------------------
(* Places of variables in the order.                                       *)

(* The place of variable v when u has traded places with the one below it. *)
AfterOf(u, v) ==
  IF v = u THEN Var2Level(u) + 1
  ELSE IF v = level2var[Var2Level(u) + 1] THEN Var2Level(u)
  ELSE Var2Level(v)

(* A variable that can move down and the one it trades places with.        *)
LEMMA Neighbours ==
  ASSUME IsOrder(level2var, varnum), NEW u \in Variable, Var2Level(u) < varnum - 1
  PROVE  LET w == level2var[Var2Level(u) + 1]
         IN  /\ w \in Variable /\ w # u /\ Var2Level(w) = Var2Level(u) + 1
             /\ \A v \in Variable : /\ Var2Level(v) \in Nat
                                    /\ Var2Level(v) = Var2Level(u) => v = u
                                    /\ Var2Level(v) = Var2Level(u) + 1 => v = w
<1> DEFINE d == Var2Level(u)
           w == level2var[d + 1]
<1>1. varnum \in Nat /\ Variable \subseteq 0..varnum /\ Variable \subseteq Nat
  BY DEF IsOrder, Variable
<1>2. /\ \A v \in Variable : Var2Level(v) \in Variable /\ level2var[Var2Level(v)] = v
      /\ \A l \in Variable : level2var[l] \in Variable /\ Var2Level(level2var[l]) = l
  BY <1>1, OrderFacts
<1>3. d \in Variable /\ d < varnum - 1
  BY <1>2
<1> HIDE DEF d
<1>4. d + 1 \in Variable /\ d # d + 1
  BY <1>1, <1>3 DEF Variable
<1>5. w \in Variable /\ Var2Level(w) = d + 1 /\ w # u
  BY <1>2, <1>4 DEF d
<1>6. ASSUME NEW v \in Variable
      PROVE  Var2Level(v) \in Nat /\ (Var2Level(v) = d => v = u) /\ (Var2Level(v) = d + 1 => v = w)
  BY <1>1, <1>2 DEF d
<1> QED
  BY <1>5, <1>6 DEF d

(* The exchange puts every variable in that place.                         *)
LEMMA PlacesExchanged ==
  ASSUME IsOrder(level2var, varnum), NEW u \in Variable, Var2Level(u) < varnum - 1,
         level2var' = Exchanged(u), varnum' = varnum
  PROVE  \A v \in Variable : Var2Level(v)' = AfterOf(u, v)
<1> DEFINE d == Var2Level(u)
           w == level2var[d + 1]
           new == Exchanged(u)
<1>1. IsOrder(new, varnum)
  BY ExchangedOrder
<1>2. /\ w \in Variable /\ w # u /\ Var2Level(w) = d + 1
      /\ \A v \in Variable : /\ Var2Level(v) \in Nat
                             /\ Var2Level(v) = d => v = u
                             /\ Var2Level(v) = d + 1 => v = w
  BY Neighbours
<1>3. /\ varnum \in Nat /\ level2var \in [0..varnum -> 0..varnum] /\ d < varnum - 1
      /\ \A v \in Variable : Var2Level(v) \in Variable /\ level2var[Var2Level(v)] = v
      /\ Variable \subseteq 0..varnum
  <2>1. Variable \subseteq 0..varnum
    BY DEF IsOrder, Variable
  <2> QED
    BY <2>1, OrderFacts DEF IsOrder
<1>4. new = [level2var EXCEPT ![d] = w, ![d + 1] = u]
  BY DEF Exchanged
<1> HIDE DEF d, w
<1>5. d \in 0..varnum /\ d + 1 \in 0..varnum /\ d \in Nat /\ d # d + 1
  <2>1. d \in Variable
    BY <1>3 DEF d
  <2> QED
    BY <2>1, <1>3 DEF Variable
<1> HIDE DEF new
<1>6. /\ new[d] = w /\ new[d + 1] = u
      /\ \A k \in 0..varnum : k # d /\ k # d + 1 => new[k] = level2var[k]
  BY <1>3, <1>4, <1>5
<1>7. ASSUME NEW v \in Variable
      PROVE  AfterOf(u, v) \in 0..varnum /\ new[AfterOf(u, v)] = v
  <2>1. AfterOf(u, v) = IF v = u THEN d + 1 ELSE IF v = w THEN d ELSE Var2Level(v)
    BY DEF AfterOf, d, w
  <2>2. CASE v = u
    BY <2>1, <2>2, <1>5, <1>6
  <2>3. CASE v = w
    BY <2>1, <2>3, <1>2, <1>5, <1>6
  <2>4. CASE v # u /\ v # w
    <3>1. Var2Level(v) # d /\ Var2Level(v) # d + 1 /\ Var2Level(v) \in 0..varnum
          /\ level2var[Var2Level(v)] = v
      BY <2>4, <1>2, <1>3
    <3> QED
      BY <2>1, <2>4, <3>1, <1>6
  <2> QED
    BY <2>2, <2>3, <2>4
<1>8. ASSUME NEW v \in Variable PROVE Var2Level(v)' = AfterOf(u, v)
  <2>1. Var2Level(v)' = CHOOSE l \in 0..varnum : new[l] = v
    BY DEF Var2Level, new
  <2>2. \A l \in 0..varnum : new[l] = v => l = AfterOf(u, v)
    BY <1>1, <1>7 DEF IsOrder
  <2>3. \E l \in 0..varnum : new[l] = v
    BY <1>7
  <2> QED
    BY <2>1, <2>2, <2>3
<1> QED
  BY <1>8

(* Variables in order stay in order, but the two that trade places.        *)
LEMMA AfterLess ==
  ASSUME IsOrder(level2var, varnum), NEW u \in Variable, Var2Level(u) < varnum - 1,
         NEW a \in Variable, NEW b \in Variable, Var2Level(a) < Var2Level(b),
         ~ (a = u /\ b = level2var[Var2Level(u) + 1])
  PROVE  AfterOf(u, a) < AfterOf(u, b)
<1> DEFINE d == Var2Level(u)
           w == level2var[d + 1]
<1>1. /\ w \in Variable /\ w # u /\ Var2Level(w) = d + 1
      /\ \A v \in Variable : /\ Var2Level(v) \in Nat
                             /\ Var2Level(v) = d => v = u
                             /\ Var2Level(v) = d + 1 => v = w
  BY Neighbours
<1>2. \A v : AfterOf(u, v) = IF v = u THEN d + 1 ELSE IF v = w THEN d ELSE Var2Level(v)
  BY DEF AfterOf
<1>3. d \in Nat /\ ~ (a = u /\ b = w) /\ d = Var2Level(u)
  BY <1>1
<1> HIDE DEF d, w
<1> QED
  BY <1>1, <1>2, <1>3

-----------------------------------------------------------------------------
(* The variables that meet below a node.                                   *)

Meet(n) == {VarOf(m) : m \in Below[n]}

(* Those that meet below a node are in the interaction matrix.             *)
Meeting == \A n \in Taken : Meet(n) \X Meet(n) \subseteq iactmtx

(* The children of nodes in use, and the variables of both.                *)
LEMMA NodeFacts ==
  Inv => /\ Taken \cap Terminal = {}
         /\ \A n \in Terminal : node[n].level = varnum
         /\ varnum \notin Variable
         /\ IsOrder(level2var, varnum)
         /\ \A n \in Taken : /\ VarOf(n) \in Variable /\ node[n].level \in Variable
                             /\ phase = "idle" => Depth(n) = node[n].level
                             /\ Children(n) \subseteq Taken
                             /\ node[n].low \in Terminal \cup Taken
                             /\ node[n].high \in Terminal \cup Taken
<1> SUFFICES ASSUME Inv
             PROVE  /\ Taken \cap Terminal = {}
                    /\ \A n \in Terminal : node[n].level = varnum
                    /\ varnum \notin Variable
                    /\ IsOrder(level2var, varnum)
                    /\ \A n \in Taken : /\ VarOf(n) \in Variable /\ node[n].level \in Variable
                                        /\ phase = "idle" => Depth(n) = node[n].level
                                        /\ Children(n) \subseteq Taken
                                        /\ node[n].low \in Terminal \cup Taken
                                        /\ node[n].high \in Terminal \cup Taken
  OBVIOUS
<1>1. /\ \A n \in Taken : /\ node[n].low \in Terminal \cup Taken
                          /\ node[n].high \in Terminal \cup Taken
                          /\ node[n].level \in Variable
      /\ \A n \in Terminal : node[n].level = varnum
      /\ varnum \in Nat
  BY SlotFacts DEF Inv
<1>2. IsOrder(level2var, varnum)
  BY DEF Inv, Shape
<1>3. /\ \A l \in Variable : level2var[l] \in Variable
      /\ \A l \in 0..varnum : Var2Level(level2var[l]) = l
      /\ Variable \subseteq 0..varnum /\ varnum \notin Variable
  BY <1>1, <1>2, OrderFacts DEF Variable
<1>4. ASSUME NEW n \in Taken
      PROVE  /\ VarOf(n) \in Variable
             /\ phase = "idle" => Depth(n) = node[n].level
             /\ Children(n) \subseteq Taken
  <2>1. VarOf(n) \in Variable
    BY <1>1, <1>3 DEF VarOf
  <2>2. phase = "idle" => Depth(n) = node[n].level
    BY <1>1, <1>3 DEF VarOf, Depth
  <2> QED
    BY <2>1, <2>2, <1>1 DEF Children
<1> QED
  BY <1>1, <1>2, <1>3, <1>4, TakenApart

(* The variables below a node are its own and those below its children.    *)
LEMMA MeetFacts ==
  Inv => \A n \in Taken :
           /\ VarOf(n) \in Meet(n)
           /\ \A c \in Children(n) : Meet(c) \subseteq Meet(n)
           /\ \A v \in Meet(n) : v = VarOf(n) \/ \E c \in Children(n) : v \in Meet(c)
<1> SUFFICES ASSUME Inv, NEW n \in Taken
             PROVE  /\ VarOf(n) \in Meet(n)
                    /\ \A c \in Children(n) : Meet(c) \subseteq Meet(n)
                    /\ \A v \in Meet(n) : v = VarOf(n) \/ \E c \in Children(n) : v \in Meet(c)
  OBVIOUS
<1>1. /\ \A t \in Terminal : Below[t] = {}
      /\ Below[n] = {n} \cup Below[node[n].low] \cup Below[node[n].high]
  BY BelowClosed DEF Inv, Shape
<1>2. Below[n] = {n} \cup UNION {Below[c] : c \in Children(n)}
  <2>1. \A c \in {node[n].low, node[n].high} : c \in Children(n) \/ Below[c] = {}
    BY <1>1 DEF Children
  <2>2. \A c \in Children(n) : c = node[n].low \/ c = node[n].high
    BY DEF Children
  <2> HIDE DEF Below
  <2> QED
    BY <2>1, <2>2, <1>1
<1> HIDE DEF Below
<1> QED
  BY <1>2 DEF Meet

(* B says more of a node than its children.                                *)
Bounds(B) ==
  \A n \in Taken : VarOf(n) \in B[n] /\ \A c \in Children(n) : B[c] \subseteq B[n]

(* Such sets have all variables that meet below a node.                    *)
LEMMA MeetBounded == Inv => \A B : Bounds(B) => \A n \in Taken : Meet(n) \subseteq B[n]
<1> SUFFICES ASSUME Inv, NEW B, Bounds(B) PROVE \A n \in Taken : Meet(n) \subseteq B[n]
  OBVIOUS
<1>1. PICK rank : IsRank(size, node, free, rank)
  BY DEF Inv, Shape, Acyclic
<1>2. /\ rank \in [0..(size - 1) -> Nat] /\ Taken \subseteq 0..(size - 1)
      /\ \A n \in Taken : \A c \in Children(n) : rank[c] < rank[n]
  <2>1. Taken = TakenOf(size, free)
    BY SlotFacts DEF Inv
  <2> QED
    BY <2>1, <1>1, TakenInTable DEF IsRank, Children
<1> DEFINE bad == {n \in Taken : ~ (Meet(n) \subseteq B[n])}
<1> SUFFICES ASSUME bad # {} PROVE FALSE
  OBVIOUS
<1>3. PICK n \in bad : \A m \in bad : ~ (rank[m] < rank[n])
  <2>1. bad \in SUBSET (0..(size - 1))
    BY <1>2
  <2> HIDE DEF bad
  <2> QED
    BY <2>1, <1>2, LeastRank
<1>4. n \in Taken /\ Children(n) \subseteq Taken
  BY NodeFacts
<1>5. \A c \in Children(n) : Meet(c) \subseteq B[c]
  BY <1>2, <1>3, <1>4
<1>6. ASSUME NEW v \in Meet(n) PROVE v \in B[n]
  <2>1. v = VarOf(n) \/ \E c \in Children(n) : v \in Meet(c)
    BY <1>4, MeetFacts
  <2> HIDE DEF bad
  <2> QED
    BY <2>1, <1>4, <1>5 DEF Bounds
<1> QED
  BY <1>3, <1>6

(* The same of the table after a step.                                     *)
LEMMA NextMeetBounded ==
  ASSUME Inv'
  PROVE  \A B : Bounds(B)' => \A n \in Taken' : Meet(n)' \subseteq B[n]
<1>1. (\A B : Bounds(B) => \A n \in Taken : Meet(n) \subseteq B[n])'
  BY MeetBounded, PTL
<1> HIDE DEF Meet, Bounds
<1> QED
  BY <1>1

(* The grandchildren of a node and what meets below them.                  *)
Grandchildren(n) == {Cofactors(n).f00, Cofactors(n).f01, Cofactors(n).f10, Cofactors(n).f11}

(* They are children, or children of children of the lower variable.       *)
LEMMA GrandchildrenAre ==
  ASSUME Inv, NEW n \in Taken
  PROVE  /\ Grandchildren(n) \subseteq Terminal \cup Taken
         /\ \A f \in Grandchildren(n) \ Terminal :
              \/ f \in Children(n) /\ node[f].level # Lower
              \/ \E c \in Children(n) : f \in Children(c) /\ node[c].level = Lower
         /\ \A f \in Grandchildren(n) \ Terminal : Meet(f) \subseteq Meet(n)
<1>1. /\ \A t \in Terminal : node[t].low = t /\ node[t].high = t
      /\ \A m \in Taken : node[m].low \in Terminal \cup Taken /\ node[m].high \in Terminal \cup Taken
  BY SlotFacts DEF Inv
<1>2. ASSUME NEW f \in Grandchildren(n), f \notin Terminal
      PROVE  /\ f \in Taken /\ Meet(f) \subseteq Meet(n)
             /\ \/ f \in Children(n) /\ node[f].level # Lower
                \/ \E c \in Children(n) : f \in Children(c) /\ node[c].level = Lower
  <2>1. PICK c \in {node[n].low, node[n].high} :
              IF node[c].level = Lower THEN f \in {node[c].low, node[c].high} ELSE f = c
    BY DEF Grandchildren, Cofactors
  <2>2. c \notin Terminal /\ c \in Taken /\ c \in Children(n)
    BY <2>1, <1>1, <1>2 DEF Children
  <2>3. Meet(c) \subseteq Meet(n)
    BY <2>2, MeetFacts
  <2>4. CASE node[c].level = Lower
    <3>1. f \in Children(c) /\ f \in Taken
      BY <2>1, <2>2, <2>4, <1>1, <1>2 DEF Children
    <3>2. Meet(f) \subseteq Meet(c)
      BY <3>1, <2>2, MeetFacts
    <3> QED
      BY <3>1, <3>2, <2>2, <2>3, <2>4
  <2>5. CASE node[c].level # Lower
    BY <2>1, <2>2, <2>3, <2>5
  <2> QED
    BY <2>4, <2>5
<1> QED
  BY <1>2

-----------------------------------------------------------------------------
(* The order of the variables, between exchanges and during one.           *)

(* The level a node will have when the exchange is over.                   *)
DepthAfter(n) == AfterOf(upper, VarOf(n))

(* Half way through an exchange: what does not wait to be rewritten is in  *)
(* the order there will be; what waits is of the upper variable, has a     *)
(* child of the lower one, and its grandchildren are below both; and only  *)
(* nodes above both have a child that waits.                               *)
HalfExchanged ==
  /\ \A n \in Taken \ pending : \A c \in Children(n) : DepthAfter(n) < DepthAfter(c)
  /\ \A n \in pending :
       /\ \A c \in Children(n) : Var2Level(upper) < Depth(c)
       /\ \E c \in Children(n) : VarOf(c) = Lower
       /\ \A f \in Grandchildren(n) \ Terminal : Var2Level(upper) + 1 < Depth(f)
  /\ \A n \in Taken : \A c \in Children(n) : c \in pending => Depth(n) < Var2Level(upper)

(* What keeps the order, as long as no interaction has been missed.        *)
OrderInv ==
  lost \/ /\ Ordered
          /\ phase = "swap" => HalfExchanged
          /\ phase # "idle" => Meeting

(* A node that is there for a rewritten one: of the upper variable, over   *)
(* two of its grandchildren.                                               *)
Made(x, n) ==
  /\ x \in Taken' /\ x \notin Terminal \cup pending
  /\ node'[x].level = upper
  /\ node'[x].low \in Grandchildren(n) /\ node'[x].high \in Grandchildren(n)

(* One turn of the loop of reorder_swap, when it fails to make a node too. *)
LEMMA SwapTable ==
  ASSUME Inv, Inv', NEW Top \in Nat, GrowsUpTo(Top), size <= Top, size' <= Top,
         NEW n \in pending, SwapNode(n)
  PROVE  /\ n \in Taken /\ Taken \subseteq Taken'
         /\ \A x \in Taken : x # n => SameRow(node, node', x)
         /\ node'[n].level = Lower
         /\ \A c \in {node'[n].low, node'[n].high} : c \in Terminal \cup Grandchildren(n) \/ Made(c, n)
         /\ \A x \in Taken' \ Taken : Made(x, n)
         /\ phase = "swap" /\ phase' = "swap" /\ pending' = pending \ {n}
         /\ upper' = upper /\ level2var' = level2var /\ varnum' = varnum
         /\ iactmtx' = iactmtx /\ lost' = lost
<1> DEFINE r0 == First(n).res
           r1 == Second(n).res
           f == Cofactors(n)
<1>1. /\ Taken' = Taken \cup ({r0, r1} \ Terminal)
      /\ \A x \in Taken : x # n => SameRow(node, node', x)
      /\ node'[n].level = Lower /\ node'[n].low = r0 /\ node'[n].high = r1
  BY SwapRows
<1>2. /\ Given(r0, f.f00, f.f10) \/ Failed(r0)
      /\ Given(r1, f.f01, f.f11) \/ Failed(r1)
      /\ r0 \in Terminal \cup Taken' /\ r1 \in Terminal \cup Taken'
  BY SwapGiven
<1>3. n \in Taken
  BY DEF Inv, Records
<1>4. Grandchildren(n) \subseteq Terminal \cup Taken
  <2> HIDE DEF Grandchildren
  <2> QED
    BY <1>3, GrandchildrenAre
<1>5. /\ phase = "swap" /\ phase' = "swap" /\ pending' = pending \ {n}
      /\ upper' = upper /\ level2var' = level2var /\ varnum' = varnum
      /\ iactmtx' = iactmtx /\ lost' = lost
  BY DEF SwapNode
<1>6. {f.f00, f.f01, f.f10, f.f11} = Grandchildren(n)
  BY DEF Grandchildren
<1> HIDE DEF r0, r1, f
<1>7. ASSUME NEW c \in {r0, r1} PROVE c \in Terminal \cup Grandchildren(n) \/ Made(c, n)
  <2>1. Failed(c) => c \in Terminal
    BY DEF Failed, Terminal
  <2>2. c \in Terminal \cup Taken'
    BY <1>2, <1>7
  <2>3. ASSUME NEW lo \in Grandchildren(n), NEW hi \in Grandchildren(n), Given(c, lo, hi)
        PROVE  c \in Terminal \cup Grandchildren(n) \/ Made(c, n)
    BY <2>2, <2>3 DEF Given, Made
  <2>4. Failed(c) \/ Given(c, f.f00, f.f10) \/ Given(c, f.f01, f.f11)
    BY <1>2, <1>7
  <2> QED
    BY <2>1, <2>3, <2>4, <1>6
<1>8. ASSUME NEW x \in Taken' \ Taken PROVE Made(x, n)
  <2>1. x \in {r0, r1} /\ x \notin Terminal
    BY <1>1, <1>8
  <2> QED
    BY <2>1, <1>4, <1>7, <1>8
<1> QED
  BY <1>1, <1>3, <1>5, <1>7, <1>8

(* No node gets another variable below it by a turn of the loop.           *)
LEMMA SwapMeeting ==
  ASSUME Inv, Inv', NEW Top \in Nat, GrowsUpTo(Top), size <= Top, size' <= Top,
         NEW n \in pending, SwapNode(n), Waiting, HalfExchanged, Meeting
  PROVE  Meeting'
<1>1. /\ n \in Taken /\ Taken \subseteq Taken'
      /\ \A x \in Taken : x # n => SameRow(node, node', x)
      /\ node'[n].level = Lower
      /\ \A c \in {node'[n].low, node'[n].high} : c \in Terminal \cup Grandchildren(n) \/ Made(c, n)
      /\ \A x \in Taken' \ Taken : Made(x, n)
      /\ phase = "swap" /\ phase' = "swap" /\ iactmtx' = iactmtx
  BY SwapTable
<1>2. PICK B : B = [x \in Taken' |-> IF x \in Taken THEN Meet(x) ELSE Meet(n)]
  OBVIOUS
<1>3. /\ \A x \in Taken : B[x] = Meet(x)
      /\ \A x \in Taken' \ Taken : B[x] = Meet(n)
  BY <1>1, <1>2
<1>4. \A x \in Taken : VarOf(x) = node[x].level
  BY <1>1 DEF VarOf
<1>5. /\ \A x \in Taken : /\ Children(x) \subseteq Taken
                          /\ node[x].level \in Meet(x)
                          /\ \A c \in Children(x) : Meet(c) \subseteq Meet(x)
                          /\ \A v \in Meet(x) : v = node[x].level \/ \E c \in Children(x) : v \in Meet(c)
  BY <1>4, MeetFacts, NodeFacts
<1>6. /\ Grandchildren(n) \subseteq Terminal \cup Taken
      /\ \A f \in Grandchildren(n) \ Terminal : Meet(f) \subseteq Meet(n)
  BY <1>1, GrandchildrenAre
<1>7. upper \in Meet(n) /\ Lower \in Meet(n)
  <2>1. node[n].level = upper
    BY DEF Waiting
  <2>2. PICK c \in Children(n) : node[c].level = Lower
    BY <1>1 DEF HalfExchanged, VarOf
  <2> QED
    BY <2>1, <2>2, <1>1, <1>5
<1>8. ASSUME NEW x, Made(x, n) PROVE B[x] \subseteq Meet(n)
  <2>1. CASE x \in Taken
    <3>1. x # n
      BY <1>8 DEF Made
    <3>2. node[x].level = upper /\ node[x].low \in Grandchildren(n) /\ node[x].high \in Grandchildren(n)
      BY <2>1, <3>1, <1>1, <1>8 DEF Made, SameRow
    <3>3. \A c \in Children(x) : c \in Grandchildren(n) \ Terminal
      BY <3>2 DEF Children
    <3>4. \A v \in Meet(x) : v \in Meet(n)
      BY <2>1, <3>2, <3>3, <1>5, <1>6, <1>7
    <3> QED
      BY <2>1, <3>4, <1>3
  <2>2. CASE x \notin Taken
    BY <2>2, <1>3, <1>8 DEF Made
  <2> QED
    BY <2>1, <2>2
<1>9. ASSUME NEW x \in Taken'
      PROVE  node'[x].level \in B[x] /\ \A c \in {node'[x].low, node'[x].high} \ Terminal : B[c] \subseteq B[x]
  <2>1. CASE x \in Taken /\ x # n
    <3>1. SameRow(node, node', x)
      BY <2>1, <1>1
    <3>2. \A c \in {node'[x].low, node'[x].high} \ Terminal : c \in Children(x)
      BY <3>1 DEF SameRow, Children
    <3> QED
      BY <2>1, <3>1, <3>2, <1>3, <1>5 DEF SameRow
  <2>2. CASE x = n
    <3>1. ASSUME NEW c \in {node'[n].low, node'[n].high} \ Terminal PROVE B[c] \subseteq Meet(n)
      <4>1. CASE c \in Grandchildren(n)
        BY <4>1, <3>1, <1>3, <1>6
      <4>2. CASE Made(c, n)
        BY <4>2, <1>8
      <4> QED
        BY <4>1, <4>2, <3>1, <1>1
    <3> QED
      BY <2>2, <3>1, <1>1, <1>3, <1>7
  <2>3. CASE x \notin Taken
    <3>1. Made(x, n) /\ B[x] = Meet(n)
      BY <2>3, <1>1, <1>3
    <3>2. \A c \in {node'[x].low, node'[x].high} \ Terminal : B[c] \subseteq Meet(n)
      BY <3>1, <1>3, <1>6 DEF Made
    <3> QED
      BY <3>1, <3>2, <1>7 DEF Made
  <2> QED
    BY <2>1, <2>2, <2>3
<1>10. Bounds(B)'
  <2>1. \A x \in Taken' : VarOf(x)' = node'[x].level
    BY <1>1 DEF VarOf
  <2> QED
    BY <2>1, <1>9 DEF Bounds, Children
<1>11. \A x \in Taken' : Meet(x)' \subseteq B[x]
  BY <1>10, NextMeetBounded
<1>12. \A x \in Taken' : B[x] \X B[x] \subseteq iactmtx
  BY <1>1, <1>3 DEF Meeting
<1> QED
  BY <1>1, <1>11, <1>12 DEF Meeting

(* What the places of variables are while an exchange is on.               *)
LEMMA Halfway ==
  ASSUME Inv, phase = "swap"
  PROVE  /\ upper \in Variable /\ Lower \in Variable /\ Lower # upper
         /\ Var2Level(upper) \in Nat /\ Var2Level(upper) < varnum - 1
         /\ Var2Level(Lower) = Var2Level(upper) + 1
         /\ \A v \in Variable : /\ Var2Level(v) \in Nat
                                /\ Var2Level(v) = Var2Level(upper) => v = upper
                                /\ Var2Level(v) = Var2Level(upper) + 1 => v = Lower
         /\ AfterOf(upper, upper) = Var2Level(upper) + 1 /\ AfterOf(upper, Lower) = Var2Level(upper)
         /\ \A v \in Variable : v # upper /\ v # Lower => AfterOf(upper, v) = Var2Level(v)
         /\ \A n : VarOf(n) = node[n].level /\ Depth(n) = Var2Level(node[n].level)
                   /\ DepthAfter(n) = AfterOf(upper, node[n].level)
<1>1. /\ IsOrder(level2var, varnum) /\ upper \in Variable /\ Var2Level(upper) < varnum - 1
  BY DEF Inv, Shape, Records
<1>2. /\ Lower \in Variable /\ Lower # upper /\ Var2Level(Lower) = Var2Level(upper) + 1
      /\ \A v \in Variable : /\ Var2Level(v) \in Nat
                             /\ Var2Level(v) = Var2Level(upper) => v = upper
                             /\ Var2Level(v) = Var2Level(upper) + 1 => v = Lower
  BY <1>1, Neighbours DEF Lower
<1>3. \A v : AfterOf(upper, v) = IF v = upper THEN Var2Level(upper) + 1
                                 ELSE IF v = Lower THEN Var2Level(upper) ELSE Var2Level(v)
  BY DEF AfterOf, Lower
<1>4. \A n : VarOf(n) = node[n].level /\ Depth(n) = Var2Level(node[n].level)
             /\ DepthAfter(n) = AfterOf(upper, node[n].level)
  BY DEF VarOf, Depth, DepthAfter
<1> QED
  BY <1>1, <1>2, <1>3, <1>4

(* The grandchildren of what still waits stay its grandchildren.           *)
LEMMA GrandchildrenStay ==
  ASSUME Inv, Inv', phase = "swap", upper' = upper, level2var' = level2var, varnum' = varnum,
         NEW x \in Taken, SameRow(node, node', x), \A c \in Children(x) : SameRow(node, node', c)
  PROVE  Cofactors(x)' = Cofactors(x) /\ Lower' = Lower
<1>1. Lower' = Lower
  BY DEF Lower, Var2Level
<1>2. \A t \in Terminal : node[t].level # Lower /\ node'[t].level # Lower
  <2>1. \A t \in Terminal : node[t].level = varnum
    BY NodeFacts
  <2>2. (\A t \in Terminal : node[t].level = varnum)'
    <3>1. (\A n \in Terminal : node[n].level = varnum)'
      BY NodeFacts, PTL
    <3> QED
      BY <3>1
  <2>3. Lower \in Variable /\ varnum \notin Variable
    BY Halfway, NodeFacts
  <2> QED
    BY <2>1, <2>2, <2>3 DEF Terminal
<1>3. node'[x].low = node[x].low /\ node'[x].high = node[x].high
  BY DEF SameRow
<1>4. \A c \in {node[x].low, node[x].high} :
        /\ node'[c].level = Lower <=> node[c].level = Lower
        /\ node[c].level = Lower => node'[c].low = node[c].low /\ node'[c].high = node[c].high
  BY <1>2 DEF Children, SameRow
<1>5. Cofactors(x)' = Cofactors(x)
  BY <1>1, <1>3, <1>4 DEF Cofactors
<1> QED
  BY <1>1, <1>5

(* A turn of the loop leaves what waits in the order there was, and what   *)
(* does not in the order there will be.                                    *)
LEMMA SwapOrder ==
  ASSUME Inv, Inv', NEW Top \in Nat, GrowsUpTo(Top), size <= Top, size' <= Top,
         NEW n \in pending, SwapNode(n), Waiting, HalfExchanged
  PROVE  HalfExchanged'
<1>1. /\ n \in Taken /\ Taken \subseteq Taken'
      /\ \A x \in Taken : x # n => SameRow(node, node', x)
      /\ node'[n].level = Lower
      /\ \A c \in {node'[n].low, node'[n].high} : c \in Terminal \cup Grandchildren(n) \/ Made(c, n)
      /\ \A x \in Taken' \ Taken : Made(x, n)
      /\ phase = "swap" /\ phase' = "swap" /\ pending' = pending \ {n}
      /\ upper' = upper /\ level2var' = level2var /\ varnum' = varnum
  BY SwapTable
<1> DEFINE d == Var2Level(upper)
           at(v) == Var2Level(v)
           aft(v) == AfterOf(upper, v)
<1>2. /\ upper \in Variable /\ Lower \in Variable /\ Lower # upper /\ d \in Nat /\ at(Lower) = d + 1
      /\ \A v \in Variable : at(v) \in Nat /\ (at(v) = d => v = upper) /\ (at(v) = d + 1 => v = Lower)
      /\ aft(upper) = d + 1 /\ aft(Lower) = d
      /\ \A v \in Variable : v # upper /\ v # Lower => aft(v) = at(v)
      /\ \A x : VarOf(x) = node[x].level /\ Depth(x) = at(node[x].level)
                /\ DepthAfter(x) = aft(node[x].level)
  BY <1>1, Halfway
<1>3. Lower' = Lower /\ (Var2Level(upper))' = d
  BY <1>1 DEF Lower, Var2Level
<1>4. ASSUME NEW x
      PROVE  /\ VarOf(x)' = node'[x].level /\ Depth(x)' = at(node'[x].level)
             /\ DepthAfter(x)' = aft(node'[x].level)
             /\ Children(x)' = {node'[x].low, node'[x].high} \ Terminal
  <2>1. VarOf(x)' = node'[x].level
    BY <1>1 DEF VarOf
  <2>2. Depth(x)' = at(node'[x].level)
    BY <1>1, <2>1 DEF Depth, Var2Level
  <2>3. DepthAfter(x)' = aft(node'[x].level)
    BY <1>1, <2>1 DEF DepthAfter, AfterOf, Var2Level
  <2> QED
    BY <2>1, <2>2, <2>3 DEF Children
<1>5. /\ pending \subseteq Taken /\ \A x \in pending : node[x].level = upper
      /\ \A x \in Taken : Children(x) \subseteq Taken /\ node[x].level \in Variable
      /\ \A x : Children(x) = {node[x].low, node[x].high} \ Terminal
  BY NodeFacts DEF Inv, Records, Waiting, Children
<1> HIDE DEF d, at, aft
<1>6. /\ \A x \in Taken \ pending : \A c \in Children(x) : aft(node[x].level) < aft(node[c].level)
      /\ \A x \in pending :
           /\ \A c \in Children(x) : d < at(node[c].level)
           /\ \E c \in Children(x) : node[c].level = Lower
           /\ \A f \in Grandchildren(x) \ Terminal : d + 1 < at(node[f].level)
      /\ \A x \in Taken : \A c \in Children(x) : c \in pending => at(node[x].level) < d
  BY <1>2 DEF HalfExchanged, d
<1>7. ASSUME NEW x \in pending, NEW f \in Grandchildren(x) \ Terminal
      PROVE  /\ f \in Taken /\ f \notin pending /\ f # n
             /\ aft(node[f].level) > d + 1 /\ node'[f].level = node[f].level
  <2>1. f \in Taken
    BY <1>5, GrandchildrenAre
  <2>2. at(node[f].level) > d + 1 /\ node[f].level \in Variable
    BY <2>1, <1>5, <1>6
  <2>3. node[f].level # upper /\ node[f].level # Lower
    BY <2>2, <1>2 DEF at, d
  <2>4. aft(node[f].level) = at(node[f].level)
    BY <2>2, <2>3, <1>2
  <2>5. f \notin pending /\ f # n
    BY <2>3, <1>5
  <2> QED
    BY <2>1, <2>2, <2>4, <2>5, <1>1 DEF SameRow
<1>8. ASSUME NEW x \in Taken' \ pending', NEW c \in {node'[x].low, node'[x].high} \ Terminal
      PROVE  aft(node'[x].level) < aft(node'[c].level)
  <2>1. CASE x \in Taken /\ x # n
    <3>1. /\ x \notin pending /\ SameRow(node, node', x) /\ c \in Children(x) /\ c \in Taken
          /\ node'[x].level = node[x].level
      BY <2>1, <1>1, <1>5, <1>8 DEF SameRow
    <3>2. CASE c # n
      <4>1. node'[c].level = node[c].level
        BY <3>1, <3>2, <1>1 DEF SameRow
      <4>2. aft(node[x].level) < aft(node[c].level)
        BY <2>1, <3>1, <1>6
      <4> QED
        BY <3>1, <4>1, <4>2
    <3>3. CASE c = n
      <4>1. at(node[x].level) < d /\ node[x].level \in Variable
        <5>1. c \in pending /\ x \in Taken /\ c \in Children(x)
          BY <2>1, <3>1, <3>3
        <5> QED
          BY <5>1, <1>5, <1>6
      <4>2. aft(node[x].level) = at(node[x].level)
        BY <4>1, <1>2 DEF at, d
      <4> QED
        BY <4>1, <4>2, <3>1, <3>3, <1>1, <1>2
    <3> QED
      BY <3>2, <3>3
  <2>2. CASE x = n
    <3>1. CASE c \in Grandchildren(n)
      <4>1. aft(node'[c].level) > d + 1
        BY <3>1, <1>7, <1>8
      <4>2. aft(node'[c].level) \in Nat
        <5>1. c \in Taken /\ node'[c].level = node[c].level
          BY <3>1, <1>7, <1>8
        <5>2. node[c].level \in Variable
          BY <5>1, <1>5
        <5> QED
          BY <5>1, <5>2, <1>2
      <4> QED
        BY <4>1, <4>2, <2>2, <1>1, <1>2
    <3>2. CASE Made(c, n)
      BY <3>2, <2>2, <1>1, <1>2 DEF Made
    <3> QED
      BY <3>1, <3>2, <2>2, <1>1, <1>8
  <2>3. CASE x \notin Taken
    <3>1. Made(x, n)
      BY <2>3, <1>1, <1>8
    <3>2. node'[x].level = upper /\ c \in Grandchildren(n) \ Terminal
      BY <3>1, <1>8 DEF Made
    <3>3. aft(node'[c].level) > d + 1
      BY <3>2, <1>7
    <3> QED
      BY <3>2, <3>3, <1>2
  <2> QED
    BY <2>1, <2>2, <2>3
<1>9. ASSUME NEW x \in pending'
      PROVE  /\ \A c \in Children(x)' : d < at(node'[c].level)
             /\ \E c \in Children(x)' : node'[c].level = Lower
             /\ \A f \in Grandchildren(x)' \ Terminal : d + 1 < at(node'[f].level)
  <2>1. x \in pending /\ x # n /\ x \in Taken /\ SameRow(node, node', x)
    BY <1>1, <1>5, <1>9
  <2>2. \A c \in Children(x) : c # n /\ c \in Taken /\ SameRow(node, node', c)
    <3> SUFFICES ASSUME NEW c \in Children(x) PROVE c # n /\ c \in Taken /\ SameRow(node, node', c)
      OBVIOUS
    <3>1. node[x].level = upper /\ d < at(node[c].level) /\ c \in Taken /\ node[c].level \in Variable
      BY <2>1, <1>5, <1>6
    <3>2. at(upper) = d /\ node[n].level = upper
      BY <1>5 DEF at, d
    <3>3. c # n
      BY <3>1, <3>2, <1>2
    <3> QED
      BY <3>1, <3>3, <1>1
  <2>3. Children(x)' = Children(x)
    BY <2>1, <1>4, <1>5 DEF SameRow
  <2>4. Cofactors(x)' = Cofactors(x)
    BY <2>1, <2>2, <1>1, GrandchildrenStay
  <2>5. Grandchildren(x)' = Grandchildren(x)
    BY <2>4 DEF Grandchildren
  <2>6. \A c \in Children(x) : node'[c].level = node[c].level
    BY <2>2 DEF SameRow
  <2>7. \A f \in Grandchildren(x) \ Terminal : node'[f].level = node[f].level
    BY <2>1, <1>7
  <2> QED
    BY <2>1, <2>3, <2>5, <2>6, <2>7, <1>6
<1>10. ASSUME NEW x \in Taken', NEW c \in {node'[x].low, node'[x].high} \ Terminal, c \in pending'
       PROVE  at(node'[x].level) < d
  <2>1. CASE x \in Taken /\ x # n
    <3>1. SameRow(node, node', x) /\ c \in Children(x) /\ c \in pending
      BY <2>1, <1>1, <1>5, <1>10 DEF SameRow
    <3> QED
      BY <2>1, <3>1, <1>6 DEF SameRow
  <2>2. CASE x = n
    <3>1. c \notin pending
      BY <2>2, <1>1, <1>7, <1>10 DEF Made
    <3> QED
      BY <3>1, <1>1, <1>10
  <2>3. CASE x \notin Taken
    <3>1. c \in Grandchildren(n) \ Terminal
      BY <2>3, <1>1, <1>10 DEF Made
    <3> QED
      BY <3>1, <1>1, <1>7, <1>10
  <2> QED
    BY <2>1, <2>2, <2>3
<1>11. /\ \A x \in Taken' \ pending' : \A c \in Children(x)' : DepthAfter(x)' < DepthAfter(c)'
       /\ \A x \in pending' : /\ \A c \in Children(x)' : (Var2Level(upper))' < Depth(c)'
                              /\ \E c \in Children(x)' : VarOf(c)' = Lower'
                              /\ \A f \in Grandchildren(x)' \ Terminal : (Var2Level(upper))' + 1 < Depth(f)'
       /\ \A x \in Taken' : \A c \in Children(x)' : c \in pending' => Depth(x)' < (Var2Level(upper))'
  BY <1>3, <1>4, <1>8, <1>9, <1>10
<1> QED
  BY <1>11 DEF HalfExchanged, Terminal

(* Half way through, the order is the one there was: only what waits has   *)
(* children it will be out of order with.                                  *)
LEMMA DownSimpleOrder ==
  ASSUME Inv, NEW v \in Variable, DownSimple(v), Ordered
  PROVE  HalfExchanged'
<1> DEFINE d == Var2Level(v)
           w == level2var[d + 1]
           at(x) == Var2Level(x)
           aft(x) == AfterOf(v, x)
<1>1. /\ phase = "ready" /\ phase' = "swap" /\ d < varnum - 1
      /\ pending' = Dependent(v) /\ upper' = v
      /\ Taken' = Taken /\ node' = node /\ level2var' = level2var /\ varnum' = varnum
  BY DEF DownSimple, Taken, Slots, FreeSet
<1>2. IsOrder(level2var, varnum)
  BY NodeFacts
<1>3. /\ w \in Variable /\ w # v /\ at(w) = d + 1 /\ at(v) = d
      /\ \A x \in Variable : at(x) \in Nat /\ (at(x) = d => x = v) /\ (at(x) = d + 1 => x = w)
  BY <1>1, <1>2, Neighbours
<1>4. ASSUME NEW x
      PROVE  /\ VarOf(x)' = node[x].level /\ Depth(x)' = at(node[x].level)
             /\ DepthAfter(x)' = aft(node[x].level)
             /\ Depth(x) = at(node[x].level)
             /\ Children(x)' = Children(x)
  <2>1. VarOf(x)' = node[x].level /\ VarOf(x) = node[x].level /\ Children(x)' = Children(x)
    BY <1>1 DEF VarOf, Children
  <2>2. Depth(x)' = at(node[x].level) /\ Depth(x) = at(node[x].level)
    BY <1>1, <2>1 DEF Depth, Var2Level
  <2>3. DepthAfter(x)' = aft(node[x].level)
    BY <1>1, <2>1 DEF DepthAfter, AfterOf, Var2Level
  <2> QED
    BY <2>1, <2>2, <2>3
<1>5. Lower' = w /\ (Var2Level(upper))' = d
  BY <1>1 DEF Lower, Var2Level
<1>6. \A x \in Taken : Children(x) \subseteq Taken /\ node[x].level \in Variable
  BY NodeFacts
<1>7. \A x \in Taken : \A c \in Children(x) : at(node[x].level) < at(node[c].level)
  BY <1>1, <1>4 DEF Ordered
<1>8. Dependent(v) = {x \in Taken : node[x].level = v /\ \E c \in Children(x) : node[c].level = w}
  BY DEF Dependent
<1>9. \A a, b \in Variable : at(a) < at(b) /\ ~ (a = v /\ b = w) => aft(a) < aft(b)
  BY <1>1, <1>2, AfterLess
<1> HIDE DEF d, w, at, aft
<1>10. ASSUME NEW x \in Taken, x \notin Dependent(v), NEW c \in Children(x)
       PROVE  aft(node[x].level) < aft(node[c].level)
  <2>1. ~ (node[x].level = v /\ node[c].level = w)
    BY <1>8, <1>10
  <2> QED
    BY <2>1, <1>6, <1>7, <1>9
<1>11. ASSUME NEW x \in Dependent(v)
       PROVE  /\ \A c \in Children(x) : d < at(node[c].level)
              /\ \E c \in Children(x) : node[c].level = w
              /\ x \in Taken
  <2>1. x \in Taken /\ node[x].level = v
    BY <1>8, <1>11
  <2> QED
    BY <2>1, <1>3, <1>7, <1>8, <1>11
<1>12. ASSUME NEW x \in Dependent(v), NEW f \in Grandchildren(x)' \ Terminal
       PROVE  d + 1 < at(node[f].level)
  <2>1. f \in {Cofactors(x).f00, Cofactors(x).f01, Cofactors(x).f10, Cofactors(x).f11}'
    BY <1>12 DEF Grandchildren
  <2>2. PICK c \in {node[x].low, node[x].high} :
              IF node[c].level = w THEN f \in {node[c].low, node[c].high} ELSE f = c
    BY <2>1, <1>1, <1>5 DEF Cofactors
  <2>3. c \in Children(x)
    <3>1. c \notin Terminal
      <4>1. \A t \in Terminal : node[t].level = varnum
        BY NodeFacts
      <4>2. varnum # w
        BY <1>3, NodeFacts
      <4> QED
        BY <4>1, <4>2, <2>2, <1>12
    <3> QED
      BY <3>1, <2>2 DEF Children
  <2>4. d < at(node[c].level) /\ c \in Taken
    BY <2>3, <1>6, <1>11
  <2>5. CASE node[c].level = w
    <3>1. f \in Children(c)
      BY <2>2, <2>5, <1>12 DEF Children
    <3> QED
      BY <3>1, <2>4, <2>5, <1>3, <1>7
  <2>6. CASE node[c].level # w
    <3>1. f = c /\ node[c].level \in Variable
      BY <2>2, <2>4, <2>6, <1>6
    <3>2. at(node[c].level) # d + 1 /\ at(node[c].level) \in Nat /\ d \in Nat
      BY <3>1, <2>6, <1>3
    <3> QED
      BY <3>1, <3>2, <2>4
  <2> QED
    BY <2>5, <2>6
<1>13. ASSUME NEW x \in Taken, NEW c \in Children(x), c \in Dependent(v)
       PROVE  at(node[x].level) < d
  BY <1>3, <1>7, <1>8, <1>13
<1>14. /\ \A x \in Taken' \ pending' : \A c \in Children(x)' : DepthAfter(x)' < DepthAfter(c)'
       /\ \A x \in pending' : /\ \A c \in Children(x)' : (Var2Level(upper))' < Depth(c)'
                              /\ \E c \in Children(x)' : VarOf(c)' = Lower'
                              /\ \A f \in Grandchildren(x)' \ Terminal : (Var2Level(upper))' + 1 < Depth(f)'
       /\ \A x \in Taken' : \A c \in Children(x)' : c \in pending' => Depth(x)' < (Var2Level(upper))'
  BY <1>1, <1>4, <1>5, <1>10, <1>11, <1>12, <1>13
<1> QED
  BY <1>14 DEF HalfExchanged, Terminal

(* What meets below a node depends on the rows only, and only a collection *)
(* of dead nodes or none is between reorderings and exchanges.             *)
LEMMA MeetLeft ==
  ASSUME Inv, Inv', RowsLeft
  PROVE  \A n \in Taken' : Meet(n)' \subseteq Meet(n)
<1>1. PICK B : B = [n \in Taken |-> Meet(n)]
  OBVIOUS
<1>2. Taken' \subseteq Taken /\ \A n \in Taken' : RowKept(n)
  BY DEF RowsLeft
<1>3. ASSUME NEW n \in Taken'
      PROVE  VarOf(n)' \in B[n] /\ \A c \in Children(n)' : B[c] \subseteq B[n]
  <2>1. n \in Taken /\ VarOf(n)' = VarOf(n) /\ Children(n)' = Children(n)
    BY <1>2 DEF RowKept, Children, Terminal
  <2>2. Children(n) \subseteq Taken
    BY <2>1, NodeFacts
  <2>3. VarOf(n) \in Meet(n) /\ \A c \in Children(n) : Meet(c) \subseteq Meet(n)
    BY <2>1, MeetFacts
  <2> QED
    BY <2>1, <2>2, <2>3, <1>1
<1>4. Bounds(B)'
  BY <1>3 DEF Bounds
<1>5. \A n \in Taken' : Meet(n)' \subseteq B[n]
  BY <1>4, NextMeetBounded
<1> QED
  BY <1>1, <1>2, <1>5

(* The interaction matrix covers what is left of a table.                  *)
LEMMA MeetingLeft ==
  ASSUME Inv, Inv', RowsLeft, iactmtx' = iactmtx, Meeting
  PROVE  Meeting'
<1>1. \A n \in Taken' : Meet(n)' \subseteq Meet(n)
  BY MeetLeft
<1>2. \A n \in Taken' : Meet(n) \X Meet(n) \subseteq iactmtx
  BY DEF RowsLeft, Meeting
<1> QED
  BY <1>1, <1>2 DEF Meeting

(* The table after a step has no dangling child.                           *)
LEMMA NextChildren ==
  ASSUME Inv'
  PROVE  \A n \in Taken' : Children(n)' \subseteq Taken'
<1>1. (\A n \in Taken : /\ VarOf(n) \in Variable /\ node[n].level \in Variable
                        /\ phase = "idle" => Depth(n) = node[n].level
                        /\ Children(n) \subseteq Taken
                        /\ node[n].low \in Terminal \cup Taken
                        /\ node[n].high \in Terminal \cup Taken)'
  BY NodeFacts, PTL
<1> QED
  BY <1>1

(* Rows and places that stay.                                              *)
LEMMA OrderedLeft ==
  ASSUME Inv, Inv', RowsLeft, level2var' = level2var, varnum' = varnum, phase # "swap", Ordered
  PROVE  Ordered'
<1>1. \A x, y : VarOf(x)' = VarOf(x) => Depth(x)' = Depth(x)
  BY DEF Depth, Var2Level
<1>2. ASSUME NEW x \in Taken', NEW c \in Children(x)'
      PROVE  Depth(x)' < Depth(c)'
  <2>1. c \in Taken'
    BY <1>2, NextChildren
  <2>2. x \in Taken /\ c \in Children(x) /\ VarOf(x)' = VarOf(x) /\ VarOf(c)' = VarOf(c)
    BY <2>1, <1>2 DEF RowsLeft, RowKept, Children, Terminal
  <2>3. Depth(x) < Depth(c)
    BY <2>2 DEF Ordered
  <2> QED
    BY <2>2, <2>3, <1>1
<1> QED
  BY <1>2 DEF Ordered

(* Variables that never meet can trade places.                             *)
LEMMA IndependentOrder ==
  ASSUME Inv, NEW v \in Variable, ExchangeIndependent(v), Ordered, Meeting
  PROVE  Ordered'
<1> DEFINE d == Var2Level(v)
           w == level2var[d + 1]
<1>1. /\ phase = "ready" /\ phase' = phase /\ d < varnum - 1 /\ <<v, w>> \notin iactmtx
      /\ level2var' = Exchanged(v) /\ varnum' = varnum
      /\ Taken' = Taken /\ node' = node
  BY DEF ExchangeIndependent, Exchange, Taken, Slots, FreeSet
<1>2. IsOrder(level2var, varnum)
  BY NodeFacts
<1>3. \A x \in Variable : Var2Level(x)' = AfterOf(v, x)
  BY <1>1, <1>2, PlacesExchanged
<1>4. \A a, b \in Variable : Var2Level(a) < Var2Level(b) /\ ~ (a = v /\ b = w)
                               => AfterOf(v, a) < AfterOf(v, b)
  BY <1>1, <1>2, AfterLess
<1>5. \A x : VarOf(x)' = VarOf(x) /\ Children(x)' = Children(x)
  BY <1>1 DEF VarOf, Children
<1> HIDE DEF d, w
<1>6. ASSUME NEW x \in Taken, NEW c \in Children(x)
      PROVE  Var2Level(VarOf(x))' < Var2Level(VarOf(c))'
  <2>1. c \in Taken /\ VarOf(x) \in Variable /\ VarOf(c) \in Variable
    BY NodeFacts
  <2>2. VarOf(x) \in Meet(x) /\ VarOf(c) \in Meet(x)
    BY <2>1, MeetFacts
  <2>3. ~ (VarOf(x) = v /\ VarOf(c) = w)
    BY <2>2, <1>1 DEF Meeting
  <2>4. Var2Level(VarOf(x)) < Var2Level(VarOf(c))
    BY <1>1 DEF Ordered, Depth
  <2>5. AfterOf(v, VarOf(x)) < AfterOf(v, VarOf(c))
    BY <2>1, <2>3, <2>4, <1>4
  <2>6. VarOf(x)' = VarOf(x) /\ VarOf(c)' = VarOf(c)
    BY <1>5
  <2>7. Var2Level(VarOf(x))' = AfterOf(v, VarOf(x)) /\ Var2Level(VarOf(c))' = AfterOf(v, VarOf(c))
    BY <2>1, <2>6, <1>3 DEF Var2Level
  <2> QED
    BY <2>5, <2>7
<1> QED
  BY <1>1, <1>5, <1>6 DEF Ordered, Depth

(* When nothing waits any more the variables trade places.                 *)
LEMMA LocalGbcOrder ==
  ASSUME Inv, Inv', LocalGbc, HalfExchanged
  PROVE  Ordered'
<1>1. /\ phase = "swap" /\ phase' = "ready" /\ pending = {}
      /\ level2var' = Exchanged(upper) /\ varnum' = varnum
  BY DEF LocalGbc, Exchange
<1>2. RowsLeft
  BY LocalGbcRows
<1>3. IsOrder(level2var, varnum) /\ upper \in Variable /\ Var2Level(upper) < varnum - 1
  BY <1>1 DEF Inv, Shape, Records
<1>4. \A x \in Variable : Var2Level(x)' = AfterOf(upper, x)
  BY <1>1, <1>3, PlacesExchanged
<1>5. ASSUME NEW x \in Taken', NEW c \in Children(x)'
      PROVE  Depth(x)' < Depth(c)'
  <2>1. c \in Taken'
    BY <1>5, NextChildren
  <2>2. /\ x \in Taken /\ c \in Taken /\ c \in Children(x)
        /\ VarOf(x)' = VarOf(x) /\ VarOf(c)' = VarOf(c)
    BY <2>1, <1>2, <1>5 DEF RowsLeft, RowKept, Children, Terminal
  <2>3. VarOf(x) \in Variable /\ VarOf(c) \in Variable
    BY <2>2, NodeFacts
  <2>4. AfterOf(upper, VarOf(x)) < AfterOf(upper, VarOf(c))
    BY <2>2, <1>1 DEF HalfExchanged, DepthAfter
  <2>5. Depth(x)' = AfterOf(upper, VarOf(x)) /\ Depth(c)' = AfterOf(upper, VarOf(c))
    BY <2>2, <2>3, <1>4 DEF Depth, Var2Level
  <2> QED
    BY <2>4, <2>5
<1> QED
  BY <1>5 DEF Ordered

(* Less meets below a node than below one above it.                        *)
LEMMA MeetBelow ==
  ASSUME Inv, NEW r \in Taken, NEW n \in Below[r]
  PROVE  Meet(n) \subseteq Meet(r)
<1>1. /\ Below[r] \subseteq Taken
      /\ \A m \in Below[r] : /\ node[m].low \in Terminal \cup Below[r]
                             /\ node[m].high \in Terminal \cup Below[r]
  BY BelowClosed DEF Inv, Shape
<1>2. PICK B : B = [x \in Taken |-> IF x \in Below[r] THEN Meet(r) ELSE Variable]
  OBVIOUS
<1>3. \A x \in Taken : VarOf(x) \in Variable /\ Children(x) \subseteq Taken
  BY NodeFacts
<1>4. Meet(r) \subseteq Variable /\ \A x \in Below[r] : VarOf(x) \in Meet(r)
  BY <1>1, <1>3 DEF Meet
<1> HIDE DEF Below, Meet
<1>5. Bounds(B)
  <2> SUFFICES ASSUME NEW x \in Taken
               PROVE  VarOf(x) \in B[x] /\ \A c \in Children(x) : B[c] \subseteq B[x]
    BY DEF Bounds
  <2>1. CASE x \in Below[r]
    <3>1. \A c \in Children(x) : c \in Below[r]
      BY <2>1, <1>1 DEF Children
    <3> QED
      BY <2>1, <3>1, <1>1, <1>2, <1>4
  <2>2. CASE x \notin Below[r]
    BY <2>2, <1>2, <1>3, <1>4
  <2> QED
    BY <2>1, <2>2
<1>6. n \in Taken /\ B[n] = Meet(r)
  BY <1>1, <1>2
<1> QED
  BY <1>5, <1>6, MeetBounded

(* What mark_roots finds is all that meets below a node that is left.      *)
LEMMA StartMeeting ==
  ASSUME Inv, Inv', Start, ~ lost'
  PROVE  Meeting'
<1>1. RowsLeft /\ Taken' = Reach(Counted)
  BY StartRows
<1>2. Interacting \subseteq iactmtx'
  BY DEF Start
<1>3. ASSUME NEW n \in Taken' PROVE Meet(n)' \X Meet(n)' \subseteq iactmtx'
  <2>1. PICK r \in Counted : n \in Below[r]
    BY <1>1, <1>3 DEF Reach
  <2>2. Meet(r) \X Meet(r) \subseteq Interacting
    BY DEF Interacting, Meet
  <2>3. Meet(n) \subseteq Meet(r)
    <3>1. r \in Taken
      BY <2>1, CountedTaken DEF Inv
    <3> QED
      BY <2>1, <3>1, MeetBelow
  <2>4. Meet(n)' \subseteq Meet(n)
    BY <1>1, MeetLeft
  <2> QED
    BY <2>2, <2>3, <2>4, <1>2
<1> QED
  BY <1>3 DEF Meeting

(* A new node is above its children.                                       *)
LEMMA BuildOrder ==
  ASSUME Inv, NEW l \in Variable, NEW lo \in Known, NEW hi \in Known, Build(l, lo, hi), Ordered
  PROVE  Ordered'
<1>1. /\ phase = "idle" /\ phase' = phase /\ level2var' = level2var /\ varnum' = varnum
      /\ l < node[lo].level /\ l < node[hi].level
  BY DEF Build, Called, Idle, LevelOf
<1>2. \A x \in Taken : RowKept(x)
  BY BuildRows
<1>3. \/ Taken' = Taken
      \/ \E r \in Slots \ Taken :
           /\ Taken' = Taken \cup {r}
           /\ VarOf(r)' = level2var[l] /\ node'[r].low = lo /\ node'[r].high = hi
  <2>1. \/ \E n \in Taken :
             /\ Taken' = Taken
             /\ \A x \in Slots : x # n => held'[x] = held[x]
             /\ meaning' = [meaning EXCEPT ![n] = Functions_[n]]
        \/ \E r \in Slots \ Taken :
             /\ Taken' = Taken \cup {r}
             /\ \A x \in Slots : x # r => held'[x] = held[x]
             /\ meaning' = [meaning EXCEPT ![r] = Shannon(Functions_, level2var[l], lo, hi)]
             /\ VarOf(r)' = level2var[l] /\ node'[r].low = lo /\ node'[r].high = hi
             /\ \A x \in Taken :
                  ~ (node[x].level = l /\ node[x].low = lo /\ node[x].high = hi)
    BY BuildRows
  <2> QED
    BY <2>1
<1>4. lo \in Terminal \cup Taken /\ hi \in Terminal \cup Taken
  BY BuildRows
<1>5. \A x, v : VarOf(x)' = v => Depth(x)' = Var2Level(v)
  BY <1>1 DEF Depth, Var2Level
<1>6. ASSUME NEW x \in Taken, NEW c \in Children(x)'
      PROVE  Depth(x)' < Depth(c)'
  <2>1. c \in Children(x) /\ c \in Taken
    <3>1. c \in Children(x)
      BY <1>2, <1>6 DEF RowKept, Children, Terminal
    <3> QED
      BY <3>1, NodeFacts
  <2>2. Depth(x) < Depth(c)
    BY <2>1, <1>1 DEF Ordered
  <2>3. Depth(x)' = Depth(x) /\ Depth(c)' = Depth(c)
    BY <2>1, <1>2, <1>5 DEF RowKept, Depth
  <2> QED
    BY <2>2, <2>3
<1>7. ASSUME NEW r \in Slots \ Taken, VarOf(r)' = level2var[l], node'[r].low = lo, node'[r].high = hi,
             NEW c \in Children(r)'
      PROVE  Depth(r)' < Depth(c)'
  <2>1. c \in {lo, hi} /\ c \in Taken
    BY <1>4, <1>7 DEF Children, Terminal
  <2>2. Depth(c)' = node[c].level
    <3>1. Depth(c) = node[c].level
      BY <2>1, <1>1, NodeFacts
    <3> QED
      BY <3>1, <2>1, <1>2, <1>5 DEF RowKept, Depth
  <2>3. Depth(r)' = l
    <3>1. Var2Level(level2var[l]) = l
      <4>1. IsOrder(level2var, varnum)
        BY NodeFacts
      <4>2. l \in 0..varnum
        BY <4>1 DEF IsOrder, Variable
      <4> QED
        BY <4>1, <4>2, OrderFacts
    <3> QED
      BY <3>1, <1>5, <1>7
  <2> QED
    BY <2>1, <2>2, <2>3, <1>1
<1>8. \A x \in Taken' : \A c \in Children(x)' : Depth(x)' < Depth(c)'
  BY <1>3, <1>6, <1>7
<1> QED
  BY <1>8 DEF Ordered

(* A new variable is last, and its nodes have no children.                 *)
LEMMA AddVariableOrder ==
  ASSUME Inv, Inv', AddVariable, Ordered
  PROVE  Ordered'
<1>1. /\ phase = "idle" /\ varnum' = varnum + 1
      /\ level2var' = [l \in 0..(varnum + 1) |-> IF l < varnum THEN level2var[l] ELSE l]
  BY DEF AddVariable, Called, Idle
<1>2. PICK pos, neg \in Slots \ Taken :
           /\ pos # neg /\ Taken' = Taken \cup {pos, neg} /\ \A n \in Taken : RowKept(n)
           /\ VarOf(pos)' = varnum /\ node'[pos].low = FALSEBDD /\ node'[pos].high = TRUEBDD
           /\ VarOf(neg)' = varnum /\ node'[neg].low = TRUEBDD /\ node'[neg].high = FALSEBDD
  BY AddVariableRows
<1>3. ASSUME NEW v \in Variable PROVE Var2Level(v)' = Var2Level(v)
  <2>1. /\ Var2Level(v) \in 0..(varnum - 1) /\ level2var[Var2Level(v)] = v /\ varnum \in Nat
    <3>1. IsOrder(level2var, varnum)
      BY NodeFacts
    <3>2. Variable \subseteq 0..varnum /\ varnum \in Nat
      BY <3>1 DEF IsOrder, Variable
    <3> QED
      BY <3>1, <3>2, OrderFacts DEF Variable
  <2>2. Var2Level(v) \in 0..varnum' /\ level2var'[Var2Level(v)] = v
    BY <2>1, <1>1
  <2>3. \A l \in 0..varnum' : level2var'[l] = v => l = Var2Level(v)
    <3>1. IsOrder(level2var, varnum)'
      BY DEF Inv, Shape
    <3>2. \A k, l \in 0..varnum' : level2var'[k] = level2var'[l] => k = l
      BY <3>1 DEF IsOrder
    <3> QED
      BY <3>2, <2>2
  <2>4. Var2Level(v)' = CHOOSE l \in 0..varnum' : level2var'[l] = v
    BY DEF Var2Level
  <2> QED
    BY <2>2, <2>3, <2>4
<1>4. ASSUME NEW x \in Taken, NEW c \in Children(x)'
      PROVE  Depth(x)' < Depth(c)'
  <2>1. c \in Children(x) /\ c \in Taken
    <3>1. c \in Children(x)
      BY <1>2, <1>4 DEF RowKept, Children, Terminal
    <3> QED
      BY <3>1, NodeFacts
  <2>2. Depth(x) < Depth(c)
    BY <2>1, <1>1 DEF Ordered
  <2>3. VarOf(x) \in Variable /\ VarOf(c) \in Variable
    BY <2>1, NodeFacts
  <2>4. VarOf(x)' = VarOf(x) /\ VarOf(c)' = VarOf(c)
    BY <2>1, <1>2 DEF RowKept
  <2>5. Depth(x)' = Depth(x) /\ Depth(c)' = Depth(c)
    BY <2>3, <2>4, <1>3 DEF Depth, Var2Level
  <2> QED
    BY <2>2, <2>5
<1>5. Children(pos)' = {} /\ Children(neg)' = {}
  BY <1>2 DEF Children, Terminal
<1>6. \A x \in Taken' : \A c \in Children(x)' : Depth(x)' < Depth(c)'
  BY <1>2, <1>4, <1>5
<1> QED
  BY <1>6 DEF Ordered

-----------------------------------------------------------------------------
(* The order is kept by every step.                                        *)

(* The first nodes have no children.                                       *)
LEMMA InitOrder == Init => OrderInv
<1> SUFFICES ASSUME Init PROVE OrderInv
  OBVIOUS
<1>1. Inv /\ phase = "idle" /\ InitSize \in Nat
  BY InitInv, ReorderSizes DEF Init
<1>2. \A n \in 0..(InitSize - 1) :
        node[n] = CASE n \in Terminal -> [refcou |-> MaxRef, level |-> FirstVars, low |-> n, high |-> n]
                    [] n \in 2..(2 * FirstVars + 1) ->
                         [refcou |-> MaxRef, level |-> (n - 2) \div 2, low |-> n % 2, high |-> 1 - (n % 2)]
                    [] OTHER -> FreeNode
  BY DEF Init
<1>3. ASSUME NEW n \in Taken PROVE Children(n) = {}
  <2>1. n \in 0..(InitSize - 1) /\ n \notin Terminal /\ node[n].low # -1
    <3>1. n \in 0..(size - 1) /\ size = InitSize
      BY <1>1, TakenInTable DEF Init
    <3> QED
      BY <3>1, <1>1, TakenApart, LowChild
  <2>2. n \in 2..(2 * FirstVars + 1)
    <3>1. n \notin 2..(2 * FirstVars + 1) => node[n] = FreeNode
      BY <2>1, <1>2
    <3>2. FreeNode.low = -1
      BY DEF FreeNode
    <3> QED
      BY <2>1, <3>1, <3>2
  <2>3. node[n] = [refcou |-> MaxRef, level |-> (n - 2) \div 2, low |-> n % 2, high |-> 1 - (n % 2)]
    BY <2>1, <2>2, <1>2
  <2>4. n % 2 \in {0, 1} /\ 1 - (n % 2) \in {0, 1}
    BY <2>2
  <2>5. Children(n) = {n % 2, 1 - (n % 2)} \ Terminal
    BY <2>3 DEF Children
  <2> QED
    BY <2>4, <2>5 DEF Terminal, FALSEBDD, TRUEBDD
<1>4. Ordered
  BY <1>3 DEF Ordered
<1> QED
  BY <1>1, <1>4 DEF OrderInv

(* Steps that leave what is ordered.                                       *)
LEMMA CollectionOrder ==
  ASSUME Inv, Inv', OrderInv, ~ lost', \/ UNCHANGED vars
                                       \/ \E n \in Slots : Release(n)
                                       \/ Gbc \/ Start \/ Done
  PROVE  OrderInv'
<1>1. CASE UNCHANGED vars
  <2>1. /\ UNCHANGED <<size, node, free, varnum, level2var, phase, iactmtx, pending, upper, lost>>
    BY <1>1 DEF vars
  <2>2. UNCHANGED <<Taken, Ordered, HalfExchanged, Meeting>>
    <3>1. Taken' = Taken
      BY <2>1 DEF Taken, Slots, FreeSet
    <3>2. /\ Lower' = Lower /\ (Var2Level(upper))' = Var2Level(upper)
          /\ \A n : /\ VarOf(n)' = VarOf(n) /\ Depth(n)' = Depth(n) /\ DepthAfter(n)' = DepthAfter(n)
                    /\ Children(n)' = Children(n) /\ Cofactors(n)' = Cofactors(n)
                    /\ Grandchildren(n)' = Grandchildren(n)
      BY <2>1 DEF Lower, Var2Level, VarOf, Depth, DepthAfter, AfterOf, Children, Grandchildren, Cofactors
    <3>3. Below' = Below
      BY <2>1 DEF Below
    <3>4. \A n : Meet(n)' = Meet(n)
      BY <3>2, <3>3 DEF Meet
    <3> QED
      BY <2>1, <3>1, <3>2, <3>4 DEF Ordered, HalfExchanged, Meeting
  <2> QED
    BY <2>1, <2>2 DEF OrderInv
<1>2. CASE ~ UNCHANGED vars
  <2>1. /\ RowsLeft /\ level2var' = level2var /\ varnum' = varnum
        /\ phase # "swap" /\ phase' # "swap" /\ (lost => lost')
    <3>1. ASSUME NEW n \in Slots, Release(n)
          PROVE  /\ RowsLeft /\ level2var' = level2var /\ varnum' = varnum
                 /\ phase # "swap" /\ phase' # "swap" /\ (lost => lost')
      <4>1. RowsLeft
        BY <3>1, ReleaseRows
      <4> QED
        BY <3>1, <4>1 DEF Release, Called, Idle
    <3>2. CASE Gbc
      BY <3>2, GbcRows DEF Gbc, Called, Idle
    <3>3. CASE Start
      BY <3>3, StartRows DEF Start, Idle
    <3>4. CASE Done
      BY <3>4, DoneRows DEF Done
    <3> QED
      BY <1>2, <3>1, <3>2, <3>3, <3>4
  <2>2. Ordered'
    BY <2>1, OrderedLeft DEF OrderInv
  <2>3. phase' # "idle" => Meeting'
    <3>1. phase' # "idle" => Start
      BY <1>2 DEF Release, Gbc, Done, Called, Idle
    <3> QED
      BY <3>1, StartMeeting
  <2> QED
    BY <2>1, <2>2, <2>3 DEF OrderInv
<1> QED
  BY <1>1, <1>2

(* An interaction that was missed stays so.                                *)
LEMMA LostStep ==
  ASSUME [Next]_vars
  PROVE  lost => lost'
<1>1. \A l, lo, hi : Build(l, lo, hi) => lost' = lost
  BY DEF Build
<1>2. \A n : Release(n) => lost' = lost
  BY DEF Release
<1>3. Gbc \/ AddVariable => lost' = lost
  BY DEF Gbc, AddVariable
<1>4. Start => (lost => lost')
  BY DEF Start
<1>5. \A v : ExchangeIndependent(v) \/ DownSimple(v) => lost' = lost
  BY Zenon DEF ExchangeIndependent, DownSimple
<1>6. \A n : SwapNode(n) => lost' = lost
  BY DEF SwapNode
<1>7. LocalGbc \/ Done => lost' = lost
  BY DEF LocalGbc, Done
<1>8. UNCHANGED vars => lost' = lost
  BY DEF vars
<1> QED
  BY <1>1, <1>2, <1>3, <1>4, <1>5, <1>6, <1>7, <1>8 DEF Next, ProgramStep, ReorderStep

(* Every step keeps the order.                                             *)
LEMMA OrderStep ==
  ASSUME Inv, Inv', NEW Top \in Nat, GrowsUpTo(Top), size <= Top, size' <= Top,
         Waiting, OrderInv, [Next]_vars
  PROVE  OrderInv'
<1> SUFFICES ASSUME ~ lost' PROVE OrderInv'
  BY Zenon DEF OrderInv
<1>1. ~ lost
  BY LostStep
<1>2. /\ Ordered
      /\ phase = "swap" => HalfExchanged
      /\ phase # "idle" => Meeting
  BY <1>1 DEF OrderInv
<1>3. CASE \/ UNCHANGED vars
           \/ \E n \in Slots : Release(n)
           \/ Gbc \/ Start \/ Done
  BY <1>3, CollectionOrder
<1>4. ASSUME NEW l \in Variable, NEW lo \in Known, NEW hi \in Known, Build(l, lo, hi)
      PROVE  OrderInv'
  <2>1. phase' = "idle"
    BY <1>4 DEF Build, Called, Idle
  <2> QED
    BY <2>1, <1>2, <1>4, BuildOrder DEF OrderInv
<1>5. CASE AddVariable
  <2>1. phase' = "idle"
    BY <1>5 DEF AddVariable, Called, Idle
  <2> QED
    BY <2>1, <1>2, <1>5, AddVariableOrder DEF OrderInv
<1>6. ASSUME NEW v \in Variable, ExchangeIndependent(v)
      PROVE  OrderInv'
  <2>1. phase = "ready" /\ phase' = "ready" /\ iactmtx' = iactmtx
    BY <1>6 DEF ExchangeIndependent
  <2>2. RowsLeft
    BY <1>6, SameRows
  <2>3. Meeting'
    BY <2>1, <2>2, <1>2, MeetingLeft
  <2>4. Ordered'
    BY <2>1, <1>2, <1>6, IndependentOrder
  <2> QED
    BY <2>1, <2>3, <2>4 DEF OrderInv
<1>7. ASSUME NEW v \in Variable, DownSimple(v)
      PROVE  OrderInv'
  <2>1. phase = "ready" /\ phase' = "swap" /\ iactmtx' = iactmtx
    BY <1>7 DEF DownSimple
  <2>2. RowsLeft
    BY <1>7, SameRows
  <2>3. Meeting'
    BY <2>1, <2>2, <1>2, MeetingLeft
  <2>4. HalfExchanged'
    BY <1>2, <1>7, DownSimpleOrder
  <2>5. Ordered'
    BY <2>1 DEF Ordered
  <2> QED
    BY <2>3, <2>4, <2>5 DEF OrderInv
<1>8. ASSUME NEW n \in pending, SwapNode(n)
      PROVE  OrderInv'
  <2>1. phase = "swap" /\ phase' = "swap"
    BY <1>8 DEF SwapNode
  <2>2. Meeting'
    BY <2>1, <1>2, <1>8, SwapMeeting
  <2>3. HalfExchanged'
    BY <2>1, <1>2, <1>8, SwapOrder
  <2>4. Ordered'
    BY <2>1 DEF Ordered
  <2> QED
    BY <2>2, <2>3, <2>4, Zenon DEF OrderInv
<1>9. CASE LocalGbc
  <2>1. phase = "swap" /\ phase' = "ready" /\ iactmtx' = iactmtx
    BY <1>9 DEF LocalGbc
  <2>2. RowsLeft
    BY <1>9, LocalGbcRows
  <2>3. Meeting'
    BY <2>1, <2>2, <1>2, MeetingLeft
  <2>4. Ordered'
    BY <2>1, <1>2, <1>9, LocalGbcOrder
  <2> QED
    BY <2>1, <2>3, <2>4 DEF OrderInv
<1>10. Next => \/ \E l \in Variable, lo \in Known, hi \in Known : Build(l, lo, hi)
               \/ \E n \in Slots : Release(n)
               \/ Gbc \/ AddVariable \/ Start
               \/ \E v \in Variable : ExchangeIndependent(v) \/ DownSimple(v)
               \/ \E n \in pending : SwapNode(n)
               \/ LocalGbc \/ Done
  BY DEF Next, ProgramStep, ReorderStep
<1> QED
  BY <1>3, <1>4, <1>5, <1>6, <1>7, <1>8, <1>9, <1>10

(* In any number of reorderings, every child lies below its parents in the *)
(* order of the variables whenever no exchange is on, or an interaction    *)
(* was missed by mark_roots: reorder_vardown itself never breaks the order *)
(* (src/src/reorder.c).                                                    *)
THEOREM OrderedUnlessLostHolds ==
  ASSUME NEW Top \in Nat, GrowsUpTo(Top)
  PROVE  Spec /\ [](size <= Top) => []OrderedUnlessLost
<1> DEFINE OInv == Inv /\ Waiting /\ OrderInv
<1>1. Init => OInv
  BY InitInv, InitOrder DEF Init, Waiting
<1>2. OInv /\ [Next]_vars /\ size <= Top /\ (size <= Top)' => OInv'
  <2> SUFFICES ASSUME OInv, [Next]_vars, size <= Top, size' <= Top PROVE OInv'
    OBVIOUS
  <2>1. Inv'
    BY InvStep
  <2>2. Waiting'
    BY WaitingStep
  <2>3. OrderInv'
    BY <2>1, OrderStep
  <2> QED
    BY <2>1, <2>2, <2>3
<1>3. OInv => OrderedUnlessLost
  BY DEF OrderInv, OrderedUnlessLost
<1> QED
  BY <1>1, <1>2, <1>3, PTL DEF Spec

-----------------------------------------------------------------------------
(* One slot for each node.                                                 *)

SameNode(m, n) ==
  VarOf(m) = VarOf(n) /\ node[m].low = node[n].low /\ node[m].high = node[n].high

(* No two slots hold the same node, and none has equal children: during an *)
(* exchange too, and whether they are in the hash table or not.            *)
Unique ==
  /\ \A m, n \in Taken : SameNode(m, n) => m = n
  /\ \A n \in Taken : node[n].low # node[n].high

(* Whoever takes rows away from such a table leaves one.                   *)
LEMMA UniqueLeft ==
  ASSUME RowsLeft, Unique
  PROVE  Unique'
<1>1. \A m, n \in Taken' : SameNode(m, n)' => SameNode(m, n)
  BY DEF RowsLeft, RowKept, SameNode
<1>2. \A n \in Taken' : node'[n].low # node'[n].high
  BY DEF RowsLeft, RowKept, Unique
<1> QED
  BY <1>1, <1>2 DEF RowsLeft, Unique

(* bdd_makenode makes a node only when there is none like it.              *)
LEMMA BuildUnique ==
  ASSUME Inv, NEW l \in Variable, NEW lo \in Known, NEW hi \in Known, Build(l, lo, hi), Unique
  PROVE  Unique'
<1>1. phase = "idle" /\ lo # hi
  BY DEF Build, Called, Idle
<1>2. \A x \in Taken : RowKept(x)
  BY BuildRows
<1>3. \/ Taken' = Taken
      \/ \E r \in Slots \ Taken :
           /\ Taken' = Taken \cup {r}
           /\ VarOf(r)' = level2var[l] /\ node'[r].low = lo /\ node'[r].high = hi
           /\ \A x \in Taken :
                ~ (node[x].level = l /\ node[x].low = lo /\ node[x].high = hi)
  <2>1. \/ \E n \in Taken :
             /\ Taken' = Taken
             /\ \A x \in Slots : x # n => held'[x] = held[x]
             /\ meaning' = [meaning EXCEPT ![n] = Functions_[n]]
        \/ \E r \in Slots \ Taken :
             /\ Taken' = Taken \cup {r}
             /\ \A x \in Slots : x # r => held'[x] = held[x]
             /\ meaning' = [meaning EXCEPT ![r] = Shannon(Functions_, level2var[l], lo, hi)]
             /\ VarOf(r)' = level2var[l] /\ node'[r].low = lo /\ node'[r].high = hi
             /\ \A x \in Taken :
                  ~ (node[x].level = l /\ node[x].low = lo /\ node[x].high = hi)
    BY BuildRows
  <2> QED
    BY <2>1
<1>4. CASE Taken' = Taken
  BY <1>2, <1>4, UniqueLeft DEF RowsLeft
<1>5. ASSUME NEW r \in Slots \ Taken, Taken' = Taken \cup {r},
             VarOf(r)' = level2var[l], node'[r].low = lo, node'[r].high = hi,
             \A x \in Taken : ~ (node[x].level = l /\ node[x].low = lo /\ node[x].high = hi)
      PROVE  Unique'
  <2>1. ASSUME NEW x \in Taken
        PROVE  ~ (VarOf(x)' = VarOf(r)' /\ node'[x].low = lo /\ node'[x].high = hi)
    <3>1. VarOf(x) = level2var[node[x].level]
      BY <1>1 DEF VarOf
    <3>2. level2var[node[x].level] = level2var[l] => node[x].level = l
      <4>1. IsOrder(level2var, varnum) /\ node[x].level \in Variable
        BY NodeFacts
      <4>2. Variable \subseteq 0..varnum
        BY <4>1 DEF IsOrder, Variable
      <4>3. node[x].level \in 0..varnum /\ l \in 0..varnum
        BY <4>1, <4>2
      <4> QED
        BY <4>1, <4>3 DEF IsOrder
    <3> QED
      BY <3>1, <3>2, <1>2, <1>5 DEF RowKept
  <2>2. \A m, n \in Taken' : SameNode(m, n)' => m = n
    BY <2>1, <1>2, <1>5 DEF SameNode, RowKept, Unique
  <2>3. \A n \in Taken' : node'[n].low # node'[n].high
    BY <1>1, <1>2, <1>5 DEF RowKept, Unique
  <2> QED
    BY <2>2, <2>3 DEF Unique
<1> QED
  BY <1>3, <1>4, <1>5

(* The nodes of a new variable are like no other.                          *)
LEMMA AddVariableUnique ==
  ASSUME Inv, AddVariable, Unique
  PROVE  Unique'
<1>1. PICK pos, neg \in Slots \ Taken :
           /\ pos # neg /\ Taken' = Taken \cup {pos, neg} /\ \A n \in Taken : RowKept(n)
           /\ VarOf(pos)' = varnum /\ node'[pos].low = FALSEBDD /\ node'[pos].high = TRUEBDD
           /\ VarOf(neg)' = varnum /\ node'[neg].low = TRUEBDD /\ node'[neg].high = FALSEBDD
  BY AddVariableRows
<1>2. FALSEBDD # TRUEBDD
  BY DEF FALSEBDD, TRUEBDD
<1>3. \A x \in Taken : VarOf(x)' # varnum
  BY <1>1, NodeFacts DEF RowKept
<1>4. \A m, n \in Taken' : SameNode(m, n)' => m = n
  BY <1>1, <1>2, <1>3 DEF SameNode, RowKept, Unique
<1>5. \A n \in Taken' : node'[n].low # node'[n].high
  BY <1>1, <1>2 DEF RowKept, Unique
<1> QED
  BY <1>4, <1>5 DEF Unique

-----------------------------------------------------------------------------
(* Nodes made by an exchange are like no other.                            *)

(* reorder_makenode makes a node only when none like it is in the table.   *)
LEMMA MakeFresh ==
  ASSUME NEW t, NEW num, SoundRec(t, num), NEW v,
         NEW lo \in Terminal \cup Used(t), NEW hi,
         ReorderMakeNode(t, v, lo, hi).res \notin Terminal \cup Used(t),
         NEW x \in Used(t) \ t.hidden
  PROVE  ~ (t.node[x].level = v /\ t.node[x].low = lo /\ t.node[x].high = hi)
<1> DEFINE found == {n \in Chain(t, v) : t.node[n].low = lo /\ t.node[n].high = hi}
           u == ReorderMakeNode(t, v, lo, hi)
<1> SUFFICES ASSUME t.node[x].level = v /\ t.node[x].low = lo /\ t.node[x].high = hi
             PROVE  FALSE
  OBVIOUS
<1>1. IsTable(t) /\ SoundTable(t.size, t.node, t.free, num)
  BY DEF SoundRec
<1>2. \A n : Found(t, n).res = n
  BY <1>1 DEF Found, IsTable
<1>3. Used(t) = (2..(t.size - 1)) \ ToSet(t.free) /\ t.size \in Nat
  BY <1>1 DEF Used, TakenOf, SoundTable
<1>4. found \subseteq Used(t) /\ found \subseteq Nat /\ x \in found
  BY <1>3 DEF Chain
<1>5. CASE lo = hi
  <2>1. u = Found(t, lo)
    BY <1>5 DEF ReorderMakeNode
  <2> QED
    BY <2>1, <1>2
<1>6. CASE lo # hi
  <2>1. found # {}
    BY <1>4
  <2>2. u = Found(t, Min(found))
    BY <1>6, <2>1 DEF ReorderMakeNode
  <2>3. Min(found) \in found
    BY <1>4, <2>1, MinimumIsLeast
  <2> HIDE DEF found
  <2> QED
    BY <2>2, <2>3, <1>2, <1>4
<1> QED
  BY <1>5, <1>6

(* Neither of the two nodes made for a rewritten one is like a node in the *)
(* hash table, or like the other.                                          *)
LEMMA SwapFresh ==
  ASSUME Inv, NEW Top \in Nat, GrowsUpTo(Top), size <= Top, size' <= Top, ~ errorcond',
         NEW n \in pending, SwapNode(n), NEW x \in Taken' \ Taken, NEW y \in Taken' \ pending,
         node'[y].level = upper, node'[y].low = node'[x].low, node'[y].high = node'[x].high
  PROVE  x = y
<1> DEFINE t0 == First(n)
           t1 == Second(n)
           f == Cofactors(n)
<1>1. /\ Taken' = Taken \cup ({t0.res, t1.res} \ Terminal)
      /\ \A z \in Taken : z # n => SameRow(node, node', z)
      /\ \A z \in Taken' : z # n => SameRow(t1.node, node', z)
      /\ \A z \in Taken \cup ({t0.res} \ Terminal) : SameRow(t0.node, t1.node, z)
  BY SwapRows
<1>2. Given(t0.res, f.f00, f.f10) /\ Given(t1.res, f.f01, f.f11)
  <2>1. /\ Given(t0.res, f.f00, f.f10) \/ Failed(t0.res)
        /\ Given(t1.res, f.f01, f.f11) \/ Failed(t1.res)
        /\ t0.res \in Terminal \cup Taken' /\ t1.res \in Terminal \cup Taken'
    BY SwapGiven, Zenon
  <2> QED
    BY <2>1 DEF Failed
<1>3. phase = "swap" /\ size' = t1.size
  BY DEF SwapNode, First, Second
<1>4. /\ Outcome(Table, t0, upper, f.f00, f.f10, varnum)
      /\ Outcome(t0, t1, upper, f.f01, f.f11, varnum)
      /\ Used(Table) = Taken /\ Table.node = node /\ Table.hidden = pending
  BY <1>3, TwoMade
<1>5. SoundRec(Table, varnum)
  BY <1>4 DEF Inv, Shape, Records, SoundRec, IsTable, Table
<1>6. {f.f00, f.f01, f.f10, f.f11} \subseteq Terminal \cup Taken /\ n \in Taken
  <2>1. n \in Taken
    BY DEF Inv, Records
  <2> QED
    BY <2>1, GrandchildrenAre DEF Grandchildren
<1>7. t0 = ReorderMakeNode(Table, upper, f.f00, f.f10) /\ t1 = ReorderMakeNode(t0, upper, f.f01, f.f11)
  BY DEF First, Second
<1> HIDE DEF t0, t1, f, Table
<1>8. SoundRec(t0, varnum) /\ Used(t0) = Taken \cup ({t0.res} \ Terminal) /\ t0.hidden = pending
  BY <1>4 DEF Outcome
<1>9. x \notin Terminal /\ x \in {t0.res, t1.res} /\ y # n
  BY <1>1
<1>10. ASSUME NEW z \in Taken \ pending, t0.res \notin Terminal \cup Taken,
              node'[z].level = upper, node'[z].low = f.f00, node'[z].high = f.f10
       PROVE  FALSE
  <2>1. SameRow(node, node', z)
    BY <1>1, <1>10
  <2>2. ~ (node[z].level = upper /\ node[z].low = f.f00 /\ node[z].high = f.f10)
    BY <1>4, <1>5, <1>6, <1>7, <1>10, MakeFresh
  <2> QED
    BY <2>1, <2>2, <1>10 DEF SameRow
<1>11. ASSUME NEW z \in (Taken \cup ({t0.res} \ Terminal)) \ pending, t1.res \notin Terminal \cup Taken,
              t1.res # t0.res,
              node'[z].level = upper, node'[z].low = f.f01, node'[z].high = f.f11
       PROVE  FALSE
  <2>1. SameRow(t0.node, t1.node, z) /\ SameRow(t1.node, node', z)
    BY <1>1, <1>11
  <2>2. ~ (t0.node[z].level = upper /\ t0.node[z].low = f.f01 /\ t0.node[z].high = f.f11)
    BY <1>6, <1>7, <1>8, <1>11, MakeFresh
  <2> QED
    BY <2>1, <2>2, <1>11 DEF SameRow
<1>12. /\ t0.res \notin Terminal \cup Taken =>
            node'[t0.res].level = upper /\ node'[t0.res].low = f.f00 /\ node'[t0.res].high = f.f10
       /\ t1.res \notin Terminal \cup Taken =>
            node'[t1.res].level = upper /\ node'[t1.res].low = f.f01 /\ node'[t1.res].high = f.f11
  BY <1>2, <1>6 DEF Given
<1>13. y \in Taken \/ y \in {t0.res, t1.res} \ (Terminal \cup Taken)
  BY <1>1
<1>14. pending \subseteq Taken
  BY DEF Inv, Records
<1>15. CASE x = t0.res
  BY <1>9, <1>10, <1>11, <1>12, <1>13, <1>14, <1>15
<1>16. CASE x = t1.res /\ x # t0.res
  BY <1>9, <1>10, <1>11, <1>12, <1>13, <1>14, <1>16
<1> QED
  BY <1>9, <1>15, <1>16

-----------------------------------------------------------------------------
(* What the children of a node are given by.                               *)

(* The two halves of f over variable v.                                    *)
LowOf(f, v)  == IF node[f].level = v THEN node[f].low  ELSE f
HighOf(f, v) == IF node[f].level = v THEN node[f].high ELSE f

(* What a node of the lower variable was rewritten from, if it was.        *)
Rewritten(m) ==
  [f00 |-> LowOf(node[m].low, upper),  f01 |-> LowOf(node[m].high, upper),
   f10 |-> HighOf(node[m].low, upper), f11 |-> HighOf(node[m].high, upper)]

(* No node of the lower variable is what a waiting node will be.           *)
Apart ==
  \A m \in Taken \ pending, n \in pending :
    node[m].level = Lower => Rewritten(m) # Cofactors(n)

(* Where rows are unique, a slot is given by its halves.                   *)
LEMMA HalvesGive ==
  ASSUME Inv, phase = "swap", Unique, NEW v \in Variable,
         NEW a \in Terminal \cup Taken, NEW b \in Terminal \cup Taken,
         LowOf(a, v) = LowOf(b, v), HighOf(a, v) = HighOf(b, v)
  PROVE  a = b
<1>1. \A t \in Terminal : node[t].level # v
  BY NodeFacts
<1>2. \A x \in {a, b} : node[x].level = v => x \in Taken /\ node[x].low # node[x].high /\ VarOf(x) = v
  BY <1>1 DEF Unique, VarOf
<1>3. CASE node[a].level = v /\ node[b].level = v
  <2>1. SameNode(a, b) /\ a \in Taken /\ b \in Taken
    BY <1>2, <1>3 DEF SameNode, LowOf, HighOf
  <2> QED
    BY <2>1 DEF Unique
<1>4. CASE ~ (node[a].level = v /\ node[b].level = v)
  BY <1>2, <1>4 DEF LowOf, HighOf
<1> QED
  BY <1>3, <1>4

(* The grandchildren of a node are the halves of its children.             *)
LEMMA CofactorsAre ==
  \A n : /\ Cofactors(n).f00 = LowOf(node[n].low, Lower)
         /\ Cofactors(n).f01 = HighOf(node[n].low, Lower)
         /\ Cofactors(n).f10 = LowOf(node[n].high, Lower)
         /\ Cofactors(n).f11 = HighOf(node[n].high, Lower)
  BY DEF Cofactors, LowOf, HighOf

(* The children of a node are given by its grandchildren, and they are two *)
(* different ones.                                                         *)
LEMMA GrandchildrenGive ==
  ASSUME Inv, phase = "swap", Unique, NEW n \in Taken
  PROVE  /\ Cofactors(n).f00 = Cofactors(n).f10 => Cofactors(n).f01 # Cofactors(n).f11
         /\ \A x \in Taken : Cofactors(x) = Cofactors(n) /\ node[x].level = node[n].level => x = n
<1>1. Lower \in Variable
  BY Halfway
<1>2. \A x \in Taken : node[x].low \in Terminal \cup Taken /\ node[x].high \in Terminal \cup Taken
  BY NodeFacts
<1> HIDE DEF Cofactors, Lower, LowOf, HighOf
<1>3. Cofactors(n).f00 = Cofactors(n).f10 => Cofactors(n).f01 # Cofactors(n).f11
  <2>1. node[n].low # node[n].high
    BY DEF Unique
  <2> QED
    BY <2>1, <1>1, <1>2, CofactorsAre, HalvesGive
<1>4. ASSUME NEW x \in Taken, Cofactors(x) = Cofactors(n), node[x].level = node[n].level
      PROVE  x = n
  <2>1. node[x].low = node[n].low
    BY <1>1, <1>2, <1>4, CofactorsAre, HalvesGive
  <2>2. node[x].high = node[n].high
    BY <1>1, <1>2, <1>4, CofactorsAre, HalvesGive
  <2>3. SameNode(x, n)
    BY <2>1, <2>2, <1>4 DEF SameNode, VarOf
  <2> QED
    BY <2>3 DEF Unique
<1> QED
  BY <1>3, <1>4

(* No node has its grandchildren twice, before and after a step.           *)
LEMMA GrandchildrenDiffer ==
  Inv /\ phase = "swap" /\ Unique =>
    \A x \in Taken : Cofactors(x).f00 = Cofactors(x).f10 => Cofactors(x).f01 # Cofactors(x).f11
  BY GrandchildrenGive

(* The same of the table after a step.                                     *)
LEMMA NextGrandchildrenGive ==
  ASSUME Inv', phase' = "swap", Unique', NEW n \in Taken'
  PROVE  Cofactors(n)'.f00 = Cofactors(n)'.f10 => Cofactors(n)'.f01 # Cofactors(n)'.f11
<1>1. (Inv /\ phase = "swap" /\ Unique =>
        \A x \in Taken : Cofactors(x).f00 = Cofactors(x).f10 => Cofactors(x).f01 # Cofactors(x).f11)'
  BY GrandchildrenDiffer, PTL
<1> QED
  BY <1>1

(* Before the first turn no node of the lower variable has a child of the  *)
(* upper one.                                                              *)
LEMMA DownSimpleApart ==
  ASSUME Inv, Inv', NEW v \in Variable, DownSimple(v), Ordered, Unique, Unique'
  PROVE  Apart'
<1> DEFINE w == level2var[Var2Level(v) + 1]
<1>1. /\ phase = "ready" /\ phase' = "swap" /\ Var2Level(v) < varnum - 1
      /\ pending' = Dependent(v) /\ upper' = v
      /\ Taken' = Taken /\ node' = node /\ level2var' = level2var /\ varnum' = varnum
  BY DEF DownSimple, Taken, Slots, FreeSet
<1>2. Lower' = w
  BY <1>1 DEF Lower, Var2Level
<1>3. IsOrder(level2var, varnum)
  BY NodeFacts
<1>4. /\ Var2Level(v) < Var2Level(w) /\ varnum # v /\ \A x \in Variable : Var2Level(x) \in Nat
  BY <1>1, <1>3, Neighbours, NodeFacts
<1> HIDE DEF w
<1>5. ASSUME NEW m \in Taken, node[m].level = w, NEW c \in {node[m].low, node[m].high}
      PROVE  node[c].level # v
  <2>1. CASE c \in Terminal
    BY <2>1, <1>4, NodeFacts
  <2>2. CASE c \notin Terminal
    <3>1. c \in Children(m) /\ c \in Taken
      BY <2>2, <1>5, NodeFacts DEF Children
    <3>2. Depth(m) < Depth(c) /\ Depth(m) = Var2Level(w) /\ Depth(c) = Var2Level(node[c].level)
      BY <3>1, <1>1, <1>5 DEF Ordered, Depth, VarOf
    <3>3. node[c].level \in Variable /\ node[m].level \in Variable
      BY <3>1, NodeFacts
    <3> QED
      BY <3>2, <3>3, <1>4, <1>5
  <2> QED
    BY <2>1, <2>2
<1>6. ASSUME NEW m \in Taken, node[m].level = w
      PROVE  Rewritten(m)'.f00 = Rewritten(m)'.f10 /\ Rewritten(m)'.f01 = Rewritten(m)'.f11
  BY <1>1, <1>5, <1>6 DEF Rewritten, LowOf, HighOf
<1>7. ASSUME NEW n \in Taken
      PROVE  Cofactors(n)'.f00 = Cofactors(n)'.f10 => Cofactors(n)'.f01 # Cofactors(n)'.f11
  <2>1. Inv' /\ (phase = "swap")' /\ Unique' /\ n \in Taken'
    BY <1>1
  <2> QED
    BY <2>1, NextGrandchildrenGive
<1> HIDE DEF Rewritten, Cofactors
<1>8. \A m, n \in Taken : node[m].level = w => Rewritten(m)' # Cofactors(n)'
  BY <1>6, <1>7
<1>9. \A m \in Taken' \ pending', n \in pending' : node'[m].level = Lower' => Rewritten(m)' # Cofactors(n)'
  <2>1. Dependent(v) \subseteq Taken
    BY DEF Dependent
  <2> QED
    BY <2>1, <1>1, <1>2, <1>8
<1> QED
  BY <1>9 DEF Apart

-----------------------------------------------------------------------------
(* A turn of the loop leaves rows unique and nodes apart.                  *)

(* The grandchildren of a waiting node are of neither variable.            *)
LEMMA GrandchildrenBelow ==
  ASSUME Inv, phase = "swap", HalfExchanged, Waiting, NEW n \in pending, NEW f \in Grandchildren(n)
  PROVE  /\ f \in Terminal \cup Taken /\ f \notin pending
         /\ node[f].level # upper /\ node[f].level # Lower
<1>1. n \in Taken /\ pending \subseteq Taken /\ Taken \cap Terminal = {}
  BY TakenApart DEF Inv, Records
<1>2. f \in Terminal \cup Taken
  BY <1>1, GrandchildrenAre
<1>3. /\ upper \in Variable /\ Lower \in Variable
      /\ Var2Level(upper) \in Nat /\ Var2Level(Lower) = Var2Level(upper) + 1
      /\ Depth(f) = Var2Level(node[f].level)
  BY Halfway
<1>4. node[f].level # upper /\ node[f].level # Lower
  <2>1. CASE f \in Terminal
    BY <2>1, <1>3, NodeFacts
  <2>2. CASE f \notin Terminal
    <3>1. Var2Level(upper) + 1 < Depth(f)
      BY <2>2 DEF HalfExchanged
    <3> HIDE DEF Depth, Lower
    <3> QED
      BY <3>1, <1>3
  <2> QED
    BY <2>1, <2>2
<1> QED
  BY <1>1, <1>2, <1>4 DEF Waiting

(* No variable is as deep as the constants.                                *)
LEMMA TerminalLevels == Inv => \A t \in Terminal : node[t].level = varnum
  BY NodeFacts

(* A node given for (upper, lo, hi) has the halves lo and hi, after the    *)
(* turn and, if it was there, before.                                      *)
LEMMA GivenHalves ==
  ASSUME Inv, Inv', NEW Top \in Nat, GrowsUpTo(Top), size <= Top, size' <= Top,
         NEW n \in pending, SwapNode(n), Waiting, HalfExchanged,
         NEW lo \in Grandchildren(n), NEW hi \in Grandchildren(n),
         NEW r \in Terminal \cup Taken', Given(r, lo, hi)
  PROVE  /\ r # n /\ LowOf(r, upper)' = lo /\ HighOf(r, upper)' = hi
         /\ r \in Terminal \cup Taken => LowOf(r, upper) = lo /\ HighOf(r, upper) = hi
<1>1. /\ n \in Taken /\ \A x \in Taken : x # n => SameRow(node, node', x)
      /\ phase = "swap" /\ phase' = "swap" /\ upper' = upper /\ varnum' = varnum
  BY SwapTable
<1>2. \A t \in Terminal : node[t].level # upper /\ node'[t].level # upper
  <2>1. \A t \in Terminal : node[t].level = varnum
    BY NodeFacts
  <2>2. \A t \in Terminal : node'[t].level = varnum'
    <3>1. (\A t \in Terminal : node[t].level = varnum)'
      BY TerminalLevels, PTL
    <3> QED
      BY <3>1
  <2>3. upper # varnum
    BY <1>1, Halfway, NodeFacts
  <2> QED
    BY <2>1, <2>2, <2>3, <1>1
<1>3. CASE lo = hi /\ r = lo
  <2>1. r \in Terminal \cup Taken /\ r \notin pending /\ node[r].level # upper
    BY <1>1, <1>3, GrandchildrenBelow
  <2>2. node'[r].level # upper
    <3>1. CASE r \in Terminal
      BY <3>1, <1>2
    <3>2. CASE r \in Taken
      BY <3>2, <2>1, <1>1 DEF SameRow
    <3> QED
      BY <3>1, <3>2, <2>1
  <2> QED
    BY <2>1, <2>2, <1>1, <1>3 DEF LowOf, HighOf
<1>4. CASE /\ lo # hi /\ r \notin Terminal \cup pending
           /\ node'[r].level = upper /\ node'[r].low = lo /\ node'[r].high = hi
  <2>1. LowOf(r, upper)' = lo /\ HighOf(r, upper)' = hi
    BY <1>1, <1>4 DEF LowOf, HighOf
  <2>2. r \in Taken => node[r].level = upper /\ node[r].low = lo /\ node[r].high = hi
    BY <1>1, <1>4 DEF SameRow
  <2> QED
    BY <2>1, <2>2, <1>4 DEF LowOf, HighOf
<1> QED
  BY <1>3, <1>4 DEF Given

(* The rewritten node and what is made for it are like no other.           *)
LEMMA SwapUnique ==
  ASSUME Inv, Inv', NEW Top \in Nat, GrowsUpTo(Top), size <= Top, size' <= Top, ~ errorcond',
         NEW n \in pending, SwapNode(n), Waiting, HalfExchanged, Unique, Apart
  PROVE  Unique'
<1> DEFINE f == Cofactors(n)
<1>0. PICK r0, r1 : r0 = First(n).res /\ r1 = Second(n).res
  OBVIOUS
<1>1. /\ n \in Taken /\ Taken \subseteq Taken'
      /\ \A x \in Taken : x # n => SameRow(node, node', x)
      /\ node'[n].level = Lower
      /\ \A x \in Taken' \ Taken : Made(x, n)
      /\ phase = "swap" /\ phase' = "swap" /\ upper' = upper
  BY SwapTable
<1>2. node'[n].low = r0 /\ node'[n].high = r1
  BY <1>0, SwapRows
<1>3. /\ Given(r0, f.f00, f.f10) /\ Given(r1, f.f01, f.f11)
      /\ r0 \in Terminal \cup Taken' /\ r1 \in Terminal \cup Taken'
  <2>1. /\ Given(r0, f.f00, f.f10) \/ Failed(r0)
        /\ Given(r1, f.f01, f.f11) \/ Failed(r1)
        /\ r0 \in Terminal \cup Taken' /\ r1 \in Terminal \cup Taken'
    BY <1>0, SwapGiven
  <2> QED
    BY <2>1 DEF Failed
<1>4. {f.f00, f.f01, f.f10, f.f11} = Grandchildren(n)
  BY DEF Grandchildren
<1>5. /\ LowOf(r0, upper)' = f.f00 /\ HighOf(r0, upper)' = f.f10
      /\ r0 \in Terminal \cup Taken => LowOf(r0, upper) = f.f00 /\ HighOf(r0, upper) = f.f10
  BY <1>3, <1>4, GivenHalves
<1>6. /\ LowOf(r1, upper)' = f.f01 /\ HighOf(r1, upper)' = f.f11
      /\ r1 \in Terminal \cup Taken => LowOf(r1, upper) = f.f01 /\ HighOf(r1, upper) = f.f11
  BY <1>3, <1>4, GivenHalves
<1>7. \A x \in Taken' : VarOf(x)' = node'[x].level
  BY <1>1 DEF VarOf
<1>8. /\ upper # Lower /\ \A x \in pending : node[x].level = upper
      /\ pending \subseteq Taken
  BY <1>1, Halfway DEF Waiting, Inv, Records
<1>9. r0 # r1
  <2> SUFFICES ASSUME r0 = r1 PROVE FALSE
    OBVIOUS
  <2>1. f.f00 = f.f01 /\ f.f10 = f.f11
    BY <1>5, <1>6
  <2>2. \A c \in {node[n].low, node[n].high} : LowOf(c, Lower) = HighOf(c, Lower)
    BY <2>1, CofactorsAre
  <2>3. PICK c \in Children(n) : VarOf(c) = Lower
    BY DEF HalfExchanged
  <2>4. c \in {node[n].low, node[n].high} /\ c \in Taken /\ node[c].level = Lower
    BY <2>3, <1>1, NodeFacts DEF Children, VarOf
  <2>5. node[c].low # node[c].high
    BY <2>4 DEF Unique
  <2> QED
    BY <2>2, <2>4, <2>5 DEF LowOf, HighOf
<1>10. ASSUME NEW m \in Taken, m # n, node'[m].level = Lower, node'[m].low = r0, node'[m].high = r1
       PROVE  FALSE
  <2>1. node[m].level = Lower /\ node[m].low = r0 /\ node[m].high = r1 /\ m \notin pending
    BY <1>1, <1>8, <1>10 DEF SameRow
  <2>2. r0 \in Terminal \cup Taken /\ r1 \in Terminal \cup Taken
    BY <2>1, NodeFacts
  <2>3. Rewritten(m) = [f00 |-> f.f00, f01 |-> f.f01, f10 |-> f.f10, f11 |-> f.f11]
    BY <2>1, <2>2, <1>5, <1>6 DEF Rewritten
  <2>4. Cofactors(n) = [f00 |-> f.f00, f01 |-> f.f01, f10 |-> f.f10, f11 |-> f.f11]
    BY DEF Cofactors
  <2>5. Rewritten(m) # Cofactors(n)
    BY <2>1 DEF Apart
  <2> QED
    BY <2>3, <2>4, <2>5
<1>11. ASSUME NEW x \in Taken' \ Taken, NEW y \in Taken', y # x,
              node'[y].level = node'[x].level, node'[y].low = node'[x].low, node'[y].high = node'[x].high
       PROVE  FALSE
  <2>1. /\ node'[x].level = upper
        /\ node'[x].low \in Grandchildren(n) /\ node'[x].high \in Grandchildren(n)
    BY <1>1 DEF Made
  <2>2. y \in pending
    BY <2>1, <1>11, SwapFresh
  <2>3. y # n /\ y \in Taken /\ SameRow(node, node', y)
    BY <2>1, <2>2, <1>1, <1>8, <1>11
  <2>4. PICK c \in Children(y) : VarOf(c) = Lower
    BY <2>2 DEF HalfExchanged
  <2>5. c \in Grandchildren(n) /\ node[c].level = Lower
    BY <2>1, <2>3, <2>4, <1>1, <1>11 DEF Children, SameRow, VarOf
  <2> QED
    BY <2>5, <1>1, GrandchildrenBelow
<1>12. ASSUME NEW x \in Taken, NEW y \in Taken, x # n, y # n,
              node'[y].level = node'[x].level, node'[y].low = node'[x].low, node'[y].high = node'[x].high
       PROVE  x = y
  <2>1. SameNode(x, y)
    BY <1>1, <1>12 DEF SameNode, VarOf, SameRow
  <2> QED
    BY <2>1 DEF Unique
<1>13. ASSUME NEW x \in Taken', NEW y \in Taken',
              node'[y].level = node'[x].level, node'[y].low = node'[x].low, node'[y].high = node'[x].high
       PROVE  x = y
  <2>1. CASE x \notin Taken \/ y \notin Taken
    BY <2>1, <1>11, <1>13
  <2>2. CASE x \in Taken /\ y \in Taken
    BY <2>2, <1>1, <1>2, <1>10, <1>12, <1>13
  <2> QED
    BY <2>1, <2>2
<1>14. ASSUME NEW x \in Taken' PROVE node'[x].low # node'[x].high
  <2>1. CASE x = n
    BY <2>1, <1>2, <1>9
  <2>2. CASE x \in Taken /\ x # n
    BY <2>2, <1>1 DEF SameRow, Unique
  <2>3. CASE x \notin Taken
    <3>1. x \in {r0, r1} \ Terminal
      BY <2>3, <1>0, SwapRows
    <3>2. \A g \in Grandchildren(n) : g \in Terminal \cup Taken
      BY <1>1, GrandchildrenAre
    <3> QED
      BY <2>3, <3>1, <3>2, <1>3, <1>4 DEF Given
  <2> QED
    BY <2>1, <2>2, <2>3
<1>15. \A m, x \in Taken' : SameNode(m, x)' => m = x
  BY <1>7, <1>13 DEF SameNode
<1> QED
  BY <1>14, <1>15 DEF Unique

(* The rewritten node is no expansion of what still waits.                 *)
LEMMA SwapApart ==
  ASSUME Inv, Inv', NEW Top \in Nat, GrowsUpTo(Top), size <= Top, size' <= Top, ~ errorcond',
         NEW n \in pending, SwapNode(n), Waiting, HalfExchanged, Unique, Apart
  PROVE  Apart'
<1>0. PICK r0, r1 : r0 = First(n).res /\ r1 = Second(n).res
  OBVIOUS
<1>1. /\ n \in Taken
      /\ \A x \in Taken : x # n => SameRow(node, node', x)
      /\ node'[n].level = Lower
      /\ \A x \in Taken' \ Taken : Made(x, n)
      /\ phase = "swap" /\ phase' = "swap" /\ upper' = upper /\ pending' = pending \ {n}
      /\ level2var' = level2var /\ varnum' = varnum
  BY SwapTable
<1>2. node'[n].low = r0 /\ node'[n].high = r1
  BY <1>0, SwapRows
<1>3. /\ Given(r0, Cofactors(n).f00, Cofactors(n).f10) /\ Given(r1, Cofactors(n).f01, Cofactors(n).f11)
      /\ r0 \in Terminal \cup Taken' /\ r1 \in Terminal \cup Taken'
  <2>1. /\ Given(r0, Cofactors(n).f00, Cofactors(n).f10) \/ Failed(r0)
        /\ Given(r1, Cofactors(n).f01, Cofactors(n).f11) \/ Failed(r1)
        /\ r0 \in Terminal \cup Taken' /\ r1 \in Terminal \cup Taken'
    BY <1>0, SwapGiven
  <2> QED
    BY <2>1 DEF Failed
<1>4. {Cofactors(n).f00, Cofactors(n).f01, Cofactors(n).f10, Cofactors(n).f11} = Grandchildren(n)
  BY DEF Grandchildren
<1>5. /\ LowOf(r0, upper)' = Cofactors(n).f00 /\ HighOf(r0, upper)' = Cofactors(n).f10
      /\ LowOf(r1, upper)' = Cofactors(n).f01 /\ HighOf(r1, upper)' = Cofactors(n).f11
  BY <1>3, <1>4, GivenHalves
<1>6. /\ upper # Lower /\ \A x \in pending : node[x].level = upper
      /\ pending \subseteq Taken /\ Lower' = Lower
      /\ Var2Level(upper) \in Nat /\ Var2Level(Lower) = Var2Level(upper) + 1
  BY <1>1, Halfway DEF Waiting, Inv, Records, Lower, Var2Level
<1>7. Rewritten(n)' = Cofactors(n)
  <2>1. Rewritten(n)' = [f00 |-> LowOf(r0, upper)', f01 |-> LowOf(r1, upper)',
                         f10 |-> HighOf(r0, upper)', f11 |-> HighOf(r1, upper)']
    BY <1>2 DEF Rewritten, LowOf, HighOf
  <2>2. Cofactors(n) = [f00 |-> Cofactors(n).f00, f01 |-> Cofactors(n).f01,
                        f10 |-> Cofactors(n).f10, f11 |-> Cofactors(n).f11]
    BY DEF Cofactors
  <2> QED
    BY <2>1, <2>2, <1>5
<1>8. ASSUME NEW x \in pending, x # n
      PROVE  Cofactors(x)' = Cofactors(x) /\ Cofactors(x) # Cofactors(n)
  <2>1. x \in Taken /\ SameRow(node, node', x) /\ node[x].level = node[n].level
    BY <1>1, <1>6, <1>8
  <2>2. \A c \in Children(x) : SameRow(node, node', c)
    <3> SUFFICES ASSUME NEW c \in Children(x) PROVE SameRow(node, node', c)
      OBVIOUS
    <3>1. c \in Taken /\ Var2Level(upper) < Depth(c) /\ Depth(c) = Var2Level(node[c].level)
      BY <2>1, <1>1, NodeFacts, Halfway DEF HalfExchanged
    <3>2. c # n
      BY <3>1, <1>6
    <3> QED
      BY <3>1, <3>2, <1>1
  <2> QED
    BY <2>1, <2>2, <1>1, <1>8, GrandchildrenStay, GrandchildrenGive
<1>9. ASSUME NEW m \in Taken, m # n, node'[m].level = Lower
      PROVE  m \notin pending /\ node[m].level = Lower /\ Rewritten(m)' = Rewritten(m)
  <2>1. m \notin pending /\ SameRow(node, node', m) /\ node[m].level = Lower
    BY <1>1, <1>6, <1>9 DEF SameRow
  <2>2. ASSUME NEW c \in {node[m].low, node[m].high}
        PROVE  LowOf(c, upper)' = LowOf(c, upper) /\ HighOf(c, upper)' = HighOf(c, upper)
    <3>1. CASE c \in Terminal
      <4>1. node[c].level # upper
        BY <3>1, <1>1, Halfway, NodeFacts
      <4>2. node'[c].level # upper
        <5>1. (\A t \in Terminal : node[t].level = varnum)'
          BY TerminalLevels, PTL
        <5> QED
          BY <5>1, <3>1, <1>1, Halfway, NodeFacts
      <4> QED
        BY <4>1, <4>2, <1>1 DEF LowOf, HighOf
    <3>2. CASE c \notin Terminal
      <4>1. c \in Children(m) /\ c \in Taken
        BY <3>2, NodeFacts DEF Children
      <4>2. c \notin pending
        <5>1. c \in pending => Depth(m) < Var2Level(upper)
          BY <4>1 DEF HalfExchanged
        <5>2. Depth(m) = Var2Level(Lower)
          BY <2>1, <1>1, Halfway
        <5> QED
          BY <5>1, <5>2, <1>6
      <4>3. SameRow(node, node', c)
        BY <4>1, <4>2, <1>1
      <4> QED
        BY <4>3, <1>1 DEF SameRow, LowOf, HighOf
    <3> QED
      BY <3>1, <3>2
  <2>3. PICK a, b : a = node[m].low /\ b = node[m].high
    OBVIOUS
  <2>4. node'[m].low = a /\ node'[m].high = b
    BY <2>1, <2>3 DEF SameRow
  <2>5. Rewritten(m)' = [f00 |-> LowOf(a, upper)',  f01 |-> LowOf(b, upper)',
                         f10 |-> HighOf(a, upper)', f11 |-> HighOf(b, upper)']
    BY <2>4 DEF Rewritten, LowOf, HighOf
  <2>6. Rewritten(m) = [f00 |-> LowOf(a, upper),  f01 |-> LowOf(b, upper),
                        f10 |-> HighOf(a, upper), f11 |-> HighOf(b, upper)]
    BY <2>3 DEF Rewritten
  <2> QED
    BY <2>1, <2>2, <2>3, <2>5, <2>6
<1>10. ASSUME NEW m \in Taken' \ pending', NEW x \in pending', node'[m].level = Lower
       PROVE  Rewritten(m)' # Cofactors(x)'
  <2>1. x \in pending /\ x # n
    BY <1>1, <1>10
  <2>2. CASE m = n
    BY <2>1, <2>2, <1>7, <1>8
  <2>3. CASE m \in Taken /\ m # n
    <3>1. Rewritten(m) # Cofactors(x)
      BY <2>1, <2>3, <1>9, <1>10 DEF Apart
    <3> QED
      BY <3>1, <2>1, <2>3, <1>8, <1>9, <1>10
  <2>4. CASE m \notin Taken
    BY <2>4, <1>1, <1>6, <1>10 DEF Made
  <2> QED
    BY <2>2, <2>3, <2>4
<1> QED
  BY <1>6, <1>10 DEF Apart

-----------------------------------------------------------------------------
(* The table stays canonical.                                              *)

(* What keeps the rows unique, as long as no interaction has been missed   *)
(* and no slot was wanting.                                                *)
CanonInv ==
  errorcond \/ lost \/ /\ Unique
                       /\ phase = "swap" => Apart

(* The first nodes are the two of each variable.                           *)
LEMMA InitUnique == Init => CanonInv
<1> SUFFICES ASSUME Init PROVE CanonInv
  OBVIOUS
<1>1. Inv /\ phase = "idle" /\ InitSize \in Nat
  BY InitInv, ReorderSizes DEF Init
<1>2. \A n \in 0..(InitSize - 1) :
        node[n] = CASE n \in Terminal -> [refcou |-> MaxRef, level |-> FirstVars, low |-> n, high |-> n]
                    [] n \in 2..(2 * FirstVars + 1) ->
                         [refcou |-> MaxRef, level |-> (n - 2) \div 2, low |-> n % 2, high |-> 1 - (n % 2)]
                    [] OTHER -> FreeNode
  BY DEF Init
<1>3. ASSUME NEW n \in Taken
      PROVE  /\ n \in 2..(2 * FirstVars + 1)
             /\ VarOf(n) = (n - 2) \div 2 /\ node[n].low = n % 2 /\ node[n].high = 1 - (n % 2)
  <2>1. n \in 0..(InitSize - 1) /\ n \notin Terminal /\ node[n].low # -1
    <3>1. n \in 0..(size - 1) /\ size = InitSize
      BY <1>1, TakenInTable DEF Init
    <3> QED
      BY <3>1, <1>1, TakenApart, LowChild
  <2>2. n \in 2..(2 * FirstVars + 1)
    <3>1. n \notin 2..(2 * FirstVars + 1) => node[n] = FreeNode
      BY <2>1, <1>2
    <3>2. FreeNode.low = -1
      BY DEF FreeNode
    <3> QED
      BY <2>1, <3>1, <3>2
  <2>3. node[n] = [refcou |-> MaxRef, level |-> (n - 2) \div 2, low |-> n % 2, high |-> 1 - (n % 2)]
    BY <2>1, <2>2, <1>2
  <2>4. level2var[(n - 2) \div 2] = (n - 2) \div 2
    <3>1. (n - 2) \div 2 \in 0..FirstVars
      BY <2>2, ReorderVars
    <3> QED
      BY <3>1 DEF Init
  <2> QED
    BY <2>2, <2>3, <2>4, <1>1 DEF VarOf
<1>4. \A m, n \in Taken : SameNode(m, n) => m = n
  <2> SUFFICES ASSUME NEW m \in Taken, NEW n \in Taken, SameNode(m, n) PROVE m = n
    OBVIOUS
  <2>1. (m - 2) \div 2 = (n - 2) \div 2 /\ m % 2 = n % 2
    BY <1>3 DEF SameNode
  <2>2. m \in Nat /\ n \in Nat /\ m >= 2 /\ n >= 2
    BY <1>3, ReorderVars
  <2> QED
    BY <2>1, <2>2
<1>5. \A n \in Taken : node[n].low # node[n].high
  <2> SUFFICES ASSUME NEW n \in Taken PROVE node[n].low # node[n].high
    OBVIOUS
  <2>1. n \in Nat
    BY <1>3, ReorderVars
  <2> QED
    BY <2>1, <1>3
<1> QED
  BY <1>1, <1>4, <1>5 DEF CanonInv, Unique

(* Every step keeps the rows unique.                                       *)
LEMMA CanonStep ==
  ASSUME Inv, Inv', NEW Top \in Nat, GrowsUpTo(Top), size <= Top, size' <= Top,
         Waiting, OrderInv, CanonInv, [Next]_vars
  PROVE  CanonInv'
<1> SUFFICES ASSUME ~ lost', ~ errorcond' PROVE CanonInv'
  BY Zenon DEF CanonInv
<1>1. ~ lost
  BY LostStep
<1>2. ~ errorcond
  BY ErrorStep
<1>3. /\ Ordered
      /\ phase = "swap" => HalfExchanged
      /\ Unique
      /\ phase = "swap" => Apart
  BY <1>1, <1>2 DEF OrderInv, CanonInv
<1>4. CASE UNCHANGED vars
  <2>1. UNCHANGED <<size, node, free, level2var, varnum, phase, pending, upper>>
    BY <1>4 DEF vars
  <2>2. /\ Taken' = Taken /\ Lower' = Lower
        /\ \A n : Rewritten(n)' = Rewritten(n) /\ Cofactors(n)' = Cofactors(n)
    BY <2>1 DEF Taken, Slots, FreeSet, Lower, Var2Level, Rewritten, LowOf, HighOf, Cofactors
  <2>3. RowsLeft
    BY <1>4, SameRows
  <2>4. Unique'
    BY <2>3, <1>3, UniqueLeft
  <2>5. Apart' <=> Apart
    BY <2>1, <2>2 DEF Apart
  <2> QED
    BY <2>1, <2>4, <2>5, <1>3 DEF CanonInv
<1>5. ASSUME RowsLeft, phase' # "swap"
      PROVE  CanonInv'
  BY <1>3, <1>5, UniqueLeft DEF CanonInv
<1>6. ASSUME NEW n \in Slots, Release(n)
      PROVE  CanonInv'
  <2>1. phase' # "swap"
    BY <1>6 DEF Release, Called, Idle
  <2> QED
    BY <2>1, <1>5, <1>6, ReleaseRows
<1>7. CASE Gbc
  <2>1. phase' # "swap"
    BY <1>7 DEF Gbc, Called, Idle
  <2> QED
    BY <2>1, <1>5, <1>7, GbcRows
<1>8. CASE Start
  <2>1. phase' # "swap"
    BY <1>8 DEF Start
  <2> QED
    BY <2>1, <1>5, <1>8, StartRows
<1>9. CASE Done
  <2>1. phase' # "swap"
    BY <1>9 DEF Done
  <2> QED
    BY <2>1, <1>5, <1>9, DoneRows
<1>10. CASE LocalGbc
  <2>1. phase' # "swap"
    BY <1>10 DEF LocalGbc
  <2> QED
    BY <2>1, <1>5, <1>10, LocalGbcRows
<1>11. ASSUME NEW v \in Variable, ExchangeIndependent(v)
       PROVE  CanonInv'
  <2>1. phase' # "swap"
    BY <1>11 DEF ExchangeIndependent
  <2> QED
    BY <2>1, <1>5, <1>11, SameRows
<1>12. ASSUME NEW v \in Variable, DownSimple(v)
       PROVE  CanonInv'
  <2>1. RowsLeft
    BY <1>12, SameRows
  <2>2. Unique'
    BY <2>1, <1>3, UniqueLeft
  <2>3. Apart'
    BY <2>2, <1>3, <1>12, DownSimpleApart
  <2> QED
    BY <2>2, <2>3 DEF CanonInv
<1>13. ASSUME NEW n \in pending, SwapNode(n)
       PROVE  CanonInv'
  <2>1. phase = "swap"
    BY <1>13 DEF SwapNode
  <2>2. Unique'
    BY <2>1, <1>3, <1>13, SwapUnique
  <2>3. Apart'
    BY <2>1, <1>3, <1>13, SwapApart
  <2> QED
    BY <2>2, <2>3, Zenon DEF CanonInv
<1>14. ASSUME NEW l \in Variable, NEW lo \in Known, NEW hi \in Known, Build(l, lo, hi)
       PROVE  CanonInv'
  <2>1. phase' # "swap"
    BY <1>14 DEF Build, Called, Idle
  <2>2. Unique'
    BY <1>3, <1>14, BuildUnique
  <2> QED
    BY <2>1, <2>2 DEF CanonInv
<1>15. CASE AddVariable
  <2>1. phase' # "swap"
    BY <1>15 DEF AddVariable, Called, Idle
  <2>2. Unique'
    BY <1>3, <1>15, AddVariableUnique
  <2> QED
    BY <2>1, <2>2 DEF CanonInv
<1>16. Next => \/ \E l \in Variable, lo \in Known, hi \in Known : Build(l, lo, hi)
               \/ \E n \in Slots : Release(n)
               \/ Gbc \/ AddVariable \/ Start
               \/ \E v \in Variable : ExchangeIndependent(v) \/ DownSimple(v)
               \/ \E n \in pending : SwapNode(n)
               \/ LocalGbc \/ Done
  BY DEF Next, ProgramStep, ReorderStep
<1> QED
  BY <1>4, <1>6, <1>7, <1>8, <1>9, <1>10, <1>11, <1>12, <1>13, <1>14, <1>15, <1>16

(* Between exchanges this makes the table canonical.                       *)
LEMMA UniqueCanonical == Inv /\ CanonInv => errorcond \/ Canonical
<1> SUFFICES ASSUME Inv, CanonInv, ~ errorcond, ~ lost PROVE Canonical
  BY DEF Canonical
<1>1. Unique
  BY DEF CanonInv
<1>2. \A m, n \in Taken : node[m].level = node[n].level => VarOf(m) = VarOf(n)
  BY DEF VarOf
<1> QED
  BY <1>1, <1>2 DEF Canonical, Unique, SameNode

(* In any number of reorderings no two slots in use ever hold the same     *)
(* node, and no node has equal children, when an exchange is over: until   *)
(* the table is at its limit and reorder_makenode finds no slot            *)
(* (src/src/reorder.c).                                                    *)
THEOREM CanonicalTillError ==
  ASSUME NEW Top \in Nat, GrowsUpTo(Top)
  PROVE  Spec /\ [](size <= Top) => [](errorcond \/ Canonical)
<1> DEFINE CInv == Inv /\ Waiting /\ OrderInv /\ CanonInv
<1>1. Init => CInv
  BY InitInv, InitOrder, InitUnique DEF Init, Waiting
<1>2. CInv /\ [Next]_vars /\ size <= Top /\ (size <= Top)' => CInv'
  <2> SUFFICES ASSUME CInv, [Next]_vars, size <= Top, size' <= Top PROVE CInv'
    OBVIOUS
  <2>1. Inv'
    BY InvStep
  <2>2. Waiting'
    BY WaitingStep
  <2>3. OrderInv'
    BY <2>1, OrderStep
  <2>4. CanonInv'
    BY <2>1, CanonStep
  <2> QED
    BY <2>1, <2>2, <2>3, <2>4
<1>3. CInv => errorcond \/ Canonical
  BY UniqueCanonical
<1> QED
  BY <1>1, <1>2, <1>3, PTL DEF Spec

(* And always, when the table has no limit.                                *)
THEOREM CanonicalHolds ==
  ASSUME NEW Top \in Nat, GrowsUpTo(Top), Limit = 0
  PROVE  Spec /\ [](size <= Top) => []Canonical
<1> DEFINE EInv == Inv /\ ~ errorcond
<1>1. Init => EInv
  BY InitInv DEF Init
<1>2. EInv /\ [Next]_vars /\ size <= Top /\ (size <= Top)' => EInv'
  <2> SUFFICES ASSUME EInv, [Next]_vars, size <= Top, size' <= Top PROVE EInv'
    OBVIOUS
  <2>1. Inv'
    BY InvStep
  <2>2. ~ errorcond'
    BY ErrorStep
  <2> QED
    BY <2>1, <2>2
<1>3. Spec /\ [](size <= Top) => [](errorcond \/ Canonical)
  BY CanonicalTillError
<1> QED
  BY <1>1, <1>2, <1>3, PTL DEF Spec

=============================================================================
