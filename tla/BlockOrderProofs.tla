------------------------- MODULE BlockOrderProofs --------------------------
(***************************************************************************)
(* Proofs about the searches for a variable order and the blocks they move.*)
(*                                                                         *)
(* The first half is what the operators of BlockTree and BlockOrder do,    *)
(* for every tree and every order.  The calls that build the tree of       *)
(* variable blocks leave its shape: ranges nest, a block is in one list,   *)
(* below the smallest block around it.  An exchange of neighbouring blocks *)
(* moves the variables of the two past each other and no others.  The      *)
(* second half is the invariant of the searches and its theorems.          *)
(***************************************************************************)
EXTENDS BlockOrder, Induction, TLAPS, FiniteSetTheorems, FunctionTheorems, SequenceTheorems

-----------------------------------------------------------------------------
(* The shape of a tree.                                                    *)

(* Block c is inside block b.                                              *)
Strictly(t, c, b) ==
  /\ t.block[b].first <= t.block[c].first /\ t.block[c].last <= t.block[b].last
  /\ ~ SameRange(t.block[c], t.block[b].first, t.block[b].last)

Apart(t, b, c) == t.block[b].last < t.block[c].first \/ t.block[c].last < t.block[b].first

Kid(t, p, c) == \E i \in DOMAIN t.kids[p] : t.kids[p][i] = c

(* The record of a block of variables below size.                          *)
IsBlock(r, size) ==
  /\ r = [first |-> r.first, last |-> r.last, fixed |-> r.fixed, seq |-> r.seq]
  /\ r.first \in Int /\ r.last \in Int /\ 0 <= r.first /\ r.first <= r.last /\ r.last < size

(* The identifiers in use are below n.                                     *)
Blocks(t, n, size) ==
  /\ n \in Nat /\ size \in Nat
  /\ t = [block |-> t.block, kids |-> t.kids]
  /\ t.block = [b \in Ids(t) |-> t.block[b]]
  /\ Ids(t) \subseteq 0..(n - 1)
  /\ t.kids \in [Ids(t) \cup {Top} -> Seq(Ids(t))]
  /\ \A b \in Ids(t) : IsBlock(t.block[b], size)

Nested(t) == \A b, c \in Ids(t) : b # c => Apart(t, b, c) \/ Strictly(t, b, c) \/ Strictly(t, c, b)

Listed(t) ==
  /\ \A b \in Ids(t) : \E p \in Ids(t) \cup {Top} : Kid(t, p, b)
  /\ \A p, q \in Ids(t) \cup {Top} : \A b \in Ids(t) : Kid(t, p, b) /\ Kid(t, q, b) => p = q
  /\ \A p \in Ids(t) \cup {Top} : \A i, j \in DOMAIN t.kids[p] : t.kids[p][i] = t.kids[p][j] => i = j

(* What is around a block is the block whose list it is in, or around it.  *)
IsParent(t, p, c) ==
  /\ p # Top => Strictly(t, c, p)
  /\ \A b \in Ids(t) : Strictly(t, c, b) => p # Top /\ (b = p \/ Strictly(t, p, b))

Parents(t) == \A p \in Ids(t) \cup {Top} : \A c \in Ids(t) : Kid(t, p, c) => IsParent(t, p, c)

Shape(t, n, size) == Blocks(t, n, size) /\ Nested(t) /\ Listed(t) /\ Parents(t)

(* The blocks of a list have numbers, and Top is none.                     *)
LEMMA BlocksFacts ==
  ASSUME NEW t, NEW n, NEW size, Blocks(t, n, size)
  PROVE  /\ DOMAIN t.kids = Ids(t) \cup {Top} /\ Top \notin Ids(t)
         /\ \A b \in Ids(t) : /\ b \in Int /\ 0 <= b /\ b < n
                              /\ t.block[b].first \in Int /\ t.block[b].last \in Int
                              /\ 0 <= t.block[b].first /\ t.block[b].first <= t.block[b].last
                              /\ t.block[b].last < size
         /\ \A p \in Ids(t) \cup {Top} : /\ t.kids[p] \in Seq(Ids(t))
                                         /\ Len(t.kids[p]) \in Nat
                                         /\ DOMAIN t.kids[p] = 1..Len(t.kids[p])
                                         /\ \A i \in 1..Len(t.kids[p]) : t.kids[p][i] \in Ids(t)
                                         /\ \A c : Kid(t, p, c) => c \in Ids(t)
<1>1. t.kids \in [Ids(t) \cup {Top} -> Seq(Ids(t))]
  BY DEF Blocks
<1>2. \A b \in Ids(t) : b \in 0..(n - 1) /\ n \in Nat /\ IsBlock(t.block[b], size)
  BY DEF Blocks
<1>3. \A b \in Ids(t) : b \in Int /\ 0 <= b /\ b < n
  BY <1>2
<1>4. Top \notin Ids(t)
  BY <1>3 DEF Top
<1>5. ASSUME NEW p \in Ids(t) \cup {Top}
      PROVE  /\ t.kids[p] \in Seq(Ids(t))
             /\ Len(t.kids[p]) \in Nat
             /\ DOMAIN t.kids[p] = 1..Len(t.kids[p])
             /\ \A i \in 1..Len(t.kids[p]) : t.kids[p][i] \in Ids(t)
             /\ \A c : Kid(t, p, c) => c \in Ids(t)
  <2>1. t.kids[p] \in Seq(Ids(t))
    BY <1>1
  <2>2. /\ Len(t.kids[p]) \in Nat
        /\ DOMAIN t.kids[p] = 1..Len(t.kids[p])
        /\ \A i \in 1..Len(t.kids[p]) : t.kids[p][i] \in Ids(t)
    BY <2>1, LenProperties
  <2> QED
    BY <2>1, <2>2 DEF Kid
<1>6. \A b \in Ids(t) : /\ t.block[b].first \in Int /\ t.block[b].last \in Int
                        /\ 0 <= t.block[b].first /\ t.block[b].first <= t.block[b].last
                        /\ t.block[b].last < size
  BY <1>2 DEF IsBlock
<1>7. DOMAIN t.kids = Ids(t) \cup {Top}
  BY <1>1
<1> QED
  BY <1>3, <1>4, <1>5, <1>6, <1>7

(* Being inside is transitive, and what is inside is smaller.              *)
LEMMA StrictlyFacts ==
  ASSUME NEW t, NEW n, NEW size, Blocks(t, n, size),
         NEW a \in Ids(t), NEW b \in Ids(t), Strictly(t, a, b)
  PROVE  /\ t.block[a].last - t.block[a].first < t.block[b].last - t.block[b].first
         /\ ~ Strictly(t, b, a) /\ ~ Apart(t, a, b) /\ ~ Apart(t, b, a) /\ a # b
         /\ \A c \in Ids(t) : Strictly(t, b, c) => Strictly(t, a, c)
         /\ \A c \in Ids(t) : Apart(t, b, c) => Apart(t, a, c)
         /\ \A c \in Ids(t) : Apart(t, c, b) => Apart(t, c, a)
<1>1. \A c \in Ids(t) : /\ t.block[c].first \in Int /\ t.block[c].last \in Int
                        /\ t.block[c].first <= t.block[c].last
  BY BlocksFacts
<1>2. /\ t.block[b].first <= t.block[a].first /\ t.block[a].last <= t.block[b].last
      /\ ~ (t.block[a].first = t.block[b].first /\ t.block[a].last = t.block[b].last)
  BY DEF Strictly, SameRange
<1>3. /\ t.block[a].first \in Int /\ t.block[a].last \in Int /\ t.block[a].first <= t.block[a].last
      /\ t.block[b].first \in Int /\ t.block[b].last \in Int /\ t.block[b].first <= t.block[b].last
  BY <1>1
<1>4. t.block[a].last - t.block[a].first < t.block[b].last - t.block[b].first
  BY <1>2, <1>3
<1>5. ~ Strictly(t, b, a) /\ ~ Apart(t, a, b) /\ ~ Apart(t, b, a) /\ a # b
  BY <1>2, <1>3 DEF Strictly, Apart, SameRange
<1>6. \A c \in Ids(t) : Strictly(t, b, c) => Strictly(t, a, c)
  BY <1>1, <1>2, <1>3 DEF Strictly, SameRange
<1>7. \A c \in Ids(t) : /\ Apart(t, b, c) => Apart(t, a, c)
                        /\ Apart(t, c, b) => Apart(t, c, a)
  BY <1>1, <1>2, <1>3 DEF Apart
<1> QED
  BY <1>4, <1>5, <1>6, <1>7

-----------------------------------------------------------------------------
(* Blocks that change places in their list.                                *)

Swap(L, i) == [L EXCEPT ![i] = L[i + 1], ![i + 1] = L[i]]

(* What an exchange in a list gives, and that the next takes it back.      *)
LEMMA SwapFacts ==
  ASSUME NEW S, NEW L \in Seq(S), NEW i \in Int, i \in 1..Len(L), i + 1 \in 1..Len(L)
  PROVE  /\ Swap(L, i) \in Seq(S) /\ Len(Swap(L, i)) = Len(L)
         /\ Swap(L, i)[i] = L[i + 1] /\ Swap(L, i)[i + 1] = L[i]
         /\ \A j \in 1..Len(L) : j # i /\ j # i + 1 => Swap(L, i)[j] = L[j]
         /\ Swap(Swap(L, i), i) = L
         /\ ToSet(Swap(L, i)) = ToSet(L)
<1>1. Len(L) \in Nat /\ L \in [1..Len(L) -> S] /\ DOMAIN L = 1..Len(L)
  BY LenProperties
<1> DEFINE k == Len(L)
           M == Swap(L, i)
<1>2. M \in [1..k -> S]
  BY <1>1 DEF Swap
<1>3. M \in Seq(S)
  BY <1>1, <1>2
<1>4. DOMAIN M = 1..k
  BY <1>2
<1>5. Len(M) = k
  BY <1>1, <1>3, <1>4, LenProperties
<1>6. \A j \in 1..k : M[j] = IF j = i THEN L[i + 1] ELSE IF j = i + 1 THEN L[i] ELSE L[j]
  BY <1>1 DEF Swap
<1> HIDE DEF M
<1>7. Swap(M, i) = L
  <2>1. \A j \in 1..k : Swap(M, i)[j] = IF j = i THEN M[i + 1] ELSE IF j = i + 1 THEN M[i] ELSE M[j]
    BY <1>4 DEF Swap
  <2>2. \A j \in 1..k : Swap(M, i)[j] = L[j]
    BY <2>1, <1>6
  <2>3. Swap(M, i) \in [1..k -> S]
    BY <1>2 DEF Swap
  <2> QED
    BY <1>1, <2>2, <2>3
<1>8. ToSet(M) = ToSet(L)
  <2>1. \A x : x \in ToSet(M) <=> \E j \in 1..k : M[j] = x
    BY <1>4 DEF ToSet
  <2>2. \A x : x \in ToSet(L) <=> \E j \in 1..k : L[j] = x
    BY <1>1 DEF ToSet
  <2>3. ASSUME NEW j \in 1..k PROVE (\E h \in 1..k : L[h] = M[j]) /\ (\E h \in 1..k : M[h] = L[j])
    BY <1>6
  <2> QED
    BY <2>1, <2>2, <2>3
<1> QED
  BY <1>3, <1>5, <1>6, <1>7, <1>8 DEF M

WithKids(t, p, L) == [t EXCEPT !.kids[p] = L]

(* Another list of the same blocks below one block.                        *)
LEMMA RelistedShape ==
  ASSUME NEW t, NEW n, NEW size, Shape(t, n, size), NEW p \in Ids(t) \cup {Top},
         NEW L \in Seq(Ids(t)), ToSet(L) = ToSet(t.kids[p]),
         \A i, j \in DOMAIN L : L[i] = L[j] => i = j
  PROVE  /\ Shape(WithKids(t, p, L), n, size)
         /\ WithKids(t, p, L).block = t.block
         /\ WithKids(t, p, L).kids[p] = L
         /\ \A q \in Ids(t) \cup {Top} : q # p => WithKids(t, p, L).kids[q] = t.kids[q]
<1> DEFINE u == WithKids(t, p, L)
<1>1. Blocks(t, n, size)
  BY DEF Shape
<1>2. t = [block |-> t.block, kids |-> t.kids] /\ t.kids \in [Ids(t) \cup {Top} -> Seq(Ids(t))]
  BY <1>1 DEF Blocks
<1>3. u = [block |-> t.block, kids |-> [t.kids EXCEPT ![p] = L]]
  BY <1>2 DEF WithKids
<1>4. u.block = t.block /\ u.kids = [t.kids EXCEPT ![p] = L]
  BY <1>3
<1>5. u.kids \in [Ids(t) \cup {Top} -> Seq(Ids(t))]
  BY <1>2, <1>4
<1>6. u.kids[p] = L /\ \A q \in Ids(t) \cup {Top} : q # p => u.kids[q] = t.kids[q]
  BY <1>2, <1>4
<1> HIDE DEF u
<1>7. Ids(u) = Ids(t)
  BY <1>4 DEF Ids
<1>8. Blocks(u, n, size)
  BY <1>1, <1>3, <1>4, <1>5, <1>7 DEF Blocks
<1>9. \A q \in Ids(t) \cup {Top} : \A c : Kid(u, q, c) <=> Kid(t, q, c)
  <2>1. \A c : Kid(u, p, c) <=> c \in ToSet(L)
    BY <1>6 DEF Kid, ToSet
  <2>2. \A c : Kid(t, p, c) <=> c \in ToSet(t.kids[p])
    BY DEF Kid, ToSet
  <2>3. \A q \in Ids(t) \cup {Top} : q # p => \A c : Kid(u, q, c) <=> Kid(t, q, c)
    BY <1>6 DEF Kid
  <2> QED
    BY <2>1, <2>2, <2>3
<1>10. \A b, c \in Ids(t) : /\ Strictly(u, b, c) <=> Strictly(t, b, c)
                            /\ Apart(u, b, c) <=> Apart(t, b, c)
  BY <1>4 DEF Strictly, Apart
<1>11. Nested(u)
  BY <1>7, <1>10 DEF Shape, Nested
<1>12. Listed(u)
  <2>1. \A q \in Ids(t) \cup {Top} : \A i, j \in DOMAIN u.kids[q] : u.kids[q][i] = u.kids[q][j] => i = j
    <3>1. \A q \in Ids(t) \cup {Top} : \A i, j \in DOMAIN t.kids[q] : t.kids[q][i] = t.kids[q][j] => i = j
      BY DEF Shape, Listed
    <3> QED
      BY <3>1, <1>6
  <2>2. \A b \in Ids(t) : \E q \in Ids(t) \cup {Top} : Kid(u, q, b)
    BY <1>9 DEF Shape, Listed
  <2>3. \A q, r \in Ids(t) \cup {Top} : \A b \in Ids(t) : Kid(u, q, b) /\ Kid(u, r, b) => q = r
    BY <1>9 DEF Shape, Listed
  <2> QED
    BY <1>7, <2>1, <2>2, <2>3 DEF Listed
<1>13. Parents(u)
  <2>1. ASSUME NEW q \in Ids(t) \cup {Top}, NEW c \in Ids(t), Kid(u, q, c)
        PROVE  IsParent(u, q, c)
    <3>1. IsParent(t, q, c)
      BY <1>9, <2>1 DEF Shape, Parents
    <3>2. q # Top => q \in Ids(t)
      OBVIOUS
    <3> QED
      BY <1>7, <1>10, <3>1, <3>2 DEF IsParent
  <2> QED
    BY <1>7, <2>1 DEF Parents
<1> QED
  BY <1>4, <1>6, <1>8, <1>11, <1>12, <1>13 DEF Shape, u

(* A block whose variables are sorted anew.                                *)
Resorted(t, a, seq) == [t EXCEPT !.block[a].seq = seq]

(* Sorting a block changes nothing else of the tree.                       *)
LEMMA ResortedShape ==
  ASSUME NEW t, NEW n, NEW size, Shape(t, n, size), NEW a \in Ids(t), NEW seq,
         NEW u, u = Resorted(t, a, seq)
  PROVE  /\ Shape(u, n, size) /\ Ids(u) = Ids(t) /\ u.kids = t.kids
         /\ u.block[a].seq = seq
         /\ \A b \in Ids(t) : /\ u.block[b].first = t.block[b].first
                              /\ u.block[b].last = t.block[b].last
                              /\ u.block[b].fixed = t.block[b].fixed
                              /\ b # a => u.block[b].seq = t.block[b].seq
<1> DEFINE r == [t.block[a] EXCEPT !.seq = seq]
<1>1. Blocks(t, n, size)
  BY DEF Shape
<1>2. /\ t = [block |-> t.block, kids |-> t.kids] /\ t.block = [b \in Ids(t) |-> t.block[b]]
      /\ t.kids \in [Ids(t) \cup {Top} -> Seq(Ids(t))]
  BY <1>1 DEF Blocks
<1>3. IsBlock(t.block[a], size)
  BY <1>1 DEF Blocks
<1>4. r = [first |-> t.block[a].first, last |-> t.block[a].last, fixed |-> t.block[a].fixed, seq |-> seq]
  <2>1. t.block[a] = [first |-> t.block[a].first, last |-> t.block[a].last,
                      fixed |-> t.block[a].fixed, seq |-> t.block[a].seq]
    BY <1>3 DEF IsBlock
  <2> QED
    BY <2>1
<1>5. u = [block |-> [t.block EXCEPT ![a] = r], kids |-> t.kids]
  <2> DEFINE B == [t.block EXCEPT ![a] = r]
  <2>1. u = [t EXCEPT !.block = B]
    BY DEF Resorted
  <2> HIDE DEF B
  <2>2. u = [block |-> B, kids |-> t.kids]
    BY <1>2, <2>1
  <2> QED
    BY <2>2 DEF B
<1>6. u.block = [t.block EXCEPT ![a] = r] /\ u.kids = t.kids
  BY <1>5
<1>7. Ids(u) = Ids(t) /\ u.block[a] = r /\ \A b \in Ids(t) : b # a => u.block[b] = t.block[b]
  BY <1>2, <1>6 DEF Ids
<1>8. /\ u.block[a].seq = seq
      /\ \A b \in Ids(t) : /\ u.block[b].first = t.block[b].first
                           /\ u.block[b].last = t.block[b].last
                           /\ u.block[b].fixed = t.block[b].fixed
                           /\ b # a => u.block[b].seq = t.block[b].seq
  <2> HIDE DEF r
  <2>1. r.first = t.block[a].first /\ r.last = t.block[a].last /\ r.fixed = t.block[a].fixed /\ r.seq = seq
    BY <1>4
  <2> QED
    BY <1>7, <2>1
<1>9. Blocks(u, n, size)
  <2>1. IsBlock(u.block[a], size)
    <3> HIDE DEF r
    <3> QED
      BY <1>3, <1>4, <1>7 DEF IsBlock
  <2>2. \A b \in Ids(t) : IsBlock(u.block[b], size)
    BY <1>1, <1>7, <2>1 DEF Blocks
  <2>3. u.block = [b \in Ids(u) |-> u.block[b]]
    BY <1>2, <1>6, <1>7
  <2>4. u = [block |-> u.block, kids |-> u.kids]
    BY <1>5, <1>6
  <2> QED
    BY <1>1, <1>6, <1>7, <2>2, <2>3, <2>4 DEF Blocks
<1>10. \A b, c \in Ids(t) : /\ Strictly(u, b, c) <=> Strictly(t, b, c)
                            /\ Apart(u, b, c) <=> Apart(t, b, c)
  BY <1>8 DEF Strictly, Apart, SameRange
<1>11. \A q, c : Kid(u, q, c) <=> Kid(t, q, c)
  BY <1>6 DEF Kid
<1>12. Nested(u)
  BY <1>7, <1>10 DEF Shape, Nested
<1>13. Listed(u)
  BY <1>6, <1>7, <1>11 DEF Shape, Listed
<1>14. Parents(u)
  <2>1. ASSUME NEW q \in Ids(t) \cup {Top}, NEW c \in Ids(t), Kid(u, q, c)
        PROVE  IsParent(u, q, c)
    <3>1. IsParent(t, q, c)
      BY <1>11, <2>1 DEF Shape, Parents
    <3>2. q # Top => q \in Ids(t)
      OBVIOUS
    <3> QED
      BY <1>7, <1>10, <3>1, <3>2 DEF IsParent
  <2> QED
    BY <1>7, <2>1 DEF Parents
<1> QED
  BY <1>6, <1>7, <1>8, <1>9, <1>12, <1>13, <1>14 DEF Shape

-----------------------------------------------------------------------------
(* How the blocks of different lists lie.                                  *)

(* Two blocks of a list share no variable.                                 *)
LEMMA SiblingsApart ==
  ASSUME NEW t, NEW n, NEW size, Shape(t, n, size), NEW p \in Ids(t) \cup {Top},
         NEW x \in Ids(t), NEW y \in Ids(t), Kid(t, p, x), Kid(t, p, y), x # y
  PROVE  Apart(t, x, y)
<1>1. Blocks(t, n, size)
  BY DEF Shape
<1>2. IsParent(t, p, x) /\ IsParent(t, p, y)
  BY DEF Shape, Parents
<1>3. Apart(t, x, y) \/ Strictly(t, x, y) \/ Strictly(t, y, x)
  BY DEF Shape, Nested
<1>4. ~ Strictly(t, x, y)
  <2> SUFFICES ASSUME Strictly(t, x, y) PROVE FALSE
    OBVIOUS
  <2>1. p # Top /\ (y = p \/ Strictly(t, p, y)) /\ Strictly(t, y, p)
    BY <1>2 DEF IsParent
  <2>2. p \in Ids(t)
    BY <2>1
  <2> QED
    BY <1>1, <2>1, <2>2, StrictlyFacts
<1>5. ~ Strictly(t, y, x)
  <2> SUFFICES ASSUME Strictly(t, y, x) PROVE FALSE
    OBVIOUS
  <2>1. p # Top /\ (x = p \/ Strictly(t, p, x)) /\ Strictly(t, x, p)
    BY <1>2 DEF IsParent
  <2>2. p \in Ids(t)
    BY <2>1
  <2> QED
    BY <1>1, <2>1, <2>2, StrictlyFacts
<1> QED
  BY <1>3, <1>4, <1>5

(* What is around one of two blocks of a list is around both.              *)
LEMMA AroundBoth ==
  ASSUME NEW t, NEW n, NEW size, Shape(t, n, size), NEW p \in Ids(t) \cup {Top},
         NEW x \in Ids(t), NEW y \in Ids(t), Kid(t, p, x), Kid(t, p, y),
         NEW c \in Ids(t), Strictly(t, x, c)
  PROVE  Strictly(t, y, c)
<1>1. Blocks(t, n, size)
  BY DEF Shape
<1>2. IsParent(t, p, x) /\ IsParent(t, p, y)
  BY DEF Shape, Parents
<1>3. p # Top /\ (c = p \/ Strictly(t, p, c)) /\ Strictly(t, y, p)
  BY <1>2 DEF IsParent
<1>4. p \in Ids(t)
  BY <1>3
<1> QED
  BY <1>1, <1>3, <1>4, StrictlyFacts

(* Another list is inside one of two blocks x and y of a list, or each of  *)
(* its blocks is around both or apart from both.                           *)
LEMMA OtherList ==
  ASSUME NEW t, NEW n, NEW size, Shape(t, n, size), NEW p \in Ids(t) \cup {Top},
         NEW x \in Ids(t), NEW y \in Ids(t), Kid(t, p, x), Kid(t, p, y),
         NEW q \in Ids(t) \cup {Top}, q # p
  PROVE  \/ \A c \in Ids(t) : Kid(t, q, c) => Strictly(t, c, x)
         \/ \A c \in Ids(t) : Kid(t, q, c) => Strictly(t, c, y)
         \/ \A c \in Ids(t) : Kid(t, q, c) =>
              \/ Apart(t, c, x) /\ Apart(t, c, y)
              \/ Strictly(t, x, c) /\ Strictly(t, y, c)
<1>1. Blocks(t, n, size)
  BY DEF Shape
<1>2. ASSUME NEW z \in Ids(t), q = z \/ (q # Top /\ Strictly(t, q, z)),
             NEW c \in Ids(t), Kid(t, q, c)
      PROVE  Strictly(t, c, z)
  <2>1. q # Top
    BY <1>1, <1>2, BlocksFacts
  <2>2. q \in Ids(t)
    BY <2>1
  <2>3. Strictly(t, c, q)
    BY <1>2, <2>1, <2>2 DEF Shape, Parents, IsParent
  <2> QED
    BY <1>1, <1>2, <2>2, <2>3, StrictlyFacts
<1>3. CASE q = x \/ (q # Top /\ Strictly(t, q, x))
  BY <1>2, <1>3
<1>4. CASE q = y \/ (q # Top /\ Strictly(t, q, y))
  BY <1>2, <1>4
<1>5. CASE /\ ~ (q = x \/ (q # Top /\ Strictly(t, q, x)))
           /\ ~ (q = y \/ (q # Top /\ Strictly(t, q, y)))
  <2>1. ASSUME NEW c \in Ids(t), Kid(t, q, c)
        PROVE  \/ Apart(t, c, x) /\ Apart(t, c, y)
               \/ Strictly(t, x, c) /\ Strictly(t, y, c)
    <3>1. c # x /\ c # y
      BY <2>1 DEF Shape, Listed
    <3>2. IsParent(t, q, c)
      BY <2>1 DEF Shape, Parents
    <3>3. ~ Strictly(t, c, x) /\ ~ Strictly(t, c, y)
      BY <1>5, <3>2 DEF IsParent
    <3>4. /\ Apart(t, c, x) \/ Strictly(t, x, c)
          /\ Apart(t, c, y) \/ Strictly(t, y, c)
      BY <3>1, <3>3 DEF Shape, Nested
    <3>5. Strictly(t, x, c) <=> Strictly(t, y, c)
      BY AroundBoth
    <3> QED
      BY <3>4, <3>5
  <2> QED
    BY <2>1
<1> QED
  BY <1>3, <1>4, <1>5

-----------------------------------------------------------------------------
(* What a tree keeps when one of its lists is cut.                         *)

(* The blocks reached from each block, for lists kids over D.              *)
IsBelow(f, kids, D) == f = [b \in D |-> {b} \cup UNION {f[c] : c \in ToSet(kids[b])}]

(* There is such a function.                                               *)
LEMMA BelowExists ==
  ASSUME NEW D, NEW kids, \A b \in D : ToSet(kids[b]) \subseteq D
  PROVE  \E f : IsBelow(f, kids, D)
<1> DEFINE Body(r) == [b \in D |-> {b} \cup UNION {r[c] : c \in ToSet(kids[b])}]
           F == [r \in [D -> SUBSET D] |-> Body(r)]
<1>1. ASSUME NEW r \in [D -> SUBSET D]
      PROVE  Body(r) \in [D -> SUBSET D]
  <2>1. ASSUME NEW b \in D PROVE {b} \cup UNION {r[c] : c \in ToSet(kids[b])} \in SUBSET D
    OBVIOUS
  <2> QED
    BY <2>1
<1>2. F \in [[D -> SUBSET D] -> [D -> SUBSET D]]
  BY <1>1
<1>3. ASSUME NEW f \in [D -> SUBSET D], NEW g \in [D -> SUBSET D],
             \A x \in D : f[x] \subseteq g[x], NEW x \in D
      PROVE  F[f][x] \subseteq F[g][x]
  <2>1. F[f] = Body(f) /\ F[g] = Body(g)
    OBVIOUS
  <2>2. Body(f)[x] = {x} \cup UNION {f[c] : c \in ToSet(kids[x])}
    OBVIOUS
  <2>3. Body(g)[x] = {x} \cup UNION {g[c] : c \in ToSet(kids[x])}
    OBVIOUS
  <2>4. \A c \in ToSet(kids[x]) : f[c] \subseteq g[c]
    BY <1>3
  <2>5. UNION {f[c] : c \in ToSet(kids[x])} \subseteq UNION {g[c] : c \in ToSet(kids[x])}
    BY <2>4
  <2> HIDE DEF F, Body
  <2> QED
    BY <2>1, <2>2, <2>3, <2>5
<1>4. Monotone(F, D, D)
  BY <1>2, <1>3 DEF Monotone
<1>5. PICK r \in [D -> SUBSET D] : r = F[r]
  <2> HIDE DEF F
  <2> QED
    BY <1>4, FixedPoint DEF HasFixedPoint
<1>6. r = Body(r)
  BY <1>5
<1> QED
  BY <1>6 DEF IsBelow

(* The blocks of a list rank below the block it is below.                  *)
Graded(kids, D, rank) ==
  /\ rank \in [D -> Nat]
  /\ \A b \in D : ToSet(kids[b]) \subseteq D /\ \A c \in ToSet(kids[b]) : rank[c] < rank[b]

(* Then what is reached from a block is closed, and reached through the    *)
(* lists.                                                                  *)
LEMMA BelowFacts ==
  ASSUME NEW D, NEW kids, NEW f, IsBelow(f, kids, D), NEW rank, Graded(kids, D, rank)
  PROVE  \A b \in D : /\ b \in f[b] /\ f[b] \subseteq D
                      /\ \A q \in f[b] : ToSet(kids[q]) \subseteq f[b]
                      /\ \A c \in f[b] : c # b => \E q \in f[b] : c \in ToSet(kids[q])
<1>1. \A b \in D : f[b] = {b} \cup UNION {f[c] : c \in ToSet(kids[b])}
  BY DEF IsBelow
<1> DEFINE Good(b) == /\ f[b] \subseteq D
                      /\ \A q \in f[b] : ToSet(kids[q]) \subseteq f[b]
                      /\ \A c \in f[b] : c # b => \E q \in f[b] : c \in ToSet(kids[q])
           Bad == {b \in D : ~ Good(b)}
<1>0. rank \in [D -> Nat]
      /\ \A b \in D : ToSet(kids[b]) \subseteq D /\ \A c \in ToSet(kids[b]) : rank[c] < rank[b]
  BY DEF Graded
<1>2. \A b \in D : b \in f[b]
  BY <1>1
<1>3. Bad = {}
  <2> SUFFICES ASSUME Bad # {} PROVE FALSE
    OBVIOUS
  <2>1. PICK b \in Bad : \A c \in Bad : ~ (rank[c] < rank[b])
    <3>1. Bad \in SUBSET D
      OBVIOUS
    <3> HIDE DEF Bad
    <3> QED
      BY <1>0, <3>1, LeastRank
  <2>2. b \in D /\ \A c \in ToSet(kids[b]) : c \in D /\ Good(c)
    BY <1>0, <2>1
  <2>3. \A x : x \in f[b] <=> x = b \/ \E c \in ToSet(kids[b]) : x \in f[c]
    BY <1>1, <2>2
  <2>4. f[b] \subseteq D
    BY <2>2, <2>3
  <2>5. ASSUME NEW q \in f[b], NEW x \in ToSet(kids[q]) PROVE x \in f[b]
    <3>1. CASE q = b
      BY <1>2, <2>2, <2>3, <2>5, <3>1
    <3>2. CASE q # b
      <4>1. PICK c \in ToSet(kids[b]) : q \in f[c]
        BY <2>3, <3>2
      <4>2. x \in f[c]
        BY <2>2, <2>5, <4>1
      <4> QED
        BY <2>3, <4>1, <4>2
    <3> QED
      BY <3>1, <3>2
  <2>6. ASSUME NEW x \in f[b], x # b PROVE \E q \in f[b] : x \in ToSet(kids[q])
    <3>1. PICK c \in ToSet(kids[b]) : x \in f[c]
      BY <2>3, <2>6
    <3>2. CASE x = c
      BY <1>2, <2>2, <3>1, <3>2
    <3>3. CASE x # c
      <4>1. PICK q \in f[c] : x \in ToSet(kids[q])
        BY <2>2, <3>1, <3>3
      <4> QED
        BY <2>3, <3>1, <4>1
    <3> QED
      BY <3>2, <3>3
  <2>7. Good(b)
    BY <2>4, <2>5, <2>6
  <2> QED
    BY <2>7
<1> QED
  BY <1>2, <1>3

(* A rank of the blocks: how many variables they have.                     *)
Width(t, size) ==
  [b \in Ids(t) \cup {Top} |-> IF b = Top THEN size ELSE t.block[b].last - t.block[b].first]

(* The blocks of a list have fewer than the block around it.               *)
LEMMA WidthFalls ==
  ASSUME NEW t, NEW n, NEW size, Shape(t, n, size)
  PROVE  /\ Width(t, size) \in [Ids(t) \cup {Top} -> Nat]
         /\ \A b \in Ids(t) : Width(t, size)[b] < size
         /\ \A b \in Ids(t) \cup {Top} : \A c : Kid(t, b, c) => Width(t, size)[c] < Width(t, size)[b]
<1>1. Blocks(t, n, size) /\ size \in Nat
  BY DEF Shape, Blocks
<1>2. \A b \in Ids(t) : /\ t.block[b].first \in Int /\ t.block[b].last \in Int
                        /\ 0 <= t.block[b].first /\ t.block[b].first <= t.block[b].last
                        /\ t.block[b].last < size
  BY <1>1, BlocksFacts
<1>3. \A b \in Ids(t) : b # Top /\ Width(t, size)[b] = t.block[b].last - t.block[b].first
  BY <1>1, BlocksFacts DEF Width
<1>4. Width(t, size)[Top] = size
  BY DEF Width
<1>5. \A b \in Ids(t) : Width(t, size)[b] \in Nat /\ Width(t, size)[b] < size
  BY <1>1, <1>2, <1>3
<1>6. Width(t, size) \in [Ids(t) \cup {Top} -> Nat]
  BY <1>1, <1>4, <1>5 DEF Width
<1>7. ASSUME NEW b \in Ids(t) \cup {Top}, NEW c, Kid(t, b, c)
      PROVE  Width(t, size)[c] < Width(t, size)[b]
  <2>1. c \in Ids(t)
    BY <1>1, <1>7, BlocksFacts
  <2>2. CASE b = Top
    BY <1>4, <1>5, <2>1, <2>2
  <2>3. CASE b # Top
    <3>1. b \in Ids(t) /\ Strictly(t, c, b)
      BY <1>7, <2>1, <2>3 DEF Shape, Parents, IsParent
    <3> QED
      BY <1>1, <1>3, <2>1, <3>1, StrictlyFacts
  <2> QED
    BY <2>2, <2>3
<1> QED
  BY <1>5, <1>6, <1>7

(* A list that is cut after block k: what is still reached is a tree, and  *)
(* all of it is when nothing is cut off.                                   *)
LEMMA CutShape ==
  ASSUME NEW t, NEW n, NEW size, Shape(t, n, size), NEW p \in Ids(t) \cup {Top},
         NEW k \in 0..Len(t.kids[p])
  PROVE  LET u == WithList(t, p, SubSeq(t.kids[p], 1, k)) IN
         /\ Shape(u, n, size)
         /\ Ids(u) \subseteq Ids(t) /\ \A b \in Ids(u) : u.block[b] = t.block[b]
         /\ \A q \in Ids(u) \cup {Top} :
              DOMAIN u.kids[q] \subseteq DOMAIN t.kids[q]
              /\ \A i \in DOMAIN u.kids[q] : u.kids[q][i] = t.kids[q][i]
         /\ k = Len(t.kids[p]) => u = t
<1> DEFINE L == SubSeq(t.kids[p], 1, k)
           D == Ids(t) \cup {Top}
           kids == [t.kids EXCEPT ![p] = L]
           below == CHOOSE f : f = [b \in DOMAIN kids |-> {b} \cup UNION {f[c] : c \in ToSet(kids[b])}]
           u == WithList(t, p, L)
           R == below[Top]
<1>1. Blocks(t, n, size)
  BY DEF Shape
<1>2. /\ t = [block |-> t.block, kids |-> t.kids] /\ t.block = [b \in Ids(t) |-> t.block[b]]
      /\ t.kids \in [D -> Seq(Ids(t))]
  BY <1>1 DEF Blocks
<1>3. u = [block |-> [b \in R \ {Top} |-> t.block[b]], kids |-> [b \in R |-> kids[b]]]
  BY DEF WithList
<1>4. /\ \A q \in D : /\ t.kids[q] \in Seq(Ids(t)) /\ Len(t.kids[q]) \in Nat
                      /\ DOMAIN t.kids[q] = 1..Len(t.kids[q])
                      /\ \A i \in 1..Len(t.kids[q]) : t.kids[q][i] \in Ids(t)
      /\ Top \notin Ids(t)
  BY <1>1, BlocksFacts
<1>5. /\ L \in Seq(Ids(t)) /\ Len(L) = k /\ DOMAIN L = 1..k
      /\ \A i \in 1..k : i \in 1..Len(t.kids[p]) /\ L[i] = t.kids[p][i]
      /\ k = Len(t.kids[p]) => L = t.kids[p]
  <2>1. k \in Int /\ k >= 0 /\ k <= Len(t.kids[p]) /\ Len(t.kids[p]) \in Nat
    BY <1>4
  <2>2. \A i \in 1..k : i \in 1..Len(t.kids[p]) /\ t.kids[p][i] \in Ids(t)
    BY <1>4, <2>1
  <2>3. /\ SubSeq(t.kids[p], 1, k) \in Seq(Ids(t))
        /\ Len(SubSeq(t.kids[p], 1, k)) = IF 1 <= k THEN k - 1 + 1 ELSE 0
        /\ \A i \in 1 .. k - 1 + 1 : SubSeq(t.kids[p], 1, k)[i] = t.kids[p][1 + i - 1]
    BY <2>1, <2>2, SubSeqProperties
  <2> HIDE DEF L
  <2>4. L \in Seq(Ids(t)) /\ Len(L) = k /\ \A i \in 1..k : L[i] = t.kids[p][i]
    BY <2>1, <2>3 DEF L
  <2>5. DOMAIN L = 1..k
    BY <2>4, LenProperties
  <2>6. k = Len(t.kids[p]) => L = t.kids[p]
    BY <1>4, SubSeqFull DEF L
  <2> QED
    BY <2>2, <2>4, <2>5, <2>6
<1> HIDE DEF L
<1>6. /\ DOMAIN kids = D /\ kids[p] = L /\ \A q \in D : q # p => kids[q] = t.kids[q]
  BY <1>2
<1>7. below = CHOOSE f : IsBelow(f, kids, D)
  BY <1>6 DEF IsBelow
<1> HIDE DEF kids, below
<1>8. \A q \in D : /\ kids[q] \in Seq(Ids(t)) /\ Len(kids[q]) \in Nat /\ DOMAIN kids[q] = 1..Len(kids[q])
                   /\ DOMAIN kids[q] \subseteq DOMAIN t.kids[q]
                   /\ \A i \in DOMAIN kids[q] : kids[q][i] = t.kids[q][i] /\ kids[q][i] \in Ids(t)
  BY <1>4, <1>5, <1>6
<1>9. \A q \in D : \A c : c \in ToSet(kids[q]) => c \in Ids(t) /\ Kid(t, q, c)
  BY <1>8 DEF ToSet, Kid
<1>10. IsBelow(below, kids, D)
  <2>1. \A b \in D : ToSet(kids[b]) \subseteq D
    BY <1>9
  <2>2. \E f : IsBelow(f, kids, D)
    BY <2>1, BelowExists
  <2> QED
    BY <1>7, <2>2
<1>11. \A b \in D : /\ b \in below[b] /\ below[b] \subseteq D
                    /\ \A q \in below[b] : ToSet(kids[q]) \subseteq below[b]
                    /\ \A c \in below[b] : c # b => \E q \in below[b] : c \in ToSet(kids[q])
  <2>1. \A b \in D : ToSet(kids[b]) \subseteq D
    BY <1>9
  <2>2. Width(t, size) \in [D -> Nat]
    BY WidthFalls
  <2>3. \A b \in D : \A c \in ToSet(kids[b]) : Width(t, size)[c] < Width(t, size)[b]
    BY <1>9, WidthFalls
  <2>4. Graded(kids, D, Width(t, size))
    BY <2>1, <2>2, <2>3 DEF Graded
  <2> HIDE DEF D
  <2> QED
    BY <1>10, <2>4, BelowFacts
<1>12. /\ Top \in R /\ R \subseteq D
       /\ \A q \in R : ToSet(kids[q]) \subseteq R
       /\ \A c \in R : c # Top => \E q \in R : c \in ToSet(kids[q])
  BY <1>11
<1> HIDE DEF R, u
<1> DEFINE I == R \ {Top}
<1>13. u.block = [b \in I |-> t.block[b]] /\ u.kids = [b \in R |-> kids[b]] /\ Ids(u) = I
  BY <1>3 DEF Ids
<1>14. I \subseteq Ids(t) /\ I \cup {Top} = R
  BY <1>12
<1>15. /\ \A b \in I : u.block[b] = t.block[b]
       /\ \A q \in R : u.kids[q] = kids[q]
  BY <1>13, <1>14
<1>16. u.kids \in [R -> Seq(I)]
  <2>1. ASSUME NEW q \in R PROVE kids[q] \in Seq(I)
    <3>1. q \in D
      BY <1>12
    <3>2. \A i \in 1..Len(kids[q]) : kids[q][i] \in I
      <4>1. \A i \in 1..Len(kids[q]) : kids[q][i] \in ToSet(kids[q]) /\ kids[q][i] \in Ids(t)
        BY <1>8, <3>1 DEF ToSet
      <4> QED
        BY <4>1, <1>4, <1>12
    <3>3. kids[q] \in [1..Len(kids[q]) -> Ids(t)] /\ Len(kids[q]) \in Nat
      BY <1>8, <3>1, LenProperties
    <3>4. kids[q] \in [1..Len(kids[q]) -> I]
      BY <3>2, <3>3
    <3> QED
      BY <3>3, <3>4
  <2> QED
    BY <2>1, <1>13
<1>17. Blocks(u, n, size)
  <2>1. u = [block |-> u.block, kids |-> u.kids]
    BY <1>3
  <2>2. u.block = [b \in Ids(u) |-> u.block[b]]
    BY <1>13, <1>15
  <2>3. \A b \in I : IsBlock(u.block[b], size)
    BY <1>1, <1>14, <1>15 DEF Blocks
  <2>4. u.kids \in [Ids(u) \cup {Top} -> Seq(Ids(u))]
    BY <1>13, <1>14, <1>16
  <2>5. Ids(u) \subseteq 0..(n - 1)
    BY <1>1, <1>13, <1>14 DEF Blocks
  <2> HIDE DEF I
  <2> QED
    BY <1>1, <1>13, <2>1, <2>2, <2>3, <2>4, <2>5 DEF Blocks
<1>18. \A q \in R : \A c : Kid(u, q, c) <=> c \in ToSet(kids[q])
  BY <1>15 DEF Kid, ToSet
<1>19. \A q \in R : \A c : Kid(u, q, c) => q \in D /\ c \in Ids(t) /\ Kid(t, q, c)
  BY <1>9, <1>12, <1>18
<1>20. \A b, c \in I : /\ Strictly(u, b, c) <=> Strictly(t, b, c)
                       /\ Apart(u, b, c) <=> Apart(t, b, c)
  BY <1>15 DEF Strictly, Apart
<1> HIDE DEF I
<1>21. Nested(u)
  BY <1>13, <1>14, <1>20 DEF Shape, Nested
<1>22. Listed(u)
  <2>1. \A b \in I : \E q \in R : Kid(u, q, b)
    BY <1>12, <1>18 DEF I
  <2>2. \A q, r \in R : \A b \in I : Kid(u, q, b) /\ Kid(u, r, b) => q = r
    BY <1>12, <1>14, <1>19 DEF Shape, Listed
  <2>3. ASSUME NEW q \in R, NEW i \in DOMAIN u.kids[q], NEW j \in DOMAIN u.kids[q],
               u.kids[q][i] = u.kids[q][j]
        PROVE  i = j
    <3>1. q \in D /\ i \in DOMAIN t.kids[q] /\ j \in DOMAIN t.kids[q]
          /\ t.kids[q][i] = t.kids[q][j]
      BY <1>8, <1>12, <1>15, <2>3
    <3> QED
      BY <3>1 DEF Shape, Listed
  <2> QED
    BY <1>13, <1>14, <2>1, <2>2, <2>3 DEF Listed
<1>23. Parents(u)
  <2>1. ASSUME NEW q \in R, NEW c \in I, Kid(u, q, c)
        PROVE  IsParent(u, q, c)
    <3>1. IsParent(t, q, c)
      BY <1>14, <1>19, <2>1 DEF Shape, Parents
    <3>2. q # Top => q \in I
      BY DEF I
    <3>3. \A b \in I : b \in Ids(t)
      BY <1>14
    <3> QED
      BY <1>13, <1>20, <3>1, <3>2, <3>3 DEF IsParent
  <2> QED
    BY <1>13, <1>14, <2>1 DEF Parents
<1>24. \A q \in R : /\ DOMAIN u.kids[q] \subseteq DOMAIN t.kids[q]
                    /\ \A i \in DOMAIN u.kids[q] : u.kids[q][i] = t.kids[q][i]
  BY <1>8, <1>12, <1>15
<1>25. ASSUME k = Len(t.kids[p]) PROVE u = t
  <2>1. kids = t.kids
    BY <1>2, <1>5, <1>25 DEF kids
  <2>2. \A q \in D : \A c : Kid(t, q, c) => c \in ToSet(kids[q])
    BY <2>1 DEF Kid, ToSet
  <2>3. R = D
    <3> DEFINE Bad == {b \in Ids(t) : b \notin R}
               rank == [b \in Ids(t) |-> size - Width(t, size)[b]]
    <3>1. size \in Nat /\ \A b \in Ids(t) : Width(t, size)[b] \in Nat /\ Width(t, size)[b] < size
      BY <1>1, WidthFalls DEF Blocks
    <3>2. rank \in [Ids(t) -> Nat] /\ Bad \in SUBSET Ids(t)
      BY <3>1
    <3>3. Bad = {}
      <4> SUFFICES ASSUME Bad # {} PROVE FALSE
        OBVIOUS
      <4>1. PICK b \in Bad : \A c \in Bad : ~ (rank[c] < rank[b])
        <5> HIDE DEF Bad, rank
        <5> QED
          BY <3>2, LeastRank
      <4>2. b \in Ids(t) /\ b \notin R
        OBVIOUS
      <4>3. PICK q \in D : Kid(t, q, b)
        BY <4>2 DEF Shape, Listed
      <4>4. q \notin R
        BY <1>12, <2>2, <4>2, <4>3
      <4>5. q \in Bad /\ q \in Ids(t)
        BY <1>12, <4>4
      <4>6. Width(t, size)[b] < Width(t, size)[q]
        BY <4>3, WidthFalls
      <4>7. rank[q] = size - Width(t, size)[q] /\ rank[b] = size - Width(t, size)[b]
        BY <4>2, <4>5
      <4>8. rank[q] < rank[b]
        <5> HIDE DEF rank
        <5> QED
          BY <3>1, <4>2, <4>5, <4>6, <4>7
      <4> QED
        BY <4>1, <4>5, <4>8
    <3> QED
      BY <1>12, <3>3
  <2>4. I = Ids(t)
    BY <2>3, <1>4 DEF I
  <2>5. u.block = t.block /\ u.kids = t.kids
    <3>1. u.block = [b \in Ids(t) |-> t.block[b]]
      BY <1>13, <2>4
    <3>2. t.kids = [b \in D |-> t.kids[b]]
      BY <1>2
    <3>3. u.kids = [b \in D |-> t.kids[b]]
      BY <1>13, <2>1, <2>3
    <3> QED
      BY <1>2, <3>1, <3>2, <3>3
  <2> QED
    BY <1>2, <1>3, <1>13, <2>5
<1> QED
  BY <1>13, <1>14, <1>15, <1>17, <1>21, <1>22, <1>23, <1>24, <1>25 DEF Shape, u, L

-----------------------------------------------------------------------------
(* A range is added.                                                       *)

(* The blocks of each list are in the order of the variables.              *)
InLine(t) ==
  \A p \in Ids(t) \cup {Top} : \A i, j \in DOMAIN t.kids[p] :
    i < j => t.block[t.kids[p][i]].last < t.block[t.kids[p][j]].first

(* What is inside a block is in one of the blocks of its list, or is one.  *)
LEMMA KidAround ==
  ASSUME NEW t, NEW n, NEW size, Shape(t, n, size), NEW p \in Ids(t) \cup {Top},
         NEW b \in Ids(t), p = Top \/ Strictly(t, b, p)
  PROVE  \E c \in Ids(t) : Kid(t, p, c) /\ (b = c \/ Strictly(t, b, c))
<1> DEFINE Good(x) == \E c \in Ids(t) : Kid(t, p, c) /\ (x = c \/ Strictly(t, x, c))
           Bad == {x \in Ids(t) : (p = Top \/ Strictly(t, x, p)) /\ ~ Good(x)}
           rank == [x \in Ids(t) |-> size - Width(t, size)[x]]
<1> SUFFICES ASSUME Bad # {} PROVE FALSE
  OBVIOUS
<1>1. Blocks(t, n, size)
  BY DEF Shape
<1>2. size \in Nat /\ \A x \in Ids(t) : Width(t, size)[x] \in Nat /\ Width(t, size)[x] < size
  BY <1>1, WidthFalls DEF Blocks
<1>3. rank \in [Ids(t) -> Nat] /\ Bad \in SUBSET Ids(t)
  BY <1>2
<1>4. PICK x \in Bad : \A y \in Bad : ~ (rank[y] < rank[x])
  <2> HIDE DEF Bad, rank
  <2> QED
    BY <1>3, LeastRank
<1>5. x \in Ids(t) /\ (p = Top \/ Strictly(t, x, p)) /\ ~ Good(x)
  OBVIOUS
<1>6. PICK q \in Ids(t) \cup {Top} : Kid(t, q, x)
  BY <1>5 DEF Shape, Listed
<1>7. IsParent(t, q, x)
  BY <1>5, <1>6 DEF Shape, Parents
<1>8. q # p
  BY <1>5, <1>6
<1>9. p # Top => p \in Ids(t)
  OBVIOUS
<1>10. q \in Ids(t) /\ Strictly(t, x, q) /\ (p = Top \/ Strictly(t, q, p))
  BY <1>5, <1>7, <1>8, <1>9 DEF IsParent
<1>11. q \notin Bad
  <2>1. Width(t, size)[x] < Width(t, size)[q]
    BY <1>6, WidthFalls
  <2>2. rank[q] = size - Width(t, size)[q] /\ rank[x] = size - Width(t, size)[x]
    BY <1>5, <1>10
  <2>3. rank[q] < rank[x]
    <3> HIDE DEF rank
    <3> QED
      BY <1>2, <1>5, <1>10, <2>1, <2>2
  <2> QED
    BY <1>4, <2>3
<1>12. Good(q)
  BY <1>10, <1>11
<1>13. Good(x)
  <2>1. PICK c \in Ids(t) : Kid(t, p, c) /\ (q = c \/ Strictly(t, q, c))
    BY <1>12
  <2>2. Strictly(t, x, c)
    BY <1>1, <1>5, <1>10, <2>1, StrictlyFacts
  <2> QED
    BY <2>1, <2>2
<1> QED
  BY <1>5, <1>13

(* Where a new block goes: after the blocks before it, before those behind *)
(* it, and around blocks i..j.                                             *)
Fits(t, p, i, j, new) ==
  LET L == t.kids[p] IN
  /\ i \in Int /\ j \in Int /\ 1 <= i /\ i - 1 <= j /\ j <= Len(L)
  /\ p # Top => /\ t.block[p].first <= new.first /\ new.last <= t.block[p].last
                /\ ~ SameRange(new, t.block[p].first, t.block[p].last)
  /\ \A h \in 1..(i - 1) : t.block[L[h]].last < new.first
  /\ \A h \in i..j : /\ new.first <= t.block[L[h]].first /\ t.block[L[h]].last <= new.last
                     /\ ~ SameRange(t.block[L[h]], new.first, new.last)
  /\ \A h \in (j + 1)..Len(L) : new.last < t.block[L[h]].first

(* The lists of the tree with the new block.                               *)
LEMMA WrapLists ==
  ASSUME NEW t, NEW n, NEW size, Shape(t, n, size), NEW p \in Ids(t) \cup {Top},
         NEW i, NEW j, NEW new, Fits(t, p, i, j, new)
  PROVE  LET u == Wrap(t, p, i, j, n, new)
             L == t.kids[p]
         IN
         /\ n \notin Ids(t) /\ Ids(u) = Ids(t) \cup {n} /\ DOMAIN u.kids = Ids(u) \cup {Top}
         /\ u = [block |-> u.block, kids |-> u.kids] /\ u.block = [b \in Ids(u) |-> u.block[b]]
         /\ u.block[n] = new /\ \A b \in Ids(t) : u.block[b] = t.block[b]
         /\ \A q \in Ids(t) \cup {Top} : q # p => u.kids[q] = t.kids[q]
         /\ u.kids[n] \in Seq(Ids(u)) /\ Len(u.kids[n]) = j - i + 1
         /\ \A h \in 1..(j - i + 1) : u.kids[n][h] = L[i + h - 1]
         /\ u.kids[p] \in Seq(Ids(u)) /\ Len(u.kids[p]) = Len(L) - (j - i)
         /\ \A h \in 1..(Len(L) - (j - i)) :
              u.kids[p][h] = IF h < i THEN L[h] ELSE IF h = i THEN n ELSE L[h + (j - i)]
<1> DEFINE u == Wrap(t, p, i, j, n, new)
           L == t.kids[p]
           D == Ids(t) \cup {Top}
           K == SubSeq(L, i, j)
           A == SubSeq(L, 1, i - 1)
           B == SubSeq(L, j + 1, Len(L))
           M == A \o <<n>> \o B
           S == Ids(t) \cup {n}
<1>1. Blocks(t, n, size)
  BY DEF Shape
<1>2. /\ n \in Nat /\ Ids(t) \subseteq 0..(n - 1) /\ t.block = [b \in Ids(t) |-> t.block[b]]
      /\ t.kids \in [D -> Seq(Ids(t))]
  BY <1>1 DEF Blocks
<1>3. n \notin Ids(t) /\ n # Top
  BY <1>2 DEF Top
<1>4. L \in Seq(Ids(t)) /\ Len(L) \in Nat /\ \A h \in 1..Len(L) : L[h] \in Ids(t)
  BY <1>1, BlocksFacts
<1>5. i \in Int /\ j \in Int /\ 1 <= i /\ i - 1 <= j /\ j <= Len(L)
  BY DEF Fits
<1>6. u = [block |-> [b \in Ids(t) \cup {n} |-> IF b = n THEN new ELSE t.block[b]],
           kids  |-> [b \in D \cup {n} |-> CASE b = n -> K [] b = p -> M [] OTHER -> t.kids[b]]]
  BY <1>2 DEF Wrap
<1> HIDE DEF u, K, M
<1>7. /\ u.block = [b \in S |-> IF b = n THEN new ELSE t.block[b]]
      /\ u.kids = [b \in D \cup {n} |-> CASE b = n -> K [] b = p -> M [] OTHER -> t.kids[b]]
      /\ u = [block |-> u.block, kids |-> u.kids]
  BY <1>6
<1>8. /\ Ids(u) = S /\ u.block[n] = new /\ \A b \in Ids(t) : u.block[b] = t.block[b]
      /\ u.block = [b \in Ids(u) |-> u.block[b]]
  BY <1>3, <1>7 DEF Ids
<1>9. DOMAIN u.kids = S \cup {Top}
  BY <1>7
<1>10. u.kids[n] = K /\ u.kids[p] = M /\ \A q \in D : q # p => u.kids[q] = t.kids[q]
  <2>0. n # p
    BY <1>3
  <2>1. u.kids[n] = K
    BY <1>7, <2>0
  <2>2. u.kids[p] = M
    BY <1>3, <1>7
  <2>3. ASSUME NEW q \in D, q # p PROVE u.kids[q] = t.kids[q]
    BY <1>3, <1>7, <2>3
  <2> QED
    BY <2>1, <2>2, <2>3
<1>11. /\ K \in Seq(S) /\ Len(K) = j - i + 1
       /\ \A h \in 1..(j - i + 1) : K[h] = L[i + h - 1]
  <2>1. \A h \in i..j : L[h] \in S
    BY <1>4, <1>5
  <2>2. /\ K \in Seq(S) /\ Len(K) = IF i <= j THEN j - i + 1 ELSE 0
        /\ \A h \in 1..(j - i + 1) : K[h] = L[i + h - 1]
    BY <1>5, <2>1, SubSeqProperties DEF K
  <2> QED
    BY <1>5, <2>2
<1>12. /\ A \in Seq(S) /\ Len(A) = i - 1
       /\ \A h \in 1..(i - 1) : A[h] = L[h]
  <2>1. \A h \in 1..(i - 1) : L[h] \in S
    BY <1>4, <1>5
  <2>2. i - 1 \in Int
    BY <1>5
  <2>3. /\ A \in Seq(S) /\ Len(A) = IF 1 <= i - 1 THEN (i - 1) - 1 + 1 ELSE 0
        /\ \A h \in 1..((i - 1) - 1 + 1) : A[h] = L[1 + h - 1]
    BY <2>1, <2>2, SubSeqProperties
  <2> HIDE DEF A, L
  <2> QED
    BY <1>5, <2>3
<1>13. /\ B \in Seq(S) /\ Len(B) = Len(L) - j
       /\ \A h \in 1..(Len(L) - j) : B[h] = L[j + h]
  <2>1. \A h \in (j + 1)..Len(L) : L[h] \in S
    BY <1>4, <1>5
  <2>2. j + 1 \in Int /\ Len(L) \in Int
    BY <1>4, <1>5
  <2>3. /\ B \in Seq(S) /\ Len(B) = IF j + 1 <= Len(L) THEN Len(L) - (j + 1) + 1 ELSE 0
        /\ \A h \in 1..(Len(L) - (j + 1) + 1) : B[h] = L[(j + 1) + h - 1]
    BY <2>1, <2>2, SubSeqProperties
  <2> HIDE DEF B, L
  <2> QED
    BY <1>4, <1>5, <2>3
<1> HIDE DEF A, B
<1>14. <<n>> \in Seq(S) /\ Len(<<n>>) = 1 /\ <<n>>[1] = n
  OBVIOUS
<1>15. /\ A \o <<n>> \in Seq(S) /\ Len(A \o <<n>>) = i
       /\ \A h \in 1..i : (A \o <<n>>)[h] = IF h <= i - 1 THEN A[h] ELSE n
  <2>1. /\ A \o <<n>> \in Seq(S) /\ Len(A \o <<n>>) = Len(A) + Len(<<n>>)
        /\ \A h \in 1..(Len(A) + Len(<<n>>)) :
             (A \o <<n>>)[h] = IF h <= Len(A) THEN A[h] ELSE <<n>>[h - Len(A)]
    BY <1>12, <1>14, ConcatProperties
  <2>2. Len(A) + Len(<<n>>) = i
    BY <1>5, <1>12, <1>14
  <2>3. \A h \in 1..i : h <= i - 1 \/ h - Len(A) = 1
    BY <1>5, <1>12
  <2> QED
    BY <1>12, <1>14, <2>1, <2>2, <2>3
<1>16. /\ M \in Seq(S) /\ Len(M) = Len(L) - (j - i)
       /\ \A h \in 1..(Len(L) - (j - i)) :
            M[h] = IF h < i THEN L[h] ELSE IF h = i THEN n ELSE L[h + (j - i)]
  <2> DEFINE A1 == A \o <<n>>
  <2>1. M = A1 \o B
    BY DEF M
  <2>2. A1 \in Seq(S) /\ Len(A1) = i /\ \A h \in 1..i : A1[h] = IF h <= i - 1 THEN A[h] ELSE n
    BY <1>15
  <2> HIDE DEF A1
  <2>3. /\ M \in Seq(S) /\ Len(M) = i + (Len(L) - j)
        /\ \A h \in 1..(i + (Len(L) - j)) : M[h] = IF h <= i THEN A1[h] ELSE B[h - i]
    <3>1. /\ A1 \o B \in Seq(S) /\ Len(A1 \o B) = Len(A1) + Len(B)
          /\ \A h \in 1..(Len(A1) + Len(B)) :
               (A1 \o B)[h] = IF h <= Len(A1) THEN A1[h] ELSE B[h - Len(A1)]
      BY <1>13, <2>2, ConcatProperties
    <3> QED
      BY <1>13, <2>1, <2>2, <3>1
  <2>4. i + (Len(L) - j) = Len(L) - (j - i)
    BY <1>4, <1>5
  <2>5. ASSUME NEW h \in 1..(Len(L) - (j - i))
        PROVE  M[h] = IF h < i THEN L[h] ELSE IF h = i THEN n ELSE L[h + (j - i)]
    <3>0. h \in Int /\ 1 <= h /\ h <= Len(L) - (j - i) /\ Len(L) \in Int
      BY <1>4
    <3>1. CASE h < i
      <4>1. h \in 1..i /\ h \in 1..(i - 1) /\ h <= i - 1 /\ h <= i /\ h \in 1..(i + (Len(L) - j))
        BY <1>5, <2>4, <3>0, <3>1
      <4>2. M[h] = A1[h] /\ A1[h] = A[h] /\ A[h] = L[h]
        BY <1>12, <2>2, <2>3, <4>1
      <4> QED
        BY <3>1, <4>2
    <3>2. CASE h = i
      <4>1. h \in 1..i /\ ~ (h <= i - 1) /\ h <= i /\ h \in 1..(i + (Len(L) - j)) /\ ~ (h < i)
        BY <1>5, <2>4, <3>0, <3>2
      <4>2. M[h] = A1[h] /\ A1[h] = n
        BY <2>2, <2>3, <4>1
      <4> QED
        BY <3>2, <4>1, <4>2
    <3>3. CASE h > i
      <4>1. /\ ~ (h <= i) /\ h \in 1..(i + (Len(L) - j)) /\ ~ (h < i) /\ h # i
            /\ h - i \in 1..(Len(L) - j) /\ j + (h - i) = h + (j - i)
        BY <1>5, <2>4, <3>0, <3>3
      <4>2. M[h] = B[h - i] /\ B[h - i] = L[j + (h - i)]
        BY <1>13, <2>3, <4>1
      <4> QED
        BY <4>1, <4>2
    <3> QED
      BY <1>5, <3>0, <3>1, <3>2, <3>3
  <2> QED
    BY <2>3, <2>4, <2>5
<1> QED
  BY <1>3, <1>8, <1>9, <1>7, <1>10, <1>11, <1>16 DEF u

(* A block of the tree lies inside the new one, below one of the blocks    *)
(* that go into it, or shares no variable with it, or is around it.        *)
Placed(t, p, i, j, new, b) ==
  LET L == t.kids[p] IN
  \/ \E h \in i..j : b = L[h] \/ Strictly(t, b, L[h])
  \/ t.block[b].last < new.first
  \/ new.last < t.block[b].first
  \/ p # Top /\ (b = p \/ Strictly(t, p, b))

(* A block put around a run of blocks of a list stands so to every block.  *)
LEMMA WrapPlaces ==
  ASSUME NEW t, NEW n, NEW size, Shape(t, n, size), NEW p \in Ids(t) \cup {Top},
         NEW i, NEW j, NEW new, IsBlock(new, size), Fits(t, p, i, j, new), NEW b \in Ids(t)
  PROVE  Placed(t, p, i, j, new, b)
<1> DEFINE L == t.kids[p]
<1>1. Blocks(t, n, size)
  BY DEF Shape
<1>2. \A c \in Ids(t) : /\ t.block[c].first \in Int /\ t.block[c].last \in Int
                        /\ t.block[c].first <= t.block[c].last
  BY <1>1, BlocksFacts
<1>3. new.first \in Int /\ new.last \in Int
  BY DEF IsBlock
<1>4. CASE p = Top \/ Strictly(t, b, p)
  <2>1. PICK c \in Ids(t) : Kid(t, p, c) /\ (b = c \/ Strictly(t, b, c))
    BY <1>4, KidAround
  <2>2. PICK h \in 1..Len(L) : L[h] = c
    BY <1>1, <2>1, BlocksFacts DEF Kid
  <2>3. h \in 1..(i - 1) \/ h \in i..j \/ h \in (j + 1)..Len(L)
    <3>1. i \in Int /\ j \in Int /\ 1 <= i /\ i - 1 <= j /\ j <= Len(L) /\ Len(L) \in Int
      BY <1>1, BlocksFacts DEF Fits
    <3> HIDE DEF L
    <3> QED
      BY <3>1
  <2>4. /\ t.block[c].first <= t.block[b].first /\ t.block[b].last <= t.block[c].last
    BY <1>2, <2>1 DEF Strictly
  <2>5. CASE h \in 1..(i - 1)
    <3>1. t.block[c].last < new.first
      BY <2>2, <2>5 DEF Fits
    <3>2. t.block[b].last < new.first
      BY <1>2, <1>3, <2>4, <3>1
    <3> QED
      BY <3>2 DEF Placed
  <2>6. CASE h \in i..j
    BY <2>1, <2>2, <2>6 DEF Placed
  <2>7. CASE h \in (j + 1)..Len(L)
    <3>1. new.last < t.block[c].first
      BY <2>2, <2>7 DEF Fits
    <3>2. new.last < t.block[b].first
      BY <1>2, <1>3, <2>4, <3>1
    <3> QED
      BY <3>2 DEF Placed
  <2> QED
    BY <2>3, <2>5, <2>6, <2>7
<1>5. CASE ~ (p = Top \/ Strictly(t, b, p))
  <2>1. p \in Ids(t) /\ t.block[p].first <= new.first /\ new.last <= t.block[p].last
    BY <1>5 DEF Fits
  <2>2. CASE b = p
    BY <1>5, <2>2 DEF Placed
  <2>3. CASE b # p
    <3>1. Apart(t, b, p) \/ Strictly(t, p, b)
      BY <1>5, <2>1, <2>3 DEF Shape, Nested
    <3>2. CASE Strictly(t, p, b)
      BY <1>5, <3>2 DEF Placed
    <3>3. CASE Apart(t, b, p)
      <4>1. t.block[b].last < new.first \/ new.last < t.block[b].first
        BY <1>2, <1>3, <2>1, <3>3 DEF Apart
      <4> QED
        BY <4>1 DEF Placed
    <3> QED
      BY <3>1, <3>2, <3>3
  <2> QED
    BY <2>2, <2>3
<1> QED
  BY <1>4, <1>5

(* The tree with the new block in its place.                               *)
LEMMA WrapShape ==
  ASSUME NEW t, NEW n, NEW size, Shape(t, n, size), InLine(t), NEW p \in Ids(t) \cup {Top},
         NEW i, NEW j, NEW new, IsBlock(new, size), Fits(t, p, i, j, new)
  PROVE  LET u == Wrap(t, p, i, j, n, new) IN
         /\ Shape(u, n + 1, size) /\ InLine(u)
         /\ n \notin Ids(t) /\ Ids(u) = Ids(t) \cup {n} /\ u.block[n] = new
         /\ \A b \in Ids(t) : u.block[b] = t.block[b]
<1> DEFINE L == t.kids[p]
           S == Ids(t) \cup {n}
           k == Len(L)
           D == Ids(t) \cup {Top}
<1>1. PICK u : u = Wrap(t, p, i, j, n, new)
  OBVIOUS
<1>2. /\ n \notin Ids(t) /\ Ids(u) = S /\ DOMAIN u.kids = S \cup {Top}
      /\ u = [block |-> u.block, kids |-> u.kids] /\ u.block = [b \in Ids(u) |-> u.block[b]]
      /\ u.block[n] = new /\ \A b \in Ids(t) : u.block[b] = t.block[b]
      /\ \A q \in D : q # p => u.kids[q] = t.kids[q]
      /\ u.kids[n] \in Seq(S) /\ Len(u.kids[n]) = j - i + 1
      /\ \A h \in 1..(j - i + 1) : u.kids[n][h] = L[i + h - 1]
      /\ u.kids[p] \in Seq(S) /\ Len(u.kids[p]) = k - (j - i)
      /\ \A h \in 1..(k - (j - i)) :
           u.kids[p][h] = IF h < i THEN L[h] ELSE IF h = i THEN n ELSE L[h + (j - i)]
  <2> DEFINE W == Wrap(t, p, i, j, n, new)
  <2>1. /\ n \notin Ids(t) /\ Ids(W) = Ids(t) \cup {n} /\ DOMAIN W.kids = Ids(W) \cup {Top}
        /\ W = [block |-> W.block, kids |-> W.kids] /\ W.block = [b \in Ids(W) |-> W.block[b]]
        /\ W.block[n] = new /\ \A b \in Ids(t) : W.block[b] = t.block[b]
        /\ \A q \in Ids(t) \cup {Top} : q # p => W.kids[q] = t.kids[q]
        /\ W.kids[n] \in Seq(Ids(W)) /\ Len(W.kids[n]) = j - i + 1
        /\ \A h \in 1..(j - i + 1) : W.kids[n][h] = t.kids[p][i + h - 1]
        /\ W.kids[p] \in Seq(Ids(W)) /\ Len(W.kids[p]) = Len(t.kids[p]) - (j - i)
        /\ \A h \in 1..(Len(t.kids[p]) - (j - i)) :
             W.kids[p][h] = IF h < i THEN t.kids[p][h] ELSE IF h = i THEN n ELSE t.kids[p][h + (j - i)]
    BY WrapLists
  <2>2. u = W
    BY <1>1
  <2> HIDE DEF W
  <2>3. Ids(W) = S
    BY <2>1
  <2> QED
    BY <2>1, <2>2, <2>3
<1>3. Blocks(t, n, size)
  BY DEF Shape
<1>4. /\ n \in Nat /\ Top \notin Ids(t) /\ n # Top
      /\ k \in Nat /\ DOMAIN L = 1..k /\ \A h \in 1..k : L[h] \in Ids(t)
  BY <1>3, BlocksFacts DEF Blocks, Top
<1>5. i \in Int /\ j \in Int /\ 1 <= i /\ i - 1 <= j /\ j <= k
  BY DEF Fits
<1>6. /\ \A c \in Ids(t) : /\ t.block[c].first \in Int /\ t.block[c].last \in Int
                           /\ t.block[c].first <= t.block[c].last
      /\ new.first \in Int /\ new.last \in Int /\ new.first <= new.last
  BY <1>3, BlocksFacts DEF IsBlock
<1>7. /\ \A h \in 1..(i - 1) : t.block[L[h]].last < new.first
      /\ \A h \in i..j : /\ new.first <= t.block[L[h]].first /\ t.block[L[h]].last <= new.last
                         /\ ~ SameRange(t.block[L[h]], new.first, new.last)
      /\ \A h \in (j + 1)..k : new.last < t.block[L[h]].first
      /\ p # Top => /\ t.block[p].first <= new.first /\ new.last <= t.block[p].last
                    /\ ~ SameRange(new, t.block[p].first, t.block[p].last)
  BY DEF Fits
<1>8. \A b, c \in Ids(t) : /\ Strictly(u, b, c) <=> Strictly(t, b, c)
                           /\ Apart(u, b, c) <=> Apart(t, b, c)
  BY <1>2 DEF Strictly, Apart
<1>9. \A h \in i..j : h \in 1..k /\ L[h] \in Ids(t) /\ Strictly(u, L[h], n)
  <2>1. \A h \in i..j : h \in 1..k /\ L[h] \in Ids(t)
    BY <1>4, <1>5
  <2> QED
    BY <2>1, <1>2, <1>7 DEF Strictly
<1>10. p # Top => p \in Ids(t) /\ Strictly(u, n, p)
  <2>1. p # Top => ~ SameRange(new, t.block[p].first, t.block[p].last)
    BY <1>7
  <2> QED
    BY <2>1, <1>2, <1>7 DEF Strictly
<1>11. Blocks(u, n + 1, size)
  <2>1. u.kids \in [Ids(u) \cup {Top} -> Seq(Ids(u))]
    <3>1. \A q \in D : q # p => t.kids[q] \in Seq(S)
      <4>1. \A q \in D : t.kids[q] \in Seq(Ids(t))
        BY <1>3, BlocksFacts
      <4> QED
        BY <4>1, SeqMonotonic
    <3>2. \A q \in S \cup {Top} : u.kids[q] \in Seq(S)
      BY <1>2, <3>1
    <3>3. u.kids = [q \in DOMAIN u.kids |-> u.kids[q]]
      <4>1. u.kids = [b \in DOMAIN t.kids \cup {n} |->
                CASE b = n -> SubSeq(L, i, j)
                  [] b = p  -> SubSeq(L, 1, i - 1) \o <<n>> \o SubSeq(L, j + 1, Len(L))
                  [] OTHER  -> t.kids[b]]
        BY <1>1 DEF Wrap
      <4> QED
        BY <4>1
    <3> QED
      BY <1>2, <3>2, <3>3
  <2>2. \A b \in S : IsBlock(u.block[b], size)
    BY <1>2, <1>3 DEF Blocks
  <2>3. S \subseteq 0..n
    BY <1>3, <1>4 DEF Blocks
  <2>4. n + 1 \in Nat /\ (n + 1) - 1 = n /\ size \in Nat
    BY <1>3, <1>4 DEF Blocks
  <2> QED
    BY <1>2, <2>1, <2>2, <2>3, <2>4 DEF Blocks
<1>12. \A b \in Ids(t) : Placed(t, p, i, j, new, b)
  BY WrapPlaces
<1>13. ASSUME NEW b \in Ids(t)
       PROVE  /\ Strictly(u, b, n) \/ Apart(u, b, n) \/ (p # Top /\ (b = p \/ Strictly(t, p, b)))
              /\ p # Top /\ (b = p \/ Strictly(t, p, b)) => Strictly(u, n, b)
              /\ Strictly(u, b, n) => \E h \in i..j : b = L[h] \/ Strictly(t, b, L[h])
  <2>1. p # Top /\ (b = p \/ Strictly(t, p, b)) => Strictly(u, n, b)
    <3> SUFFICES ASSUME p # Top, Strictly(t, p, b) PROVE Strictly(u, n, b)
      BY <1>10
    <3>1. Strictly(u, p, b) /\ Strictly(u, n, p) /\ p \in S /\ b \in S /\ n \in S
      BY <1>8, <1>10
    <3> QED
      BY <1>2, <1>11, <3>1, StrictlyFacts
  <2>2. ASSUME NEW h \in i..j, b = L[h] \/ Strictly(t, b, L[h]) PROVE Strictly(u, b, n)
    <3>1. Strictly(u, L[h], n) /\ L[h] \in Ids(t)
      BY <1>9
    <3>2. CASE b = L[h]
      BY <3>1, <3>2
    <3>3. CASE Strictly(t, b, L[h])
      <4>1. Strictly(u, b, L[h]) /\ L[h] \in S /\ b \in S /\ n \in S
        BY <1>8, <3>1, <3>3
      <4> QED
        BY <1>2, <1>11, <3>1, <4>1, StrictlyFacts
    <3> QED
      BY <2>2, <3>2, <3>3
  <2>3. t.block[b].last < new.first \/ new.last < t.block[b].first => Apart(u, b, n)
    BY <1>2 DEF Apart
  <2>4. Strictly(u, b, n) => ~ Apart(u, b, n) /\ ~ Strictly(u, n, b)
    BY <1>2, <1>11, StrictlyFacts
  <2>5. Placed(t, p, i, j, new, b)
    BY <1>12
  <2> QED
    BY <2>1, <2>2, <2>3, <2>4, <2>5 DEF Placed
<1>14. Nested(u)
  <2> SUFFICES ASSUME NEW b \in S, NEW c \in S, b # c
               PROVE  Apart(u, b, c) \/ Strictly(u, b, c) \/ Strictly(u, c, b)
    BY <1>2 DEF Nested
  <2>1. CASE b \in Ids(t) /\ c \in Ids(t)
    BY <1>8, <2>1 DEF Shape, Nested
  <2>2. CASE c = n
    <3>1. b \in Ids(t)
      BY <2>2
    <3> QED
      BY <1>13, <2>2, <3>1
  <2>3. CASE b = n
    <3>1. c \in Ids(t)
      BY <2>3
    <3>2. Apart(u, c, n) => Apart(u, n, c)
      BY DEF Apart
    <3> QED
      BY <1>13, <2>3, <3>1, <3>2
  <2> QED
    BY <2>1, <2>2, <2>3
<1>15. \A q \in D : q # p => \A c : Kid(u, q, c) <=> Kid(t, q, c)
  BY <1>2 DEF Kid
<1>16. \A c : Kid(u, n, c) <=> \E h \in i..j : L[h] = c
  <2>1. DOMAIN u.kids[n] = 1..(j - i + 1)
    BY <1>2, LenProperties
  <2>2. ASSUME NEW h \in 1..(j - i + 1) PROVE i + h - 1 \in i..j
    BY <1>5
  <2>3. ASSUME NEW h \in i..j PROVE h - i + 1 \in 1..(j - i + 1) /\ i + (h - i + 1) - 1 = h
    BY <1>5
  <2>4. ASSUME NEW c, Kid(u, n, c) PROVE \E h \in i..j : L[h] = c
    <3>1. PICK h \in 1..(j - i + 1) : u.kids[n][h] = c
      BY <2>1, <2>4 DEF Kid
    <3> QED
      BY <1>2, <2>2, <3>1
  <2>5. ASSUME NEW h \in i..j PROVE Kid(u, n, L[h])
    BY <1>2, <2>1, <2>3 DEF Kid
  <2> QED
    BY <2>4, <2>5
<1>17. \A c : Kid(u, p, c) <=> c = n \/ \E h \in 1..k : h \notin i..j /\ L[h] = c
  <2>1. DOMAIN u.kids[p] = 1..(k - (j - i))
    BY <1>2, LenProperties
  <2>2. ASSUME NEW c, Kid(u, p, c) PROVE c = n \/ \E h \in 1..k : h \notin i..j /\ L[h] = c
    <3>1. PICK h \in 1..(k - (j - i)) : u.kids[p][h] = c
      BY <2>1, <2>2 DEF Kid
    <3>2. c = IF h < i THEN L[h] ELSE IF h = i THEN n ELSE L[h + (j - i)]
      BY <1>2, <3>1
    <3>3. h < i => h \in 1..k /\ h \notin i..j
      BY <1>4, <1>5
    <3>4. ~ (h < i) /\ h # i => h + (j - i) \in 1..k /\ h + (j - i) \notin i..j
      BY <1>4, <1>5
    <3> QED
      BY <3>2, <3>3, <3>4
  <2>3. Kid(u, p, n)
    <3>1. i \in 1..(k - (j - i)) /\ ~ (i < i)
      BY <1>4, <1>5
    <3> QED
      BY <1>2, <2>1, <3>1 DEF Kid
  <2>4. ASSUME NEW h \in 1..k, h \notin i..j PROVE Kid(u, p, L[h])
    <3>1. CASE h < i
      <4>1. h \in 1..(k - (j - i))
        BY <1>4, <1>5, <3>1
      <4> QED
        BY <1>2, <2>1, <3>1, <4>1 DEF Kid
    <3>2. CASE ~ (h < i)
      <4> DEFINE g == h - (j - i)
      <4>1. g \in 1..(k - (j - i)) /\ ~ (g < i) /\ g # i /\ g + (j - i) = h
        BY <1>4, <1>5, <2>4, <3>2
      <4> HIDE DEF g
      <4>2. u.kids[p][g] = L[h]
        BY <1>2, <4>1
      <4> QED
        BY <2>1, <4>1, <4>2 DEF Kid
    <3> QED
      BY <3>1, <3>2
  <2> QED
    BY <2>2, <2>3, <2>4
<1>18. \A h, g \in 1..k : L[h] = L[g] => h = g
  BY <1>4 DEF Shape, Listed
<1>19. \A q \in D : \A c : Kid(t, q, c) => c \in Ids(t)
  BY <1>3, BlocksFacts
<1>20. \A c : Kid(t, p, c) <=> \E h \in 1..k : L[h] = c
  BY <1>4 DEF Kid
<1> HIDE DEF L, k
<1>21. Listed(u)
  <2>1. ASSUME NEW b \in S PROVE \E q \in S \cup {Top} : Kid(u, q, b)
    <3>1. CASE b = n
      BY <1>17, <3>1
    <3>2. CASE b \in Ids(t)
      <4>1. PICK q \in D : Kid(t, q, b)
        BY <3>2 DEF Shape, Listed
      <4>2. CASE q # p
        BY <1>15, <4>1, <4>2
      <4>3. CASE q = p
        BY <1>16, <1>17, <1>20, <4>1, <4>3
      <4> QED
        BY <4>2, <4>3
    <3> QED
      BY <3>1, <3>2
  <2>2. ASSUME NEW b \in S, NEW q \in S \cup {Top}, Kid(u, q, b)
        PROVE  /\ b = n => q = p
               /\ b # n => /\ q = n => Kid(t, p, b) /\ \E h \in i..j : L[h] = b
                           /\ q # n => Kid(t, q, b)
                           /\ q = p => \E h \in 1..k : h \notin i..j /\ L[h] = b
    <3>1. CASE q = n
      <4>1. PICK h \in i..j : L[h] = b
        BY <1>16, <2>2, <3>1
      <4>2. h \in 1..k /\ b \in Ids(t) /\ q # p
        BY <1>2, <1>4, <1>9, <3>1, <4>1 DEF L
      <4> QED
        BY <1>2, <1>20, <3>1, <4>1, <4>2
    <3>2. CASE q = p
      BY <1>2, <1>17, <1>20, <1>4, <2>2, <3>2
    <3>3. CASE q # n /\ q # p
      <4>1. q \in D
        BY <3>3
      <4>2. Kid(t, q, b) /\ b \in Ids(t)
        BY <1>15, <1>19, <2>2, <3>3, <4>1
      <4> QED
        BY <1>2, <3>3, <4>2
    <3> QED
      BY <3>1, <3>2, <3>3
  <2>3. ASSUME NEW q \in S \cup {Top}, NEW r \in S \cup {Top}, NEW b \in S, Kid(u, q, b), Kid(u, r, b)
        PROVE  q = r
    <3>1. CASE b = n
      BY <2>2, <2>3, <3>1
    <3>2. CASE b # n
      <4>1. b \in Ids(t)
        BY <3>2
      <4>2. \A x, y \in D : Kid(t, x, b) /\ Kid(t, y, b) => x = y
        BY <4>1 DEF Shape, Listed
      <4>3. CASE q # n /\ r # n
        BY <2>2, <2>3, <3>2, <4>2, <4>3
      <4>4. CASE q = n /\ r # n
        <5>1. Kid(t, p, b) /\ Kid(t, r, b) /\ r \in D
          BY <2>2, <2>3, <3>2, <4>4
        <5>2. r = p
          BY <4>2, <5>1
        <5> QED
          BY <1>9, <1>18, <2>2, <2>3, <3>2, <4>4, <5>2
      <4>5. CASE q # n /\ r = n
        <5>1. Kid(t, p, b) /\ Kid(t, q, b) /\ q \in D
          BY <2>2, <2>3, <3>2, <4>5
        <5>2. q = p
          BY <4>2, <5>1
        <5> QED
          BY <1>9, <1>18, <2>2, <2>3, <3>2, <4>5, <5>2
      <4> QED
        BY <4>3, <4>4, <4>5
    <3> QED
      BY <3>1, <3>2
  <2>4. ASSUME NEW q \in S \cup {Top}, NEW g \in DOMAIN u.kids[q], NEW h \in DOMAIN u.kids[q],
               u.kids[q][g] = u.kids[q][h]
        PROVE  g = h
    <3>1. CASE q = n
      <4>1. DOMAIN u.kids[n] = 1..(j - i + 1)
        BY <1>2, LenProperties
      <4>0. g \in 1..(j - i + 1) /\ h \in 1..(j - i + 1)
        BY <2>4, <3>1, <4>1
      <4>2. L[i + g - 1] = L[i + h - 1] /\ i + g - 1 \in 1..k /\ i + h - 1 \in 1..k
        <5>1. u.kids[n][g] = L[i + g - 1] /\ u.kids[n][h] = L[i + h - 1]
          BY <1>2, <4>0
        <5>2. i + g - 1 \in 1..k /\ i + h - 1 \in 1..k
          BY <1>4, <1>5, <4>0
        <5> QED
          BY <2>4, <3>1, <5>1, <5>2
      <4>3. i + g - 1 = i + h - 1 /\ g \in Int /\ h \in Int
        BY <1>18, <3>1, <4>1, <4>2
      <4> QED
        BY <1>5, <4>3
    <3>2. CASE q = p
      <4>1. DOMAIN u.kids[p] = 1..(k - (j - i))
        BY <1>2, LenProperties DEF L, k
      <4> DEFINE at(x) == IF x < i THEN x ELSE x + (j - i)
      <4>2. g \in 1..(k - (j - i)) /\ h \in 1..(k - (j - i)) /\ u.kids[p][g] = u.kids[p][h]
        BY <2>4, <3>2, <4>1
      <4>3. \A x \in 1..(k - (j - i)) :
              /\ x = i => u.kids[p][x] = n
              /\ x # i => at(x) \in 1..k /\ u.kids[p][x] = L[at(x)] /\ u.kids[p][x] # n
        <5> SUFFICES ASSUME NEW x \in 1..(k - (j - i))
                     PROVE  /\ x = i => u.kids[p][x] = n
                            /\ x # i => at(x) \in 1..k /\ u.kids[p][x] = L[at(x)] /\ u.kids[p][x] # n
          OBVIOUS
        <5>1. u.kids[p][x] = IF x < i THEN L[x] ELSE IF x = i THEN n ELSE L[x + (j - i)]
          BY <1>2 DEF L, k
        <5>2. x # i => at(x) \in 1..k
          BY <1>4, <1>5 DEF L, k
        <5>3. x # i => u.kids[p][x] = L[at(x)]
          BY <5>1
        <5>4. x = i => ~ (x < i)
          BY <1>5
        <5> HIDE DEF at
        <5> QED
          BY <1>2, <1>4, <5>1, <5>2, <5>3, <5>4 DEF L, k
      <4>4. g # i /\ h # i => at(g) = at(h)
        BY <1>18, <4>2, <4>3
      <4>5. g # i /\ h # i => g = h
        BY <1>4, <1>5, <4>2, <4>4 DEF L, k
      <4> HIDE DEF at
      <4> QED
        BY <4>2, <4>3, <4>5
    <3>3. CASE q # n /\ q # p
      <4>1. q \in D /\ u.kids[q] = t.kids[q]
        BY <1>2, <3>3
      <4> QED
        BY <2>4, <4>1 DEF Shape, Listed
    <3> QED
      BY <3>1, <3>2, <3>3
  <2> QED
    BY <1>2, <2>1, <2>3, <2>4 DEF Listed
<1>22. Parents(u)
  <2> SUFFICES ASSUME NEW q \in S \cup {Top}, NEW c \in S, Kid(u, q, c)
               PROVE  IsParent(u, q, c)
    BY <1>2 DEF Parents
  <2>1. \A x \in Ids(t) : Kid(t, p, x) => IsParent(t, p, x)
    BY DEF Shape, Parents
  <2>2. CASE q = n
    <3>1. PICK h \in i..j : L[h] = c
      BY <1>16, <2>2
    <3>2. c \in Ids(t) /\ Strictly(u, c, n) /\ Kid(t, p, c)
      BY <1>9, <1>20, <3>1 DEF L, k
    <3>3. ASSUME NEW b \in S, Strictly(u, c, b) PROVE b = n \/ Strictly(u, n, b)
      <4>1. CASE b \in Ids(t)
        <5>1. Strictly(t, c, b)
          BY <1>8, <3>2, <3>3, <4>1
        <5>2. p # Top /\ (b = p \/ Strictly(t, p, b))
          BY <2>1, <3>2, <4>1, <5>1 DEF IsParent
        <5> QED
          BY <1>13, <4>1, <5>2
      <4> QED
        BY <4>1
    <3> QED
      BY <1>2, <1>4, <2>2, <3>2, <3>3 DEF IsParent
  <2>3. CASE q = p /\ c = n
    <3>1. ASSUME NEW b \in S, Strictly(u, n, b) PROVE p # Top /\ (b = p \/ Strictly(u, p, b))
      <4>1. b # n
        BY <1>2, <1>11, <3>1, StrictlyFacts
      <4>2. b \in Ids(t)
        BY <4>1
      <4>3. ~ Strictly(u, b, n) /\ ~ Apart(u, b, n)
        BY <1>2, <1>11, <3>1, <4>2, StrictlyFacts
      <4>4. p # Top /\ (b = p \/ Strictly(t, p, b))
        BY <1>13, <4>2, <4>3
      <4> QED
        BY <1>8, <4>2, <4>4
    <3> QED
      BY <1>2, <1>10, <2>3, <3>1 DEF IsParent
  <2>4. CASE q = p /\ c # n
    <3>1. PICK h \in 1..k : h \notin i..j /\ L[h] = c
      BY <1>17, <2>4
    <3>2. c \in Ids(t) /\ Kid(t, p, c)
      BY <1>20, <3>1, <2>4
    <3>3. ~ Strictly(u, c, n)
      <4>1. h \in 1..(i - 1) \/ h \in (j + 1)..k
        BY <1>4, <1>5, <3>1 DEF L, k
      <4>2. t.block[c].last < new.first \/ new.last < t.block[c].first
        BY <1>7, <3>1, <4>1 DEF L, k
      <4>3. Apart(u, c, n)
        BY <1>2, <3>2, <4>2 DEF Apart
      <4> QED
        BY <1>2, <1>11, <3>2, <4>3, StrictlyFacts
    <3>4. IsParent(t, p, c)
      BY <2>1, <3>2
    <3>5. p # Top => Strictly(u, c, p) /\ p \in Ids(t)
      BY <1>8, <3>2, <3>4 DEF IsParent
    <3>6. ASSUME NEW b \in S, Strictly(u, c, b) PROVE p # Top /\ (b = p \/ Strictly(u, p, b))
      <4>1. b \in Ids(t)
        BY <3>3, <3>6
      <4>2. Strictly(t, c, b)
        BY <1>8, <3>2, <3>6, <4>1
      <4> QED
        BY <1>8, <3>4, <3>5, <4>1, <4>2 DEF IsParent
    <3> QED
      BY <1>2, <2>4, <3>5, <3>6 DEF IsParent
  <2>5. CASE q # n /\ q # p
    <3>1. q \in D /\ Kid(t, q, c) /\ c \in Ids(t)
      BY <1>15, <1>19, <2>5
    <3>2. IsParent(t, q, c)
      BY <3>1 DEF Shape, Parents
    <3>3. q # Top => q \in Ids(t) /\ Strictly(u, c, q)
      BY <1>8, <3>1, <3>2 DEF IsParent
    <3>4. ASSUME NEW b \in S, Strictly(u, c, b) PROVE q # Top /\ (b = q \/ Strictly(u, q, b))
      <4>1. CASE b \in Ids(t)
        BY <1>8, <3>1, <3>2, <3>3, <3>4, <4>1 DEF IsParent
      <4>2. CASE b = n
        <5>1. PICK h \in i..j : c = L[h] \/ Strictly(t, c, L[h])
          BY <1>13, <3>1, <3>4, <4>2
        <5>2. L[h] \in Ids(t) /\ Strictly(u, L[h], n) /\ Kid(t, p, L[h])
          BY <1>9, <1>20 DEF L, k
        <5>3. c # L[h]
          BY <2>5, <3>1, <5>2 DEF Shape, Listed
        <5>4. q # Top /\ (L[h] = q \/ Strictly(t, q, L[h]))
          BY <3>2, <5>1, <5>2, <5>3 DEF IsParent
        <5>5. CASE L[h] = q
          BY <4>2, <5>2, <5>4, <5>5
        <5>6. CASE Strictly(t, q, L[h])
          <6>1. q \in S /\ L[h] \in S /\ n \in S /\ Strictly(u, q, L[h])
            BY <1>8, <3>3, <5>2, <5>4, <5>6
          <6>2. Strictly(u, q, n)
            BY <1>2, <1>11, <5>2, <6>1, StrictlyFacts
          <6> QED
            BY <4>2, <5>4, <6>2
        <5> QED
          BY <5>4, <5>5, <5>6
      <4> QED
        BY <4>1, <4>2
    <3> QED
      BY <1>2, <3>3, <3>4 DEF IsParent
  <2> QED
    BY <2>2, <2>3, <2>4, <2>5
<1>23. InLine(u)
  <2> SUFFICES ASSUME NEW q \in S \cup {Top}, NEW g \in DOMAIN u.kids[q], NEW h \in DOMAIN u.kids[q], g < h
               PROVE  u.block[u.kids[q][g]].last < u.block[u.kids[q][h]].first
    BY <1>2 DEF InLine
  <2>0. \A x, y \in 1..k : x < y => t.block[L[x]].last < t.block[L[y]].first
    BY <1>4 DEF InLine, L, k
  <2>1. CASE q = n
    <3>1. DOMAIN u.kids[n] = 1..(j - i + 1)
      BY <1>2, LenProperties
    <3>2. /\ u.kids[n][g] = L[i + g - 1] /\ u.kids[n][h] = L[i + h - 1]
          /\ i + g - 1 \in i..j /\ i + h - 1 \in i..j /\ i + g - 1 < i + h - 1
      <4>0. g \in 1..(j - i + 1) /\ h \in 1..(j - i + 1)
        BY <2>1, <3>1
      <4>1. u.kids[n][g] = L[i + g - 1] /\ u.kids[n][h] = L[i + h - 1]
        BY <1>2, <4>0
      <4> QED
        BY <1>5, <4>0, <4>1
    <3>3. i + g - 1 \in 1..k /\ i + h - 1 \in 1..k /\ L[i + g - 1] \in Ids(t) /\ L[i + h - 1] \in Ids(t)
      BY <1>9, <3>2 DEF L, k
    <3> QED
      BY <1>2, <2>0, <2>1, <3>2, <3>3
  <2>2. CASE q = p
    <3>1. DOMAIN u.kids[p] = 1..(k - (j - i))
      BY <1>2, LenProperties DEF L, k
    <3> DEFINE at(x) == IF x < i THEN x ELSE x + (j - i)
    <3>2. g \in 1..(k - (j - i)) /\ h \in 1..(k - (j - i))
      BY <2>2, <3>1
    <3>3. \A x \in 1..(k - (j - i)) :
            /\ x = i => u.kids[p][x] = n
            /\ x # i => at(x) \in 1..k /\ u.kids[p][x] = L[at(x)] /\ L[at(x)] \in Ids(t)
      <4> SUFFICES ASSUME NEW x \in 1..(k - (j - i))
                   PROVE  /\ x = i => u.kids[p][x] = n
                          /\ x # i => at(x) \in 1..k /\ u.kids[p][x] = L[at(x)] /\ L[at(x)] \in Ids(t)
        OBVIOUS
      <4>1. u.kids[p][x] = IF x < i THEN L[x] ELSE IF x = i THEN n ELSE L[x + (j - i)]
        BY <1>2 DEF L, k
      <4>2. x # i => at(x) \in 1..k
        BY <1>4, <1>5 DEF L, k
      <4>3. x # i => u.kids[p][x] = L[at(x)]
        BY <4>1
      <4>4. x = i => ~ (x < i)
        BY <1>5
      <4> HIDE DEF at
      <4> QED
        BY <1>4, <4>1, <4>2, <4>3, <4>4 DEF L, k
    <3>4. CASE g = i
      <4>1. h # i /\ at(h) \in (j + 1)..k
        BY <1>4, <1>5, <2>2, <3>2, <3>4 DEF L, k
      <4> HIDE DEF at
      <4>2. new.last < t.block[L[at(h)]].first
        BY <1>7, <4>1 DEF L, k
      <4> QED
        BY <1>2, <2>2, <3>2, <3>3, <3>4, <4>1, <4>2
    <3>5. CASE h = i
      <4>1. g # i /\ at(g) \in 1..(i - 1)
        BY <1>4, <1>5, <2>2, <3>2, <3>5 DEF L, k
      <4> HIDE DEF at
      <4>2. t.block[L[at(g)]].last < new.first
        BY <1>7, <4>1 DEF L, k
      <4> QED
        BY <1>2, <2>2, <3>2, <3>3, <3>5, <4>1, <4>2
    <3>6. CASE g # i /\ h # i
      <4>1. at(g) < at(h)
        BY <1>4, <1>5, <2>2, <3>2, <3>6 DEF L, k
      <4> HIDE DEF at
      <4>2. t.block[L[at(g)]].last < t.block[L[at(h)]].first
        BY <2>0, <3>2, <3>3, <3>6, <4>1
      <4> QED
        BY <1>2, <2>2, <3>2, <3>3, <3>6, <4>2
    <3> QED
      BY <3>4, <3>5, <3>6
  <2>3. CASE q # n /\ q # p
    <3>1. q \in D /\ u.kids[q] = t.kids[q]
      BY <1>2, <2>3
    <3>2. t.kids[q][g] \in Ids(t) /\ t.kids[q][h] \in Ids(t)
      BY <1>3, <3>1, BlocksFacts
    <3>3. t.block[t.kids[q][g]].last < t.block[t.kids[q][h]].first
      BY <3>1 DEF InLine
    <3> QED
      BY <1>2, <3>1, <3>2, <3>3
  <2> QED
    BY <2>1, <2>2, <2>3
<1> QED
  BY <1>1, <1>2, <1>11, <1>14, <1>21, <1>22, <1>23 DEF Shape

(* The place of the least of some numbers.                                 *)
LEMMA MinFacts ==
  ASSUME NEW S \in SUBSET Nat, S # {}
  PROVE  Min(S) \in S /\ \A y \in S : Min(S) <= y
<1>1. PICK x \in S : \A y \in S : ~ (y < x)
  BY LeastExists
<1>2. \A y \in S : x <= y
  BY <1>1
<1> QED
  BY <1>2 DEF Min

(* The first block of a list that does not end before a variable.          *)
LEMMA StopsAtFacts ==
  ASSUME NEW t, NEW n, NEW size, Shape(t, n, size), NEW p \in Ids(t) \cup {Top}, NEW first \in Int
  PROVE  LET L == t.kids[p]
             i == StopsAt(t, L, first)
         IN  /\ i \in Int /\ 1 <= i /\ i <= Len(L) + 1
             /\ \A h \in 1..(i - 1) : t.block[L[h]].last < first
             /\ i <= Len(L) => L[i] \in Ids(t) /\ first <= t.block[L[i]].last
<1> DEFINE L == t.kids[p]
           i == StopsAt(t, L, first)
           stops == {h \in DOMAIN L : first <= t.block[L[h]].last}
<1>1. /\ Len(L) \in Nat /\ DOMAIN L = 1..Len(L) /\ \A h \in 1..Len(L) : L[h] \in Ids(t)
      /\ \A b \in Ids(t) : t.block[b].last \in Int
  BY BlocksFacts DEF Shape
<1>2. i = IF stops = {} THEN Len(L) + 1 ELSE Min(stops)
  BY DEF StopsAt
<1>3. stops \in SUBSET Nat
  BY <1>1
<1>6. \A h \in 1..Len(L) : h \notin stops => t.block[L[h]].last < first
  BY <1>1
<1>4. CASE stops = {}
  <2>1. i = Len(L) + 1
    BY <1>2, <1>4
  <2>2. \A h \in 1..Len(L) : t.block[L[h]].last < first
    BY <1>4, <1>6
  <2> HIDE DEF i, L
  <2> QED
    BY <1>1, <2>1, <2>2 DEF L, i
<1>5. CASE stops # {}
  <2>1. i \in stops /\ \A y \in stops : i <= y
    BY <1>2, <1>3, <1>5, MinFacts
  <2>2. i \in 1..Len(L) /\ first <= t.block[L[i]].last
    BY <1>1, <2>1
  <2>3. ASSUME NEW h \in 1..(i - 1) PROVE t.block[L[h]].last < first
    <3>1. h \in Int /\ 1 <= h /\ h <= i - 1 /\ i \in Int /\ h \in 1..Len(L)
      <4> HIDE DEF i, L
      <4> QED
        BY <1>1, <2>2
    <3>2. ~ (i <= h)
      <4> HIDE DEF i, L
      <4> QED
        BY <3>1
    <3>3. h \notin stops
      BY <2>1, <3>2
    <3> QED
      BY <1>6, <3>1, <3>3
  <2> QED
    BY <1>1, <2>2, <2>3
<1> QED
  BY <1>4, <1>5

(* The last of the blocks that begin before a range ends.                  *)
LEMMA RunEndFacts ==
  ASSUME NEW t, NEW L, Len(L) \in Nat, NEW i \in 1..Len(L), NEW last \in Int,
         \A h \in 1..Len(L) : t.block[L[h]].first \in Int
  PROVE  LET j == RunEnd(t, L, i, last) IN
         /\ j \in i..Len(L)
         /\ j < Len(L) => last < t.block[L[j + 1]].first
         /\ \A h \in (i + 1)..j : t.block[L[h]].first <= last
<1> DEFINE ends == {j \in i..Len(L) : j = Len(L) \/ last < t.block[L[j + 1]].first}
           j == RunEnd(t, L, i, last)
<1>1. ends \in SUBSET Nat /\ Len(L) \in ends
  OBVIOUS
<1>2. j = Min(ends)
  BY DEF RunEnd
<1>3. j \in ends /\ \A y \in ends : j <= y
  BY <1>1, <1>2, MinFacts
<1> HIDE DEF j
<1>4. \A h \in (i + 1)..j : t.block[L[h]].first <= last
  <2> SUFFICES ASSUME NEW h \in (i + 1)..j PROVE t.block[L[h]].first <= last
    OBVIOUS
  <2>1. h - 1 \notin ends
    <3>1. ~ (j <= h - 1) \/ h - 1 \notin ends
      <4> SUFFICES ASSUME h - 1 \in ends PROVE ~ (j <= h - 1)
        OBVIOUS
      <4>1. h \in Int /\ j \in Int /\ h <= j
        BY <1>3
      <4> QED
        BY <4>1
    <3> HIDE DEF ends
    <3> QED
      BY <1>3, <3>1
  <2>2. h - 1 \in i..Len(L) /\ h - 1 # Len(L) /\ h - 1 + 1 = h /\ h \in 1..Len(L)
    BY <1>3
  <2> QED
    BY <2>1, <2>2
<1>5. j \in i..Len(L) /\ (j < Len(L) => last < t.block[L[j + 1]].first)
  BY <1>3
<1> QED
  BY <1>4, <1>5 DEF j

(* bddtree_addrange_rec goes on with the list below the block it stops at. *)
GoesDown(t, p, first, last) ==
  LET b == t.block[t.kids[p][StopsAt(t, t.kids[p], first)]] IN
  /\ StopsAt(t, t.kids[p], first) <= Len(t.kids[p])
  /\ Within(b, first, last) /\ ~ SameRange(b, first, last)

(* Where it ends: in a list below a block that is around the range, and    *)
(* the block it stops at is not.                                           *)
LEMMA PlaceFacts ==
  ASSUME NEW t, NEW n, NEW size, Shape(t, n, size), NEW first \in Int, NEW last \in Int
  PROVE  \E p \in Ids(t) \cup {Top} :
           /\ Place(t, first, last) = [list |-> p, at |-> StopsAt(t, t.kids[p], first)]
           /\ ~ GoesDown(t, p, first, last)
           /\ p # Top => Within(t.block[p], first, last) /\ ~ SameRange(t.block[p], first, last)
<1> DEFINE D == Ids(t) \cup {Top}
           at(p) == StopsAt(t, t.kids[p], first)
           Eq(f) == f = [p \in DOMAIN t.kids |->
                      IF /\ at(p) <= Len(t.kids[p])
                         /\ Within(t.block[t.kids[p][at(p)]], first, last)
                         /\ ~ SameRange(t.block[t.kids[p][at(p)]], first, last)
                      THEN f[t.kids[p][at(p)]]
                      ELSE [list |-> p, at |-> at(p)]]
           T == {p \in D : ~ GoesDown(t, p, first, last)}
           out == [p \in D |-> [list |-> p, at |-> at(p)]]
           next == [p \in D |-> IF GoesDown(t, p, first, last) THEN t.kids[p][at(p)] ELSE p]
           g == CHOOSE f : Eq(f)
           I == {p \in D : p # Top => /\ Within(t.block[p], first, last)
                                      /\ ~ SameRange(t.block[p], first, last)}
           high == [p \in I |-> Width(t, size)[p]]
           low  == [p \in I |-> 0]
<1>1. Place(t, first, last) = g[Top]
  BY DEF Place
<1>2. Blocks(t, n, size) /\ DOMAIN t.kids = D
  BY BlocksFacts DEF Shape
<1>3. \A p \in D : GoesDown(t, p, first, last) =>
        /\ t.kids[p][at(p)] \in Ids(t) /\ Kid(t, p, t.kids[p][at(p)])
        /\ Within(t.block[t.kids[p][at(p)]], first, last)
        /\ ~ SameRange(t.block[t.kids[p][at(p)]], first, last)
  <2> SUFFICES ASSUME NEW p \in D, GoesDown(t, p, first, last)
               PROVE  /\ t.kids[p][at(p)] \in Ids(t) /\ Kid(t, p, t.kids[p][at(p)])
                      /\ Within(t.block[t.kids[p][at(p)]], first, last)
                      /\ ~ SameRange(t.block[t.kids[p][at(p)]], first, last)
    OBVIOUS
  <2>1. at(p) \in Int /\ 1 <= at(p) /\ at(p) <= Len(t.kids[p])
    BY StopsAtFacts DEF GoesDown
  <2>2. at(p) \in DOMAIN t.kids[p] /\ t.kids[p][at(p)] \in Ids(t)
    <3>1. Len(t.kids[p]) \in Nat /\ DOMAIN t.kids[p] = 1..Len(t.kids[p])
          /\ \A h \in 1..Len(t.kids[p]) : t.kids[p][h] \in Ids(t)
      BY <1>2, BlocksFacts
    <3>2. at(p) \in 1..Len(t.kids[p])
      BY <2>1, <3>1
    <3> QED
      BY <3>1, <3>2
  <2> QED
    BY <2>2 DEF GoesDown, Kid
<1>4. \A f : Eq(f) <=> IsLoop(f, D, T, out, next)
  <2> SUFFICES ASSUME NEW f
               PROVE  [p \in DOMAIN t.kids |->
                        IF /\ at(p) <= Len(t.kids[p])
                           /\ Within(t.block[t.kids[p][at(p)]], first, last)
                           /\ ~ SameRange(t.block[t.kids[p][at(p)]], first, last)
                        THEN f[t.kids[p][at(p)]]
                        ELSE [list |-> p, at |-> at(p)]]
                      = [p \in D |-> IF p \in T THEN out[p] ELSE f[next[p]]]
    BY DEF IsLoop
  <2>1. \A p \in D : GoesDown(t, p, first, last) <=>
          /\ at(p) <= Len(t.kids[p])
          /\ Within(t.block[t.kids[p][at(p)]], first, last)
          /\ ~ SameRange(t.block[t.kids[p][at(p)]], first, last)
    BY DEF GoesDown
  <2> QED
    BY <1>2, <2>1
<1>5. IsLoop(g, D, T, out, next)
  <2>1. out \in [D -> {[list |-> p, at |-> at(p)] : p \in D}] /\ next \in [D -> D]
    BY <1>3
  <2>2. \E f : IsLoop(f, D, T, out, next)
    <3> HIDE DEF D, T, out, next
    <3> QED
      BY <2>1, LoopExists
  <2>3. \E f : Eq(f)
    <3> HIDE DEF D, T, out, next, Eq
    <3> QED
      BY <1>4, <2>2
  <2> HIDE DEF D, T, out, next, Eq
  <2> QED
    BY <1>4, <2>3
<1>6. I \in SUBSET D /\ Top \in I /\ high \in [I -> Nat] /\ low \in [I -> Nat]
  BY WidthFalls, Zenon
<1>7. GoesOn(I, T, next, high, low)
  <2> SUFFICES ASSUME NEW p \in I, p \notin T
               PROVE  next[p] \in I /\ high[next[p]] < high[p]
    BY DEF GoesOn
  <2>1. p \in D /\ GoesDown(t, p, first, last)
    OBVIOUS
  <2>2. next[p] \in D /\ next[p] \in I /\ Kid(t, p, next[p])
    BY <1>3, <2>1
  <2>3. Width(t, size)[next[p]] < Width(t, size)[p]
    BY <2>1, <2>2, WidthFalls
  <2> QED
    BY <2>2, <2>3
<1>8. \E p \in I \cap T : g[Top] = out[p]
  <2> HIDE DEF I, D, T, out, next, high, low, g
  <2> QED
    BY <1>5, <1>6, <1>7, LoopEnds
<1>9. PICK p \in I \cap T : g[Top] = out[p]
  BY <1>8
<1> QED
  BY <1>1, <1>9

(* The tree u that a range makes of t: its blocks are those of t and one   *)
(* for the range. Where the range does not overlap a block, all blocks of  *)
(* t are in u, and one of u has the range.                                 *)
Added(t, u, ok, n, size, l, first, last, fixed) ==
  /\ Shape(u, IF ok THEN n + 1 ELSE n, size) /\ InLine(u)
  /\ ~ ok => u = t
  /\ \A b \in Ids(u) : \/ b \in Ids(t) /\ u.block[b] = t.block[b]
                       \/ b = n /\ u.block[b] = NewBlock(l, first, last, fixed)
  /\ first <= last /\ (\A b \in Ids(t) : ~ Overlap(t.block[b], first, last)) =>
       /\ ok /\ Ids(t) \subseteq Ids(u) /\ \A b \in Ids(t) : u.block[b] = t.block[b]
       /\ \E b \in Ids(u) : SameRange(u.block[b], first, last)

(* A tree that stays the same, with a block for the range.                 *)
LEMMA SameAdded ==
  ASSUME NEW t, NEW n, NEW size, Shape(t, n, size), InLine(t), NEW l,
         NEW first \in Int, NEW last \in Int, NEW fixed, NEW ok \in BOOLEAN,
         first <= last => \/ ok /\ \E b \in Ids(t) : SameRange(t.block[b], first, last)
                          \/ \E b \in Ids(t) : Overlap(t.block[b], first, last)
  PROVE  Added(t, t, ok, n, size, l, first, last, fixed)
<1>1. Shape(t, n + 1, size)
  <2>1. Blocks(t, n, size) /\ n \in Nat
    BY DEF Shape, Blocks
  <2>2. 0..(n - 1) \subseteq 0..(n + 1 - 1) /\ n + 1 \in Nat
    BY <2>1
  <2>3. Blocks(t, n + 1, size)
    BY <2>1, <2>2 DEF Blocks
  <2> QED
    BY <2>3 DEF Shape
<1> QED
  BY <1>1 DEF Added

(* The tree with a new block for the range.                                *)
LEMMA WrapAdded ==
  ASSUME NEW t, NEW n, NEW size, Shape(t, n, size), InLine(t), NEW l,
         NEW first \in Int, NEW last \in Int, NEW fixed, 0 <= first, first <= last, last < size,
         NEW p \in Ids(t) \cup {Top}, NEW i, NEW j,
         Fits(t, p, i, j, NewBlock(l, first, last, fixed))
  PROVE  Added(t, Wrap(t, p, i, j, n, NewBlock(l, first, last, fixed)), TRUE,
               n, size, l, first, last, fixed)
<1> DEFINE new == NewBlock(l, first, last, fixed)
           u == Wrap(t, p, i, j, n, new)
<1>1. IsBlock(new, size) /\ new.first = first /\ new.last = last
  BY DEF IsBlock, NewBlock
<1>0. Fits(t, p, i, j, new)
  OBVIOUS
<1> HIDE DEF new
<1>2. /\ Shape(u, n + 1, size) /\ InLine(u)
      /\ n \notin Ids(t) /\ Ids(u) = Ids(t) \cup {n} /\ u.block[n] = new
      /\ \A b \in Ids(t) : u.block[b] = t.block[b]
  BY <1>0, <1>1, WrapShape
<1> HIDE DEF u
<1>3. SameRange(u.block[n], first, last) /\ n \in Ids(u)
  BY <1>1, <1>2 DEF SameRange
<1>4. Added(t, u, TRUE, n, size, l, first, last, fixed)
  BY <1>2, <1>3 DEF Added, new
<1> QED
  BY <1>4 DEF u, new

(* The tree with a list that is cut off, because of an overlap.            *)
LEMMA CutAdded ==
  ASSUME NEW t, NEW n, NEW size, Shape(t, n, size), InLine(t), NEW l,
         NEW first \in Int, NEW last \in Int, NEW fixed,
         NEW p \in Ids(t) \cup {Top}, NEW k \in 0..Len(t.kids[p]),
         \E b \in Ids(t) : Overlap(t.block[b], first, last)
  PROVE  Added(t, WithList(t, p, SubSeq(t.kids[p], 1, k)), TRUE, n, size, l, first, last, fixed)
<1> DEFINE u == WithList(t, p, SubSeq(t.kids[p], 1, k))
<1>1. /\ Shape(u, n, size)
      /\ Ids(u) \subseteq Ids(t) /\ \A b \in Ids(u) : u.block[b] = t.block[b]
      /\ \A q \in Ids(u) \cup {Top} :
           DOMAIN u.kids[q] \subseteq DOMAIN t.kids[q]
           /\ \A i \in DOMAIN u.kids[q] : u.kids[q][i] = t.kids[q][i]
  BY CutShape
<1> HIDE DEF u
<1>2. InLine(u)
  <2> SUFFICES ASSUME NEW q \in Ids(u) \cup {Top}, NEW i \in DOMAIN u.kids[q], NEW j \in DOMAIN u.kids[q],
                      i < j
               PROVE  u.block[u.kids[q][i]].last < u.block[u.kids[q][j]].first
    BY DEF InLine
  <2>1. u.kids[q][i] = t.kids[q][i] /\ u.kids[q][j] = t.kids[q][j]
        /\ i \in DOMAIN t.kids[q] /\ j \in DOMAIN t.kids[q] /\ q \in Ids(t) \cup {Top}
    BY <1>1
  <2>2. u.kids[q][i] \in Ids(u) /\ u.kids[q][j] \in Ids(u)
    BY <1>1, BlocksFacts DEF Shape
  <2>3. t.block[t.kids[q][i]].last < t.block[t.kids[q][j]].first
    BY <2>1 DEF InLine
  <2> QED
    BY <1>1, <2>1, <2>2, <2>3
<1>4. Shape(u, n + 1, size)
  <2>1. Blocks(u, n, size) /\ n \in Nat
    BY <1>1 DEF Shape, Blocks
  <2>2. 0..(n - 1) \subseteq 0..(n + 1 - 1) /\ n + 1 \in Nat
    BY <2>1
  <2>3. Blocks(u, n + 1, size)
    BY <2>1, <2>2 DEF Blocks
  <2> QED
    BY <1>1, <2>3 DEF Shape
<1>5. Added(t, u, TRUE, n, size, l, first, last, fixed)
  BY <1>1, <1>2, <1>4 DEF Added
<1> QED
  BY <1>5 DEF u

(* bddtree_addrange.                                                       *)
LEMMA AddRangeFacts ==
  ASSUME NEW t, NEW n, NEW size, Shape(t, n, size), InLine(t), NEW l,
         NEW first \in Int, NEW last \in Int, NEW fixed, 0 <= first, last < size
  PROVE  LET a == AddRange(t, l, first, last, fixed, n) IN
         a.ok \in BOOLEAN /\ Added(t, a.tree, a.ok, n, size, l, first, last, fixed)
<1> DEFINE Goal(a) == a.ok \in BOOLEAN /\ Added(t, a.tree, a.ok, n, size, l, first, last, fixed)
           new == NewBlock(l, first, last, fixed)
<1>1. PICK p \in Ids(t) \cup {Top} :
        /\ Place(t, first, last) = [list |-> p, at |-> StopsAt(t, t.kids[p], first)]
        /\ ~ GoesDown(t, p, first, last)
        /\ p # Top => Within(t.block[p], first, last) /\ ~ SameRange(t.block[p], first, last)
  BY PlaceFacts
<1>2. PICK L : L = t.kids[p]
  OBVIOUS
<1>3. PICK i : i = StopsAt(t, L, first)
  OBVIOUS
<1>4. /\ i \in Int /\ 1 <= i /\ i <= Len(L) + 1
      /\ \A h \in 1..(i - 1) : t.block[L[h]].last < first
      /\ i <= Len(L) => L[i] \in Ids(t) /\ first <= t.block[L[i]].last
  BY <1>2, <1>3, StopsAtFacts
<1>5. /\ Len(L) \in Nat /\ DOMAIN L = 1..Len(L) /\ \A h \in 1..Len(L) : L[h] \in Ids(t)
      /\ \A b \in Ids(t) : /\ t.block[b].first \in Int /\ t.block[b].last \in Int
                           /\ t.block[b].first <= t.block[b].last
  BY <1>2, BlocksFacts DEF Shape
<1>6. \A g, h \in 1..Len(L) : g < h => t.block[L[g]].last < t.block[L[h]].first
  BY <1>2, <1>5 DEF InLine
<1>7. new.first = first /\ new.last = last
  BY DEF NewBlock
<1>8. p # Top => /\ t.block[p].first <= first /\ last <= t.block[p].last
                 /\ ~ SameRange(new, t.block[p].first, t.block[p].last)
  BY <1>1, <1>7 DEF Within, SameRange
<1>9. PICK b : b = t.block[L[i]]
  OBVIOUS
<1>10. PICK j : j = RunEnd(t, L, i, last)
  OBVIOUS
<1> DEFINE partly == \/ first > b.first
                     \/ \E k \in i..j : t.block[L[k]].first <= last /\ last < t.block[L[k]].last
           null == IF p = Top /\ i = 1 THEN [ok |-> FALSE, tree |-> t]
                   ELSE [ok |-> TRUE, tree |-> WithList(t, p, SubSeq(L, 1, i - 1))]
           refused == [ok |-> FALSE, tree |-> t]
           same == [ok |-> TRUE, tree |-> t]
           single == [ok |-> TRUE, tree |-> Wrap(t, p, i, i - 1, n, new)]
           around == [ok |-> TRUE, tree |-> Wrap(t, p, i, j, n, new)]
           a == AddRange(t, l, first, last, fixed, n)
<1>11. a = IF first < 0 \/ last < first THEN refused
           ELSE IF i <= Len(L) /\ SameRange(b, first, last) THEN same
           ELSE IF i > Len(L) \/ last < b.first THEN single
           ELSE IF partly THEN null ELSE around
  BY <1>1, <1>2, <1>3, <1>9, <1>10 DEF AddRange
<1> HIDE DEF new, a
<1>12. CASE last < first
  <2>0. Added(t, t, FALSE, n, size, l, first, last, fixed)
    <3>1. ~ (first <= last)
      BY <1>12
    <3> QED
      BY <3>1, SameAdded
  <2>1. Goal(refused)
    BY <2>0
  <2> HIDE DEF refused, single, same, around, null, partly, Goal
  <2>2. a = refused
    BY <1>11, <1>12
  <2> QED
    BY <2>1, <2>2 DEF Goal, a
<1>13. CASE ~ (last < first) /\ i > Len(L)
  <2>1. i = Len(L) + 1
    BY <1>4, <1>5, <1>13
  <2>2. Fits(t, p, i, i - 1, new)
    BY <1>2, <1>4, <1>5, <1>7, <1>8, <2>1 DEF Fits
  <2>5. Added(t, Wrap(t, p, i, i - 1, n, new), TRUE, n, size, l, first, last, fixed)
    <3>1. first <= last
      BY <1>13
    <3> QED
      BY <2>2, <3>1, WrapAdded DEF new
  <2>3. Goal(single)
    BY <2>5
  <2> HIDE DEF refused, single, same, around, null, partly, Goal
  <2>4. a = single
    BY <1>4, <1>5, <1>11, <1>13
  <2> QED
    BY <2>3, <2>4 DEF Goal, a
<1>14. CASE ~ (last < first) /\ i <= Len(L)
  <2>1. L[i] \in Ids(t) /\ first <= b.last /\ b.first \in Int /\ b.last \in Int /\ b.first <= b.last
        /\ i \in 1..Len(L)
    BY <1>4, <1>5, <1>9, <1>14
  <2>2. ~ Within(b, first, last) \/ SameRange(b, first, last)
    BY <1>1, <1>2, <1>3, <1>9, <1>14 DEF GoesDown
  <2>3. CASE SameRange(b, first, last)
    <3>1. Goal(same)
      BY <1>9, <2>1, <2>3, SameAdded
    <3> HIDE DEF refused, single, same, around, null, partly, Goal
    <3>2. a = same
      BY <1>4, <1>5, <1>11, <1>14, <2>3
    <3> QED
      BY <3>1, <3>2 DEF Goal, a
  <2>4. CASE ~ SameRange(b, first, last) /\ last < b.first
    <3>1. \A h \in i..Len(L) : last < t.block[L[h]].first
      <4> SUFFICES ASSUME NEW h \in i..Len(L) PROVE last < t.block[L[h]].first
        OBVIOUS
      <4>1. h \in 1..Len(L) /\ (h = i \/ i < h) /\ t.block[L[h]].first \in Int
        BY <1>4, <1>5
      <4>2. i < h => b.last < t.block[L[h]].first
        BY <1>6, <1>9, <2>1, <4>1
      <4> QED
        BY <1>9, <2>1, <2>4, <4>1, <4>2
    <3>2. Fits(t, p, i, i - 1, new)
      <4>1. i - 1 \in Int /\ i - 1 <= Len(L) /\ i - 1 + 1 = i /\ i..(i - 1) = {}
        BY <1>4, <1>5
      <4> QED
        BY <1>2, <1>4, <1>7, <1>8, <3>1, <4>1 DEF Fits
    <3>5. Added(t, Wrap(t, p, i, i - 1, n, new), TRUE, n, size, l, first, last, fixed)
      <4>1. first <= last
        BY <1>14
      <4> QED
        BY <3>2, <4>1, WrapAdded DEF new
    <3>3. Goal(single)
      BY <3>5
    <3> HIDE DEF refused, single, same, around, null, partly, Goal
    <3>4. a = single
      BY <1>4, <1>5, <1>11, <1>14, <2>4
    <3> QED
      BY <3>3, <3>4 DEF Goal, a
  <2>5. CASE ~ SameRange(b, first, last) /\ ~ (last < b.first)
    <3>1. /\ j \in i..Len(L)
          /\ j < Len(L) => last < t.block[L[j + 1]].first
          /\ \A h \in (i + 1)..j : t.block[L[h]].first <= last
      BY <1>5, <1>10, <2>1, RunEndFacts
    <3>2. \A h \in i..j : h \in 1..Len(L) /\ L[h] \in Ids(t) /\ (h = i \/ (i < h /\ h \in (i + 1)..j))
      BY <1>4, <1>5, <3>1
    <3>3. \A h \in i..j : i < h => b.last < t.block[L[h]].first
      BY <1>6, <1>9, <2>1, <3>2
    <3>4. a = IF partly THEN null ELSE around
      <4> HIDE DEF refused, single, same, around, null, partly
      <4> QED
        BY <1>4, <1>5, <1>11, <1>14, <2>5
    <3>5. CASE partly
      <4>1. \E c \in Ids(t) : Overlap(t.block[c], first, last)
        <5>1. b.first < first \/ b.first = first \/ first < b.first
          BY <2>1
        <5>2. CASE b.first < first
          <6>1. b.last < last
            BY <2>1, <2>2, <2>5, <5>2 DEF Within
          <6> QED
            BY <1>9, <2>1, <5>2, <6>1 DEF Overlap
        <5>3. CASE ~ (b.first < first)
          <6>1. PICK k \in i..j : t.block[L[k]].first <= last /\ last < t.block[L[k]].last
            BY <2>1, <3>5, <5>3
          <6>2. CASE k = i
            <7>1. b.first # first
              BY <1>9, <2>1, <2>2, <2>5, <6>1, <6>2 DEF Within
            <7>2. first < b.first
              BY <2>1, <5>3, <7>1
            <7> QED
              BY <1>9, <2>1, <6>1, <6>2, <7>2 DEF Overlap
          <6>3. CASE k # i
            <7>1. L[k] \in Ids(t) /\ b.last < t.block[L[k]].first /\ t.block[L[k]].first \in Int
              BY <1>5, <3>2, <3>3, <6>3
            <7>2. first < t.block[L[k]].first
              BY <2>1, <7>1
            <7> QED
              BY <6>1, <7>1, <7>2 DEF Overlap
          <6> QED
            BY <6>2, <6>3
        <5> QED
          BY <5>2, <5>3
      <4>2. CASE p = Top /\ i = 1
        <5>1. Goal(refused)
          BY <4>1, SameAdded
        <5>2. a = refused
          BY <3>4, <3>5, <4>2
        <5> HIDE DEF refused, Goal
        <5> QED
          BY <5>1, <5>2 DEF Goal, a
      <4>3. CASE ~ (p = Top /\ i = 1)
        <5> DEFINE cut == [ok |-> TRUE, tree |-> WithList(t, p, SubSeq(L, 1, i - 1))]
        <5>1. i - 1 \in 0..Len(L)
          BY <1>4, <1>5
        <5>2. Added(t, WithList(t, p, SubSeq(L, 1, i - 1)), TRUE, n, size, l, first, last, fixed)
          BY <1>2, <4>1, <5>1, CutAdded
        <5>3. Goal(cut)
          BY <5>2
        <5>4. a = cut
          BY <3>4, <3>5, <4>3
        <5> HIDE DEF cut, Goal
        <5> QED
          BY <5>3, <5>4 DEF Goal, a
      <4> QED
        BY <4>2, <4>3
    <3>6. CASE ~ partly
      <4>1. \A h \in i..j : /\ first <= t.block[L[h]].first /\ t.block[L[h]].last <= last
                            /\ ~ SameRange(t.block[L[h]], first, last)
        <5> SUFFICES ASSUME NEW h \in i..j
                     PROVE  /\ first <= t.block[L[h]].first /\ t.block[L[h]].last <= last
                            /\ ~ SameRange(t.block[L[h]], first, last)
          OBVIOUS
        <5>1. ~ (t.block[L[h]].first <= last /\ last < t.block[L[h]].last) /\ ~ (first > b.first)
          BY <3>6
        <5>2. /\ L[h] \in Ids(t) /\ t.block[L[h]].first \in Int /\ t.block[L[h]].last \in Int
              /\ (h = i \/ (i < h /\ h \in (i + 1)..j))
          BY <1>5, <3>2
        <5>3. CASE h = i
          BY <1>9, <2>1, <2>5, <5>1, <5>2, <5>3
        <5>4. CASE h # i
          <6>1. b.last < t.block[L[h]].first /\ t.block[L[h]].first <= last
            BY <3>1, <3>3, <5>2, <5>4
          <6>2. first < t.block[L[h]].first
            BY <2>1, <5>2, <6>1
          <6> QED
            BY <5>1, <5>2, <6>1, <6>2 DEF SameRange
        <5> QED
          BY <5>3, <5>4
      <4>2. \A h \in (j + 1)..Len(L) : last < t.block[L[h]].first
        <5> SUFFICES ASSUME NEW h \in (j + 1)..Len(L) PROVE last < t.block[L[h]].first
          OBVIOUS
        <5>1. /\ j + 1 \in 1..Len(L) /\ h \in 1..Len(L) /\ (h = j + 1 \/ j + 1 < h)
              /\ last < t.block[L[j + 1]].first
          BY <1>4, <1>5, <3>1
        <5>2. j + 1 < h => t.block[L[j + 1]].last < t.block[L[h]].first
          BY <1>6, <5>1
        <5>3. /\ t.block[L[j + 1]].first \in Int /\ t.block[L[j + 1]].last \in Int
              /\ t.block[L[j + 1]].first <= t.block[L[j + 1]].last /\ t.block[L[h]].first \in Int
          BY <1>5, <5>1
        <5> QED
          BY <5>1, <5>2, <5>3
      <4>3. j \in Int /\ i - 1 <= j /\ j <= Len(L)
        BY <1>4, <1>5, <3>1
      <4>4. Fits(t, p, i, j, new)
        BY <1>2, <1>4, <1>7, <1>8, <4>1, <4>2, <4>3 DEF Fits
      <4>7. Added(t, Wrap(t, p, i, j, n, new), TRUE, n, size, l, first, last, fixed)
        <5>1. first <= last
          BY <1>14
        <5> QED
          BY <4>4, <5>1, WrapAdded DEF new
      <4>5. Goal(around)
        BY <4>7
      <4>6. a = around
        BY <3>4, <3>6
      <4> HIDE DEF around, Goal
      <4> QED
        BY <4>5, <4>6 DEF Goal, a
    <3> QED
      BY <3>5, <3>6
  <2> QED
    BY <2>3, <2>4, <2>5
<1> QED
  BY <1>4, <1>5, <1>12, <1>13, <1>14

-----------------------------------------------------------------------------
(* Orders of the variables.                                                *)

(* The variables, and the levels, are numbered from zero.                  *)
LEMMA VarsRange ==
  /\ N \in Nat /\ N >= 2
  /\ \A k : k \in Vars <=> k \in Int /\ 0 <= k /\ k < N
<1>1. N \in Nat /\ N >= 2
  BY BlockOrderVars
<1> QED
  BY <1>1 DEF Vars

(* An order has a variable at every level, and one only.                   *)
LEMMA LevelingFacts ==
  ASSUME NEW l \in Levelings
  PROVE  /\ N \in Nat /\ N >= 2
         /\ l \in [Vars -> Vars]
         /\ \A v \in Vars : l[v] \in Vars /\ l[v] \in Int /\ 0 <= l[v] /\ l[v] < N
         /\ \A v, w \in Vars : l[v] = l[w] => v = w
         /\ \A k \in Vars : \E v \in Vars : l[v] = k
<1>1. N \in Nat /\ N >= 2
  BY BlockOrderVars
<1>2. l \in [Vars -> Vars] /\ \A v, w \in Vars : l[v] = l[w] => v = w
  BY DEF Levelings
<1>3. l \in Injection(Vars, Vars)
  BY <1>2 DEF Injection, IsInjective
<1>4. IsFiniteSet(Vars)
  BY <1>1, FS_Interval DEF Vars
<1>5. l \in Surjection(Vars, Vars)
  BY <1>3, <1>4, FS_Injection
<1>6. \A k \in Vars : \E v \in Vars : l[v] = k
  BY <1>5 DEF Surjection
<1>7. \A v \in Vars : l[v] \in Vars /\ l[v] \in Int /\ 0 <= l[v] /\ l[v] < N
  BY <1>2, VarsRange
<1> QED
  BY <1>1, <1>2, <1>6, <1>7

(* Two orders that agree about every two variables are the same.           *)
LEMMA SameOrder ==
  ASSUME NEW l \in Levelings, NEW m \in Levelings,
         \A u, w \in Vars : l[u] < l[w] => m[u] < m[w]
  PROVE  l = m
<1> DEFINE Bad == {v \in Vars : l[v] # m[v]}
           rank == [v \in Vars |-> l[v]]
<1>1. /\ \A v \in Vars : l[v] \in Vars /\ l[v] \in Nat
      /\ \A v, w \in Vars : l[v] = l[w] => v = w
      /\ \A k \in Vars : \E v \in Vars : l[v] = k
  BY LevelingFacts
<1>11. /\ \A v \in Vars : m[v] \in Vars /\ m[v] \in Nat
       /\ \A v, w \in Vars : m[v] = m[w] => v = w
       /\ \A k \in Vars : \E v \in Vars : m[v] = k
  BY LevelingFacts
<1>2. Bad = {}
  <2> SUFFICES ASSUME Bad # {} PROVE FALSE
    OBVIOUS
  <2>1. rank \in [Vars -> Nat] /\ Bad \in SUBSET Vars
    BY <1>1
  <2>2. PICK v \in Bad : \A w \in Bad : ~ (rank[w] < rank[v])
    <3> HIDE DEF rank, Bad
    <3> QED
      BY <2>1, LeastRank
  <2>3. v \in Vars /\ l[v] # m[v] /\ \A w \in Vars : l[w] < l[v] => l[w] = m[w]
    BY <2>2
  <2> HIDE DEF rank, Bad
  <2>4. CASE m[v] < l[v]
    <3>1. PICK u \in Vars : l[u] = m[v]
      BY <1>1, <1>11, <2>3
    <3>2. m[u] = m[v]
      BY <2>3, <2>4, <3>1
    <3> QED
      BY <1>11, <2>3, <3>1, <3>2
  <2>5. CASE l[v] < m[v]
    <3>1. PICK u \in Vars : m[u] = l[v]
      BY <1>1, <1>11, <2>3
    <3>2. u # v
      BY <3>1, <2>3
    <3>3. ~ (l[u] < l[v])
      BY <2>3, <3>1, <1>1, <3>2
    <3>4. l[u] # l[v] /\ l[u] \in Nat /\ l[v] \in Nat
      BY <1>1, <3>2, <2>3
    <3>5. l[v] < l[u]
      BY <3>3, <3>4
    <3>6. m[v] < m[u]
      BY <3>5, <2>3
    <3>7. m[v] \in Nat /\ m[u] \in Nat
      BY <1>11, <2>3
    <3> QED
      BY <2>5, <3>1, <3>6, <3>7
  <2>6. l[v] \in Nat /\ m[v] \in Nat
    BY <1>1, <1>11, <2>3
  <2> QED
    BY <2>6, <2>3, <2>4, <2>5
<1>3. \A v \in Vars : l[v] = m[v]
  BY <1>2
<1>4. l \in [Vars -> Vars] /\ m \in [Vars -> Vars]
  BY LevelingFacts
<1> QED
  BY <1>3, <1>4

(* A variable that can go down changes places with the one below it.       *)
LEMMA VarDownSwaps ==
  ASSUME NEW l \in Levelings, NEW v \in Vars
  PROVE  /\ VarDown(l, v) \in Levelings
         /\ l[v] < N - 1 =>
              \E w \in Vars : /\ l[w] = l[v] + 1 /\ w # v
                              /\ VarDown(l, v)[v] = l[v] + 1 /\ VarDown(l, v)[w] = l[v]
                              /\ \A u \in Vars \ {v, w} : VarDown(l, v)[u] = l[u]
<1>1. /\ N \in Nat /\ l \in [Vars -> Vars]
      /\ \A u \in Vars : l[u] \in Vars /\ l[u] \in Int /\ 0 <= l[u] /\ l[u] < N
      /\ \A u, w \in Vars : l[u] = l[w] => u = w
      /\ \A k \in Vars : \E u \in Vars : l[u] = k
  BY LevelingFacts
<1>2. CASE l[v] = N - 1
  <2>2. VarDown(l, v) = l
    BY <1>2 DEF VarDown
  <2> QED
    BY <1>2, <2>2, <1>1
<1>3. CASE l[v] # N - 1
  <2>0. N \in Nat /\ l[v] \in Int /\ 0 <= l[v] /\ l[v] < N
    BY <1>1
  <2>1. l[v] < N - 1 /\ l[v] + 1 \in Vars
    BY <2>0, <1>3, VarsRange
  <2>2. PICK w \in Vars : l[w] = l[v] + 1
    BY <1>1, <2>1
  <2>3. w # v
    BY <1>1, <2>2
  <2> DEFINE d == VarDown(l, v)
  <2>4. d = [u \in Vars |-> IF u = v THEN l[v] + 1 ELSE IF u = w THEN l[v] ELSE l[u]]
    <3>1. \A u \in Vars : l[u] = l[v] + 1 <=> u = w
      BY <1>1, <2>2
    <3> QED
      BY <1>3, <2>3, <3>1 DEF VarDown
  <2>5. d[v] = l[v] + 1 /\ d[w] = l[v] /\ \A u \in Vars \ {v, w} : d[u] = l[u]
    BY <2>3, <2>4
  <2>6. d \in [Vars -> Vars]
    BY <1>1, <2>1, <2>4
  <2> HIDE DEF d
  <2>7. \A u, x \in Vars : d[u] = d[x] => u = x
    <3>1. \A u \in Vars : d[u] = IF u = v THEN l[v] + 1 ELSE IF u = w THEN l[v] ELSE l[u]
      BY <2>4
    <3> QED
      BY <1>1, <2>2, <2>3, <3>1
  <2>8. d \in Levelings
    BY <2>6, <2>7 DEF Levelings
  <2> QED
    BY <2>1, <2>2, <2>3, <2>5, <2>8 DEF d
<1> QED
  BY <1>2, <1>3

(* A variable that can go up changes places with the one above it.         *)
LEMMA VarUpSwaps ==
  ASSUME NEW l \in Levelings, NEW v \in Vars
  PROVE  /\ VarUp(l, v) \in Levelings
         /\ l[v] > 0 =>
              \E w \in Vars : /\ l[w] = l[v] - 1 /\ w # v
                              /\ VarUp(l, v)[v] = l[v] - 1 /\ VarUp(l, v)[w] = l[v]
                              /\ \A u \in Vars \ {v, w} : VarUp(l, v)[u] = l[u]
<1>1. /\ N \in Nat /\ l \in [Vars -> Vars]
      /\ \A u \in Vars : l[u] \in Vars /\ l[u] \in Int /\ 0 <= l[u] /\ l[u] < N
      /\ \A u, w \in Vars : l[u] = l[w] => u = w
      /\ \A k \in Vars : \E u \in Vars : l[u] = k
  BY LevelingFacts
<1>2. CASE l[v] = 0
  <2>2. VarUp(l, v) = l
    BY <1>2 DEF VarUp
  <2> QED
    BY <1>2, <2>2, <1>1
<1>3. CASE l[v] # 0
  <2>0. N \in Nat /\ l[v] \in Int /\ 0 <= l[v] /\ l[v] < N
    BY <1>1
  <2>1. l[v] > 0 /\ l[v] - 1 \in Vars
    BY <2>0, <1>3, VarsRange
  <2>2. PICK w \in Vars : l[w] = l[v] - 1
    BY <1>1, <2>1
  <2>3. w # v
    BY <1>1, <2>2
  <2> DEFINE d == VarUp(l, v)
  <2>4. d = [u \in Vars |-> IF u = v THEN l[v] - 1 ELSE IF u = w THEN l[v] ELSE l[u]]
    <3>1. \A u \in Vars : l[u] = l[v] - 1 <=> u = w
      BY <1>1, <2>2
    <3> QED
      BY <1>3, <2>3, <3>1 DEF VarUp
  <2>5. d[v] = l[v] - 1 /\ d[w] = l[v] /\ \A u \in Vars \ {v, w} : d[u] = l[u]
    BY <2>3, <2>4
  <2>6. d \in [Vars -> Vars]
    BY <1>1, <2>1, <2>4
  <2> HIDE DEF d
  <2>7. \A u, x \in Vars : d[u] = d[x] => u = x
    <3>1. \A u \in Vars : d[u] = IF u = v THEN l[v] - 1 ELSE IF u = w THEN l[v] ELSE l[u]
      BY <2>4
    <3> QED
      BY <1>1, <2>2, <2>3, <3>1
  <2>8. d \in Levelings
    BY <2>6, <2>7 DEF Levelings
  <2> QED
    BY <2>1, <2>2, <2>3, <2>5, <2>8 DEF d
<1> QED
  BY <1>2, <1>3

(* First loop of bdd_swapvar: v1 ends at the level v2 had, and what was    *)
(* between them has moved up.                                              *)
LEMMA UpperDownMoves ==
  ASSUME NEW l \in Levelings, NEW v1 \in Vars, NEW v2 \in Vars, l[v1] < l[v2]
  PROVE  /\ UpperDown(l, v1, v2) \in Levelings
         /\ UpperDown(l, v1, v2)[v1] = l[v2]
         /\ \A w \in Vars \ {v1} : UpperDown(l, v1, v2)[w] =
              IF l[v1] < l[w] /\ l[w] <= l[v2] THEN l[w] - 1 ELSE l[w]
<1> DEFINE Eq(f) == f = [m \in Levelings |-> IF m[v1] < l[v2] THEN f[VarDown(m, v1)] ELSE m]
           T == {m \in Levelings : ~ (m[v1] < l[v2])}
           out == [m \in Levelings |-> m]
           next == [m \in Levelings |-> VarDown(m, v1)]
           g == CHOOSE f : Eq(f)
           I == {m \in Levelings :
                   /\ l[v1] <= m[v1] /\ m[v1] <= l[v2]
                   /\ \A w \in Vars \ {v1} :
                        m[w] = IF l[v1] < l[w] /\ l[w] <= m[v1] THEN l[w] - 1 ELSE l[w]}
           high == [m \in I |-> l[v2] - m[v1]]
           low  == [m \in I |-> 0]
<1>1. \A m \in Levelings : VarDown(m, v1) \in Levelings
  BY VarDownSwaps
<1>2. \A f : Eq(f) <=> IsLoop(f, Levelings, T, out, next)
  BY DEF IsLoop
<1>3. \E f : Eq(f)
  <2>1. out \in [Levelings -> Levelings] /\ next \in [Levelings -> Levelings]
    BY <1>1
  <2>2. \E f : IsLoop(f, Levelings, T, out, next)
    <3> HIDE DEF T, out, next
    <3> QED
      BY <2>1, LoopExists
  <2> HIDE DEF T, out, next, Eq
  <2> QED
    BY <1>2, <2>2
<1>4. IsLoop(g, Levelings, T, out, next)
  <2> HIDE DEF T, out, next, Eq
  <2> QED
    BY <1>2, <1>3
<1>5. UpperDown(l, v1, v2) = g[l]
  BY DEF UpperDown
<1>6. /\ \A v \in Vars : l[v] \in Vars /\ l[v] \in Int /\ 0 <= l[v] /\ l[v] < N
      /\ \A v, w \in Vars : l[v] = l[w] => v = w
      /\ N \in Nat
  BY LevelingFacts
<1>7. \A m \in Levelings : \A v \in Vars : m[v] \in Int /\ 0 <= m[v] /\ m[v] < N
  BY LevelingFacts
<1>8. I \in SUBSET Levelings /\ high \in [I -> Nat] /\ low \in [I -> Nat]
  BY <1>6, <1>7
<1>9. l \in I
  BY <1>6
<1>10. ASSUME NEW m \in I, m \notin T
       PROVE  next[m] \in I /\ high[next[m]] < high[m]
  <2>1. m \in Levelings /\ m[v1] < l[v2] /\ l[v1] <= m[v1]
    BY <1>10
  <2>2. m[v1] < N - 1
    BY <2>1, <1>6, <1>7
  <2>3. PICK w \in Vars : /\ m[w] = m[v1] + 1 /\ w # v1
                          /\ VarDown(m, v1)[v1] = m[v1] + 1 /\ VarDown(m, v1)[w] = m[v1]
                          /\ \A u \in Vars \ {v1, w} : VarDown(m, v1)[u] = m[u]
    BY <2>1, <2>2, VarDownSwaps
  <2> DEFINE d == VarDown(m, v1)
  <2>4. d \in Levelings /\ next[m] = d /\ d[v1] = m[v1] + 1 /\ d[w] = m[v1]
        /\ \A u \in Vars \ {v1, w} : d[u] = m[u]
    BY <1>1, <2>1, <2>3
  <2> HIDE DEF d
  <2>5. m[w] = l[w] /\ l[w] = m[v1] + 1
    <3>1. m[w] = IF l[v1] < l[w] /\ l[w] <= m[v1] THEN l[w] - 1 ELSE l[w]
      BY <2>3
    <3>2. m[w] = m[v1] + 1 /\ m[v1] \in Int /\ l[w] \in Int
      BY <2>3, <1>6, <1>7, <2>1
    <3> QED
      BY <3>1, <3>2
  <2>6. ASSUME NEW u \in Vars \ {v1}
        PROVE  d[u] = IF l[v1] < l[u] /\ l[u] <= d[v1] THEN l[u] - 1 ELSE l[u]
    <3>1. CASE u = w
      BY <3>1, <2>4, <2>5, <2>1, <1>6, <1>7
    <3>2. CASE u # w
      <4>1. d[u] = m[u] /\ m[u] = IF l[v1] < l[u] /\ l[u] <= m[v1] THEN l[u] - 1 ELSE l[u]
        BY <3>2, <2>4
      <4>2. l[u] # m[v1] + 1
        BY <3>2, <2>5, <1>6
      <4>3. l[u] \in Int /\ m[v1] \in Int
        BY <1>6, <1>7, <2>1
      <4> QED
        BY <4>1, <4>2, <4>3, <2>4
    <3> QED
      BY <3>1, <3>2
  <2>7. l[v1] <= d[v1] /\ d[v1] <= l[v2]
    BY <2>1, <2>4, <1>6, <1>7
  <2>8. d \in I
    BY <2>4, <2>6, <2>7
  <2>9. high[d] = l[v2] - d[v1] /\ high[m] = l[v2] - m[v1]
    BY <2>8
  <2>10. high[d] < high[m]
    BY <2>9, <2>4, <2>1, <1>6, <1>7
  <2> QED
    BY <2>4, <2>8, <2>10
<1>11. PICK m \in I \cap T : g[l] = out[m]
  <2>1. GoesOn(I, T, next, high, low)
    BY <1>10 DEF GoesOn
  <2> HIDE DEF T, out, next, g, I, high, low, Eq
  <2> QED
    BY <2>1, <1>4, <1>8, <1>9, LoopEnds
<1>12. UpperDown(l, v1, v2) = m /\ m \in Levelings
  BY <1>5, <1>11
<1>13. m[v1] = l[v2]
  BY <1>11, <1>6, <1>7
<1> QED
  BY <1>11, <1>12, <1>13

-----------------------------------------------------------------------------
(* blockdown: the levels lo..mid of one block and mid+1..hi of the next.   *)

Upper(l, lo, mid) == {v \in Vars : lo <= l[v] /\ l[v] <= mid}
Lower(l, mid, hi) == {v \in Vars : mid < l[v] /\ l[v] <= hi}

Window(lo, mid, hi) ==
  /\ lo \in Int /\ mid \in Int /\ hi \in Int
  /\ 0 <= lo /\ lo <= mid /\ mid < hi /\ hi < N

(* The order in which the two have changed places.                         *)
Slid(l, lo, mid, hi) ==
  [v \in Vars |-> IF v \in Upper(l, lo, mid) THEN l[v] + (hi - mid)
                  ELSE IF v \in Lower(l, mid, hi) THEN l[v] - (mid + 1 - lo) ELSE l[v]]

(* On the way there neither block changes its own order, and no other      *)
(* variable moves.                                                         *)
Moving(l, m, lo, mid, hi) ==
  /\ \A u \in Vars : u \notin Upper(l, lo, mid) /\ u \notin Lower(l, mid, hi) => m[u] = l[u]
  /\ \A u, w \in Upper(l, lo, mid) : l[u] < l[w] => m[u] < m[w]
  /\ \A u, w \in Lower(l, mid, hi) : l[u] < l[w] => m[u] < m[w]

(* The variables of the two blocks that have still to pass each other.     *)
ToPass(l, m, lo, mid, hi) == {e \in Upper(l, lo, mid) \X Lower(l, mid, hi) : m[e[1]] < m[e[2]]}

(* Every variable of a window is in one of its blocks.                     *)
LEMMA WindowParts ==
  ASSUME NEW l \in Levelings, NEW lo, NEW mid, NEW hi, Window(lo, mid, hi)
  PROVE  \A v \in Vars : /\ v \in Upper(l, lo, mid) <=> lo <= l[v] /\ l[v] <= mid
                         /\ v \in Lower(l, mid, hi) <=> mid < l[v] /\ l[v] <= hi
                         /\ ~ (v \in Upper(l, lo, mid) /\ v \in Lower(l, mid, hi))
                         /\ (v \in Upper(l, lo, mid) \/ v \in Lower(l, mid, hi))
                              <=> (lo <= l[v] /\ l[v] <= hi)
<1> SUFFICES ASSUME NEW v \in Vars
             PROVE  /\ v \in Upper(l, lo, mid) <=> lo <= l[v] /\ l[v] <= mid
                    /\ v \in Lower(l, mid, hi) <=> mid < l[v] /\ l[v] <= hi
                    /\ ~ (v \in Upper(l, lo, mid) /\ v \in Lower(l, mid, hi))
                    /\ (v \in Upper(l, lo, mid) \/ v \in Lower(l, mid, hi))
                         <=> (lo <= l[v] /\ l[v] <= hi)
  OBVIOUS
<1>1. l[v] \in Int
  BY LevelingFacts
<1>2. lo \in Int /\ mid \in Int /\ hi \in Int /\ lo <= mid /\ mid < hi
  BY DEF Window
<1>3. /\ v \in Upper(l, lo, mid) <=> lo <= l[v] /\ l[v] <= mid
      /\ v \in Lower(l, mid, hi) <=> mid < l[v] /\ l[v] <= hi
  BY DEF Upper, Lower
<1> QED
  BY <1>1, <1>2, <1>3

(* Exchanging two blocks makes an order again.                             *)
LEMMA SlidIsLeveling ==
  ASSUME NEW l \in Levelings, NEW lo, NEW mid, NEW hi, Window(lo, mid, hi)
  PROVE  Slid(l, lo, mid, hi) \in Levelings
<1> DEFINE s == Slid(l, lo, mid, hi)
<1>1. lo \in Int /\ mid \in Int /\ hi \in Int /\ 0 <= lo /\ lo <= mid /\ mid < hi /\ hi < N
  BY DEF Window
<1>2. /\ N \in Nat
      /\ \A v \in Vars : l[v] \in Int /\ 0 <= l[v] /\ l[v] < N
      /\ \A v, w \in Vars : l[v] = l[w] => v = w
  BY LevelingFacts
<1>3. \A v \in Vars : s[v] = IF lo <= l[v] /\ l[v] <= mid THEN l[v] + (hi - mid)
                             ELSE IF mid < l[v] /\ l[v] <= hi THEN l[v] - (mid + 1 - lo) ELSE l[v]
  BY WindowParts DEF Slid
<1>4. s \in [Vars -> Vars]
  <2>1. \A v \in Vars : s[v] \in Int /\ 0 <= s[v] /\ s[v] < N
    BY <1>1, <1>2, <1>3
  <2>2. \A v \in Vars : s[v] \in Vars
    BY <2>1, VarsRange
  <2> QED
    BY <2>2 DEF Slid
<1>5. \A v, w \in Vars : s[v] = s[w] => v = w
  <2> SUFFICES ASSUME NEW v \in Vars, NEW w \in Vars, s[v] = s[w] PROVE l[v] = l[w]
    BY <1>2
  <2>1. l[v] \in Int /\ l[w] \in Int
    BY <1>2
  <2> QED
    BY <1>1, <1>3, <2>1
<1> QED
  BY <1>4, <1>5 DEF Levelings

(* On the way the variables of the two blocks stay at their levels.        *)
LEMMA MovingInWindow ==
  ASSUME NEW l \in Levelings, NEW m \in Levelings, NEW lo, NEW mid, NEW hi, Window(lo, mid, hi),
         Moving(l, m, lo, mid, hi), NEW u \in Vars,
         u \in Upper(l, lo, mid) \/ u \in Lower(l, mid, hi)
  PROVE  lo <= m[u] /\ m[u] <= hi
<1> SUFFICES ASSUME ~ (lo <= m[u] /\ m[u] <= hi) PROVE FALSE
  OBVIOUS
<1>1. m[u] \in Vars
  BY LevelingFacts
<1>2. PICK w \in Vars : l[w] = m[u]
  BY <1>1, LevelingFacts
<1>3. w \notin Upper(l, lo, mid) /\ w \notin Lower(l, mid, hi)
  BY <1>2, WindowParts
<1>4. m[w] = m[u]
  BY <1>2, <1>3 DEF Moving
<1>5. w = u
  BY <1>4, LevelingFacts
<1> QED
  BY <1>3, <1>5

(* A variable of the upper block that no other of it stops passes one of   *)
(* the lower block.                                                        *)
LEMMA MovingPasses ==
  ASSUME NEW l \in Levelings, NEW m \in Levelings, NEW lo, NEW mid, NEW hi, Window(lo, mid, hi),
         Moving(l, m, lo, mid, hi), NEW u \in Upper(l, lo, mid), NEW r \in Lower(l, mid, hi),
         m[u] < m[r], \A w \in Upper(l, lo, mid) : m[w] # m[u] + 1
  PROVE  /\ VarDown(m, u) \in Levelings
         /\ Moving(l, VarDown(m, u), lo, mid, hi)
         /\ ToPass(l, VarDown(m, u), lo, mid, hi) \subseteq ToPass(l, m, lo, mid, hi)
         /\ ToPass(l, VarDown(m, u), lo, mid, hi) # ToPass(l, m, lo, mid, hi)
<1> DEFINE X == Upper(l, lo, mid)
           Y == Lower(l, mid, hi)
<1>0. u \in Vars /\ r \in Vars /\ X \subseteq Vars /\ Y \subseteq Vars
  BY DEF Upper, Lower
<1>1. /\ \A v \in Vars : m[v] \in Int /\ 0 <= m[v] /\ m[v] < N
      /\ \A v, w \in Vars : m[v] = m[w] => v = w
      /\ N \in Nat
  BY LevelingFacts
<1>2. lo <= m[u] /\ m[r] <= hi
  BY <1>0, MovingInWindow
<1>3. m[u] < N - 1
  BY <1>0, <1>1
<1>4. PICK w \in Vars : /\ m[w] = m[u] + 1 /\ w # u
                        /\ VarDown(m, u)[u] = m[u] + 1 /\ VarDown(m, u)[w] = m[u]
                        /\ \A x \in Vars \ {u, w} : VarDown(m, u)[x] = m[x]
  BY <1>0, <1>3, VarDownSwaps
<1> DEFINE d == VarDown(m, u)
<1>5. d \in Levelings
  BY <1>0, VarDownSwaps
<1>6. d[u] = m[u] + 1 /\ d[w] = m[u] /\ \A x \in Vars \ {u, w} : d[x] = m[x]
  BY <1>4
<1> HIDE DEF d
<1>7. w \in Y
  <2>1. lo <= m[w] /\ m[w] <= hi
    <3>1. m[u] \in Int /\ m[r] \in Int /\ m[w] = m[u] + 1 /\ lo \in Int /\ hi \in Int
      BY <1>0, <1>1, <1>4 DEF Window
    <3> QED
      BY <1>2, <3>1
  <2> SUFFICES ASSUME w \notin Y PROVE FALSE
    OBVIOUS
  <2>2. w \notin X
    BY <1>4
  <2>3. m[w] = l[w]
    BY <2>2 DEF Moving
  <2> QED
    BY <2>1, <2>2, <2>3, WindowParts
<1>8. w \notin X /\ u \notin Y
  BY <1>0, <1>7, WindowParts
<1>9. Moving(l, d, lo, mid, hi)
  <2>1. \A x \in Vars : x \notin X /\ x \notin Y => d[x] = l[x]
    BY <1>6, <1>7 DEF Moving
  <2>2. \A x, y \in X : l[x] < l[y] => d[x] < d[y]
    <3> SUFFICES ASSUME NEW x \in X, NEW y \in X, l[x] < l[y] PROVE d[x] < d[y]
      OBVIOUS
    <3>1. m[x] < m[y] /\ m[x] \in Int /\ m[y] \in Int
      BY <1>0, <1>1 DEF Moving
    <3>2. x # w /\ y # w
      BY <1>8
    <3>3. CASE x = u
      <4>1. y # u
        BY <3>1, <3>3
      <4>2. m[y] # m[u] + 1
        OBVIOUS
      <4> QED
        BY <1>0, <1>6, <3>1, <3>2, <3>3, <4>1, <4>2
    <3>4. CASE x # u
      <4>1. d[x] = m[x]
        BY <1>0, <1>6, <3>2, <3>4
      <4>2. d[y] = m[y] \/ d[y] = m[y] + 1
        BY <1>0, <1>6, <3>2
      <4> QED
        BY <3>1, <4>1, <4>2
    <3> QED
      BY <3>3, <3>4
  <2>3. \A x, y \in Y : l[x] < l[y] => d[x] < d[y]
    <3> SUFFICES ASSUME NEW x \in Y, NEW y \in Y, l[x] < l[y] PROVE d[x] < d[y]
      OBVIOUS
    <3>1. m[x] < m[y] /\ m[x] \in Int /\ m[y] \in Int
      BY <1>0, <1>1 DEF Moving
    <3>2. x # u /\ y # u
      BY <1>8
    <3>3. CASE y = w
      <4>1. x # w /\ m[x] # m[u]
        BY <1>0, <1>1, <3>1, <3>2, <3>3
      <4>2. d[x] = m[x] /\ d[y] = m[u] /\ m[y] = m[u] + 1 /\ m[u] \in Int
        BY <1>0, <1>1, <1>4, <1>6, <3>2, <3>3, <4>1
      <4> QED
        BY <3>1, <4>1, <4>2
    <3>4. CASE y # w
      <4>1. d[y] = m[y]
        BY <1>0, <1>6, <3>2, <3>4
      <4>2. d[x] = m[x] \/ (x = w /\ d[x] = m[x] - 1)
        BY <1>0, <1>1, <1>4, <1>6, <3>2
      <4> QED
        BY <3>1, <4>1, <4>2
    <3> QED
      BY <3>3, <3>4
  <2> QED
    BY <2>1, <2>2, <2>3 DEF Moving
<1>10. \A x \in X : \A y \in Y : d[x] < d[y] => m[x] < m[y]
  <2> SUFFICES ASSUME NEW x \in X, NEW y \in Y, d[x] < d[y] PROVE m[x] < m[y]
    OBVIOUS
  <2>1. m[x] \in Int /\ m[y] \in Int /\ m[u] \in Int /\ x # w /\ y # u
    BY <1>0, <1>1, <1>8
  <2>2. d[x] = IF x = u THEN m[x] + 1 ELSE m[x]
    BY <1>0, <1>6, <2>1
  <2>3. d[y] = IF y = w THEN m[y] - 1 ELSE m[y]
    BY <1>0, <1>4, <1>6, <2>1
  <2> QED
    BY <2>1, <2>2, <2>3
<1>11. <<u, w>> \in ToPass(l, m, lo, mid, hi) /\ <<u, w>> \notin ToPass(l, d, lo, mid, hi)
  <2>1. m[u] < m[w] /\ ~ (d[u] < d[w])
    BY <1>0, <1>1, <1>4, <1>6
  <2> QED
    BY <1>7, <2>1 DEF ToPass
<1>12. ToPass(l, d, lo, mid, hi) \subseteq ToPass(l, m, lo, mid, hi)
  BY <1>10 DEF ToPass
<1> QED
  BY <1>5, <1>9, <1>11, <1>12 DEF d

(* Where no variable has to pass another the exchange is done.             *)
LEMMA MovingEnds ==
  ASSUME NEW l \in Levelings, NEW m \in Levelings, NEW lo, NEW mid, NEW hi, Window(lo, mid, hi),
         Moving(l, m, lo, mid, hi),
         \A u \in Upper(l, lo, mid) : \A w \in Lower(l, mid, hi) : m[w] < m[u]
  PROVE  m = Slid(l, lo, mid, hi)
<1> DEFINE X == Upper(l, lo, mid)
           Y == Lower(l, mid, hi)
           s == Slid(l, lo, mid, hi)
<1>1. lo \in Int /\ mid \in Int /\ hi \in Int /\ 0 <= lo /\ lo <= mid /\ mid < hi /\ hi < N
  BY DEF Window
<1>2. \A v \in Vars : l[v] \in Int /\ m[v] \in Int
  BY LevelingFacts
<1>3. s \in Levelings
  BY SlidIsLeveling
<1>4. ASSUME NEW u \in Vars, NEW w \in Vars, s[u] < s[w] PROVE m[u] < m[w]
  <2>1. l[u] \in Int /\ l[w] \in Int /\ m[u] \in Int /\ m[w] \in Int
    BY <1>2
  <2>2. s[u] = IF u \in X THEN l[u] + (hi - mid) ELSE IF u \in Y THEN l[u] - (mid + 1 - lo) ELSE l[u]
    BY DEF Slid
  <2>3. s[w] = IF w \in X THEN l[w] + (hi - mid) ELSE IF w \in Y THEN l[w] - (mid + 1 - lo) ELSE l[w]
    BY DEF Slid
  <2>4. /\ u \in X <=> lo <= l[u] /\ l[u] <= mid
        /\ u \in Y <=> mid < l[u] /\ l[u] <= hi
        /\ w \in X <=> lo <= l[w] /\ l[w] <= mid
        /\ w \in Y <=> mid < l[w] /\ l[w] <= hi
    BY WindowParts
  <2>5. u \in X \/ u \in Y => lo <= m[u] /\ m[u] <= hi
    BY MovingInWindow
  <2>6. w \in X \/ w \in Y => lo <= m[w] /\ m[w] <= hi
    BY MovingInWindow
  <2>7. ((u \in X /\ w \in X) \/ (u \in Y /\ w \in Y)) /\ l[u] < l[w] => m[u] < m[w]
    BY DEF Moving
  <2>8. u \in Y /\ w \in X => m[u] < m[w]
    OBVIOUS
  <2>9. (u \notin X /\ u \notin Y => m[u] = l[u]) /\ (w \notin X /\ w \notin Y => m[w] = l[w])
    BY DEF Moving
  <2> HIDE DEF X, Y, s
  <2> QED
    BY <1>1, <1>4, <2>1, <2>2, <2>3, <2>4, <2>5, <2>6, <2>7, <2>8, <2>9
<1> HIDE DEF s
<1>5. s = m
  BY <1>3, <1>4, SameOrder
<1> QED
  BY <1>5 DEF s

(* seq lists the variables at the levels from lo to hi.                    *)
Lists(l, seq, lo, hi) ==
  seq \in [0..(hi - lo) -> Vars] /\ \A p \in 0..(hi - lo) : l[seq[p]] = lo + p

(* How many numbers there are from zero.                                   *)
LEMMA FromZero ==
  ASSUME NEW k \in Nat
  PROVE  IsFiniteSet(0..k) /\ Cardinality(0..k) = k + 1
  BY FS_Interval

(* The first loop of blockdown: it ends, with the two blocks exchanged.    *)
LEMMA LeftPastRightSlides ==
  ASSUME NEW l \in Levelings, NEW lo, NEW mid, NEW hi, Window(lo, mid, hi),
         NEW left, Lists(l, left, lo, mid), NEW r \in Vars, l[r] = hi
  PROVE  LeftPastRight(l, left, r) = Slid(l, lo, mid, hi)
<1> DEFINE n == Cardinality(DOMAIN left) - 1
           one(m, i) == IF (i = n \/ m[left[i]] + 1 # m[left[i + 1]]) /\ m[left[i]] < m[r]
                        THEN VarDown(m, left[i]) ELSE m
           S == [level : Levelings, i : 0..n]
           Eq(f) == f = [s \in S |->
                      IF s.i = 0 /\ s.level[left[0]] >= s.level[r] THEN s.level
                      ELSE f[[level |-> one(s.level, s.i), i |-> IF s.i = n THEN 0 ELSE s.i + 1]]]
           T == {s \in S : s.i = 0 /\ s.level[left[0]] >= s.level[r]}
           out == [s \in S |-> s.level]
           next == [s \in S |-> [level |-> one(s.level, s.i), i |-> IF s.i = n THEN 0 ELSE s.i + 1]]
           g == CHOOSE f : Eq(f)
           s0 == [level |-> l, i |-> 0]
           X == Upper(l, lo, mid)
           Y == Lower(l, mid, hi)
<1>1. LeftPastRight(l, left, r) = g[s0]
  BY DEF LeftPastRight
<1>2. n = mid - lo /\ n \in Nat
  <2>0. lo \in Int /\ mid \in Int /\ lo <= mid
    BY DEF Window
  <2>1. DOMAIN left = 0..(mid - lo)
    BY DEF Lists
  <2>2. Cardinality(0..(mid - lo)) = mid - lo + 1
    BY <2>0, FS_Interval
  <2> QED
    BY <2>0, <2>1, <2>2
<1>3. \A i \in 0..n : left[i] \in Vars /\ l[left[i]] = lo + i /\ left[i] \in X
  <2>0. lo \in Int /\ mid \in Int
    BY DEF Window
  <2>1. \A i \in 0..n : left[i] \in Vars /\ l[left[i]] = lo + i
    BY <1>2 DEF Lists
  <2> HIDE DEF n
  <2>2. \A i \in 0..n : lo <= lo + i /\ lo + i <= mid
    BY <2>0, <1>2
  <2> QED
    BY <2>1, <2>2 DEF Upper
<1>4. r \in Y
  BY DEF Lower, Window
<1>5. \A f : Eq(f) <=> IsLoop(f, S, T, out, next)
  BY DEF IsLoop
<1> HIDE DEF n
<1>6. \A s \in S : next[s] \in S
  <2> SUFFICES ASSUME NEW s \in S PROVE next[s] \in S
    OBVIOUS
  <2>1. s.level \in Levelings /\ s.i \in 0..n
    OBVIOUS
  <2>2. one(s.level, s.i) \in Levelings
    BY <2>1, <1>3, VarDownSwaps
  <2>3. (IF s.i = n THEN 0 ELSE s.i + 1) \in 0..n
    BY <2>1, <1>2
  <2> HIDE DEF one
  <2> QED
    BY <2>2, <2>3
<1>7. IsLoop(g, S, T, out, next)
  <2>1. out \in [S -> Levelings] /\ next \in [S -> S]
    BY <1>6
  <2>2. \E f : IsLoop(f, S, T, out, next)
    <3> HIDE DEF S, T, out, next
    <3> QED
      BY <2>1, LoopExists
  <2>3. \E f : Eq(f)
    <3> HIDE DEF S, T, out, next, Eq
    <3> QED
      BY <1>5, <2>2
  <2> HIDE DEF S, T, out, next, Eq
  <2> QED
    BY <1>5, <2>3
<1> DEFINE goal == [m \in Levelings |->
             IF m[left[0]] < m[r]
             THEN CHOOSE p \in 0..n : m[left[p]] < m[r] /\ \A q \in (p + 1)..n : ~ (m[left[q]] < m[r])
             ELSE 0]
           I == {s \in S : Moving(l, s.level, lo, mid, hi)}
           high == [s \in I |-> Cardinality(ToPass(l, s.level, lo, mid, hi))]
           low  == [s \in I |-> IF s.i <= goal[s.level] THEN goal[s.level] - s.i
                                ELSE goal[s.level] + n + 1 - s.i]
<1>8. \A m \in Levelings : /\ goal[m] \in 0..n
                           /\ m[left[0]] < m[r] =>
                                /\ m[left[goal[m]]] < m[r]
                                /\ \A q \in (goal[m] + 1)..n : ~ (m[left[q]] < m[r])
  <2> SUFFICES ASSUME NEW m \in Levelings, m[left[0]] < m[r]
               PROVE  \E p \in 0..n : m[left[p]] < m[r] /\ \A q \in (p + 1)..n : ~ (m[left[q]] < m[r])
    BY <1>2
  <2> DEFINE Below == {k \in 0..n : m[left[n - k]] < m[r]}
  <2>1. n \in Below /\ Below \in SUBSET Nat
    BY <1>2
  <2>2. PICK k \in Below : \A y \in Below : ~ (y < k)
    <3> HIDE DEF Below
    <3> QED
      BY <2>1, LeastExists
  <2>3. n - k \in 0..n /\ m[left[n - k]] < m[r]
    BY <1>2
  <2>4. \A q \in (n - k + 1)..n : ~ (m[left[q]] < m[r])
    <3> SUFFICES ASSUME NEW q \in (n - k + 1)..n, m[left[q]] < m[r] PROVE FALSE
      OBVIOUS
    <3>1. n - q \in 0..n /\ n - q < k /\ n - (n - q) = q
      BY <1>2
    <3>2. n - q \in Below
      BY <3>1
    <3> QED
      BY <3>1, <3>2, <2>2
  <2> QED
    BY <2>3, <2>4
<1>9. I \in SUBSET S /\ high \in [I -> Nat] /\ low \in [I -> Nat]
  <2>1. IsFiniteSet(X) /\ IsFiniteSet(Y)
    <3>1. IsFiniteSet(Vars)
      BY FS_Interval, BlockOrderVars DEF Vars
    <3> QED
      BY <3>1, FS_Subset DEF Upper, Lower
  <2>2. IsFiniteSet(X \X Y)
    BY <2>1, FS_Product
  <2>3. \A m : IsFiniteSet(ToPass(l, m, lo, mid, hi)) /\ Cardinality(ToPass(l, m, lo, mid, hi)) \in Nat
    BY <2>2, FS_Subset, FS_CardinalityType DEF ToPass
  <2>4. \A s \in I : goal[s.level] \in 0..n /\ s.i \in 0..n
    BY <1>8
  <2>5. high \in [I -> Nat]
    BY <2>3
  <2> HIDE DEF goal
  <2>6. \A s \in I : (IF s.i <= goal[s.level] THEN goal[s.level] - s.i
                      ELSE goal[s.level] + n + 1 - s.i) \in Nat
    <3> SUFFICES ASSUME NEW s \in I
                 PROVE  (IF s.i <= goal[s.level] THEN goal[s.level] - s.i
                         ELSE goal[s.level] + n + 1 - s.i) \in Nat
      OBVIOUS
    <3>1. goal[s.level] \in 0..n /\ s.i \in 0..n
      BY <2>4
    <3> QED
      BY <3>1, <1>2
  <2> QED
    BY <2>5, <2>6
<1>10. s0 \in I
  <2>1. Moving(l, l, lo, mid, hi)
    BY DEF Moving
  <2> QED
    BY <2>1, <1>2
<1>11. ASSUME NEW s \in I, s \notin T
       PROVE  /\ next[s] \in I
              /\ \/ high[next[s]] < high[s]
                 \/ high[next[s]] = high[s] /\ low[next[s]] < low[s]
  <2> DEFINE m == s.level
             i == s.i
             d == one(m, i)
             k == IF i = n THEN 0 ELSE i + 1
  <2>1. m \in Levelings /\ i \in 0..n /\ Moving(l, m, lo, mid, hi) /\ s \in S
    OBVIOUS
  <2>2. next[s] = [level |-> d, i |-> k] /\ next[s] \in S
    BY <1>6, <2>1
  <2>3. ~ (i = 0 /\ m[left[0]] >= m[r])
    BY <1>11
  <2>4. /\ \A v \in Vars : m[v] \in Int
        /\ \A v, w \in Vars : m[v] = m[w] => v = w
    BY <2>1, LevelingFacts
  <2>5. i \in Int /\ left[i] \in Vars /\ left[i] \in X
    BY <2>1, <1>2, <1>3
  <2>6. CASE (i = n \/ m[left[i]] + 1 # m[left[i + 1]]) /\ m[left[i]] < m[r]
    <3>1. d = VarDown(m, left[i])
      BY <2>6
    <3>2. \A w \in X : m[w] # m[left[i]] + 1
      <4> SUFFICES ASSUME NEW w \in X, m[w] = m[left[i]] + 1 PROVE FALSE
        OBVIOUS
      <4>1. w \in Vars /\ lo <= l[w] /\ l[w] <= mid /\ l[w] \in Int
        BY LevelingFacts DEF Upper
      <4> DEFINE q == l[w] - lo
      <4>2. q \in 0..n /\ lo + q = l[w]
        BY <4>1, <1>2 DEF Window
      <4>3. left[q] = w
        <5>1. left[q] \in Vars /\ l[left[q]] = l[w]
          BY <4>2, <1>3
        <5>2. \A a, b \in Vars : l[a] = l[b] => a = b
          BY LevelingFacts
        <5> HIDE DEF q
        <5> QED
          BY <5>1, <5>2, <4>1
      <4> HIDE DEF q
      <4>4. \A a, b \in 0..n : a < b => m[left[a]] < m[left[b]]
        <5> SUFFICES ASSUME NEW a \in 0..n, NEW b \in 0..n, a < b PROVE m[left[a]] < m[left[b]]
          OBVIOUS
        <5>1. l[left[a]] < l[left[b]]
          BY <1>2, <1>3 DEF Window
        <5> QED
          BY <5>1, <1>3, <2>1 DEF Moving
      <4>5. m[left[i]] \in Int
        BY <2>4, <2>5
      <4>6. ~ (q <= i)
        <5>1. q <= i => q = i \/ q < i
          BY <2>5, <4>2, <1>2
        <5>2. q < i => m[w] < m[left[i]]
          BY <4>2, <4>3, <4>4, <2>1
        <5> QED
          BY <5>1, <5>2, <4>3, <4>5
      <4>7. i # n /\ i + 1 \in 0..n /\ (q = i + 1 \/ i + 1 < q)
        BY <4>6, <4>2, <2>1, <1>2
      <4>8. i < i + 1 /\ m[left[i]] < m[left[i + 1]]
        BY <4>7, <4>4, <2>1, <1>2
      <4>9. i + 1 < q => m[left[i + 1]] < m[w]
        BY <4>7, <4>4, <4>2, <4>3
      <4>10. m[left[i + 1]] \in Int
        BY <4>7, <1>3, <2>4
      <4> QED
        BY <2>6, <4>3, <4>5, <4>7, <4>8, <4>9, <4>10
    <3>3. /\ d \in Levelings /\ Moving(l, d, lo, mid, hi)
          /\ ToPass(l, d, lo, mid, hi) \subseteq ToPass(l, m, lo, mid, hi)
          /\ ToPass(l, d, lo, mid, hi) # ToPass(l, m, lo, mid, hi)
      <4> HIDE DEF d, m, i, X, Y
      <4> QED
        BY <2>1, <2>5, <2>6, <3>1, <3>2, <1>4, MovingPasses DEF X, Y
    <3>4. IsFiniteSet(ToPass(l, m, lo, mid, hi))
      <4>1. IsFiniteSet(Vars)
        BY FS_Interval, BlockOrderVars DEF Vars
      <4>2. IsFiniteSet(X) /\ IsFiniteSet(Y)
        BY <4>1, FS_Subset DEF Upper, Lower
      <4>3. IsFiniteSet(X \X Y)
        BY <4>2, FS_Product
      <4> QED
        BY <4>3, FS_Subset DEF ToPass
    <3> HIDE DEF d
    <3>5. Cardinality(ToPass(l, d, lo, mid, hi)) < Cardinality(ToPass(l, m, lo, mid, hi))
      <4> HIDE DEF m
      <4>1. /\ Cardinality(ToPass(l, d, lo, mid, hi)) <= Cardinality(ToPass(l, m, lo, mid, hi))
            /\ Cardinality(ToPass(l, d, lo, mid, hi)) # Cardinality(ToPass(l, m, lo, mid, hi))
            /\ IsFiniteSet(ToPass(l, d, lo, mid, hi))
        BY <3>3, <3>4, FS_Subset
      <4>2. /\ Cardinality(ToPass(l, d, lo, mid, hi)) \in Nat
            /\ Cardinality(ToPass(l, m, lo, mid, hi)) \in Nat
        BY <3>4, <4>1, FS_CardinalityType
      <4> QED
        BY <4>1, <4>2
    <3>6. next[s] \in I
      BY <2>2, <3>3
    <3>7. high[next[s]] = Cardinality(ToPass(l, d, lo, mid, hi))
      BY <2>2, <3>6
    <3>8. high[s] = Cardinality(ToPass(l, m, lo, mid, hi))
      OBVIOUS
    <3> QED
      BY <3>5, <3>6, <3>7, <3>8
  <2>7. CASE ~ ((i = n \/ m[left[i]] + 1 # m[left[i + 1]]) /\ m[left[i]] < m[r])
    <3>1. d = m
      BY <2>7
    <3> HIDE DEF d
    <3>2. next[s] \in I /\ next[s] = [level |-> m, i |-> k]
      BY <2>1, <2>2, <3>1
    <3>3. high[next[s]] = high[s]
      BY <3>2
    <3>4. goal[m] \in 0..n
      BY <1>8, <2>1
    <3>5. i # goal[m]
      <4> SUFFICES ASSUME i = goal[m] PROVE FALSE
        OBVIOUS
      <4>1. CASE m[left[0]] < m[r]
        <5>1. m[left[i]] < m[r] /\ \A q \in (i + 1)..n : ~ (m[left[q]] < m[r])
          BY <4>1, <1>8, <2>1
        <5>2. i # n /\ m[left[i]] + 1 = m[left[i + 1]]
          BY <5>1, <2>7
        <5>3. i + 1 \in 0..n /\ i + 1 \in (i + 1)..n
          <6>1. i \in 0..n /\ i # n
            BY <2>1, <5>2, Zenon
          <6> HIDE DEF i, goal
          <6> QED
            BY <6>1, <1>2
        <5>4. ~ (m[left[i + 1]] < m[r])
          BY <5>1, <5>3
        <5>5. m[left[i + 1]] # m[r]
          <6>1. left[i + 1] \in X /\ left[i + 1] \in Vars
            BY <5>3, <1>3
          <6>2. left[i + 1] # r
            BY <6>1, <1>4, WindowParts
          <6> QED
            BY <6>1, <6>2, <2>4
        <5>6. m[left[i]] \in Int /\ m[left[i + 1]] \in Int /\ m[r] \in Int
          BY <2>4, <2>5, <5>3, <1>3
        <5> HIDE DEF m, i, goal
        <5>7. m[left[i]] < m[r] /\ m[left[i + 1]] = m[left[i]] + 1
          BY <5>1, <5>2
        <5> QED
          BY <5>7, <5>4, <5>5, <5>6
      <4>2. CASE ~ (m[left[0]] < m[r])
        <5>1. goal[m] = 0
          BY <4>2, <2>1
        <5>2. m[left[0]] \in Int /\ m[r] \in Int
          BY <2>4, <1>2, <1>3
        <5> QED
          BY <5>1, <5>2, <4>2, <2>3
      <4> QED
        BY <4>1, <4>2
    <3>6. low[s] = IF i <= goal[m] THEN goal[m] - i ELSE goal[m] + n + 1 - i
      BY DEF goal
    <3>7. low[next[s]] = IF k <= goal[m] THEN goal[m] - k ELSE goal[m] + n + 1 - k
      <4>1. next[s].level = m /\ next[s].i = k
        BY <3>2
      <4> HIDE DEF goal, next, m, k
      <4> QED
        BY <3>2, <4>1
    <3>8. low[next[s]] < low[s]
      <4>1. i \in Int /\ 0 <= i /\ i <= n /\ goal[m] \in Int /\ 0 <= goal[m] /\ goal[m] <= n
        BY <2>1, <3>4, <1>2
      <4> HIDE DEF low, goal, next, m, i
      <4> QED
        BY <3>5, <3>6, <3>7, <4>1, <1>2
    <3> QED
      BY <3>2, <3>3, <3>8
  <2> QED
    BY <2>6, <2>7
<1>12. PICK s \in I \cap T : g[s0] = out[s]
  <2>1. GoesOn(I, T, next, high, low)
    BY <1>11, Zenon DEF GoesOn
  <2> HIDE DEF S, T, out, next, g, I, high, low, Eq, s0, goal
  <2> QED
    BY <2>1, <1>7, <1>9, <1>10, LoopEnds
<1>13. PICK m \in Levelings : g[s0] = m /\ Moving(l, m, lo, mid, hi) /\ m[left[0]] >= m[r]
  BY <1>12
<1> HIDE DEF g, s0
<1>14. \A u \in X : \A w \in Y : m[w] < m[u]
  <2> SUFFICES ASSUME NEW u \in X, NEW w \in Y PROVE m[w] < m[u]
    OBVIOUS
  <2>1. u \in Vars /\ w \in Vars /\ lo <= l[u] /\ l[w] <= hi
    BY DEF Upper, Lower
  <2>2. left[0] \in X /\ left[0] \in Vars /\ l[left[0]] = lo
    BY <1>2, <1>3 DEF Window
  <2>3. /\ \A v \in Vars : m[v] \in Int /\ l[v] \in Int
        /\ \A v, y \in Vars : m[v] = m[y] => v = y
        /\ \A v, y \in Vars : l[v] = l[y] => v = y
    BY <1>13, LevelingFacts
  <2>4. u = left[0] \/ m[left[0]] < m[u]
    <3>1. u # left[0] => lo < l[u]
      BY <2>1, <2>2, <2>3 DEF Window
    <3> QED
      BY <3>1, <2>2, <1>13 DEF Moving
  <2>5. w = r \/ m[w] < m[r]
    <3>1. w # r => l[w] < hi
      BY <2>1, <2>3 DEF Window
    <3> QED
      BY <3>1, <1>4, <1>13 DEF Moving
  <2>6. left[0] # r
    BY <2>2, <1>4, WindowParts
  <2>7. m[left[0]] > m[r]
    BY <2>2, <2>3, <2>6, <1>13
  <2>8. m[u] \in Int /\ m[w] \in Int /\ m[left[0]] \in Int /\ m[r] \in Int
    BY <2>1, <2>2, <2>3
  <2> QED
    BY <2>4, <2>5, <2>7, <2>8
<1>15. m = Slid(l, lo, mid, hi)
  <2> QED
    BY <1>13, <1>14, MovingEnds
<1> QED
  BY <1>1, <1>13, <1>15

-----------------------------------------------------------------------------
(* Where blocks are.                                                       *)

(* The variables X are the ones at the levels lo..hi.                      *)
Occupies(l, X, lo, hi) ==
  /\ lo \in Int /\ hi \in Int /\ 0 <= lo /\ lo <= hi /\ hi < N
  /\ X = {v \in Vars : lo <= l[v] /\ l[v] <= hi}

(* A range of levels has as many variables.                                *)
LEMMA LevelsCount ==
  ASSUME NEW l \in Levelings, NEW a \in Int, NEW b \in Int, 0 <= a, a <= b + 1, b < N
  PROVE  Cardinality({v \in Vars : a <= l[v] /\ l[v] <= b}) = b + 1 - a
<1> DEFINE X == {v \in Vars : a <= l[v] /\ l[v] <= b}
           f == [v \in X |-> l[v]]
<1>1. /\ \A v \in Vars : l[v] \in Vars /\ l[v] \in Int
      /\ \A v, w \in Vars : l[v] = l[w] => v = w
      /\ \A k \in Vars : \E v \in Vars : l[v] = k
      /\ N \in Nat
  BY LevelingFacts
<1>2. f \in [X -> a..b]
  BY <1>1
<1>3. \A v, w \in X : f[v] = f[w] => v = w
  BY <1>1
<1>4. \A k \in a..b : \E v \in X : f[v] = k
  <2> SUFFICES ASSUME NEW k \in a..b PROVE \E v \in X : f[v] = k
    OBVIOUS
  <2>1. k \in Vars
    BY <1>1, VarsRange
  <2>2. PICK v \in Vars : l[v] = k
    BY <1>1, <2>1
  <2> QED
    BY <2>2
<1> HIDE DEF f, X
<1>5. ExistsBijection(X, a..b)
  BY <1>2, <1>3, <1>4, Fun_IsBij DEF ExistsBijection
<1>6. ExistsBijection(a..b, X)
  BY <1>5, Fun_ExistsBijSymmetric
<1>7. IsFiniteSet(a..b) /\ Cardinality(a..b) = IF a > b THEN 0 ELSE b - a + 1
  BY FS_Interval
<1>8. Cardinality(X) = Cardinality(a..b)
  BY <1>6, <1>7, FS_Bijection
<1> QED
  BY <1>7, <1>8 DEF X

(* Sorted lists the variables of a block from its topmost level down.      *)
LEMMA SortedPlaces ==
  ASSUME NEW l \in Levelings, NEW b, b.first \in Int, b.last \in Int, NEW lo, NEW hi,
         Occupies(l, b.first .. b.last, lo, hi)
  PROVE  /\ b.last - b.first = hi - lo
         /\ Lists(l, Sorted(l, b), lo, hi)
<1> DEFINE X == b.first .. b.last
           before(v) == {w \in X : l[w] < l[v]}
<1>1. lo \in Int /\ hi \in Int /\ 0 <= lo /\ lo <= hi /\ hi < N
      /\ X = {v \in Vars : lo <= l[v] /\ l[v] <= hi}
  BY DEF Occupies
<1>2. /\ \A v \in Vars : l[v] \in Vars /\ l[v] \in Int
      /\ \A v, w \in Vars : l[v] = l[w] => v = w
      /\ \A k \in Vars : \E v \in Vars : l[v] = k
      /\ N \in Nat
  BY LevelingFacts
<1>3. b.last - b.first = hi - lo
  <2>1. Cardinality({v \in Vars : lo <= l[v] /\ l[v] <= hi}) = hi + 1 - lo
    BY <1>1, LevelsCount
  <2>2. Cardinality(X) = IF b.first > b.last THEN 0 ELSE b.last - b.first + 1
    BY FS_Interval
  <2>3. Cardinality(X) = hi + 1 - lo
    BY <2>1, <1>1
  <2> HIDE DEF X
  <2> QED
    BY <2>2, <2>3, <1>1
<1>4. X \subseteq Vars /\ \A v \in X : l[v] \in Int /\ lo <= l[v] /\ l[v] <= hi
  BY <1>1, <1>2
<1>5. ASSUME NEW v \in X PROVE Cardinality(before(v)) = l[v] - lo
  <2>1. l[v] \in Int /\ lo <= l[v] /\ l[v] <= hi
    BY <1>4
  <2>2. before(v) = {w \in Vars : lo <= l[w] /\ l[w] <= l[v] - 1}
    <3>1. \A w \in Vars : (lo <= l[w] /\ l[w] <= hi /\ l[w] < l[v])
                            <=> (lo <= l[w] /\ l[w] <= l[v] - 1)
      BY <2>1, <1>2, <1>1
    <3>2. \A w : w \in X <=> w \in Vars /\ lo <= l[w] /\ l[w] <= hi
      BY <1>1
    <3> HIDE DEF X
    <3> QED
      BY <3>1, <3>2
  <2>3. l[v] - 1 \in Int /\ lo <= (l[v] - 1) + 1 /\ l[v] - 1 < N
    BY <2>1, <1>1, <1>2
  <2>4. Cardinality({w \in Vars : lo <= l[w] /\ l[w] <= l[v] - 1}) = (l[v] - 1) + 1 - lo
    <3> DEFINE h == l[v] - 1
    <3>1. h \in Int /\ lo <= h + 1 /\ h < N /\ lo \in Int /\ 0 <= lo
      BY <1>1, <2>3
    <3> HIDE DEF h
    <3>2. Cardinality({w \in Vars : lo <= l[w] /\ l[w] <= h}) = h + 1 - lo
      BY <3>1, LevelsCount
    <3> QED
      BY <3>2 DEF h
  <2>5. Cardinality(before(v)) = (l[v] - 1) + 1 - lo
    BY <2>2, <2>4
  <2>6. lo \in Int
    BY <1>1
  <2> HIDE DEF before
  <2> QED
    BY <2>1, <2>5, <2>6
<1> HIDE DEF X
<1>6. ASSUME NEW p \in 0..(hi - lo)
      PROVE  /\ Sorted(l, b)[p] \in X
             /\ l[Sorted(l, b)[p]] = lo + p
  <2>1. lo + p \in Vars /\ lo <= lo + p /\ lo + p <= hi
    BY <1>1, <1>2, VarsRange
  <2>2. PICK v \in Vars : l[v] = lo + p
    BY <1>2, <2>1
  <2>3. v \in X
    BY <1>1, <2>1, <2>2
  <2>4. Cardinality(before(v)) = p
    BY <1>1, <1>5, <2>2, <2>3
  <2>5. Sorted(l, b)[p] = CHOOSE w \in X : Cardinality(before(w)) = p
    BY <1>3 DEF Sorted, X
  <2> DEFINE w == CHOOSE w \in X : Cardinality(before(w)) = p
  <2>6. w \in X /\ Cardinality(before(w)) = p
    BY <2>3, <2>4
  <2> HIDE DEF w
  <2>7. l[w] - lo = p /\ l[w] \in Int
    BY <2>6, <1>5, <1>4
  <2> QED
    BY <1>1, <2>5, <2>6, <2>7 DEF w
<1>7. Sorted(l, b) = [p \in 0..(hi - lo) |-> CHOOSE v \in X : Cardinality(before(v)) = p]
  BY <1>3 DEF Sorted, X
<1> HIDE DEF before
<1>8. Sorted(l, b) \in [0..(hi - lo) -> Vars]
  BY <1>4, <1>6, <1>7
<1> QED
  BY <1>3, <1>6, <1>8 DEF Lists

(* Sorted depends on the order inside the block only.                      *)
LEMMA SortedSame ==
  ASSUME NEW l, NEW m, NEW b,
         \A v, w \in b.first .. b.last : (l[w] < l[v]) = (m[w] < m[v])
  PROVE  Sorted(l, b) = Sorted(m, b)
<1> DEFINE X == b.first .. b.last
           D == 0..(b.last - b.first)
           at(p) == CHOOSE v \in X : Cardinality({w \in X : l[w] < l[v]}) = p
           there(p) == CHOOSE v \in X : Cardinality({w \in X : m[w] < m[v]}) = p
<1>1. \A v \in X : {w \in X : l[w] < l[v]} = {w \in X : m[w] < m[v]}
  OBVIOUS
<1>2. \A p : at(p) = there(p)
  BY <1>1
<1>3. Sorted(l, b) = [p \in D |-> at(p)] /\ Sorted(m, b) = [p \in D |-> there(p)]
  BY DEF Sorted
<1> HIDE DEF at, there
<1> QED
  BY <1>2, <1>3

(* The second loop has nothing to do when the first has exchanged blocks.  *)
LEMMA RightToStartStays ==
  ASSUME NEW l \in Levelings, NEW k \in Nat, NEW right \in [0..k -> Vars], NEW start,
         l[right[0]] <= start
  PROVE  RightToStart(l, right, start) = l
<1> DEFINE n == Cardinality(DOMAIN right) - 1
           one(m, i) == IF (i = 0 \/ m[right[i]] - 1 # m[right[i - 1]]) /\ m[right[i]] > start
                        THEN VarUp(m, right[i]) ELSE m
           S == [level : Levelings, i : 0..n]
           Eq(f) == f = [s \in S |->
                      IF s.i = n /\ s.level[right[0]] <= start THEN s.level
                      ELSE f[[level |-> one(s.level, s.i), i |-> IF s.i = 0 THEN n ELSE s.i - 1]]]
           T == {s \in S : s.i = n /\ s.level[right[0]] <= start}
           out == [s \in S |-> s.level]
           next == [s \in S |-> [level |-> one(s.level, s.i), i |-> IF s.i = 0 THEN n ELSE s.i - 1]]
           g == CHOOSE f : Eq(f)
           s0 == [level |-> l, i |-> n]
<1>1. RightToStart(l, right, start) = g[s0]
  BY DEF RightToStart
<1>2. n = k
  <2>1. DOMAIN right = 0..k
    OBVIOUS
  <2>2. Cardinality(0..k) = k + 1
    BY FS_Interval
  <2> QED
    BY <2>1, <2>2
<1>3. \A f : Eq(f) <=> IsLoop(f, S, T, out, next)
  BY DEF IsLoop
<1> HIDE DEF n
<1>4. \A s \in S : next[s] \in S
  <2> SUFFICES ASSUME NEW s \in S PROVE next[s] \in S
    OBVIOUS
  <2>1. s.level \in Levelings /\ s.i \in 0..n /\ right[s.i] \in Vars
    BY <1>2
  <2>2. one(s.level, s.i) \in Levelings
    BY <2>1, VarUpSwaps
  <2>3. (IF s.i = 0 THEN n ELSE s.i - 1) \in 0..n
    BY <2>1, <1>2
  <2> HIDE DEF one
  <2> QED
    BY <2>2, <2>3
<1>5. IsLoop(g, S, T, out, next)
  <2>1. out \in [S -> Levelings] /\ next \in [S -> S]
    BY <1>4
  <2>2. \E f : IsLoop(f, S, T, out, next)
    <3> HIDE DEF S, T, out, next
    <3> QED
      BY <2>1, LoopExists
  <2>3. \E f : Eq(f)
    <3> HIDE DEF S, T, out, next, Eq
    <3> QED
      BY <1>3, <2>2
  <2> HIDE DEF S, T, out, next, Eq
  <2> QED
    BY <1>3, <2>3
<1>6. s0 \in T /\ out[s0] = l
  BY <1>2
<1>7. g[s0] = out[s0]
  <2>1. s0 \in S
    BY <1>6
  <2> HIDE DEF S, T, out, next, g, s0, Eq
  <2> QED
    BY <1>5, <1>6, <2>1 DEF IsLoop
<1> QED
  BY <1>1, <1>6, <1>7

(* Both loops of blockdown, on two blocks next to each other.              *)
LEMMA BlockdownLoops ==
  ASSUME NEW l \in Levelings, NEW lo, NEW mid, NEW hi, Window(lo, mid, hi),
         NEW left, Lists(l, left, lo, mid), NEW right, Lists(l, right, mid + 1, hi)
  PROVE  RightToStart(LeftPastRight(l, left, right[Cardinality(DOMAIN right) - 1]), right, l[left[0]])
           = Slid(l, lo, mid, hi)
<1> DEFINE r == right[Cardinality(DOMAIN right) - 1]
           t == Slid(l, lo, mid, hi)
           k == hi - (mid + 1)
<1>1. lo \in Int /\ mid \in Int /\ hi \in Int /\ 0 <= lo /\ lo <= mid /\ mid < hi /\ hi < N
  BY DEF Window
<1>0. /\ k \in Nat
      /\ right \in [0..k -> Vars] /\ \A p \in 0..k : l[right[p]] = mid + 1 + p
      /\ left[0] \in Vars /\ l[left[0]] = lo
  BY <1>1 DEF Lists
<1>01. k = hi - (mid + 1)
  OBVIOUS
<1> HIDE DEF k
<1>2. Cardinality(DOMAIN right) - 1 = k
  <2>1. DOMAIN right = 0..k
    BY <1>0
  <2>2. Cardinality(0..k) = k + 1
    BY <1>0, FromZero
  <2>3. Cardinality(DOMAIN right) = k + 1
    BY <2>1, <2>2
  <2> QED
    BY <1>0, <2>3
<1>3. r \in Vars /\ l[r] = hi
  <2>1. r = right[k] /\ k \in 0..k /\ mid + 1 + k = hi
    BY <1>0, <1>01, <1>1, <1>2
  <2> HIDE DEF r
  <2> QED
    BY <1>0, <2>1
<1> HIDE DEF r
<1>4. LeftPastRight(l, left, r) = t
  BY <1>3, LeftPastRightSlides
<1>5. t \in Levelings
  BY SlidIsLeveling
<1>6. l[left[0]] = lo
  BY <1>0
<1>7. t[right[0]] = lo
  <2>1. right[0] \in Vars /\ l[right[0]] = mid + 1
    BY <1>0, <1>1
  <2>2. right[0] \in Lower(l, mid, hi) /\ right[0] \notin Upper(l, lo, mid)
    BY <1>1, <2>1 DEF Upper, Lower
  <2>3. t[right[0]] = l[right[0]] - (mid + 1 - lo)
    BY <2>1, <2>2 DEF Slid
  <2> QED
    BY <1>1, <2>1, <2>3
<1>8. RightToStart(t, right, l[left[0]]) = t
  <2>1. t[right[0]] <= l[left[0]]
    BY <1>1, <1>6, <1>7
  <2> HIDE DEF t
  <2> QED
    BY <1>0, <1>5, <2>1, RightToStartStays
<1> QED
  BY <1>4, <1>8 DEF r

(* Two blocks one after the other in an order that their seq agree with.   *)
Beside(l, x, y, lo, mid, hi) ==
  /\ x.first \in Int /\ x.last \in Int /\ y.first \in Int /\ y.last \in Int /\ mid < hi
  /\ Occupies(l, x.first .. x.last, lo, mid)
  /\ Occupies(l, y.first .. y.last, mid + 1, hi)
  /\ x.seq = Sorted(l, x) /\ y.seq = Sorted(l, y)

(* blockdown exchanges them.                                               *)
LEMMA BlockdownSlides ==
  ASSUME NEW s, NEW i, NEW lo, NEW mid, NEW hi, NEW x, NEW y,
         NEW l \in Levelings, l = s.level, Beside(l, x, y, lo, mid, hi),
         x = tree.block[s.list[i]], y = tree.block[s.list[i + 1]]
  PROVE  blockdown(s, i) = [level |-> Slid(l, lo, mid, hi), list |-> Swap(s.list, i)]
<1>0. /\ x.first \in Int /\ x.last \in Int /\ y.first \in Int /\ y.last \in Int /\ mid < hi
      /\ Occupies(l, x.first .. x.last, lo, mid)
      /\ Occupies(l, y.first .. y.last, mid + 1, hi)
      /\ x.seq = Sorted(l, x) /\ y.seq = Sorted(l, y)
  BY DEF Beside
<1>1. Window(lo, mid, hi)
  BY <1>0 DEF Occupies, Window
<1>2. PICK left : left = x.seq
  OBVIOUS
<1>3. PICK right : right = y.seq
  OBVIOUS
<1>4. Lists(l, left, lo, mid)
  BY <1>0, <1>2, SortedPlaces
<1>5. Lists(l, right, mid + 1, hi)
  BY <1>0, <1>3, SortedPlaces
<1>7. RightToStart(LeftPastRight(l, left, right[Cardinality(DOMAIN right) - 1]), right, l[left[0]])
        = Slid(l, lo, mid, hi)
  BY <1>1, <1>4, <1>5, BlockdownLoops
<1>8. blockdown(s, i) =
         [level |-> RightToStart(LeftPastRight(l, left, right[Cardinality(DOMAIN right) - 1]),
                                 right, l[left[0]]),
          list |-> Swap(s.list, i)]
  BY <1>2, <1>3 DEF blockdown, Swap
<1> QED
  BY <1>7, <1>8

(* The exchange the other way takes it back.                               *)
LEMMA SlidBack ==
  ASSUME NEW l \in Levelings, NEW lo, NEW mid, NEW hi, Window(lo, mid, hi)
  PROVE  /\ Window(lo, lo + hi - mid - 1, hi)
         /\ Slid(Slid(l, lo, mid, hi), lo, lo + hi - mid - 1, hi) = l
<1> DEFINE s == Slid(l, lo, mid, hi)
           middle == lo + hi - mid - 1
           t == Slid(s, lo, middle, hi)
<1>1. lo \in Int /\ mid \in Int /\ hi \in Int /\ 0 <= lo /\ lo <= mid /\ mid < hi /\ hi < N
  BY DEF Window
<1>2. Window(lo, middle, hi)
  BY <1>1, BlockOrderVars DEF Window
<1>3. s \in Levelings
  BY SlidIsLeveling
<1> HIDE DEF middle
<1>4. \A v \in Vars : s[v] = IF lo <= l[v] /\ l[v] <= mid THEN l[v] + (hi - mid)
                             ELSE IF mid < l[v] /\ l[v] <= hi THEN l[v] - (mid + 1 - lo) ELSE l[v]
  BY WindowParts DEF Slid
<1> HIDE DEF s
<1>5. \A v \in Vars : t[v] = IF lo <= s[v] /\ s[v] <= middle THEN s[v] + (hi - middle)
                             ELSE IF middle < s[v] /\ s[v] <= hi THEN s[v] - (middle + 1 - lo) ELSE s[v]
  BY <1>2, <1>3, WindowParts DEF Slid
<1>6. \A v \in Vars : t[v] = l[v]
  <2> SUFFICES ASSUME NEW v \in Vars PROVE t[v] = l[v]
    OBVIOUS
  <2>1. l[v] \in Int /\ s[v] \in Int
    BY <1>3, LevelingFacts
  <2> HIDE DEF t
  <2> QED
    BY <1>1, <1>4, <1>5, <2>1 DEF middle
<1>7. t \in [Vars -> Vars] /\ l \in [Vars -> Vars]
  <2>1. t \in Levelings
    BY <1>2, <1>3, SlidIsLeveling
  <2> HIDE DEF t
  <2> QED
    BY <2>1, LevelingFacts
<1>8. t = l
  <2> HIDE DEF t
  <2> QED
    BY <1>6, <1>7
<1> QED
  BY <1>2, <1>8 DEF s, middle

-----------------------------------------------------------------------------
(* Blocks that lie together in the order.                                  *)

(* The levels that variables are at.                                       *)
LEMMA OccupiesOnce ==
  ASSUME NEW l \in Levelings, NEW X, NEW a, NEW b, Occupies(l, X, a, b)
  PROVE  /\ a \in Vars /\ b \in Vars /\ a \in Int /\ b \in Int /\ a <= b /\ X \subseteq Vars
         /\ \E v \in X : l[v] = a
         /\ \E v \in X : l[v] = b
         /\ \A v \in Vars : v \in X <=> a <= l[v] /\ l[v] <= b
<1>1. /\ a \in Int /\ b \in Int /\ 0 <= a /\ a <= b /\ b < N
      /\ X = {v \in Vars : a <= l[v] /\ l[v] <= b}
  BY DEF Occupies
<1>2. a \in Vars /\ b \in Vars
  BY <1>1, VarsRange
<1>3. PICK v \in Vars : l[v] = a
  BY <1>2, LevelingFacts
<1>4. PICK w \in Vars : l[w] = b
  BY <1>2, LevelingFacts
<1>5. v \in X /\ w \in X
  BY <1>1, <1>3, <1>4
<1> QED
  BY <1>1, <1>2, <1>3, <1>4, <1>5

(* Inside other variables, or sharing none with them.                      *)
LEMMA OccupiesBoth ==
  ASSUME NEW l \in Levelings, NEW X, NEW a, NEW b, Occupies(l, X, a, b),
         NEW Y, NEW c, NEW d, Occupies(l, Y, c, d)
  PROVE  /\ X \subseteq Y => c <= a /\ b <= d
         /\ X \cap Y = {} => b < c \/ d < a
<1>1. /\ a \in Vars /\ b \in Vars /\ a \in Int /\ b \in Int /\ a <= b /\ X \subseteq Vars
      /\ \E v \in X : l[v] = a
      /\ \E v \in X : l[v] = b
      /\ \A v \in Vars : v \in X <=> a <= l[v] /\ l[v] <= b
  BY OccupiesOnce
<1>2. /\ c \in Vars /\ d \in Vars /\ c \in Int /\ d \in Int /\ c <= d /\ Y \subseteq Vars
      /\ \E v \in Y : l[v] = c
      /\ \E v \in Y : l[v] = d
      /\ \A v \in Vars : v \in Y <=> c <= l[v] /\ l[v] <= d
  BY OccupiesOnce
<1>3. ASSUME X \subseteq Y PROVE c <= a /\ b <= d
  BY <1>1, <1>2, <1>3
<1>4. ASSUME X \cap Y = {}, ~ (b < c), ~ (d < a) PROVE FALSE
  <2>1. CASE a <= c
    <3>1. PICK v \in Y : l[v] = c
      BY <1>2
    <3>2. v \in X
      BY <1>1, <1>2, <1>4, <2>1, <3>1
    <3> QED
      BY <1>4, <3>2
  <2>2. CASE c < a
    <3>1. PICK v \in X : l[v] = a
      BY <1>1
    <3>2. v \in Y
      BY <1>1, <1>2, <1>4, <2>2, <3>1
    <3> QED
      BY <1>4, <3>2
  <2> QED
    BY <1>1, <1>2, <2>1, <2>2
<1> QED
  BY <1>3, <1>4

SameWithin(l, m, X) == \A v, w \in X : (l[w] < l[v]) = (m[w] < m[v])

(* Where other variables are after the exchange of two blocks, and when    *)
(* they are in the same order.                                             *)
LEMMA SlidKeeps ==
  ASSUME NEW l \in Levelings, NEW lo, NEW mid, NEW hi, Window(lo, mid, hi),
         NEW X, NEW a, NEW b, Occupies(l, X, a, b)
  PROVE  LET m == Slid(l, lo, mid, hi) IN
         /\ lo <= a /\ b <= mid => Occupies(m, X, a + (hi - mid), b + (hi - mid)) /\ SameWithin(l, m, X)
         /\ mid < a /\ b <= hi => Occupies(m, X, a - (mid + 1 - lo), b - (mid + 1 - lo))
                                  /\ SameWithin(l, m, X)
         /\ b < lo \/ hi < a => Occupies(m, X, a, b) /\ SameWithin(l, m, X)
         /\ a <= lo /\ hi <= b => Occupies(m, X, a, b)
<1> DEFINE m == Slid(l, lo, mid, hi)
<1>1. lo \in Int /\ mid \in Int /\ hi \in Int /\ 0 <= lo /\ lo <= mid /\ mid < hi /\ hi < N
  BY DEF Window
<1>2. \A v \in Vars : l[v] \in Int
  BY LevelingFacts
<1>3. \A v \in Vars : m[v] = IF lo <= l[v] /\ l[v] <= mid THEN l[v] + (hi - mid)
                             ELSE IF mid < l[v] /\ l[v] <= hi THEN l[v] - (mid + 1 - lo) ELSE l[v]
  BY WindowParts DEF Slid
<1>4. /\ a \in Int /\ b \in Int /\ 0 <= a /\ a <= b /\ b < N
      /\ X = {v \in Vars : a <= l[v] /\ l[v] <= b}
  BY DEF Occupies
<1>5. N \in Int
  BY BlockOrderVars
<1>6. \A v \in X : v \in Vars /\ l[v] \in Int /\ a <= l[v] /\ l[v] <= b
  BY <1>2, <1>4
<1> HIDE DEF m
<1>7. ASSUME lo <= a, b <= mid
      PROVE  Occupies(m, X, a + (hi - mid), b + (hi - mid)) /\ SameWithin(l, m, X)
  <2>1. \A v \in Vars : (a <= l[v] /\ l[v] <= b)
                           <=> (a + (hi - mid) <= m[v] /\ m[v] <= b + (hi - mid))
    BY <1>1, <1>2, <1>3, <1>4, <1>7
  <2>2. X = {v \in Vars : a + (hi - mid) <= m[v] /\ m[v] <= b + (hi - mid)}
    BY <1>4, <2>1
  <2>3. Occupies(m, X, a + (hi - mid), b + (hi - mid))
    BY <1>1, <1>4, <1>5, <1>7, <2>2 DEF Occupies
  <2>4. \A v \in X : m[v] = l[v] + (hi - mid)
    BY <1>1, <1>3, <1>4, <1>6, <1>7
  <2> QED
    BY <1>1, <1>6, <2>3, <2>4 DEF SameWithin
<1>8. ASSUME mid < a, b <= hi
      PROVE  Occupies(m, X, a - (mid + 1 - lo), b - (mid + 1 - lo)) /\ SameWithin(l, m, X)
  <2>1. \A v \in Vars : (a <= l[v] /\ l[v] <= b)
                           <=> (a - (mid + 1 - lo) <= m[v] /\ m[v] <= b - (mid + 1 - lo))
    BY <1>1, <1>2, <1>3, <1>4, <1>8
  <2>2. X = {v \in Vars : a - (mid + 1 - lo) <= m[v] /\ m[v] <= b - (mid + 1 - lo)}
    BY <1>4, <2>1
  <2>3. Occupies(m, X, a - (mid + 1 - lo), b - (mid + 1 - lo))
    BY <1>1, <1>4, <1>5, <1>8, <2>2 DEF Occupies
  <2>4. \A v \in X : m[v] = l[v] - (mid + 1 - lo)
    BY <1>1, <1>3, <1>4, <1>6, <1>8
  <2> QED
    BY <1>1, <1>6, <2>3, <2>4 DEF SameWithin
<1>9. ASSUME b < lo \/ hi < a
      PROVE  Occupies(m, X, a, b) /\ SameWithin(l, m, X)
  <2>1. \A v \in Vars : (a <= l[v] /\ l[v] <= b) <=> (a <= m[v] /\ m[v] <= b)
    BY <1>1, <1>2, <1>3, <1>4, <1>9
  <2>2. X = {v \in Vars : a <= m[v] /\ m[v] <= b}
    BY <1>4, <2>1
  <2>3. \A v \in X : m[v] = l[v]
    BY <1>1, <1>3, <1>4, <1>6, <1>9
  <2> QED
    BY <1>4, <2>2, <2>3 DEF SameWithin, Occupies
<1>10. ASSUME a <= lo, hi <= b PROVE Occupies(m, X, a, b)
  <2>1. \A v \in Vars : (a <= l[v] /\ l[v] <= b) <=> (a <= m[v] /\ m[v] <= b)
    BY <1>1, <1>2, <1>3, <1>4, <1>10
  <2>2. X = {v \in Vars : a <= m[v] /\ m[v] <= b}
    BY <1>4, <2>1
  <2> QED
    BY <1>4, <2>2 DEF Occupies
<1> QED
  BY <1>7, <1>8, <1>9, <1>10 DEF m

(* The variables of a block.                                               *)
LEMMA VarsOfFacts ==
  ASSUME NEW t, NEW n, Blocks(t, n, N), NEW b \in Ids(t)
  PROVE  /\ VarsOf(t, b) \subseteq Vars
         /\ \A c \in Ids(t) : Strictly(t, b, c) => VarsOf(t, b) \subseteq VarsOf(t, c)
         /\ \A c \in Ids(t) : Apart(t, b, c) => VarsOf(t, b) \cap VarsOf(t, c) = {}
<1>1. \A c \in Ids(t) : /\ t.block[c].first \in Int /\ t.block[c].last \in Int
                        /\ 0 <= t.block[c].first /\ t.block[c].first <= t.block[c].last
                        /\ t.block[c].last < N
  BY BlocksFacts
<1>2. \A v \in VarsOf(t, b) : v \in Int /\ 0 <= v /\ v < N
  BY <1>1, VarsRange DEF VarsOf
<1>3. VarsOf(t, b) \subseteq Vars
  BY <1>2, VarsRange
<1>4. ASSUME NEW c \in Ids(t), Strictly(t, b, c) PROVE VarsOf(t, b) \subseteq VarsOf(t, c)
  BY <1>1, <1>4 DEF VarsOf, Strictly
<1>5. ASSUME NEW c \in Ids(t), Apart(t, b, c) PROVE VarsOf(t, b) \cap VarsOf(t, c) = {}
  BY <1>1, <1>5 DEF VarsOf, Apart
<1> QED
  BY <1>3, <1>4, <1>5

(* Two blocks of a list, above each other in the order without a gap.      *)
Neighbours(l, t, p, x, y, lo, mid, hi) ==
  /\ x \in Ids(t) /\ y \in Ids(t) /\ Kid(t, p, x) /\ Kid(t, p, y) /\ x # y
  /\ Occupies(l, VarsOf(t, x), lo, mid) /\ Occupies(l, VarsOf(t, y), mid + 1, hi)
  /\ lo \in Int /\ mid \in Int /\ hi \in Int

(* Where the blocks of the tree are when two neighbours change places.     *)
BlockAfter(l, t, x, y, lo, mid, hi, c, a, b) ==
  LET m == Slid(l, lo, mid, hi) IN
  /\ c = x \/ Strictly(t, c, x) =>
       Occupies(m, VarsOf(t, c), a + (hi - mid), b + (hi - mid)) /\ SameWithin(l, m, VarsOf(t, c))
  /\ c = y \/ Strictly(t, c, y) =>
       /\ Occupies(m, VarsOf(t, c), a - (mid + 1 - lo), b - (mid + 1 - lo))
       /\ SameWithin(l, m, VarsOf(t, c))
  /\ Strictly(t, x, c) /\ Strictly(t, y, c) => Occupies(m, VarsOf(t, c), a, b)
  /\ Apart(t, c, x) /\ Apart(t, c, y) =>
       Occupies(m, VarsOf(t, c), a, b) /\ SameWithin(l, m, VarsOf(t, c))
  /\ \/ c = x \/ Strictly(t, c, x)
     \/ c = y \/ Strictly(t, c, y)
     \/ Strictly(t, x, c) /\ Strictly(t, y, c)
     \/ Apart(t, c, x) /\ Apart(t, c, y)

(* Where the variables of each block are when two neighbouring blocks have *)
(* changed places.                                                         *)
LEMMA BlocksAfter ==
  ASSUME NEW l \in Levelings, NEW t, NEW n, Shape(t, n, N), NEW p \in Ids(t) \cup {Top},
         NEW x, NEW y, NEW lo, NEW mid, NEW hi, Neighbours(l, t, p, x, y, lo, mid, hi),
         NEW c \in Ids(t), NEW a, NEW b, Occupies(l, VarsOf(t, c), a, b)
  PROVE  Window(lo, mid, hi) /\ BlockAfter(l, t, x, y, lo, mid, hi, c, a, b)
<1> DEFINE m == Slid(l, lo, mid, hi)
           X == VarsOf(t, x)
           Y == VarsOf(t, y)
           C == VarsOf(t, c)
<1>1. Blocks(t, n, N)
  BY DEF Shape
<1>2. /\ x \in Ids(t) /\ y \in Ids(t) /\ Kid(t, p, x) /\ Kid(t, p, y) /\ x # y
      /\ Occupies(l, X, lo, mid) /\ Occupies(l, Y, mid + 1, hi)
      /\ lo \in Int /\ mid \in Int /\ hi \in Int
  BY DEF Neighbours
<1>3. Window(lo, mid, hi)
  BY <1>2 DEF Window, Occupies
<1>4. a \in Int /\ b \in Int /\ a <= b
  BY DEF Occupies
<1>5. /\ lo <= a /\ b <= mid => Occupies(m, C, a + (hi - mid), b + (hi - mid)) /\ SameWithin(l, m, C)
      /\ mid < a /\ b <= hi => Occupies(m, C, a - (mid + 1 - lo), b - (mid + 1 - lo))
                               /\ SameWithin(l, m, C)
      /\ b < lo \/ hi < a => Occupies(m, C, a, b) /\ SameWithin(l, m, C)
      /\ a <= lo /\ hi <= b => Occupies(m, C, a, b)
  <2> HIDE DEF C
  <2> QED
    BY <1>3, SlidKeeps DEF C
<1>6. ASSUME NEW z, NEW d, NEW e, Occupies(l, VarsOf(t, z), d, e)
      PROVE  /\ C \subseteq VarsOf(t, z) => d <= a /\ b <= e
             /\ VarsOf(t, z) \subseteq C => a <= d /\ e <= b
             /\ C \cap VarsOf(t, z) = {} => b < d \/ e < a
  <2> HIDE DEF C
  <2> QED
    BY <1>6, OccupiesBoth DEF C
<1>7. /\ C \subseteq X => lo <= a /\ b <= mid
      /\ X \subseteq C => a <= lo /\ mid <= b
      /\ C \cap X = {} => b < lo \/ mid < a
      /\ C \subseteq Y => mid + 1 <= a /\ b <= hi
      /\ Y \subseteq C => a <= mid + 1 /\ hi <= b
      /\ C \cap Y = {} => b < mid + 1 \/ hi < a
  BY <1>2, <1>6
<1>8. /\ Strictly(t, c, x) => C \subseteq X
      /\ Strictly(t, c, y) => C \subseteq Y
      /\ Strictly(t, x, c) => X \subseteq C
      /\ Strictly(t, y, c) => Y \subseteq C
      /\ Apart(t, c, x) => C \cap X = {}
      /\ Apart(t, c, y) => C \cap Y = {}
  BY <1>1, <1>2, VarsOfFacts
<1>9. /\ c = x \/ Strictly(t, c, x) => lo <= a /\ b <= mid
      /\ c = y \/ Strictly(t, c, y) => mid < a /\ b <= hi
      /\ Strictly(t, x, c) /\ Strictly(t, y, c) => a <= lo /\ hi <= b
      /\ Apart(t, c, x) /\ Apart(t, c, y) => b < lo \/ hi < a
  <2> HIDE DEF C, X, Y
  <2>1. /\ c = x => C \subseteq X
        /\ c = y => C \subseteq Y
    BY DEF C, X, Y
  <2> QED
    BY <1>2, <1>4, <1>7, <1>8, <2>1
<1>10. \/ c = x \/ Strictly(t, c, x)
       \/ c = y \/ Strictly(t, c, y)
       \/ Strictly(t, x, c) /\ Strictly(t, y, c)
       \/ Apart(t, c, x) /\ Apart(t, c, y)
  <2>1. /\ c # x => Apart(t, c, x) \/ Strictly(t, c, x) \/ Strictly(t, x, c)
        /\ c # y => Apart(t, c, y) \/ Strictly(t, c, y) \/ Strictly(t, y, c)
    BY <1>2 DEF Shape, Nested
  <2>2. Strictly(t, x, c) => Strictly(t, y, c)
    BY <1>2, AroundBoth
  <2>3. Strictly(t, y, c) => Strictly(t, x, c)
    BY <1>2, AroundBoth
  <2> QED
    BY <2>1, <2>2, <2>3
<1> HIDE DEF C, X, Y, m
<1> QED
  BY <1>3, <1>5, <1>9, <1>10 DEF BlockAfter, C, X, Y, m

Held(l, X) == \E lo, hi \in Vars : Occupies(l, X, lo, hi)

NextTo(l, X, Y) == \E lo, mid, hi \in Vars : Occupies(l, X, lo, mid) /\ Occupies(l, Y, mid + 1, hi)

(* The variables of each block are together, and the blocks of each list   *)
(* come one after the other.                                               *)
Tight(l, t) ==
  /\ \A b \in Ids(t) : Held(l, VarsOf(t, b))
  /\ \A p \in Ids(t) \cup {Top} : \A i \in 1..(Len(t.kids[p]) - 1) :
       NextTo(l, VarsOf(t, t.kids[p][i]), VarsOf(t, t.kids[p][i + 1]))

(* Whatever the numbers are called.                                        *)
LEMMA NextToIs ==
  ASSUME NEW l \in Levelings, NEW X, NEW Y, NEW a, NEW e, NEW f, NEW b,
         Occupies(l, X, a, e), Occupies(l, Y, f, b), f = e + 1
  PROVE  NextTo(l, X, Y)
<1>1. a \in Vars /\ e \in Vars
  BY OccupiesOnce
<1>2. b \in Vars
  BY OccupiesOnce
<1> QED
  BY <1>1, <1>2 DEF NextTo

(* Another list's neighbours stay neighbours.                              *)
LEMMA OthersNextTo ==
  ASSUME NEW l \in Levelings, NEW t, NEW n, Shape(t, n, N), NEW p \in Ids(t) \cup {Top},
         NEW x, NEW y, NEW lo, NEW mid, NEW hi, Neighbours(l, t, p, x, y, lo, mid, hi),
         NEW q \in Ids(t) \cup {Top}, q # p, NEW c \in Ids(t), NEW d \in Ids(t),
         Kid(t, q, c), Kid(t, q, d), NextTo(l, VarsOf(t, c), VarsOf(t, d))
  PROVE  NextTo(Slid(l, lo, mid, hi), VarsOf(t, c), VarsOf(t, d))
<1> DEFINE m == Slid(l, lo, mid, hi)
           C == VarsOf(t, c)
           E == VarsOf(t, d)
<1>1. PICK a \in Vars, e \in Vars, b \in Vars : Occupies(l, C, a, e) /\ Occupies(l, E, e + 1, b)
  BY DEF NextTo
<1>2. /\ x \in Ids(t) /\ y \in Ids(t) /\ Kid(t, p, x) /\ Kid(t, p, y)
      /\ lo \in Int /\ mid \in Int /\ hi \in Int
  BY DEF Neighbours
<1>3. Window(lo, mid, hi) /\ BlockAfter(l, t, x, y, lo, mid, hi, c, a, e)
  BY <1>1, BlocksAfter
<1>4. BlockAfter(l, t, x, y, lo, mid, hi, d, e + 1, b)
  BY <1>1, BlocksAfter
<1>5. m \in Levelings
  BY <1>3, SlidIsLeveling
<1>6. a \in Int /\ e \in Int /\ b \in Int
  BY <1>1, VarsRange
<1>7. \/ Strictly(t, c, x) /\ Strictly(t, d, x)
      \/ Strictly(t, c, y) /\ Strictly(t, d, y)
      \/ /\ (Apart(t, c, x) /\ Apart(t, c, y)) \/ (Strictly(t, x, c) /\ Strictly(t, y, c))
         /\ (Apart(t, d, x) /\ Apart(t, d, y)) \/ (Strictly(t, x, d) /\ Strictly(t, y, d))
  <2>1. \/ \A z \in Ids(t) : Kid(t, q, z) => Strictly(t, z, x)
        \/ \A z \in Ids(t) : Kid(t, q, z) => Strictly(t, z, y)
        \/ \A z \in Ids(t) : Kid(t, q, z) =>
             \/ Apart(t, z, x) /\ Apart(t, z, y)
             \/ Strictly(t, x, z) /\ Strictly(t, y, z)
    BY <1>2, OtherList
  <2> QED
    BY <2>1
<1>8. CASE Strictly(t, c, x) /\ Strictly(t, d, x)
  <2>1. Occupies(m, C, a + (hi - mid), e + (hi - mid)) /\ Occupies(m, E, (e + 1) + (hi - mid), b + (hi - mid))
    BY <1>3, <1>4, <1>8 DEF BlockAfter
  <2>2. (e + 1) + (hi - mid) = e + (hi - mid) + 1
    BY <1>2, <1>6
  <2> HIDE DEF m, C, E
  <2> QED
    BY <1>5, <2>1, <2>2, NextToIs DEF m, C, E
<1>9. CASE Strictly(t, c, y) /\ Strictly(t, d, y)
  <2>1. /\ Occupies(m, C, a - (mid + 1 - lo), e - (mid + 1 - lo))
        /\ Occupies(m, E, (e + 1) - (mid + 1 - lo), b - (mid + 1 - lo))
    BY <1>3, <1>4, <1>9 DEF BlockAfter
  <2>2. (e + 1) - (mid + 1 - lo) = e - (mid + 1 - lo) + 1
    BY <1>2, <1>6
  <2> HIDE DEF m, C, E
  <2> QED
    BY <1>5, <2>1, <2>2, NextToIs DEF m, C, E
<1>10. CASE /\ (Apart(t, c, x) /\ Apart(t, c, y)) \/ (Strictly(t, x, c) /\ Strictly(t, y, c))
            /\ (Apart(t, d, x) /\ Apart(t, d, y)) \/ (Strictly(t, x, d) /\ Strictly(t, y, d))
  <2>1. Occupies(m, C, a, e) /\ Occupies(m, E, e + 1, b)
    BY <1>3, <1>4, <1>10 DEF BlockAfter
  <2> HIDE DEF m, C, E
  <2> QED
    BY <1>5, <2>1, NextToIs DEF m, C, E
<1> QED
  BY <1>7, <1>8, <1>9, <1>10

(* The neighbours in the list itself: x and y, next to each other in it,   *)
(* have changed places.                                                    *)
LEMMA SelfNextTo ==
  ASSUME NEW l \in Levelings, NEW t, NEW n, Shape(t, n, N), NEW p \in Ids(t) \cup {Top},
         NEW x, NEW y, NEW lo, NEW mid, NEW hi, Neighbours(l, t, p, x, y, lo, mid, hi)
  PROVE  LET m == Slid(l, lo, mid, hi) IN
         /\ NextTo(m, VarsOf(t, y), VarsOf(t, x))
         /\ \A c \in Ids(t) : Kid(t, p, c) /\ c # x /\ c # y =>
              /\ NextTo(l, VarsOf(t, c), VarsOf(t, x)) => NextTo(m, VarsOf(t, c), VarsOf(t, y))
              /\ NextTo(l, VarsOf(t, y), VarsOf(t, c)) => NextTo(m, VarsOf(t, x), VarsOf(t, c))
              /\ \A d \in Ids(t) : Kid(t, p, d) /\ d # x /\ d # y =>
                   (NextTo(l, VarsOf(t, c), VarsOf(t, d)) => NextTo(m, VarsOf(t, c), VarsOf(t, d)))
<1> DEFINE m == Slid(l, lo, mid, hi)
           X == VarsOf(t, x)
           Y == VarsOf(t, y)
<1>1. /\ x \in Ids(t) /\ y \in Ids(t) /\ Kid(t, p, x) /\ Kid(t, p, y)
      /\ lo \in Int /\ mid \in Int /\ hi \in Int
      /\ Occupies(l, X, lo, mid) /\ Occupies(l, Y, mid + 1, hi)
  BY DEF Neighbours
<1>2. Window(lo, mid, hi) /\ BlockAfter(l, t, x, y, lo, mid, hi, x, lo, mid)
  BY <1>1, BlocksAfter
<1>3. BlockAfter(l, t, x, y, lo, mid, hi, y, mid + 1, hi)
  BY <1>1, BlocksAfter
<1>4. m \in Levelings
  BY <1>2, SlidIsLeveling
<1>5. Occupies(m, X, lo + (hi - mid), mid + (hi - mid))
  BY <1>2 DEF BlockAfter
<1>6. Occupies(m, Y, (mid + 1) - (mid + 1 - lo), hi - (mid + 1 - lo))
  BY <1>3 DEF BlockAfter
<1>7. /\ (mid + 1) - (mid + 1 - lo) = lo /\ mid + (hi - mid) = hi
      /\ lo + (hi - mid) = hi - (mid + 1 - lo) + 1
  BY <1>1
<1>8. NextTo(m, Y, X)
  <2> HIDE DEF m, X, Y
  <2> QED
    BY <1>4, <1>5, <1>6, <1>7, NextToIs
<1>9. ASSUME NEW c \in Ids(t), Kid(t, p, c), c # x, c # y, NEW a, NEW b, Occupies(l, VarsOf(t, c), a, b)
      PROVE  Occupies(m, VarsOf(t, c), a, b)
  <2>1. Apart(t, c, x)
    BY <1>1, <1>9, SiblingsApart
  <2>2. Apart(t, c, y)
    BY <1>1, <1>9, SiblingsApart
  <2>3. BlockAfter(l, t, x, y, lo, mid, hi, c, a, b)
    BY <1>9, BlocksAfter
  <2> QED
    BY <2>1, <2>2, <2>3 DEF BlockAfter
<1>10. ASSUME NEW a, NEW b, NEW d, NEW e, NEW Z, Occupies(l, Z, a, b), Occupies(l, Z, d, e)
       PROVE  a = d /\ b = e
  <2>1. d <= a /\ b <= e
    BY <1>10, OccupiesBoth
  <2>2. a <= d /\ e <= b
    BY <1>10, OccupiesBoth
  <2>3. a \in Int /\ b \in Int /\ d \in Int /\ e \in Int
    BY <1>10 DEF Occupies
  <2> QED
    BY <2>1, <2>2, <2>3
<1> HIDE DEF m, X, Y
<1>11. ASSUME NEW c \in Ids(t), Kid(t, p, c), c # x, c # y, NextTo(l, VarsOf(t, c), X)
       PROVE  NextTo(m, VarsOf(t, c), Y)
  <2>1. PICK a \in Vars, e \in Vars, b \in Vars : Occupies(l, VarsOf(t, c), a, e) /\ Occupies(l, X, e + 1, b)
    BY <1>11 DEF NextTo
  <2>2. e + 1 = lo
    BY <1>1, <1>10, <2>1
  <2>3. Occupies(m, VarsOf(t, c), a, e)
    BY <1>9, <1>11, <2>1
  <2>4. Occupies(m, Y, lo, hi - (mid + 1 - lo))
    BY <1>6, <1>7
  <2> QED
    BY <1>4, <2>2, <2>3, <2>4, NextToIs
<1>12. ASSUME NEW c \in Ids(t), Kid(t, p, c), c # x, c # y, NextTo(l, Y, VarsOf(t, c))
       PROVE  NextTo(m, X, VarsOf(t, c))
  <2>1. PICK a \in Vars, e \in Vars, b \in Vars : Occupies(l, Y, a, e) /\ Occupies(l, VarsOf(t, c), e + 1, b)
    BY <1>12 DEF NextTo
  <2>2. e = hi
    BY <1>1, <1>10, <2>1
  <2>3. Occupies(m, VarsOf(t, c), e + 1, b)
    BY <1>9, <1>12, <2>1
  <2>4. Occupies(m, X, lo + (hi - mid), hi)
    BY <1>5, <1>7
  <2> QED
    BY <1>4, <2>2, <2>3, <2>4, NextToIs
<1>13. ASSUME NEW c \in Ids(t), Kid(t, p, c), c # x, c # y, NEW d \in Ids(t), Kid(t, p, d), d # x, d # y,
              NextTo(l, VarsOf(t, c), VarsOf(t, d))
       PROVE  NextTo(m, VarsOf(t, c), VarsOf(t, d))
  <2>1. PICK a \in Vars, e \in Vars, b \in Vars :
          Occupies(l, VarsOf(t, c), a, e) /\ Occupies(l, VarsOf(t, d), e + 1, b)
    BY <1>13 DEF NextTo
  <2>2. Occupies(m, VarsOf(t, c), a, e)
    BY <1>9, <1>13, <2>1
  <2>3. Occupies(m, VarsOf(t, d), e + 1, b)
    BY <1>9, <1>13, <2>1
  <2> QED
    BY <1>4, <2>2, <2>3, NextToIs
<1> QED
  BY <1>8, <1>11, <1>12, <1>13 DEF m, X, Y

(* seq of every block but those of D lists its variables in their order.   *)
Fresh(l, t, D) == \A b \in Ids(t) : b \notin D => t.block[b].seq = Sorted(l, t.block[b])

Layout(l, t, n, D) == l \in Levelings /\ Shape(t, n, N) /\ Tight(l, t) /\ Fresh(l, t, D)

(* The blocks of list p may move: their own seq are right, and those of    *)
(* the blocks around them need not be.                                     *)
Movable(t, p, D) ==
  \A k \in Ids(t) : Kid(t, p, k) => k \notin D /\ \A c \in Ids(t) : Strictly(t, k, c) => c \in D

(* Blocks that change places in a list leave it without repetitions.       *)
LEMMA SwapOnce ==
  ASSUME NEW S, NEW L \in Seq(S), NEW i \in Int, i \in 1..Len(L), i + 1 \in 1..Len(L),
         \A g, h \in DOMAIN L : L[g] = L[h] => g = h
  PROVE  \A g, h \in DOMAIN Swap(L, i) : Swap(L, i)[g] = Swap(L, i)[h] => g = h
<1> DEFINE M == Swap(L, i)
           to(g) == IF g = i THEN i + 1 ELSE IF g = i + 1 THEN i ELSE g
<1>1. /\ M \in Seq(S) /\ Len(M) = Len(L)
      /\ M[i] = L[i + 1] /\ M[i + 1] = L[i]
      /\ \A j \in 1..Len(L) : j # i /\ j # i + 1 => M[j] = L[j]
  BY SwapFacts
<1>2. DOMAIN M = 1..Len(L) /\ DOMAIN L = 1..Len(L) /\ Len(L) \in Nat
  BY <1>1, LenProperties
<1> HIDE DEF M
<1>3. \A g \in 1..Len(L) : M[g] = L[to(g)] /\ to(g) \in 1..Len(L)
  BY <1>1
<1>4. \A g, h \in 1..Len(L) : to(g) = to(h) => g = h
  BY <1>2
<1> HIDE DEF to
<1>5. \A g, h \in DOMAIN M : M[g] = M[h] => g = h
  BY <1>2, <1>3, <1>4
<1> QED
  BY <1>5 DEF M

(* Two blocks next to each other in a list change places.                  *)
LEMMA Exchange ==
  ASSUME NEW l, NEW t, NEW n, NEW D, Layout(l, t, n, D), NEW p \in Ids(t) \cup {Top}, Movable(t, p, D),
         NEW i \in Int, 1 <= i, i + 1 <= Len(t.kids[p])
  PROVE  \E lo, mid, hi \in Int :
           /\ Neighbours(l, t, p, t.kids[p][i], t.kids[p][i + 1], lo, mid, hi)
           /\ Layout(Slid(l, lo, mid, hi), WithKids(t, p, Swap(t.kids[p], i)), n, D)
<1>1. l \in Levelings /\ Shape(t, n, N) /\ Tight(l, t) /\ Fresh(l, t, D) /\ Blocks(t, n, N)
  BY DEF Layout, Shape
<1>2. PICK L : L = t.kids[p]
  OBVIOUS
<1>3. /\ L \in Seq(Ids(t)) /\ Len(L) \in Nat /\ DOMAIN L = 1..Len(L)
      /\ \A j \in 1..Len(L) : L[j] \in Ids(t) /\ Kid(t, p, L[j])
      /\ \A g, h \in DOMAIN L : L[g] = L[h] => g = h
  <2>1. \A j \in 1..Len(L) : L[j] \in Ids(t)
    BY <1>1, <1>2, BlocksFacts
  <2>2. L \in Seq(Ids(t)) /\ Len(L) \in Nat /\ DOMAIN L = 1..Len(L)
    BY <1>1, <1>2, BlocksFacts
  <2> QED
    BY <1>1, <1>2, <2>1, <2>2 DEF Kid, Shape, Listed
<1>4. i \in 1..Len(L) /\ i + 1 \in 1..Len(L) /\ i \in 1..(Len(L) - 1)
  BY <1>2, <1>3
<1>5. PICK x, y : x = L[i] /\ y = L[i + 1]
  OBVIOUS
<1>6. x \in Ids(t) /\ y \in Ids(t) /\ Kid(t, p, x) /\ Kid(t, p, y) /\ x # y
  BY <1>3, <1>4, <1>5
<1>7. NextTo(l, VarsOf(t, x), VarsOf(t, y))
  BY <1>1, <1>2, <1>4, <1>5 DEF Tight
<1>8. PICK lo \in Vars, mid \in Vars, hi \in Vars :
        Occupies(l, VarsOf(t, x), lo, mid) /\ Occupies(l, VarsOf(t, y), mid + 1, hi)
  BY <1>7 DEF NextTo
<1>9. lo \in Int /\ mid \in Int /\ hi \in Int
  BY <1>8, VarsRange
<1>10. Neighbours(l, t, p, x, y, lo, mid, hi)
  BY <1>6, <1>8, <1>9 DEF Neighbours
<1>11. PICK m : m = Slid(l, lo, mid, hi)
  OBVIOUS
<1>12. PICK u : u = WithKids(t, p, Swap(L, i))
  OBVIOUS
<1>13. /\ Swap(L, i) \in Seq(Ids(t)) /\ Len(Swap(L, i)) = Len(L)
       /\ Swap(L, i)[i] = y /\ Swap(L, i)[i + 1] = x
       /\ \A j \in 1..Len(L) : j # i /\ j # i + 1 => Swap(L, i)[j] = L[j]
       /\ ToSet(Swap(L, i)) = ToSet(L)
  BY <1>3, <1>4, <1>5, SwapFacts
<1>14. \A g, h \in DOMAIN Swap(L, i) : Swap(L, i)[g] = Swap(L, i)[h] => g = h
  BY <1>3, <1>4, SwapOnce
<1>15. /\ Shape(u, n, N) /\ u.block = t.block /\ u.kids[p] = Swap(L, i)
       /\ \A q \in Ids(t) \cup {Top} : q # p => u.kids[q] = t.kids[q]
  BY <1>1, <1>2, <1>12, <1>13, <1>14, RelistedShape
<1>16. Ids(u) = Ids(t) /\ \A b : VarsOf(u, b) = VarsOf(t, b)
  BY <1>15 DEF Ids, VarsOf
<1>17. Window(lo, mid, hi)
  BY <1>8, <1>9 DEF Window, Occupies
<1>18. m \in Levelings
  BY <1>1, <1>11, <1>17, SlidIsLeveling
<1>19. ASSUME NEW b \in Ids(t)
       PROVE  /\ Held(m, VarsOf(t, b))
              /\ ~ Strictly(t, x, b) => SameWithin(l, m, VarsOf(t, b))
  <2>1. PICK a \in Vars, e \in Vars : Occupies(l, VarsOf(t, b), a, e)
    BY <1>1 DEF Tight, Held
  <2>2. BlockAfter(l, t, x, y, lo, mid, hi, b, a, e)
    BY <1>1, <1>10, <2>1, BlocksAfter
  <2>3. \E f, g : Occupies(m, VarsOf(t, b), f, g)
    BY <1>11, <2>2 DEF BlockAfter
  <2>4. Held(m, VarsOf(t, b))
    <3>1. PICK f, g : Occupies(m, VarsOf(t, b), f, g)
      BY <2>3
    <3>2. f \in Vars /\ g \in Vars
      BY <1>18, <3>1, OccupiesOnce
    <3> QED
      BY <3>1, <3>2 DEF Held
  <2> QED
    BY <1>11, <2>2, <2>4 DEF BlockAfter
<1>20. ASSUME NEW q \in Ids(t) \cup {Top}, NEW j \in 1..(Len(u.kids[q]) - 1)
       PROVE  NextTo(m, VarsOf(t, u.kids[q][j]), VarsOf(t, u.kids[q][j + 1]))
  <2>1. CASE q # p
    <3>1. u.kids[q] = t.kids[q]
      BY <1>15, <2>1
    <3>2. /\ Len(t.kids[q]) \in Nat /\ DOMAIN t.kids[q] = 1..Len(t.kids[q])
          /\ \A h \in 1..Len(t.kids[q]) : t.kids[q][h] \in Ids(t)
      BY <1>1, BlocksFacts
    <3>3. j \in 1..(Len(t.kids[q]) - 1) /\ j \in 1..Len(t.kids[q]) /\ j + 1 \in 1..Len(t.kids[q])
      BY <3>1, <3>2
    <3>4. PICK c, d : c = t.kids[q][j] /\ d = t.kids[q][j + 1]
      OBVIOUS
    <3>5. c \in Ids(t) /\ d \in Ids(t) /\ Kid(t, q, c) /\ Kid(t, q, d)
      BY <3>2, <3>3, <3>4 DEF Kid
    <3>6. NextTo(l, VarsOf(t, c), VarsOf(t, d))
      BY <1>1, <3>3, <3>4 DEF Tight
    <3>7. NextTo(m, VarsOf(t, c), VarsOf(t, d))
      BY <1>1, <1>10, <1>11, <2>1, <3>5, <3>6, OthersNextTo
    <3> QED
      BY <3>1, <3>4, <3>7
  <2>2. CASE q = p
    <3>1. j \in Int /\ j \in 1..Len(L) /\ j + 1 \in 1..Len(L) /\ j \in 1..(Len(L) - 1)
      BY <1>3, <1>13, <1>15, <2>2
    <3>2. /\ NextTo(m, VarsOf(t, y), VarsOf(t, x))
          /\ \A c \in Ids(t) : Kid(t, p, c) /\ c # x /\ c # y =>
               /\ NextTo(l, VarsOf(t, c), VarsOf(t, x)) => NextTo(m, VarsOf(t, c), VarsOf(t, y))
               /\ NextTo(l, VarsOf(t, y), VarsOf(t, c)) => NextTo(m, VarsOf(t, x), VarsOf(t, c))
               /\ \A d \in Ids(t) : Kid(t, p, d) /\ d # x /\ d # y =>
                    (NextTo(l, VarsOf(t, c), VarsOf(t, d)) => NextTo(m, VarsOf(t, c), VarsOf(t, d)))
      <4>1. LET k == Slid(l, lo, mid, hi) IN
            /\ NextTo(k, VarsOf(t, y), VarsOf(t, x))
            /\ \A c \in Ids(t) : Kid(t, p, c) /\ c # x /\ c # y =>
                 /\ NextTo(l, VarsOf(t, c), VarsOf(t, x)) => NextTo(k, VarsOf(t, c), VarsOf(t, y))
                 /\ NextTo(l, VarsOf(t, y), VarsOf(t, c)) => NextTo(k, VarsOf(t, x), VarsOf(t, c))
                 /\ \A d \in Ids(t) : Kid(t, p, d) /\ d # x /\ d # y =>
                      (NextTo(l, VarsOf(t, c), VarsOf(t, d)) => NextTo(k, VarsOf(t, c), VarsOf(t, d)))
        BY <1>1, <1>10, SelfNextTo
      <4> QED
        BY <1>11, <4>1
    <3>3. \A h \in 1..(Len(L) - 1) : NextTo(l, VarsOf(t, L[h]), VarsOf(t, L[h + 1]))
      BY <1>1, <1>2 DEF Tight
    <3>4. \A h \in 1..Len(L) : h # i /\ h # i + 1 => L[h] # x /\ L[h] # y
      BY <1>3, <1>4, <1>5
    <3>5. PICK M : M = Swap(L, i)
      OBVIOUS
    <3>6. M[i] = y /\ M[i + 1] = x /\ \A h \in 1..Len(L) : h # i /\ h # i + 1 => M[h] = L[h]
      BY <1>13, <3>5
    <3>7. CASE j = i
      BY <1>15, <2>2, <3>2, <3>5, <3>6, <3>7
    <3>8. CASE j + 1 = i
      <4>1. j # i /\ j # i + 1 /\ L[j] \in Ids(t) /\ Kid(t, p, L[j])
        BY <1>3, <3>1, <3>8
      <4>2. M[j] = L[j] /\ M[j + 1] = y /\ L[j + 1] = x /\ L[j] # x /\ L[j] # y
        BY <1>5, <3>1, <3>4, <3>6, <3>8, <4>1
      <4>3. NextTo(l, VarsOf(t, L[j]), VarsOf(t, x))
        BY <3>1, <3>3, <4>2
      <4> QED
        BY <1>15, <2>2, <3>2, <3>5, <4>1, <4>2, <4>3
    <3>9. CASE j = i + 1
      <4>1. j + 1 # i /\ j + 1 # i + 1 /\ L[j + 1] \in Ids(t) /\ Kid(t, p, L[j + 1])
        BY <1>3, <3>1, <3>9
      <4>2. M[j] = x /\ M[j + 1] = L[j + 1] /\ L[j] = y /\ L[j + 1] # x /\ L[j + 1] # y
        BY <1>5, <3>1, <3>4, <3>6, <3>9, <4>1
      <4>3. NextTo(l, VarsOf(t, y), VarsOf(t, L[j + 1]))
        BY <3>1, <3>3, <4>2
      <4> QED
        BY <1>15, <2>2, <3>2, <3>5, <4>1, <4>2, <4>3
    <3>10. CASE j # i /\ j + 1 # i /\ j # i + 1
      <4>1. /\ j # i /\ j # i + 1 /\ j + 1 # i /\ j + 1 # i + 1
            /\ L[j] \in Ids(t) /\ Kid(t, p, L[j]) /\ L[j + 1] \in Ids(t) /\ Kid(t, p, L[j + 1])
        BY <1>3, <3>1, <3>10
      <4>2. M[j] = L[j] /\ M[j + 1] = L[j + 1] /\ L[j] # x /\ L[j] # y /\ L[j + 1] # x /\ L[j + 1] # y
        BY <3>1, <3>4, <3>6, <4>1
      <4>3. NextTo(l, VarsOf(t, L[j]), VarsOf(t, L[j + 1]))
        BY <3>1, <3>3
      <4> QED
        BY <1>15, <2>2, <3>2, <3>5, <4>1, <4>2, <4>3
    <3> QED
      BY <3>7, <3>8, <3>9, <3>10
  <2> QED
    BY <2>1, <2>2
<1>21. Tight(m, u)
  BY <1>16, <1>19, <1>20 DEF Tight
<1>22. Fresh(m, u, D)
  <2> SUFFICES ASSUME NEW b \in Ids(t), b \notin D PROVE t.block[b].seq = Sorted(m, t.block[b])
    BY <1>15, <1>16 DEF Fresh
  <2>1. ~ Strictly(t, x, b)
    BY <1>6 DEF Movable
  <2>2. SameWithin(l, m, VarsOf(t, b))
    BY <1>19, <2>1
  <2>3. Sorted(l, t.block[b]) = Sorted(m, t.block[b])
    BY <2>2, SortedSame DEF SameWithin, VarsOf
  <2> QED
    BY <1>1, <2>3 DEF Fresh
<1>23. Layout(m, u, n, D)
  BY <1>15, <1>18, <1>21, <1>22 DEF Layout
<1> QED
  BY <1>2, <1>5, <1>9, <1>10, <1>11, <1>12, <1>23

-----------------------------------------------------------------------------
(* blockdown in the tree.                                                  *)

(* What another list below p changes.                                      *)
LEMMA WithKidsFacts ==
  ASSUME NEW t, NEW n, NEW size, Blocks(t, n, size), NEW p \in Ids(t) \cup {Top}, NEW L
  PROVE  /\ WithKids(t, p, L).block = t.block /\ WithKids(t, p, L).kids[p] = L
         /\ Ids(WithKids(t, p, L)) = Ids(t)
         /\ \A q \in Ids(t) \cup {Top} : q # p => WithKids(t, p, L).kids[q] = t.kids[q]
         /\ \A M : WithKids(WithKids(t, p, L), p, M) = WithKids(t, p, M)
         /\ L = t.kids[p] => WithKids(t, p, L) = t
<1>1. t = [block |-> t.block, kids |-> t.kids] /\ t.kids \in [Ids(t) \cup {Top} -> Seq(Ids(t))]
  BY DEF Blocks
<1>2. \A M : WithKids(t, p, M) = [block |-> t.block, kids |-> [t.kids EXCEPT ![p] = M]]
  BY <1>1 DEF WithKids
<1>3. PICK u : u = WithKids(t, p, L)
  OBVIOUS
<1>4. u = [block |-> t.block, kids |-> [t.kids EXCEPT ![p] = L]]
  BY <1>2, <1>3
<1>5. u.block = t.block /\ u.kids = [t.kids EXCEPT ![p] = L]
  BY <1>4
<1>6. u.kids[p] = L /\ \A q \in Ids(t) \cup {Top} : q # p => u.kids[q] = t.kids[q]
  BY <1>1, <1>5
<1>7. ASSUME NEW M PROVE WithKids(u, p, M) = WithKids(t, p, M)
  <2>1. WithKids(u, p, M) = [block |-> t.block, kids |-> [u.kids EXCEPT ![p] = M]]
    BY <1>4, <1>5 DEF WithKids
  <2>2. [u.kids EXCEPT ![p] = M] = [t.kids EXCEPT ![p] = M]
    BY <1>1, <1>5
  <2> QED
    BY <1>2, <2>1, <2>2
<1>8. L = t.kids[p] => u = t
  <2>1. [t.kids EXCEPT ![p] = t.kids[p]] = t.kids
    BY <1>1
  <2> QED
    BY <1>1, <1>4, <2>1
<1>9. Ids(u) = Ids(t)
  BY <1>5 DEF Ids
<1> QED
  BY <1>3, <1>5, <1>6, <1>7, <1>8, <1>9

(* An order and a list of the blocks below p that fit together.            *)
Arranged(s, t, p, n, D) ==
  /\ s = [level |-> s.level, list |-> s.list]
  /\ ToSet(s.list) = ToSet(t.kids[p]) /\ Len(s.list) = Len(t.kids[p])
  /\ s.list \in Seq(Ids(t))
  /\ Layout(s.level, WithKids(t, p, s.list), n, D)

(* blockdown makes one of another, and the next call takes it back.        *)
LEMMA BlockdownKeeps ==
  ASSUME NEW n, Shape(tree, n, N), NEW p \in Ids(tree) \cup {Top}, NEW D, Movable(tree, p, D),
         NEW s, Arranged(s, tree, p, n, D), NEW i \in Int, 1 <= i, i + 1 <= Len(tree.kids[p])
  PROVE  /\ Arranged(blockdown(s, i), tree, p, n, D)
         /\ blockdown(s, i).list = Swap(s.list, i)
         /\ blockdown(blockdown(s, i), i) = s
<1>1. Blocks(tree, n, N)
  BY DEF Shape
<1>2. PICK l, L : l = s.level /\ L = s.list
  OBVIOUS
<1>3. /\ s = [level |-> l, list |-> L] /\ ToSet(L) = ToSet(tree.kids[p]) /\ Len(L) = Len(tree.kids[p])
      /\ L \in Seq(Ids(tree)) /\ Layout(l, WithKids(tree, p, L), n, D)
  BY <1>2 DEF Arranged
<1>4. PICK u : u = WithKids(tree, p, L)
  OBVIOUS
<1>5. /\ u.block = tree.block /\ u.kids[p] = L /\ Ids(u) = Ids(tree)
      /\ \A M : WithKids(u, p, M) = WithKids(tree, p, M)
  BY <1>1, <1>4, WithKidsFacts
<1>6. l \in Levelings /\ Shape(u, n, N) /\ Tight(l, u) /\ Fresh(l, u, D) /\ Layout(l, u, n, D)
  BY <1>3, <1>4 DEF Layout
<1>7. Movable(u, p, D)
  <2>1. \A k : Kid(u, p, k) <=> Kid(tree, p, k)
    <3>1. \A k : Kid(u, p, k) <=> k \in ToSet(L)
      BY <1>5 DEF Kid, ToSet
    <3>2. \A k : Kid(tree, p, k) <=> k \in ToSet(tree.kids[p])
      BY DEF Kid, ToSet
    <3> QED
      BY <1>3, <3>1, <3>2
  <2>2. \A k, c : Strictly(u, k, c) <=> Strictly(tree, k, c)
    BY <1>5 DEF Strictly
  <2> QED
    BY <1>5, <2>1, <2>2 DEF Movable
<1>8. Len(L) \in Nat /\ i \in 1..Len(L) /\ i + 1 \in 1..Len(L) /\ DOMAIN L = 1..Len(L)
  BY <1>3, LenProperties
<1>9. PICK x, y : x = L[i] /\ y = L[i + 1]
  OBVIOUS
<1>10. PICK lo \in Int, mid \in Int, hi \in Int :
         /\ Neighbours(l, u, p, x, y, lo, mid, hi)
         /\ Layout(Slid(l, lo, mid, hi), WithKids(u, p, Swap(L, i)), n, D)
  <2>1. p \in Ids(u) \cup {Top} /\ i + 1 <= Len(u.kids[p])
    BY <1>3, <1>5
  <2>2. \E lo, mid, hi \in Int :
           /\ Neighbours(l, u, p, u.kids[p][i], u.kids[p][i + 1], lo, mid, hi)
           /\ Layout(Slid(l, lo, mid, hi), WithKids(u, p, Swap(u.kids[p], i)), n, D)
    BY <1>6, <1>7, <2>1, Exchange
  <2> QED
    BY <1>5, <1>9, <2>2
<1>11. PICK m, M : m = Slid(l, lo, mid, hi) /\ M = Swap(L, i)
  OBVIOUS
<1>12. /\ x \in Ids(u) /\ y \in Ids(u) /\ Kid(u, p, x) /\ Kid(u, p, y)
       /\ Occupies(l, VarsOf(u, x), lo, mid) /\ Occupies(l, VarsOf(u, y), mid + 1, hi)
  BY <1>10 DEF Neighbours
<1>13. Layout(m, WithKids(tree, p, M), n, D)
  BY <1>5, <1>10, <1>11
<1>14. /\ M \in Seq(Ids(tree)) /\ Len(M) = Len(L) /\ ToSet(M) = ToSet(L)
       /\ M[i] = y /\ M[i + 1] = x /\ Swap(M, i) = L
  BY <1>3, <1>8, <1>9, <1>11, SwapFacts
<1>15. PICK bx, by : bx = tree.block[x] /\ by = tree.block[y]
  OBVIOUS
<1>16. bx.first \in Int /\ bx.last \in Int /\ by.first \in Int /\ by.last \in Int
  BY <1>1, <1>5, <1>12, <1>15, BlocksFacts
<1>17. Occupies(l, bx.first .. bx.last, lo, mid) /\ Occupies(l, by.first .. by.last, mid + 1, hi)
  BY <1>5, <1>12, <1>15 DEF VarsOf
<1>18. x \notin D /\ y \notin D
  BY <1>7, <1>12 DEF Movable
<1>19. bx.seq = Sorted(l, bx) /\ by.seq = Sorted(l, by)
  BY <1>5, <1>6, <1>12, <1>15, <1>18 DEF Fresh
<1>20. mid < hi
  BY <1>17 DEF Occupies
<1>21. PICK r : r = blockdown(s, i)
  OBVIOUS
<1>22. s.level = l /\ s.list = L
  BY <1>2
<1>23. r = [level |-> m, list |-> M]
  <2>1. bx = tree.block[s.list[i]] /\ by = tree.block[s.list[i + 1]]
    BY <1>9, <1>15, <1>22
  <2>2. Beside(l, bx, by, lo, mid, hi)
    BY <1>16, <1>17, <1>19, <1>20 DEF Beside
  <2>4. l \in Levelings
    BY <1>6
  <2>3. blockdown(s, i) = [level |-> Slid(l, lo, mid, hi), list |-> Swap(s.list, i)]
    BY <1>22, <2>1, <2>2, <2>4, BlockdownSlides
  <2> QED
    BY <1>11, <1>21, <1>22, <2>3
<1>24. r.level = m /\ r.list = M
  BY <1>23
<1>25. Arranged(r, tree, p, n, D)
  BY <1>3, <1>13, <1>14, <1>23, <1>24 DEF Arranged
<1>26. blockdown(r, i) = s
  <2>1. PICK u2 : u2 = WithKids(tree, p, M)
    OBVIOUS
  <2>2. u2.block = tree.block /\ Ids(u2) = Ids(tree)
    BY <1>1, <2>1, WithKidsFacts
  <2>3. m \in Levelings /\ Fresh(m, u2, D)
    BY <1>13, <2>1 DEF Layout
  <2>4. by.seq = Sorted(m, by) /\ bx.seq = Sorted(m, bx)
    BY <1>5, <1>12, <1>15, <1>18, <2>2, <2>3 DEF Fresh
  <2>5. Window(lo, mid, hi) /\ BlockAfter(l, u, x, y, lo, mid, hi, x, lo, mid)
    BY <1>5, <1>6, <1>10, <1>12, BlocksAfter
  <2>6. BlockAfter(l, u, x, y, lo, mid, hi, y, mid + 1, hi)
    BY <1>5, <1>6, <1>10, <1>12, BlocksAfter
  <2>7. Occupies(m, VarsOf(u, x), lo + (hi - mid), mid + (hi - mid))
    BY <1>11, <2>5 DEF BlockAfter
  <2>8. Occupies(m, VarsOf(u, y), (mid + 1) - (mid + 1 - lo), hi - (mid + 1 - lo))
    BY <1>11, <2>6 DEF BlockAfter
  <2>9. PICK middle : middle = lo + hi - mid - 1
    OBVIOUS
  <2>10. /\ lo + (hi - mid) = middle + 1 /\ mid + (hi - mid) = hi
         /\ (mid + 1) - (mid + 1 - lo) = lo /\ hi - (mid + 1 - lo) = middle
    BY <1>10, <2>9
  <2>11. Occupies(m, by.first .. by.last, lo, middle) /\ Occupies(m, bx.first .. bx.last, middle + 1, hi)
    BY <1>5, <1>15, <2>7, <2>8, <2>10 DEF VarsOf
  <2>12. middle < hi
    BY <2>11 DEF Occupies
  <2>13. by = tree.block[r.list[i]] /\ bx = tree.block[r.list[i + 1]]
    BY <1>14, <1>15, <1>24
  <2>16. Beside(m, by, bx, lo, middle, hi)
    BY <1>16, <2>4, <2>11, <2>12 DEF Beside
  <2>14. blockdown(r, i) = [level |-> Slid(m, lo, middle, hi), list |-> Swap(r.list, i)]
    BY <1>24, <2>3, <2>13, <2>16, BlockdownSlides
  <2>15. Slid(m, lo, middle, hi) = l
    BY <1>6, <1>11, <2>5, <2>9, SlidBack
  <2> QED
    BY <1>3, <1>14, <1>24, <2>14, <2>15
<1> QED
  BY <1>11, <1>21, <1>22, <1>24, <1>25, <1>26

(* Several calls in a row, one after the other.                            *)
InARow(f, s, places, n) ==
  f[0] = s /\ \A k \in 1..n : f[k] = blockdown(f[k - 1], places[k])

(* BlocksDown is the last of the calls made in a row.                      *)
LEMMA BlocksDownSteps ==
  ASSUME NEW s, NEW places \in Seq(Int), NEW n, n = Len(places)
  PROVE  \E f : InARow(f, s, places, n) /\ BlocksDown(s, places) = f[n]
<1> DEFINE Eq(f) == f = [k \in 0..n |-> IF k = 0 THEN s ELSE blockdown(f[k - 1], places[k])]
           Good(f, h) == \A k \in 0..h : f[k] = IF k = 0 THEN s ELSE blockdown(f[k - 1], places[k])
           P == {h \in 0..n : \E f : Good(f, h)}
           g == CHOOSE f : Eq(f)
<1>1. n \in Nat
  BY LenProperties
<1>2. 0 \in P
  <2>1. PICK f : f = [k \in {0} |-> s]
    OBVIOUS
  <2>2. Good(f, 0)
    <3>1. f[0] = s /\ \A k \in 0..0 : k = 0
      BY <2>1
    <3> QED
      BY <3>1
  <2>3. 0 \in 0..n
    BY <1>1
  <2> HIDE DEF Good
  <2> QED
    BY <2>2, <2>3
<1>3. ASSUME NEW h \in 0..(n - 1), h \in P PROVE h + 1 \in P
  <2>1. PICK f : Good(f, h)
    BY <1>3
  <2> DEFINE e == [k \in 0..(h + 1) |-> IF k = h + 1 THEN blockdown(f[h], places[h + 1]) ELSE f[k]]
  <2>2. \A k \in 0..(h + 1) : e[k] = IF k = h + 1 THEN blockdown(f[h], places[h + 1]) ELSE f[k]
    OBVIOUS
  <2>3. \A k \in 0..h : k # h + 1 /\ k \in 0..(h + 1) /\ (k # 0 => k - 1 \in 0..(h + 1) /\ k - 1 # h + 1)
    OBVIOUS
  <2> HIDE DEF e
  <2>4. \A k \in 0..h : e[k] = f[k] /\ (k # 0 => e[k - 1] = f[k - 1])
    BY <2>2, <2>3
  <2>5. h + 1 \in 0..(h + 1) /\ h \in 0..h /\ h + 1 # 0 /\ (h + 1) - 1 = h
    OBVIOUS
  <2>6. \A k \in 0..(h + 1) : k = h + 1 \/ k \in 0..h
    OBVIOUS
  <2>7. Good(e, h + 1)
    <3> SUFFICES ASSUME NEW k \in 0..(h + 1)
                 PROVE  e[k] = IF k = 0 THEN s ELSE blockdown(e[k - 1], places[k])
      OBVIOUS
    <3>1. CASE k = h + 1
      <4>1. e[h + 1] = blockdown(f[h], places[h + 1]) /\ e[h] = f[h]
        BY <2>2, <2>4, <2>5
      <4> QED
        BY <2>5, <3>1, <4>1
    <3>2. CASE k \in 0..h
      BY <2>1, <2>4, <3>2
    <3> QED
      BY <2>6, <3>1, <3>2
  <2>8. h + 1 \in 0..n
    BY <1>1
  <2> QED
    BY <2>7, <2>8
<1>4. n \in P
  <2>1. P \in SUBSET (0..n)
    OBVIOUS
  <2>2. P = 0..n
    <3> HIDE DEF P
    <3> QED
      BY <1>1, <1>2, <1>3, <2>1, UpTo
  <2> QED
    BY <1>1, <2>2
<1>5. \E f : Eq(f)
  <2>1. PICK f : Good(f, n)
    BY <1>4
  <2> DEFINE e == [k \in 0..n |-> f[k]]
  <2>2. \A k \in 0..n : e[k] = IF k = 0 THEN s ELSE blockdown(e[k - 1], places[k])
    <3> SUFFICES ASSUME NEW k \in 0..n
                 PROVE  e[k] = IF k = 0 THEN s ELSE blockdown(e[k - 1], places[k])
      OBVIOUS
    <3>1. e[k] = f[k] /\ (k # 0 => e[k - 1] = f[k - 1])
      BY <1>1
    <3>2. f[k] = IF k = 0 THEN s ELSE blockdown(f[k - 1], places[k])
      BY <2>1
    <3> HIDE DEF e
    <3> QED
      BY <3>1, <3>2
  <2>3. Eq(e)
    BY <2>2
  <2> QED
    BY <2>3
<1>6. Eq(g)
  <2> HIDE DEF Eq
  <2> QED
    BY <1>5
<1>7. BlocksDown(s, places) = g[n]
  BY DEF BlocksDown
<1> HIDE DEF g
<1>8. \A k \in 0..n : g[k] = IF k = 0 THEN s ELSE blockdown(g[k - 1], places[k])
  BY <1>6
<1>9. g[0] = s /\ \A k \in 1..n : g[k] = blockdown(g[k - 1], places[k])
  BY <1>1, <1>8
<1> QED
  BY <1>7, <1>9 DEF InARow

(* Places in a list from one place on.                                     *)
PlacesFit(places, from, to) ==
  places \in Seq(Int) /\ \A k \in 1..Len(places) : from <= places[k] /\ places[k] + 1 <= to

(* They make an order and a list that fit together, and leave what is      *)
(* before the first of the places alone.                                   *)
LEMMA BlocksDownKeeps ==
  ASSUME NEW n, Shape(tree, n, N), NEW p \in Ids(tree) \cup {Top}, NEW D, Movable(tree, p, D),
         NEW s, Arranged(s, tree, p, n, D), NEW from \in Int, 1 <= from, NEW places, PlacesFit(places, from, Len(tree.kids[p]))
  PROVE  /\ Arranged(BlocksDown(s, places), tree, p, n, D)
         /\ \A j \in 1..Len(tree.kids[p]) : j < from => BlocksDown(s, places).list[j] = s.list[j]
<1>1. PICK m : m = Len(places)
  OBVIOUS
<1>2. m \in Nat /\ \A k \in 1..m : places[k] \in Int /\ from <= places[k] /\ places[k] + 1 <= Len(tree.kids[p])
  BY <1>1, LenProperties DEF PlacesFit
<1>7. PICK f : InARow(f, s, places, m) /\ BlocksDown(s, places) = f[m]
  BY <1>1, BlocksDownSteps DEF PlacesFit
<1>3. /\ f[0] = s
      /\ \A k \in 1..m : f[k] = blockdown(f[k - 1], places[k])
      /\ BlocksDown(s, places) = f[m]
  BY <1>7 DEF InARow
<1> DEFINE Good(r) == /\ Arranged(r, tree, p, n, D)
                      /\ \A j \in 1..Len(tree.kids[p]) : j < from => r.list[j] = s.list[j]
           P == {h \in 0..m : Good(f[h])}
<1>4. 0 \in P
  BY <1>2, <1>3
<1>5. ASSUME NEW h \in 0..(m - 1), h \in P PROVE h + 1 \in P
  <2>1. Good(f[h])
    BY <1>5
  <2>2. h + 1 \in 1..m /\ (h + 1) - 1 = h /\ h + 1 \in 0..m
    BY <1>2
  <2>3. PICK r, i : r = f[h] /\ i = places[h + 1]
    OBVIOUS
  <2>4. f[h + 1] = blockdown(r, i)
    BY <1>3, <2>2, <2>3
  <2>5. i \in Int /\ from <= i /\ 1 <= i /\ i + 1 <= Len(tree.kids[p])
    BY <1>2, <2>2, <2>3
  <2>6. Arranged(r, tree, p, n, D) /\ \A j \in 1..Len(tree.kids[p]) : j < from => r.list[j] = s.list[j]
    BY <2>1, <2>3
  <2>7. Arranged(blockdown(r, i), tree, p, n, D) /\ blockdown(r, i).list = Swap(r.list, i)
    BY <2>5, <2>6, BlockdownKeeps
  <2>8. \A j \in 1..Len(tree.kids[p]) : j < from => blockdown(r, i).list[j] = s.list[j]
    <3> SUFFICES ASSUME NEW j \in 1..Len(tree.kids[p]), j < from
                 PROVE  blockdown(r, i).list[j] = s.list[j]
      OBVIOUS
    <3>1. r.list \in Seq(Ids(tree)) /\ Len(r.list) = Len(tree.kids[p])
      BY <2>6 DEF Arranged
    <3>2. PICK L : L = r.list
      OBVIOUS
    <3>3. L \in Seq(Ids(tree)) /\ i \in 1..Len(L) /\ i + 1 \in 1..Len(L) /\ j \in 1..Len(L) /\ j # i /\ j # i + 1
      <4>1. Len(L) \in Nat /\ L \in Seq(Ids(tree)) /\ Len(L) = Len(tree.kids[p])
        BY <3>1, <3>2, LenProperties
      <4> QED
        BY <2>5, <4>1
    <3>4. Swap(L, i)[j] = L[j]
      BY <2>5, <3>3, SwapFacts
    <3> QED
      BY <2>6, <2>7, <3>2, <3>4
  <2> QED
    BY <2>2, <2>4, <2>7, <2>8
<1>6. m \in P
  <2>1. P \in SUBSET (0..m)
    OBVIOUS
  <2>2. P = 0..m
    <3> HIDE DEF P
    <3> QED
      BY <1>2, <1>4, <1>5, <2>1, UpTo
  <2> QED
    BY <1>2, <2>2
<1> QED
  BY <1>3, <1>6

-----------------------------------------------------------------------------
(* The inductive invariant.                                                *)

(* Block c, or the top, is around block b of tree t.                       *)
IsAround(t, c, b) == b \in Ids(t) /\ (c = Top \/ (c \in Ids(t) /\ Strictly(t, b, c)))

(* What is left to do is done from the inside out: what is around a block  *)
(* is sorted later, and a block waits for what is inside it only.          *)
TodoFits(do, t) ==
  /\ do \in Seq([step : {"search", "children", "sort"}, block : Ids(t) \cup {Top}])
  /\ \A i \in DOMAIN do : \A c \in Ids(t) \cup {Top} : IsAround(t, c, do[i].block) =>
       \E j \in DOMAIN do : i < j /\ do[j] = [step |-> "sort", block |-> c]
  /\ \A i, j \in DOMAIN do : i < j /\ do[j].step # "search" => IsAround(t, do[j].block, do[i].block)

(* The blocks that have still to be sorted.                                *)
Unsorted(do) == {do[i].block : i \in {j \in DOMAIN do : do[j].step # "search"}}

(* Between two calls the variables may be in no block, as long as the      *)
(* order is the one they were declared in.                                 *)
TreeFits(l, t, n, do) ==
  /\ l \in Levelings /\ Shape(t, n, N)
  /\ (do = <<>> /\ l = Identity /\ InLine(t)) \/ Tight(l, t)
  /\ Fresh(l, t, Unsorted(do))

FixedOrder(t) ==
  \A b \in Ids(t) : t.block[b].fixed = FIXED =>
    \A i, j \in DOMAIN t.kids[b] : i < j => t.block[t.kids[b][i]].first < t.block[t.kids[b][j]].first

(* How far the block a window of three began with is from its first place  *)
(* after so many exchanges.                                                *)
Offset(moves) == IF moves \in {2, 3} THEN 2 ELSE IF moves \in {1, 4} THEN 1 ELSE 0

(* A search by windows in list L.                                          *)
WindowFits(q, L) ==
  /\ q.kind \in Windows
  /\ q = [kind |-> q.kind, on |-> q.on, t |-> q.t, this |-> q.this, first |-> q.first,
          lastsize |-> q.lastsize, left |-> q.left, moves |-> q.moves, pos |-> q.pos, best |-> q.best]
  /\ q.t \in ToSet(L) /\ q.this \in ToSet(L)
  /\ q.moves \in 0..5 /\ q.pos \in 0..q.moves
  /\ q.moves = 0 => q.first = L[1]
  /\ q.moves # 0 => /\ q.kind \in {"win3", "win3ite"}
                    /\ q.left \in 1..(Len(L) - 2) /\ L[q.left + Offset(q.moves)] = q.this
                    /\ q.first = IF q.left = 1 THEN q.this ELSE L[1]

(* A search by sifting: the best place of the block is in the list.        *)
SiftFits(q, L) ==
  /\ q.kind \in Sifting
  /\ q = [kind |-> q.kind, on |-> q.on, this |-> q.this, left |-> q.left, best |-> q.best,
          allowed |-> q.allowed, bestpos |-> q.bestpos, up |-> q.up, leg |-> q.leg,
          fresh |-> q.fresh, lastsize |-> q.lastsize]
  /\ q.left \subseteq ToSet(L)
  /\ q.this # NoBlock => /\ q.bestpos \in Int
                         /\ \E h \in 1..Len(L) : L[h] = q.this /\ h - q.bestpos \in 1..Len(L)

RandomFits(q) == q = [kind |-> "random", on |-> q.on, left |-> q.left]

(* The search that runs is on the list of the block to visit next, which   *)
(* is free.                                                                *)
SearchFits(q, t, do) ==
  q # NoSearch =>
    /\ do # <<>> /\ do[1] = [step |-> "children", block |-> q.on]
    /\ q.on \in Ids(t) \cup {Top} /\ (q.on = Top \/ t.block[q.on].fixed = FREE)
    /\ Len(t.kids[q.on]) >= 1
    /\ WindowFits(q, t.kids[q.on]) \/ SiftFits(q, t.kids[q.on]) \/ RandomFits(q)

TreeInv   == TreeFits(level, tree, blockid, todo)
TodoInv   == TodoFits(todo, tree)
SearchInv == SearchFits(search, tree, todo)
FixedInv  == FixedOrder(tree)

(* The settings, and those that bdd_reorder saved.                         *)
SettingsInv ==
  /\ auto \in [method : Methods \cup {"none"}, times : Int, disabled : BOOLEAN]
  /\ nodenum \in Handlers
  /\ call = [method |-> call.method, automatic |-> call.automatic, before |-> call.before,
             after |-> call.after, saturated |-> call.saturated, cap |-> call.cap, saved |-> call.saved]
  /\ call.automatic \in BOOLEAN
  /\ call.saved \in [method : Methods \cup {"none"}, times : Int]
  /\ ~ Idle => call.method \in Methods

(* What is left of the number of automatic reorderings.                    *)
TimesInv ==
  /\ automatic \in [granted : Int, done : Int]
  /\ automatic.granted >= 0 =>
       /\ automatic.done <= automatic.granted
       /\ automatic.granted - automatic.done =
            IF Idle THEN auto.times
            ELSE call.saved.times - (IF call.automatic THEN 1 ELSE 0)

WantedInv == (wanted # AnyOrder => level = wanted) /\ (~ Idle => wanted = AnyOrder)

BlocksInv == TreeInv /\ TodoInv /\ SearchInv /\ FixedInv

BlockInv == BlocksInv /\ SettingsInv /\ TimesInv /\ WantedInv

-----------------------------------------------------------------------------
(* Steps of a search.                                                      *)

(* What a search may rely on: the blocks of its list L may move, and the   *)
(* order and the list fit together.                                        *)
Searching(L, D) ==
  /\ Shape(tree, blockid, N) /\ search.on \in Ids(tree) \cup {Top} /\ L = List
  /\ Movable(tree, search.on, D) /\ Arranged(Now, tree, search.on, blockid, D)
  /\ L \in Seq(Ids(tree)) /\ Len(L) \in Nat /\ Len(L) >= 1 /\ DOMAIN L = 1..Len(L)
  /\ \A i, j \in 1..Len(L) : L[i] = L[j] => i = j

(* While a search runs, the list it works on is the one its block holds,   *)
(* and that block waits for its children.                                  *)
LEMMA SearchRuns ==
  ASSUME BlocksInv, search # NoSearch
  PROVE  Searching(List, Unsorted(todo))
<1>1. /\ todo # <<>> /\ todo[1] = [step |-> "children", block |-> search.on]
      /\ search.on \in Ids(tree) \cup {Top} /\ Len(tree.kids[search.on]) >= 1
  BY DEF BlocksInv, SearchInv, SearchFits
<1>2. PICK t, p, D, l : t = tree /\ p = search.on /\ D = Unsorted(todo) /\ l = level
  OBVIOUS
<1>3. l \in Levelings /\ Shape(t, blockid, N) /\ Tight(l, t) /\ Fresh(l, t, D)
  BY <1>1, <1>2 DEF BlocksInv, TreeInv, TreeFits
<1>4. Blocks(t, blockid, N)
  BY <1>3 DEF Shape
<1>5. PICK L : L = t.kids[p]
  OBVIOUS
<1>6. L \in Seq(Ids(t)) /\ Len(L) \in Nat /\ DOMAIN L = 1..Len(L) /\ \A c : Kid(t, p, c) => c \in Ids(t)
  <2>1. p \in Ids(t) \cup {Top}
    BY <1>1, <1>2
  <2> QED
    BY <1>4, <1>5, <2>1, BlocksFacts
<1>7. \A i, j \in 1..Len(L) : L[i] = L[j] => i = j
  BY <1>1, <1>2, <1>3, <1>5, <1>6 DEF Shape, Listed
<1>8. /\ todo \in Seq([step : {"search", "children", "sort"}, block : Ids(t) \cup {Top}])
      /\ \A i \in DOMAIN todo : \A c \in Ids(t) \cup {Top} : IsAround(t, c, todo[i].block) =>
           \E j \in DOMAIN todo : i < j /\ todo[j] = [step |-> "sort", block |-> c]
      /\ \A i, j \in DOMAIN todo : i < j /\ todo[j].step # "search" =>
           IsAround(t, todo[j].block, todo[i].block)
  BY <1>2 DEF BlocksInv, TodoInv, TodoFits
<1>9. 1 \in DOMAIN todo /\ \A i \in DOMAIN todo : i \in Int /\ (i = 1 \/ 1 < i)
  <2>1. Len(todo) \in Nat /\ DOMAIN todo = 1..Len(todo) /\ (todo # <<>> => 1 <= Len(todo))
    BY <1>8, LenProperties, EmptySeq
  <2> QED
    BY <1>1, <2>1
<1>10. \A b : b \in D <=> \E i \in DOMAIN todo : todo[i].step # "search" /\ todo[i].block = b
  BY <1>2 DEF Unsorted
<1>11. todo[1].step = "children" /\ todo[1].block = p
  BY <1>1, <1>2
<1>12. ASSUME NEW k \in Ids(t), Kid(t, p, k)
       PROVE  k \notin D /\ \A c \in Ids(t) : Strictly(t, k, c) => c \in D
  <2>1. IsParent(t, p, k)
    BY <1>1, <1>2, <1>3, <1>12 DEF Shape, Parents
  <2>2. k # p
    <3>1. CASE p = Top
      BY <1>4, <3>1, BlocksFacts
    <3>2. CASE p # Top
      <4>1. Strictly(t, k, p) /\ p \in Ids(t)
        BY <1>1, <1>2, <2>1, <3>2 DEF IsParent
      <4> QED
        BY <1>4, <4>1, StrictlyFacts
    <3> QED
      BY <3>1, <3>2
  <2>3. k \notin D
    <3> SUFFICES ASSUME k \in D PROVE FALSE
      OBVIOUS
    <3>1. PICK i \in DOMAIN todo : todo[i].step # "search" /\ todo[i].block = k
      BY <1>10
    <3>2. i # 1
      BY <1>11, <2>2, <3>1
    <3>3. IsAround(t, k, p)
      BY <1>8, <1>9, <1>11, <3>1, <3>2
    <3>4. p \in Ids(t) /\ (k = Top \/ Strictly(t, p, k))
      BY <3>3 DEF IsAround
    <3>5. k # Top /\ p # Top
      BY <1>4, <3>4, BlocksFacts
    <3>6. Strictly(t, p, k) /\ Strictly(t, k, p)
      BY <2>1, <3>4, <3>5 DEF IsParent
    <3> QED
      BY <1>4, <3>4, <3>6, StrictlyFacts
  <2>4. ASSUME NEW c \in Ids(t), Strictly(t, k, c) PROVE c \in D
    <3>1. p # Top /\ (c = p \/ Strictly(t, p, c))
      BY <2>1, <2>4 DEF IsParent
    <3>2. CASE c = p
      BY <1>9, <1>10, <1>11, <3>2
    <3>3. CASE Strictly(t, p, c)
      <4>1. IsAround(t, c, todo[1].block)
        BY <1>1, <1>2, <1>11, <3>1, <3>3 DEF IsAround
      <4>2. PICK j \in DOMAIN todo : todo[j] = [step |-> "sort", block |-> c]
        BY <1>8, <1>9, <4>1
      <4>3. todo[j].step # "search" /\ todo[j].block = c
        BY <4>2
      <4> QED
        BY <1>10, <4>3
    <3> QED
      BY <3>1, <3>2, <3>3
  <2> QED
    BY <2>3, <2>4
<1>13. Movable(t, p, D)
  BY <1>12 DEF Movable
<1>14. WithKids(t, p, L) = t
  BY <1>1, <1>2, <1>4, <1>5, WithKidsFacts
<1>15. Layout(l, t, blockid, D)
  BY <1>3 DEF Layout
<1>16. PICK s : s = Now
  OBVIOUS
<1>17. s = [level |-> l, list |-> L]
  BY <1>2, <1>5, <1>16 DEF Now, List
<1>18. s.level = l /\ s.list = L
  BY <1>17
<1>19. Arranged(s, t, p, blockid, D)
  BY <1>5, <1>6, <1>14, <1>15, <1>17, <1>18 DEF Arranged
<1>20. L = List
  BY <1>2, <1>5 DEF List
<1> QED
  BY <1>1, <1>2, <1>3, <1>6, <1>7, <1>13, <1>16, <1>19, <1>20, <1>5 DEF Searching

(* A kind of search, in list L.                                            *)
KindFits(q, L) == WindowFits(q, L) \/ SiftFits(q, L) \/ RandomFits(q)

(* A step that moves blocks.                                               *)
LEMMA SearchMoves ==
  ASSUME BlocksInv, search # NoSearch, UNCHANGED <<blockid, todo>>,
         NEW s, Arranged(s, tree, search.on, blockid, Unsorted(todo)), Move(s),
         search'.on = search.on, KindFits(search', s.list)
  PROVE  BlocksInv'
<1>1. /\ todo # <<>> /\ todo[1] = [step |-> "children", block |-> search.on]
      /\ search.on \in Ids(tree) \cup {Top} /\ (search.on = Top \/ tree.block[search.on].fixed = FREE)
      /\ Len(tree.kids[search.on]) >= 1
  BY DEF BlocksInv, SearchInv, SearchFits
<1>2. PICK t, p, D : t = tree /\ p = search.on /\ D = Unsorted(todo)
  OBVIOUS
<1>3. Shape(t, blockid, N) /\ Blocks(t, blockid, N)
  BY <1>2 DEF BlocksInv, TreeInv, TreeFits, Shape
<1>4. PICK u : u = WithKids(t, p, s.list)
  OBVIOUS
<1>5. tree' = u /\ level' = s.level /\ todo' = todo /\ blockid' = blockid
  BY <1>2, <1>4 DEF Move, WithKids
<1>6. /\ Len(s.list) = Len(t.kids[p])
      /\ s.level \in Levelings /\ Shape(u, blockid, N) /\ Tight(s.level, u) /\ Fresh(s.level, u, D)
  BY <1>2, <1>4 DEF Arranged, Layout
<1>7. p \in Ids(t) \cup {Top}
  BY <1>1, <1>2
<1>8. /\ u.block = t.block /\ u.kids[p] = s.list /\ Ids(u) = Ids(t)
      /\ \A q \in Ids(t) \cup {Top} : q # p => u.kids[q] = t.kids[q]
  BY <1>3, <1>4, <1>7, WithKidsFacts
<1>9. TreeFits(level', tree', blockid', todo')
  BY <1>2, <1>5, <1>6 DEF TreeFits
<1>10. TodoFits(todo', tree')
  <2>1. \A c, b : IsAround(u, c, b) <=> IsAround(t, c, b)
    BY <1>8 DEF IsAround, Strictly
  <2>2. TodoFits(todo, t)
    BY <1>2 DEF BlocksInv, TodoInv
  <2>3. TodoFits(todo, u)
    BY <1>8, <2>1, <2>2 DEF TodoFits
  <2> QED
    BY <1>5, <2>3
<1>11. FixedOrder(tree')
  <2>1. FixedOrder(t)
    BY <1>2 DEF BlocksInv, FixedInv
  <2>2. p = Top \/ t.block[p].fixed # FIXED
    BY <1>1, <1>2 DEF FREE, FIXED
  <2>3. Top \notin Ids(t)
    BY <1>3, BlocksFacts
  <2>4. FixedOrder(u)
    BY <1>8, <2>1, <2>2, <2>3 DEF FixedOrder
  <2> QED
    BY <1>5, <2>4
<1>12. SearchFits(search', tree', todo')
  <2>1. PICK q : q = search'
    OBVIOUS
  <2>2. q.on = p /\ (WindowFits(q, u.kids[p]) \/ SiftFits(q, u.kids[p]) \/ RandomFits(q))
    BY <1>2, <1>8, <2>1 DEF KindFits
  <2>3. /\ todo # <<>> /\ todo[1] = [step |-> "children", block |-> p]
        /\ p \in Ids(u) \cup {Top} /\ (p = Top \/ u.block[p].fixed = FREE)
        /\ Len(u.kids[p]) >= 1
    BY <1>1, <1>2, <1>6, <1>8
  <2>4. SearchFits(q, u, todo)
    BY <2>2, <2>3 DEF SearchFits
  <2> QED
    BY <1>5, <2>1, <2>4
<1> QED
  BY <1>9, <1>10, <1>11, <1>12 DEF BlocksInv, TreeInv, TodoInv, FixedInv, SearchInv

(* A step that does not.                                                   *)
LEMMA SearchStays ==
  ASSUME BlocksInv, search # NoSearch, UNCHANGED <<blockid, todo>>, Stay,
         search'.on = search.on, KindFits(search', List)
  PROVE  BlocksInv'
<1>1. tree' = tree /\ level' = level /\ todo' = todo /\ blockid' = blockid
  BY DEF Stay
<1>2. TreeInv' /\ TodoInv' /\ FixedInv'
  BY <1>1 DEF BlocksInv, TreeInv, TodoInv, FixedInv
<1>3. SearchFits(search', tree, todo)
  <2>1. PICK q : q = search'
    OBVIOUS
  <2>2. WindowFits(q, tree.kids[q.on]) \/ SiftFits(q, tree.kids[q.on]) \/ RandomFits(q)
    BY <2>1 DEF KindFits, List
  <2> QED
    BY <2>1, <2>2 DEF BlocksInv, SearchInv, SearchFits
<1> QED
  BY <1>1, <1>2, <1>3 DEF BlocksInv, SearchInv

(* Returning the block that is already first in the list changes neither   *)
(* the tree nor the order: the search is over.                             *)
LEMMA ReturnSame ==
  ASSUME BlocksInv, search # NoSearch, NEW b, b = List[1], Return(b)
  PROVE  tree' = tree /\ level' = level /\ search' = NoSearch
<1>1. PICK L : L = List
  OBVIOUS
<1>2. Searching(L, Unsorted(todo))
  BY <1>1, SearchRuns
<1>3. /\ Shape(tree, blockid, N) /\ search.on \in Ids(tree) \cup {Top}
      /\ L \in Seq(Ids(tree)) /\ Len(L) \in Nat /\ Len(L) >= 1 /\ DOMAIN L = 1..Len(L)
      /\ \A i, j \in 1..Len(L) : L[i] = L[j] => i = j
  BY <1>2 DEF Searching
<1>4. (CHOOSE j \in DOMAIN L : L[j] = b) = 1
  <2>1. 1 \in DOMAIN L /\ L[1] = b
    BY <1>1, <1>3
  <2> QED
    BY <1>3, <2>1
<1>5. tree' = WithList(tree, search.on, SubSeq(L, 1, Len(L))) /\ level' = level /\ search' = NoSearch
  BY <1>1, <1>4 DEF Return
<1>6. L = tree.kids[search.on]
  BY <1>1 DEF List
<1>7. WithList(tree, search.on, SubSeq(L, 1, Len(L))) = tree
  <2>1. Len(L) \in 0..Len(tree.kids[search.on])
    BY <1>3, <1>6
  <2> QED
    BY <1>3, <1>6, <2>1, CutShape
<1> QED
  BY <1>5, <1>7

(* The search is over then, and all else holds on.                         *)
LEMMA SearchReturns ==
  ASSUME BlocksInv, search # NoSearch, UNCHANGED <<blockid, todo>>,
         NEW b, b = List[1], Return(b)
  PROVE  BlocksInv'
<1>1. tree' = tree /\ level' = level /\ search' = NoSearch
  BY ReturnSame
<1>2. TreeInv' /\ TodoInv' /\ FixedInv'
  BY <1>1 DEF BlocksInv, TreeInv, TodoInv, FixedInv
<1> QED
  BY <1>1, <1>2 DEF BlocksInv, SearchInv, SearchFits

(* The place of a block in the list.                                       *)
LEMMA HereIs ==
  ASSUME NEW L, NEW D, Searching(L, D), NEW h \in 1..Len(L), search.this = L[h]
  PROVE  Here = h
<1>1. L = List /\ DOMAIN L = 1..Len(L) /\ \A i, j \in 1..Len(L) : L[i] = L[j] => i = j
  BY DEF Searching
<1>2. Here = CHOOSE i \in DOMAIN L : L[i] = L[h]
  BY <1>1 DEF Here
<1> QED
  BY <1>1, <1>2

(* A block is moved down, and up again.                                    *)
LEMMA OneDown ==
  ASSUME NEW L, NEW D, Searching(L, D), NEW s, Arranged(s, tree, search.on, blockid, D),
         NEW i \in Int, 1 <= i, i + 1 <= Len(L)
  PROVE  /\ Arranged(blockdown(s, i), tree, search.on, blockid, D)
         /\ blockdown(blockdown(s, i), i) = s
         /\ blockdown(s, i).list[i] = s.list[i + 1] /\ blockdown(s, i).list[i + 1] = s.list[i]
         /\ \A j \in 1..Len(L) : j # i /\ j # i + 1 => blockdown(s, i).list[j] = s.list[j]
         /\ ToSet(blockdown(s, i).list) = ToSet(L) /\ Len(blockdown(s, i).list) = Len(L)
<1>1. /\ Shape(tree, blockid, N) /\ search.on \in Ids(tree) \cup {Top} /\ L = tree.kids[search.on]
      /\ Movable(tree, search.on, D) /\ Len(L) \in Nat
  BY DEF Searching, List
<1>2. /\ Arranged(blockdown(s, i), tree, search.on, blockid, D)
      /\ blockdown(s, i).list = Swap(s.list, i)
      /\ blockdown(blockdown(s, i), i) = s
  BY <1>1, BlockdownKeeps
<1>3. s.list \in Seq(Ids(tree)) /\ ToSet(s.list) = ToSet(L) /\ Len(s.list) = Len(L)
  BY <1>1 DEF Arranged
<1>4. PICK M : M = s.list
  OBVIOUS
<1>5. M \in Seq(Ids(tree)) /\ i \in 1..Len(M) /\ i + 1 \in 1..Len(M) /\ Len(M) = Len(L) /\ ToSet(M) = ToSet(L)
  BY <1>1, <1>3, <1>4
<1>6. /\ Len(Swap(M, i)) = Len(M) /\ ToSet(Swap(M, i)) = ToSet(M)
      /\ Swap(M, i)[i] = M[i + 1] /\ Swap(M, i)[i + 1] = M[i]
      /\ \A j \in 1..Len(M) : j # i /\ j # i + 1 => Swap(M, i)[j] = M[j]
  BY <1>5, SwapFacts
<1> QED
  BY <1>2, <1>4, <1>5, <1>6

(* Which search it is.                                                     *)
LEMMA WhichSearch ==
  ASSUME BlocksInv
  PROVE  /\ search.kind \in Windows => search # NoSearch /\ WindowFits(search, List)
         /\ search.kind \in Sifting => search # NoSearch /\ SiftFits(search, List)
         /\ search.kind = "random" => search # NoSearch /\ RandomFits(search)
<1>1. search # NoSearch => KindFits(search, List)
  BY DEF BlocksInv, SearchInv, SearchFits, KindFits, List
<1>2. NoSearch.kind = "none"
  BY DEF NoSearch
<1>3. /\ WindowFits(search, List) => search.kind \in Windows
      /\ SiftFits(search, List) => search.kind \in Sifting
      /\ RandomFits(search) => search.kind = "random"
  <2>1. PICK q, L : q = search /\ L = List
    OBVIOUS
  <2>2. RandomFits(q) => q.kind = "random"
    BY DEF RandomFits
  <2>3. WindowFits(q, L) => q.kind \in Windows
    BY DEF WindowFits
  <2>4. SiftFits(q, L) => q.kind \in Sifting
    BY DEF SiftFits
  <2> QED
    BY <2>1, <2>2, <2>3, <2>4
<1>4. search.kind \in Windows \cup Sifting \cup {"random"} => search # NoSearch
  BY <1>2 DEF Windows, Sifting
<1>5. /\ search.kind \in Windows => search.kind \notin Sifting /\ search.kind # "random"
      /\ search.kind \in Sifting => search.kind # "random"
  BY DEF Windows, Sifting
<1> QED
  BY <1>1, <1>3, <1>4, <1>5, Zenon DEF KindFits

(* A search by windows between two windows.                                *)
LEMMA WindowGoesOn ==
  ASSUME NEW q, NEW L, WindowFits(q, L), q.moves = 0,
         NEW M, ToSet(M) = ToSet(L), NEW x \in ToSet(L), NEW r,
         r.kind = q.kind, r.t = q.t, r.this = x, r.first = M[1], r.moves = 0, r.pos = 0,
         r = [kind |-> r.kind, on |-> r.on, t |-> r.t, this |-> r.this, first |-> r.first,
              lastsize |-> r.lastsize, left |-> r.left, moves |-> r.moves, pos |-> r.pos, best |-> r.best]
  PROVE  WindowFits(r, M)
<1>1. q.kind \in Windows /\ q.t \in ToSet(L)
  BY DEF WindowFits
<1>2. r.moves \in 0..5 /\ r.pos \in 0..r.moves
  OBVIOUS
<1> QED
  BY <1>1, <1>2 DEF WindowFits

(* A member of the list a search works on has a place there.               *)
LEMMA PlaceInList ==
  ASSUME NEW L, NEW D, Searching(L, D), NEW x
  PROVE  x \in ToSet(L) <=> \E h \in 1..Len(L) : L[h] = x
<1>1. DOMAIN L = 1..Len(L)
  BY DEF Searching
<1> QED
  BY <1>1 DEF ToSet

(* The window of two, its last step too.                                   *)
LEMMA PairMoves ==
  ASSUME BlocksInv, UNCHANGED <<blockid, todo>>, search.kind \in Windows, search.moves = 0, HasNext,
         NEW down, NEW back, down = blockdown(Now, Here), back = blockdown(down, Here),
         \/ Move(back) /\ search' = [search EXCEPT !.this = back.list[Here + 1]]
         \/ Move(down) /\ \/ search' = [search EXCEPT !.first = FirstAfter(down)]
                          \/ search' = [search EXCEPT !.first = IF Here = 1 THEN down.list[1] ELSE @]
  PROVE  BlocksInv'
<1>1. search # NoSearch /\ WindowFits(search, List)
  BY WhichSearch
<1>2. PICK q, L, D, p : q = search /\ L = List /\ D = Unsorted(todo) /\ p = search.on
  OBVIOUS
<1>3. Searching(L, D)
  BY <1>1, <1>2, SearchRuns
<1>4. /\ L \in Seq(Ids(tree)) /\ Len(L) \in Nat /\ Len(L) >= 1 /\ DOMAIN L = 1..Len(L)
      /\ \A i, j \in 1..Len(L) : L[i] = L[j] => i = j
  BY <1>3 DEF Searching
<1>5. /\ q = [kind |-> q.kind, on |-> q.on, t |-> q.t, this |-> q.this, first |-> q.first,
              lastsize |-> q.lastsize, left |-> q.left, moves |-> q.moves, pos |-> q.pos, best |-> q.best]
      /\ q.t \in ToSet(L) /\ q.this \in ToSet(L) /\ q.moves = 0 /\ q.pos = 0 /\ q.first = L[1]
      /\ WindowFits(q, L)
  BY <1>1, <1>2 DEF WindowFits
<1>6. PICK h \in 1..Len(L) : L[h] = q.this
  BY <1>3, <1>5, PlaceInList
<1>7. Here = h
  BY <1>2, <1>3, <1>6, HereIs
<1>8. h \in Int /\ 1 <= h /\ h + 1 <= Len(L) /\ h \in 1..Len(L) /\ h + 1 \in 1..Len(L)
  BY <1>2, <1>4, <1>6, <1>7 DEF HasNext
<1>9. PICK now : now = Now
  OBVIOUS
<1>10. Arranged(now, tree, p, blockid, D) /\ now.list = L
  BY <1>2, <1>3, <1>9 DEF Searching, Now
<1>11. down = blockdown(now, h) /\ back = blockdown(down, h)
  BY <1>7, <1>9
<1>12. /\ Arranged(down, tree, p, blockid, D) /\ back = now
       /\ ToSet(down.list) = ToSet(L) /\ down.list[h] = L[h + 1]
       /\ \A j \in 1..Len(L) : j # h /\ j # h + 1 => down.list[j] = L[j]
  BY <1>2, <1>3, <1>8, <1>10, <1>11, OneDown
<1>13. ToSet(L) = ToSet(L) /\ L[h + 1] \in ToSet(L)
  BY <1>3, <1>8, PlaceInList
<1>14. CASE Move(back) /\ search' = [search EXCEPT !.this = back.list[Here + 1]]
  <2>1. PICK r : r = search'
    OBVIOUS
  <2>2. r = [q EXCEPT !.this = L[h + 1]]
    BY <1>2, <1>7, <1>10, <1>12, <1>14, <2>1
  <2>3. /\ r.kind = q.kind /\ r.t = q.t /\ r.this = L[h + 1] /\ r.first = L[1] /\ r.moves = 0 /\ r.pos = 0
        /\ r = [kind |-> r.kind, on |-> r.on, t |-> r.t, this |-> r.this, first |-> r.first,
              lastsize |-> r.lastsize, left |-> r.left, moves |-> r.moves, pos |-> r.pos, best |-> r.best]
        /\ r.on = q.on
    BY <1>5, <2>2
  <2>4. WindowFits(r, L)
    BY <1>5, <1>13, <2>3, WindowGoesOn
  <2>5. search'.on = search.on /\ KindFits(search', back.list)
    BY <1>2, <1>10, <1>12, <2>1, <2>3, <2>4 DEF KindFits
  <2>6. Arranged(back, tree, search.on, blockid, Unsorted(todo))
    BY <1>2, <1>10, <1>12
  <2> QED
    BY <1>1, <1>14, <2>5, <2>6, SearchMoves
<1>15. CASE Move(down) /\ \/ search' = [search EXCEPT !.first = FirstAfter(down)]
                          \/ search' = [search EXCEPT !.first = IF Here = 1 THEN down.list[1] ELSE @]
  <2>1. PICK r : r = search'
    OBVIOUS
  <2>2. FirstAfter(down) = down.list[1]
    <3>1. FirstAfter(down) = IF L[1] = q.this THEN down.list[h] ELSE L[1]
      BY <1>2, <1>5, <1>7 DEF FirstAfter
    <3>2. L[1] = q.this <=> h = 1
      BY <1>4, <1>6
    <3>3. h # 1 => down.list[1] = L[1]
      BY <1>8, <1>12
    <3> QED
      BY <3>1, <3>2, <3>3
  <2>3. (IF Here = 1 THEN down.list[1] ELSE q.first) = down.list[1]
    BY <1>5, <1>7, <1>8, <1>12
  <2>4. r = [q EXCEPT !.first = down.list[1]]
    BY <1>2, <1>15, <2>1, <2>2, <2>3
  <2>5. /\ r.kind = q.kind /\ r.t = q.t /\ r.this = q.this /\ r.first = down.list[1]
        /\ r.moves = 0 /\ r.pos = 0
        /\ r = [kind |-> r.kind, on |-> r.on, t |-> r.t, this |-> r.this, first |-> r.first,
              lastsize |-> r.lastsize, left |-> r.left, moves |-> r.moves, pos |-> r.pos, best |-> r.best]
        /\ r.on = q.on
    BY <1>5, <2>4
  <2>6. WindowFits(r, down.list)
    BY <1>5, <1>12, <2>5, WindowGoesOn
  <2>7. search'.on = search.on /\ KindFits(search', down.list)
    BY <1>2, <2>1, <2>5, <2>6 DEF KindFits
  <2>8. Arranged(down, tree, search.on, blockid, Unsorted(todo))
    BY <1>2, <1>12
  <2> QED
    BY <1>1, <1>15, <2>7, <2>8, SearchMoves
<1> QED
  BY <1>14, <1>15

(* reorder_win2 and a round of reorder_win2ite.                            *)
LEMMA Win2StepKeeps ==
  ASSUME BlocksInv, UNCHANGED <<blockid, todo>>, Win2Step
  PROVE  BlocksInv'
<1>1. search.kind \in Windows /\ search.moves = 0
  <2>1. search.kind \in {"win2", "win2ite"}
    BY DEF Win2Step
  <2>2. search.kind \in Windows
    BY <2>1 DEF Windows
  <2>3. WindowFits(search, List)
    BY <2>2, WhichSearch
  <2> QED
    BY <2>1, <2>2, <2>3 DEF WindowFits
<1>2. HasNext /\ Win2
  BY DEF Win2Step
<1>3. PICK down, back : down = blockdown(Now, Here) /\ back = blockdown(down, Here)
  OBVIOUS
<1>4. \/ Move(back) /\ search' = [search EXCEPT !.this = back.list[Here + 1]]
      \/ Move(down) /\ search' = [search EXCEPT !.first = FirstAfter(down)]
  BY <1>2, <1>3 DEF Win2
<1> QED
  BY <1>1, <1>2, <1>3, <1>4, PairMoves

(* reorder_swapwin3 at the end of the list: only two blocks are left.      *)
LEMMA Win3PairKeeps ==
  ASSUME BlocksInv, UNCHANGED <<blockid, todo>>, Win3Pair
  PROVE  BlocksInv'
<1>1. search.kind \in Windows /\ search.moves = 0 /\ HasNext
  BY DEF Win3Pair, Windows
<1>3. PICK down, back : down = blockdown(Now, Here) /\ back = blockdown(down, Here)
  OBVIOUS
<1>4. \/ Move(back) /\ search' = [search EXCEPT !.this = back.list[Here + 1]]
      \/ Move(down) /\ search' = [search EXCEPT !.first = IF Here = 1 THEN down.list[1] ELSE @]
  BY <1>3 DEF Win3Pair
<1> QED
  BY <1>1, <1>3, <1>4, PairMoves

(* A scan that starts again, and one that ends.                            *)
LEMMA ScanKeeps ==
  ASSUME BlocksInv, UNCHANGED <<blockid, todo>>, Win2Again \/ Win2Ends \/ Win3Again \/ Win3Ends
  PROVE  BlocksInv'
<1>1. search.kind \in Windows
  BY DEF Win2Again, Win2Ends, Win3Again, Win3Ends, Windows
<1>2. search # NoSearch /\ WindowFits(search, List)
  BY <1>1, WhichSearch
<1>3. search.moves = 0
  <2>1. search.kind \in {"win2", "win2ite"} \/ search.moves = 0
    BY DEF Win2Again, Win2Ends, Win3Again, Win3Ends
  <2> QED
    BY <1>2, <2>1 DEF WindowFits
<1>4. PICK q, L, D : q = search /\ L = List /\ D = Unsorted(todo)
  OBVIOUS
<1>5. Searching(L, D)
  BY <1>2, <1>4, SearchRuns
<1>6. Len(L) \in Nat /\ Len(L) >= 1
  BY <1>5 DEF Searching
<1>7. /\ q = [kind |-> q.kind, on |-> q.on, t |-> q.t, this |-> q.this, first |-> q.first,
              lastsize |-> q.lastsize, left |-> q.left, moves |-> q.moves, pos |-> q.pos, best |-> q.best]
      /\ q.t \in ToSet(L) /\ q.moves = 0 /\ q.pos = 0 /\ q.first = L[1]
      /\ WindowFits(q, L)
  BY <1>2, <1>3, <1>4 DEF WindowFits
<1>8. CASE Win2Ends \/ Win3Ends
  <2>1. Return(q.first)
    BY <1>4, <1>8 DEF Win2Ends, Win3Ends
  <2>2. q.first = List[1]
    BY <1>4, <1>7
  <2> QED
    BY <1>2, <2>1, <2>2, SearchReturns
<1>9. CASE Win2Again \/ Win3Again
  <2>1. PICK r, size : r = search' /\ size = Size
    OBVIOUS
  <2>2. PICK x : (x = q.t \/ x = q.first) /\ r = [q EXCEPT !.this = x, !.lastsize = size] /\ Stay
    BY <1>4, <1>9, <2>1 DEF Win2Again, Win3Again
  <2>3. L[1] \in ToSet(L)
    <3>1. 1 \in 1..Len(L)
      BY <1>6
    <3> QED
      BY <1>5, <3>1, PlaceInList
  <2>4. x \in ToSet(L)
    BY <1>7, <2>2, <2>3
  <2>5. /\ r.kind = q.kind /\ r.t = q.t /\ r.this = x /\ r.first = L[1] /\ r.moves = 0 /\ r.pos = 0
        /\ r = [kind |-> r.kind, on |-> r.on, t |-> r.t, this |-> r.this, first |-> r.first,
              lastsize |-> r.lastsize, left |-> r.left, moves |-> r.moves, pos |-> r.pos, best |-> r.best]
        /\ r.on = q.on
    BY <1>7, <2>2
  <2>6. WindowFits(r, L)
    BY <1>7, <2>4, <2>5, WindowGoesOn
  <2>7. search'.on = search.on /\ KindFits(search', List)
    BY <1>4, <2>1, <2>5, <2>6 DEF KindFits
  <2> QED
    BY <1>2, <2>2, <2>7, SearchStays
<1> QED
  BY <1>8, <1>9

(* Where the block a window of three began with goes in each exchange.     *)
LEMMA OffsetFacts ==
  ASSUME NEW moves \in 0..4, NEW left \in Int
  PROVE  LET i == Win3Place(left, moves + 1)
             a == left + Offset(moves)
             b == left + Offset(moves + 1)
         IN  /\ i \in {left, left + 1}
             /\ \/ a = i /\ b = i + 1
                \/ a = i + 1 /\ b = i
                \/ a # i /\ a # i + 1 /\ a = b
<1>1. CASE moves = 0
  BY <1>1 DEF Win3Place, Offset
<1>2. CASE moves = 1
  BY <1>2 DEF Win3Place, Offset
<1>3. CASE moves = 2
  BY <1>3 DEF Win3Place, Offset
<1>4. CASE moves = 3
  BY <1>4 DEF Win3Place, Offset
<1>5. CASE moves = 4
  BY <1>5 DEF Win3Place, Offset
<1>6. moves \in {0, 1, 2, 3, 4}
  OBVIOUS
<1> QED
  BY <1>1, <1>2, <1>3, <1>4, <1>5, <1>6

(* reorder_swapwin3, one of its five trial exchanges.                      *)
LEMMA Win3MoveKeeps ==
  ASSUME BlocksInv, UNCHANGED <<blockid, todo>>, Win3Move
  PROVE  BlocksInv'
<1>1. search.kind \in Windows /\ search.kind \in {"win3", "win3ite"}
  BY DEF Win3Move, Windows
<1>2. search # NoSearch /\ WindowFits(search, List)
  BY <1>1, WhichSearch
<1>3. PICK q, L, D, p : q = search /\ L = List /\ D = Unsorted(todo) /\ p = search.on
  OBVIOUS
<1>4. Searching(L, D)
  BY <1>2, <1>3, SearchRuns
<1>5. /\ L \in Seq(Ids(tree)) /\ Len(L) \in Nat /\ Len(L) >= 1 /\ DOMAIN L = 1..Len(L)
      /\ \A i, j \in 1..Len(L) : L[i] = L[j] => i = j
  BY <1>4 DEF Searching
<1>6. WindowFits(q, L)
  BY <1>2, <1>3
<1>7. /\ q = [kind |-> q.kind, on |-> q.on, t |-> q.t, this |-> q.this, first |-> q.first,
              lastsize |-> q.lastsize, left |-> q.left, moves |-> q.moves, pos |-> q.pos, best |-> q.best]
      /\ q.t \in ToSet(L) /\ q.this \in ToSet(L) /\ q.moves \in 0..5 /\ q.pos \in 0..q.moves
  BY <1>6 DEF WindowFits
<1>8. q.moves \in 0..4
  <2>1. q.moves < 5
    BY <1>3 DEF Win3Move
  <2> QED
    BY <1>7, <2>1
<1>9. PICK left : left = IF q.moves = 0 THEN Here ELSE q.left
  OBVIOUS
<1>10. /\ left \in Int /\ 1 <= left /\ left + 2 <= Len(L) /\ L[left + Offset(q.moves)] = q.this
       /\ q.first = IF left = 1 THEN q.this ELSE L[1]
  <2>1. CASE q.moves = 0
    <3>1. PICK h \in 1..Len(L) : L[h] = q.this
      BY <1>4, <1>7, PlaceInList
    <3>2. Here = h
      BY <1>3, <1>4, <3>1, HereIs
    <3>3. HasTwo
      BY <1>3, <2>1 DEF Win3Move
    <3>4. h + 1 < Len(L)
      BY <1>3, <3>2, <3>3 DEF HasTwo
    <3>5. Offset(q.moves) = 0 /\ left = h
      BY <1>9, <2>1, <3>2 DEF Offset
    <3>6. q.first = L[1]
      BY <1>6, <2>1 DEF WindowFits
    <3> QED
      BY <1>5, <3>1, <3>4, <3>5, <3>6
  <2>2. CASE q.moves # 0
    <3>1. /\ q.left \in 1..(Len(L) - 2) /\ L[q.left + Offset(q.moves)] = q.this
          /\ q.first = IF q.left = 1 THEN q.this ELSE L[1]
      BY <1>6, <2>2 DEF WindowFits
    <3> QED
      BY <1>5, <1>9, <2>2, <3>1
  <2> QED
    BY <2>1, <2>2
<1>11. PICK i, a, b : /\ i = Win3Place(left, q.moves + 1)
                      /\ a = left + Offset(q.moves) /\ b = left + Offset(q.moves + 1)
  OBVIOUS
<1>12. /\ i \in {left, left + 1}
       /\ \/ a = i /\ b = i + 1
          \/ a = i + 1 /\ b = i
          \/ a # i /\ a # i + 1 /\ a = b
  BY <1>8, <1>10, <1>11, OffsetFacts
<1>13. a \in 1..Len(L)
  BY <1>5, <1>8, <1>10, <1>11 DEF Offset
<1>14. i \in Int /\ 1 <= i /\ i + 1 <= Len(L)
  BY <1>5, <1>10, <1>12
<1>15. PICK now, s : now = Now /\ s = blockdown(now, i)
  OBVIOUS
<1>16. Arranged(now, tree, p, blockid, D) /\ now.list = L
  BY <1>3, <1>4, <1>15 DEF Searching, Now
<1>17. /\ Arranged(s, tree, p, blockid, D) /\ ToSet(s.list) = ToSet(L) /\ Len(s.list) = Len(L)
       /\ s.list[i] = L[i + 1] /\ s.list[i + 1] = L[i]
       /\ \A j \in 1..Len(L) : j # i /\ j # i + 1 => s.list[j] = L[j]
  BY <1>3, <1>4, <1>14, <1>15, <1>16, OneDown
<1>18. s.list[b] = q.this
  BY <1>10, <1>11, <1>12, <1>13, <1>17
<1>19. PICK r, before, better :
         /\ r = search' /\ before = (IF q.moves = 0 THEN Size ELSE q.best)
         /\ better = Better(before, SizeIn(s, kept'))
  OBVIOUS
<1>20. /\ Move(s)
       /\ r = [q EXCEPT !.left  = left,
                        !.moves = @ + 1,
                        !.pos   = SinceBest(better, @ + 1),
                        !.best  = IF better THEN SizeIn(s, kept') ELSE before]
  BY <1>3, <1>9, <1>11, <1>15, <1>19 DEF Win3Move
<1>21. SinceBest(better, q.pos + 1) \in 0..(q.moves + 1)
  BY <1>7, <1>8 DEF SinceBest
<1>22. /\ r.kind = q.kind /\ r.on = q.on /\ r.t = q.t /\ r.this = q.this /\ r.first = q.first
       /\ r.left = left /\ r.moves = q.moves + 1 /\ r.pos = SinceBest(better, q.pos + 1)
       /\ r = [kind |-> r.kind, on |-> r.on, t |-> r.t, this |-> r.this, first |-> r.first,
               lastsize |-> r.lastsize, left |-> r.left, moves |-> r.moves, pos |-> r.pos, best |-> r.best]
  BY <1>7, <1>20
<1>23. /\ left \in 1..(Len(s.list) - 2) /\ s.list[left + Offset(r.moves)] = q.this
       /\ q.first = IF left = 1 THEN q.this ELSE s.list[1]
  <2>1. left \in 1..(Len(s.list) - 2)
    BY <1>5, <1>10, <1>17
  <2>2. s.list[left + Offset(r.moves)] = q.this
    BY <1>11, <1>18, <1>22
  <2>3. left # 1 => s.list[1] = L[1]
    BY <1>5, <1>10, <1>12, <1>17
  <2> QED
    BY <1>10, <2>1, <2>2, <2>3
<1>24. r.moves \in 0..5 /\ r.pos \in 0..r.moves /\ r.moves # 0
  BY <1>8, <1>21, <1>22
<1>25. WindowFits(r, s.list)
  BY <1>1, <1>3, <1>7, <1>17, <1>22, <1>23, <1>24 DEF WindowFits
<1>26. search'.on = search.on /\ KindFits(search', s.list)
  BY <1>3, <1>19, <1>22, <1>25 DEF KindFits
<1>27. Arranged(s, tree, search.on, blockid, Unsorted(todo))
  BY <1>3, <1>17
<1> QED
  BY <1>2, <1>20, <1>26, <1>27, SearchMoves

(* A sequence made of a function of places.                                *)
LEMMA PlacesFromFunction ==
  ASSUME NEW m \in Nat, NEW places, DOMAIN places = 1..m, places = [k \in 1..m |-> places[k]],
         NEW from, NEW to, \A k \in 1..m : places[k] \in Int /\ from <= places[k] /\ places[k] + 1 <= to
  PROVE  PlacesFit(places, from, to) /\ Len(places) = m
<1>1. places \in [1..m -> Int]
  OBVIOUS
<1>2. places \in Seq(Int)
  BY <1>1
<1>3. Len(places) = m
  BY <1>1, <1>2
<1> QED
  BY <1>2, <1>3 DEF PlacesFit

(* Several blocks moved in a row.                                          *)
LEMMA SomeDown ==
  ASSUME NEW L, NEW D, Searching(L, D), NEW from \in Int, 1 <= from,
         NEW places, PlacesFit(places, from, Len(L)), NEW s, s = BlocksDown(Now, places)
  PROVE  /\ Arranged(s, tree, search.on, blockid, D)
         /\ ToSet(s.list) = ToSet(L) /\ Len(s.list) = Len(L)
         /\ \A j \in 1..Len(L) : j < from \/ Len(places) = 0 => s.list[j] = L[j]
<1>1. PICK p : p = search.on
  OBVIOUS
<1>2. /\ Shape(tree, blockid, N) /\ p \in Ids(tree) \cup {Top} /\ L = tree.kids[p]
      /\ Movable(tree, p, D) /\ Len(L) \in Nat
      /\ Arranged(Now, tree, p, blockid, D)
  BY <1>1 DEF Searching, List
<1>3. PICK now : now = Now
  OBVIOUS
<1>4. now.list = L
  BY <1>1, <1>2, <1>3 DEF Now, List
<1>5. ASSUME NEW f \in Int, 1 <= f, PlacesFit(places, f, Len(L))
      PROVE  /\ Arranged(s, tree, p, blockid, D)
             /\ \A j \in 1..Len(L) : j < f => s.list[j] = L[j]
  <2>1. PlacesFit(places, f, Len(tree.kids[p]))
    BY <1>2, <1>5
  <2>2. Arranged(now, tree, p, blockid, D)
    BY <1>2, <1>3
  <2>3. /\ Arranged(BlocksDown(now, places), tree, p, blockid, D)
        /\ \A j \in 1..Len(tree.kids[p]) : j < f => BlocksDown(now, places).list[j] = now.list[j]
    BY <1>2, <1>5, <2>1, <2>2, BlocksDownKeeps
  <2> QED
    BY <1>2, <1>3, <1>4, <2>3
<1>6. /\ Arranged(s, tree, p, blockid, D)
      /\ \A j \in 1..Len(L) : j < from => s.list[j] = L[j]
  BY <1>5
<1>7. Len(places) = 0 => \A j \in 1..Len(L) : s.list[j] = L[j]
  <2> SUFFICES ASSUME Len(places) = 0 PROVE \A j \in 1..Len(L) : s.list[j] = L[j]
    OBVIOUS
  <2>1. PICK f : f = Len(L) + 1
    OBVIOUS
  <2>2. f \in Int /\ 1 <= f /\ \A j \in 1..Len(L) : j < f
    BY <1>2, <2>1
  <2>3. PlacesFit(places, f, Len(L))
    BY DEF PlacesFit
  <2> QED
    BY <1>5, <2>2, <2>3
<1>8. ToSet(s.list) = ToSet(L) /\ Len(s.list) = Len(L)
  BY <1>2, <1>6 DEF Arranged
<1> QED
  BY <1>1, <1>6, <1>7, <1>8

(* reorder_swapwin3 going back to the best of the arrangements it tried.   *)
LEMMA Win3BackKeeps ==
  ASSUME BlocksInv, UNCHANGED <<blockid, todo>>, Win3Back
  PROVE  BlocksInv'
<1>1. search.kind \in Windows /\ search.kind \in {"win3", "win3ite"}
  BY DEF Win3Back, Windows
<1>2. search # NoSearch /\ WindowFits(search, List)
  BY <1>1, WhichSearch
<1>3. PICK q, L, D, p : q = search /\ L = List /\ D = Unsorted(todo) /\ p = search.on
  OBVIOUS
<1>4. Searching(L, D)
  BY <1>2, <1>3, SearchRuns
<1>5. /\ L \in Seq(Ids(tree)) /\ Len(L) \in Nat /\ Len(L) >= 1 /\ DOMAIN L = 1..Len(L)
      /\ \A i, j \in 1..Len(L) : L[i] = L[j] => i = j
  BY <1>4 DEF Searching
<1>6. WindowFits(q, L) /\ q.moves = 5
  BY <1>2, <1>3 DEF Win3Back
<1>7. /\ q = [kind |-> q.kind, on |-> q.on, t |-> q.t, this |-> q.this, first |-> q.first,
              lastsize |-> q.lastsize, left |-> q.left, moves |-> q.moves, pos |-> q.pos, best |-> q.best]
      /\ q.t \in ToSet(L) /\ q.this \in ToSet(L) /\ q.pos \in 0..5
      /\ q.left \in 1..(Len(L) - 2) /\ L[q.left + Offset(q.moves)] = q.this
      /\ q.first = IF q.left = 1 THEN q.this ELSE L[1]
  BY <1>6 DEF WindowFits
<1>8. PICK left, pos : left = q.left /\ pos = q.pos
  OBVIOUS
<1>9. /\ left \in Int /\ 1 <= left /\ left + 2 <= Len(L) /\ pos \in Nat /\ pos <= 5
      /\ L[left] = q.this /\ q.first = L[1]
  BY <1>5, <1>6, <1>7, <1>8 DEF Offset
<1>10. PICK places, s : places = [k \in 1..pos |-> Win3Place(left, 6 - k)] /\ s = BlocksDown(Now, places)
  OBVIOUS
<1>11. \A k \in 1..pos : places[k] \in Int /\ left <= places[k] /\ places[k] + 1 <= Len(L)
  <2>1. \A k \in 1..pos : Win3Place(left, 6 - k) \in {left, left + 1}
    BY DEF Win3Place
  <2>2. \A k \in 1..pos : places[k] \in {left, left + 1}
    BY <1>10, <2>1
  <2>3. left \in Int /\ Len(L) \in Int /\ left + 2 <= Len(L)
    BY <1>5, <1>9
  <2> QED
    BY <2>2, <2>3
<1>12. PlacesFit(places, left, Len(L)) /\ Len(places) = pos
  <2>1. DOMAIN places = 1..pos /\ places = [k \in 1..pos |-> places[k]]
    BY <1>10
  <2> QED
    BY <1>9, <1>11, <2>1, PlacesFromFunction
<1>13. /\ Arranged(s, tree, p, blockid, D)
       /\ ToSet(s.list) = ToSet(L) /\ Len(s.list) = Len(L)
       /\ \A j \in 1..Len(L) : j < left \/ pos = 0 => s.list[j] = L[j]
  BY <1>3, <1>4, <1>9, <1>10, <1>12, SomeDown
<1>14. PICK r : r = search'
  OBVIOUS
<1>15. /\ Move(s)
       /\ r = [q EXCEPT !.this  = IF q.pos = 0 THEN @ ELSE s.list[left + 1],
                        !.first = IF q.pos > 0 /\ left = 1 THEN s.list[1] ELSE @,
                        !.left = 0, !.moves = 0, !.pos = 0, !.best = 0]
  BY <1>3, <1>8, <1>10, <1>14 DEF Win3Back
<1>16. /\ r.kind = q.kind /\ r.on = q.on /\ r.t = q.t
       /\ r.this = (IF pos = 0 THEN q.this ELSE s.list[left + 1])
       /\ r.first = (IF pos > 0 /\ left = 1 THEN s.list[1] ELSE q.first)
       /\ r.moves = 0 /\ r.pos = 0
       /\ r = [kind |-> r.kind, on |-> r.on, t |-> r.t, this |-> r.this, first |-> r.first,
               lastsize |-> r.lastsize, left |-> r.left, moves |-> r.moves, pos |-> r.pos, best |-> r.best]
  BY <1>7, <1>8, <1>15
<1>17. r.first = s.list[1]
  <2>1. 1 \in 1..Len(L) /\ (pos = 0 \/ pos > 0) /\ (left = 1 \/ 1 < left)
    BY <1>5, <1>9
  <2> QED
    BY <1>9, <1>13, <1>16, <2>1
<1>18. r.this \in ToSet(s.list)
  <2>1. left + 1 \in 1..Len(s.list) /\ DOMAIN s.list = 1..Len(s.list)
    <3>1. s.list \in Seq(Ids(tree))
      BY <1>13 DEF Arranged
    <3>2. DOMAIN s.list = 1..Len(s.list)
      BY <3>1, LenProperties
    <3> QED
      BY <1>5, <1>9, <1>13, <3>2
  <2>2. s.list[left + 1] \in ToSet(s.list)
    BY <2>1 DEF ToSet
  <2> QED
    BY <1>7, <1>13, <1>16, <2>2
<1>19. WindowFits(r, s.list)
  <2>1. r.moves \in 0..5 /\ r.pos \in 0..r.moves
    BY <1>16
  <2> QED
    BY <1>1, <1>3, <1>7, <1>13, <1>16, <1>17, <1>18, <2>1 DEF WindowFits
<1>20. search'.on = search.on /\ KindFits(search', s.list)
  BY <1>3, <1>14, <1>16, <1>19 DEF KindFits
<1>21. Arranged(s, tree, search.on, blockid, Unsorted(todo))
  BY <1>3, <1>13
<1> QED
  BY <1>2, <1>15, <1>20, <1>21, SearchMoves

(* The place that sifting has found best, on the way, and the block back   *)
(* at it.                                                                  *)
LEMMA SiftMoveKeeps ==
  ASSUME BlocksInv, UNCHANGED <<blockid, todo>>, SiftMove
  PROVE  BlocksInv'
<1>1. search.kind \in Sifting
  BY DEF SiftMove
<1>2. search # NoSearch /\ SiftFits(search, List)
  BY <1>1, WhichSearch
<1>3. PICK q, L, D, p : q = search /\ L = List /\ D = Unsorted(todo) /\ p = search.on
  OBVIOUS
<1>4. Searching(L, D)
  BY <1>2, <1>3, SearchRuns
<1>5. Len(L) \in Nat /\ Len(L) >= 1 /\ DOMAIN L = 1..Len(L)
  BY <1>4 DEF Searching
<1>6. /\ q = [kind |-> q.kind, on |-> q.on, this |-> q.this, left |-> q.left, best |-> q.best,
              allowed |-> q.allowed, bestpos |-> q.bestpos, up |-> q.up, leg |-> q.leg,
              fresh |-> q.fresh, lastsize |-> q.lastsize]
      /\ q.left \subseteq ToSet(L)
      /\ q.this # NoBlock => /\ q.bestpos \in Int
                             /\ \E h \in 1..Len(L) : L[h] = q.this /\ h - q.bestpos \in 1..Len(L)
  BY <1>2, <1>3 DEF SiftFits
<1>7. q.bestpos \in Int /\ q.this # NoBlock
  BY <1>3, <1>6 DEF SiftMove
<1>8. PICK h \in 1..Len(L) : L[h] = q.this /\ h - q.bestpos \in 1..Len(L)
  BY <1>6, <1>7
<1>9. Here = h
  BY <1>3, <1>4, <1>8, HereIs
<1>10. CanMove
  BY DEF SiftMove, OnItsWay
<1>11. PICK up, i : up = q.up /\ i = IF up THEN h - 1 ELSE h
  OBVIOUS
<1>12. h \in Int /\ i \in Int /\ 1 <= i /\ i + 1 <= Len(L)
  <2>1. IF up THEN h > 1 ELSE h < Len(L)
    BY <1>3, <1>9, <1>10, <1>11 DEF CanMove, HasNext
  <2> QED
    BY <1>5, <1>8, <1>11, <2>1
<1>13. PICK now, s : now = Now /\ s = blockdown(now, i)
  OBVIOUS
<1>14. Arranged(now, tree, p, blockid, D) /\ now.list = L
  BY <1>3, <1>4, <1>13 DEF Searching, Now
<1>15. /\ Arranged(s, tree, p, blockid, D) /\ ToSet(s.list) = ToSet(L) /\ Len(s.list) = Len(L)
       /\ s.list[i] = L[i + 1] /\ s.list[i + 1] = L[i]
  BY <1>3, <1>4, <1>12, <1>13, <1>14, OneDown
<1>16. PICK r, steps, better :
         /\ r = search' /\ steps = q.bestpos + (IF up THEN -1 ELSE 1)
         /\ better = Better(q.best, SizeIn(s, kept'))
  OBVIOUS
<1>17. /\ Move(s)
       /\ r = [q EXCEPT !.fresh   = FALSE,
                        !.bestpos = SinceBest(better, steps),
                        !.best    = IF better THEN SizeIn(s, kept') ELSE @,
                        !.allowed = IF better THEN Allowed(SizeIn(s, kept')) ELSE @]
  BY <1>3, <1>9, <1>11, <1>13, <1>16 DEF SiftMove
<1>18. PICK g : g = IF up THEN h - 1 ELSE h + 1
  OBVIOUS
<1>19. g \in 1..Len(L) /\ s.list[g] = q.this
  BY <1>5, <1>8, <1>11, <1>12, <1>15, <1>18
<1>20. SinceBest(better, steps) \in Int /\ g - SinceBest(better, steps) \in 1..Len(L)
  <2>1. steps \in Int /\ g - steps = h - q.bestpos
    BY <1>7, <1>12, <1>16, <1>18
  <2> QED
    BY <1>8, <1>19, <2>1 DEF SinceBest
<1>21. /\ r.kind = q.kind /\ r.on = q.on /\ r.this = q.this /\ r.left = q.left
       /\ r.bestpos = SinceBest(better, steps)
       /\ r = [kind |-> r.kind, on |-> r.on, this |-> r.this, left |-> r.left, best |-> r.best,
              allowed |-> r.allowed, bestpos |-> r.bestpos, up |-> r.up, leg |-> r.leg,
              fresh |-> r.fresh, lastsize |-> r.lastsize]
  BY <1>6, <1>17
<1>22. SiftFits(r, s.list)
  BY <1>1, <1>3, <1>6, <1>15, <1>19, <1>20, <1>21 DEF SiftFits
<1>23. search'.on = search.on /\ KindFits(search', s.list)
  BY <1>3, <1>16, <1>21, <1>22 DEF KindFits
<1>24. Arranged(s, tree, search.on, blockid, Unsorted(todo))
  BY <1>3, <1>15
<1> QED
  BY <1>2, <1>17, <1>23, <1>24, SearchMoves

(* The way back to the best place, for a block now at place h.             *)
WayFrom(h, bestpos) ==
  IF bestpos < 0 THEN [k \in 1..(-bestpos) |-> h + k - 1] ELSE [k \in 1..bestpos |-> h - k]

Far(bestpos) == IF bestpos < 0 THEN -bestpos ELSE bestpos

(* All of it is in the list.                                               *)
LEMMA WayFits ==
  ASSUME NEW n \in Nat, NEW h \in Int, NEW d \in Int, 1 <= h, h <= n, 1 <= h - d, h - d <= n
  PROVE  PlacesFit(WayFrom(h, d), 1, n) /\ Len(WayFrom(h, d)) = Far(d)
<1>1. PICK places, m : places = WayFrom(h, d) /\ m = Far(d)
  OBVIOUS
<1>2. m \in Nat /\ m = IF d < 0 THEN -d ELSE d
  BY <1>1 DEF Far
<1>3. /\ DOMAIN places = 1..m
      /\ \A k \in 1..m : places[k] = IF d < 0 THEN h + k - 1 ELSE h - k
  BY <1>1, <1>2 DEF WayFrom
<1>4. \A k \in 1..m : places[k] \in Int /\ 1 <= places[k] /\ places[k] + 1 <= n
  BY <1>2, <1>3
<1>5. places = [k \in 1..m |-> places[k]]
  BY <1>1, <1>2 DEF WayFrom
<1> QED
  BY <1>1, <1>2, <1>3, <1>4, <1>5, PlacesFromFunction

(* reorder_sift_bestpos going back to the best position it passed.         *)
LEMMA SiftBackKeeps ==
  ASSUME BlocksInv, UNCHANGED <<blockid, todo>>, SiftBack
  PROVE  BlocksInv'
<1>1. search.kind \in Sifting
  BY DEF SiftBack
<1>2. search # NoSearch /\ SiftFits(search, List)
  BY <1>1, WhichSearch
<1>3. PICK q, L, D, p : q = search /\ L = List /\ D = Unsorted(todo) /\ p = search.on
  OBVIOUS
<1>4. Searching(L, D)
  BY <1>2, <1>3, SearchRuns
<1>5. Len(L) \in Nat /\ Len(L) >= 1 /\ DOMAIN L = 1..Len(L)
  BY <1>4 DEF Searching
<1>6. /\ q = [kind |-> q.kind, on |-> q.on, this |-> q.this, left |-> q.left, best |-> q.best,
              allowed |-> q.allowed, bestpos |-> q.bestpos, up |-> q.up, leg |-> q.leg,
              fresh |-> q.fresh, lastsize |-> q.lastsize]
      /\ q.left \subseteq ToSet(L)
      /\ q.this # NoBlock => /\ q.bestpos \in Int
                             /\ \E h \in 1..Len(L) : L[h] = q.this /\ h - q.bestpos \in 1..Len(L)
  BY <1>2, <1>3 DEF SiftFits
<1>7. q.bestpos \in Int /\ q.this # NoBlock
  BY <1>3, <1>6 DEF SiftBack
<1>8. PICK h \in 1..Len(L) : L[h] = q.this /\ h - q.bestpos \in 1..Len(L)
  BY <1>6, <1>7
<1>9. Here = h
  BY <1>3, <1>4, <1>8, HereIs
<1>10. PICK d, places, s : d = q.bestpos /\ places = WayBack(d) /\ s = BlocksDown(Now, places)
  OBVIOUS
<1>11. d \in Int /\ h \in Int /\ 1 <= h /\ h <= Len(L) /\ 1 <= h - d /\ h - d <= Len(L)
  BY <1>5, <1>7, <1>8, <1>10
<1>12. PlacesFit(places, 1, Len(L))
  <2>1. places = WayFrom(h, d)
    BY <1>9, <1>10 DEF WayBack, WayFrom
  <2> QED
    BY <1>5, <1>11, <2>1, WayFits
<1>13. Arranged(s, tree, p, blockid, D) /\ ToSet(s.list) = ToSet(L)
  BY <1>3, <1>4, <1>10, <1>12, SomeDown
<1>14. PICK r : r = search'
  OBVIOUS
<1>15. Move(s) /\ r = [q EXCEPT !.this = NoBlock, !.best = 0, !.allowed = 0, !.bestpos = 0]
  BY <1>3, <1>10, <1>14 DEF SiftBack
<1>16. /\ r.kind = q.kind /\ r.on = q.on /\ r.this = NoBlock /\ r.left = q.left
       /\ r = [kind |-> r.kind, on |-> r.on, this |-> r.this, left |-> r.left, best |-> r.best,
              allowed |-> r.allowed, bestpos |-> r.bestpos, up |-> r.up, leg |-> r.leg,
              fresh |-> r.fresh, lastsize |-> r.lastsize]
  BY <1>6, <1>15
<1>17. SiftFits(r, s.list)
  BY <1>1, <1>3, <1>6, <1>13, <1>16 DEF SiftFits
<1>18. search'.on = search.on /\ KindFits(search', s.list)
  BY <1>3, <1>14, <1>16, <1>17 DEF KindFits
<1>19. Arranged(s, tree, search.on, blockid, Unsorted(todo))
  BY <1>3, <1>13
<1> QED
  BY <1>2, <1>15, <1>18, <1>19, SearchMoves

(* The steps of sifting in which no block moves, and its end.              *)
LEMMA SiftRestKeeps ==
  ASSUME BlocksInv, UNCHANGED <<blockid, todo>>, SiftStart \/ SiftTurn \/ SiftAgain \/ SiftEnds
  PROVE  BlocksInv'
<1>1. search.kind \in Sifting
  BY DEF SiftStart, SiftTurn, SiftAgain, SiftEnds, AllSifted
<1>2. search # NoSearch /\ SiftFits(search, List)
  BY <1>1, WhichSearch
<1>3. PICK q, L, D : q = search /\ L = List /\ D = Unsorted(todo)
  OBVIOUS
<1>4. Searching(L, D)
  BY <1>2, <1>3, SearchRuns
<1>6. /\ q = [kind |-> q.kind, on |-> q.on, this |-> q.this, left |-> q.left, best |-> q.best,
              allowed |-> q.allowed, bestpos |-> q.bestpos, up |-> q.up, leg |-> q.leg,
              fresh |-> q.fresh, lastsize |-> q.lastsize]
      /\ q.left \subseteq ToSet(L)
      /\ q.this # NoBlock => /\ q.bestpos \in Int
                             /\ \E h \in 1..Len(L) : L[h] = q.this /\ h - q.bestpos \in 1..Len(L)
  BY <1>2, <1>3 DEF SiftFits
<1>7. PICK r, size : r = search' /\ size = Size
  OBVIOUS
<1>8. CASE SiftStart
  <2>1. PICK b \in search.left :
          LET pos == (CHOOSE i \in DOMAIN List : List[i] = b) - 1 IN
          search' = [search EXCEPT
            !.this = b, !.left = @ \ {b},
            !.best = Size, !.allowed = Allowed(Size), !.bestpos = 0,
            !.up = ~ (pos > Len(List) \div 2), !.leg = 0, !.fresh = TRUE]
    BY <1>8 DEF SiftStart
  <2> DEFINE high == ~ ((CHOOSE i \in DOMAIN List : List[i] = b) - 1 > Len(List) \div 2)
  <2>2. PICK allowed, up : allowed = Allowed(Size) /\ up = high
    OBVIOUS
  <2>8. search' = [search EXCEPT
           !.this = b, !.left = @ \ {b}, !.best = Size, !.allowed = Allowed(Size), !.bestpos = 0,
           !.up = high, !.leg = 0, !.fresh = TRUE]
    BY <2>1, Zenon
  <2> HIDE DEF high
  <2>9. b \in q.left /\ r = [q EXCEPT !.this = b, !.left = @ \ {b}, !.best = size, !.allowed = allowed,
                                     !.bestpos = 0, !.up = up, !.leg = 0, !.fresh = TRUE]
    BY <1>3, <1>7, <2>2, <2>8
  <2>3. /\ r.kind = q.kind /\ r.on = q.on /\ r.this = b /\ r.left = q.left \ {b} /\ r.bestpos = 0
        /\ r = [kind |-> r.kind, on |-> r.on, this |-> r.this, left |-> r.left, best |-> r.best,
              allowed |-> r.allowed, bestpos |-> r.bestpos, up |-> r.up, leg |-> r.leg,
              fresh |-> r.fresh, lastsize |-> r.lastsize]
    BY <1>6, <2>9
  <2>4. PICK h \in 1..Len(L) : L[h] = b
    BY <1>4, <1>6, <2>9, PlaceInList
  <2>5. h - 0 \in 1..Len(L)
    OBVIOUS
  <2>6. SiftFits(r, L)
    BY <1>1, <1>3, <1>6, <2>3, <2>4, <2>5 DEF SiftFits
  <2>7. Stay /\ search'.on = search.on /\ KindFits(search', List)
    BY <1>3, <1>7, <1>8, <2>3, <2>6 DEF KindFits, SiftStart
  <2> QED
    BY <1>2, <2>7, SearchStays
<1>9. CASE SiftTurn
  <2>1. r = [q EXCEPT !.leg = @ + 1, !.up = ~ @, !.fresh = TRUE]
    BY <1>3, <1>7, <1>9 DEF SiftTurn
  <2>2. /\ r.kind = q.kind /\ r.on = q.on /\ r.this = q.this /\ r.left = q.left /\ r.bestpos = q.bestpos
        /\ r = [kind |-> r.kind, on |-> r.on, this |-> r.this, left |-> r.left, best |-> r.best,
              allowed |-> r.allowed, bestpos |-> r.bestpos, up |-> r.up, leg |-> r.leg,
              fresh |-> r.fresh, lastsize |-> r.lastsize]
    BY <1>6, <2>1
  <2>3. SiftFits(r, L)
    BY <1>1, <1>3, <1>6, <2>2 DEF SiftFits
  <2>4. Stay /\ search'.on = search.on /\ KindFits(search', List)
    BY <1>3, <1>7, <1>9, <2>2, <2>3 DEF KindFits, SiftTurn
  <2> QED
    BY <1>2, <2>4, SearchStays
<1>10. CASE SiftAgain
  <2>1. r = [q EXCEPT !.left = ToSet(L), !.lastsize = size] /\ q.this = NoBlock
    BY <1>3, <1>7, <1>10 DEF SiftAgain, AllSifted
  <2>2. /\ r.kind = q.kind /\ r.on = q.on /\ r.this = NoBlock /\ r.left = ToSet(L)
        /\ r = [kind |-> r.kind, on |-> r.on, this |-> r.this, left |-> r.left, best |-> r.best,
              allowed |-> r.allowed, bestpos |-> r.bestpos, up |-> r.up, leg |-> r.leg,
              fresh |-> r.fresh, lastsize |-> r.lastsize]
    BY <1>6, <2>1
  <2>3. SiftFits(r, L)
    BY <1>1, <1>3, <2>2 DEF SiftFits
  <2>4. Stay /\ search'.on = search.on /\ KindFits(search', List)
    BY <1>3, <1>7, <1>10, <2>2, <2>3 DEF KindFits, SiftAgain
  <2> QED
    BY <1>2, <2>4, SearchStays
<1>11. CASE SiftEnds
  <2>1. PICK b : b = List[1]
    OBVIOUS
  <2>2. Return(b)
    BY <1>11, <2>1 DEF SiftEnds
  <2> QED
    BY <1>2, <2>1, <2>2, SearchReturns
<1> QED
  BY <1>8, <1>9, <1>10, <1>11

(* The random order.                                                       *)
LEMMA RandomKeeps ==
  ASSUME BlocksInv, UNCHANGED <<blockid, todo>>, RandomMove \/ RandomEnds
  PROVE  BlocksInv'
<1>1. search.kind = "random"
  BY DEF RandomMove, RandomEnds
<1>2. search # NoSearch /\ RandomFits(search)
  BY <1>1, WhichSearch
<1>3. PICK q, L, D, p : q = search /\ L = List /\ D = Unsorted(todo) /\ p = search.on
  OBVIOUS
<1>4. Searching(L, D)
  BY <1>2, <1>3, SearchRuns
<1>5. Len(L) \in Nat /\ DOMAIN L = 1..Len(L)
  BY <1>4 DEF Searching
<1>6. CASE RandomMove
  <2>1. PICK r : r = search'
    OBVIOUS
  <2>2. r = [q EXCEPT !.left = @ - 1] /\ q = [kind |-> "random", on |-> q.on, left |-> q.left]
    BY <1>2, <1>3, <1>6, <2>1 DEF RandomMove, RandomFits
  <2>3. r = [kind |-> "random", on |-> r.on, left |-> r.left] /\ r.on = q.on
    BY <2>2
  <2>4. search'.on = search.on /\ \A M : KindFits(search', M)
    BY <1>3, <2>1, <2>3 DEF KindFits, RandomFits
  <2>5. PICK i \in DOMAIN L : IF i < Len(L) THEN Move(blockdown(Now, i)) ELSE Stay
    BY <1>3, <1>6 DEF RandomMove
  <2>6. CASE i < Len(L)
    <3>1. PICK now, s : now = Now /\ s = blockdown(now, i)
      OBVIOUS
    <3>2. Arranged(now, tree, p, blockid, D)
      BY <1>3, <1>4, <3>1 DEF Searching
    <3>3. i \in Int /\ 1 <= i /\ i + 1 <= Len(L)
      BY <1>5, <2>6
    <3>4. Arranged(s, tree, p, blockid, D)
      BY <1>3, <1>4, <3>1, <3>2, <3>3, OneDown
    <3>5. Move(s) /\ Arranged(s, tree, search.on, blockid, Unsorted(todo)) /\ KindFits(search', s.list)
      BY <1>3, <2>4, <2>5, <2>6, <3>1, <3>4
    <3> QED
      BY <1>2, <2>4, <3>5, SearchMoves
  <2>7. CASE ~ (i < Len(L))
    <3>1. Stay /\ KindFits(search', List)
      BY <2>4, <2>5, <2>7
    <3> QED
      BY <1>2, <2>4, <3>1, SearchStays
  <2> QED
    BY <2>6, <2>7
<1>7. CASE RandomEnds
  <2>1. PICK b : b = List[1]
    OBVIOUS
  <2>2. Return(b)
    BY <1>7, <2>1 DEF RandomEnds
  <2> QED
    BY <1>2, <2>1, <2>2, SearchReturns
<1> QED
  BY <1>6, <1>7

(* All of them.                                                            *)
LEMMA SearchStepKeeps ==
  ASSUME BlocksInv, SearchStep
  PROVE  BlocksInv'
<1>1. UNCHANGED <<blockid, todo>>
  BY DEF SearchStep, settings
<1>2. CASE Win2Step
  BY <1>1, <1>2, Win2StepKeeps
<1>3. CASE Win2Again \/ Win2Ends \/ Win3Again \/ Win3Ends
  BY <1>1, <1>3, ScanKeeps
<1>4. CASE Win3Move
  BY <1>1, <1>4, Win3MoveKeeps
<1>5. CASE Win3Back
  BY <1>1, <1>5, Win3BackKeeps
<1>6. CASE Win3Pair
  BY <1>1, <1>6, Win3PairKeeps
<1>7. CASE SiftMove
  BY <1>1, <1>7, SiftMoveKeeps
<1>8. CASE SiftBack
  BY <1>1, <1>8, SiftBackKeeps
<1>9. CASE SiftStart \/ SiftTurn \/ SiftAgain \/ SiftEnds
  BY <1>1, <1>9, SiftRestKeeps
<1>10. CASE RandomMove \/ RandomEnds
  BY <1>1, <1>10, RandomKeeps
<1> QED
  BY <1>2, <1>3, <1>4, <1>5, <1>6, <1>7, <1>8, <1>9, <1>10 DEF SearchStep

-----------------------------------------------------------------------------
(* Orders in which the blocks of every list come one after the other.      *)

(* A place has one number.                                                 *)
LEMMA SamePlace ==
  ASSUME NEW l \in Levelings, NEW X, NEW a, NEW b, NEW c, NEW d, Occupies(l, X, a, b), Occupies(l, X, c, d)
  PROVE  a = c /\ b = d
<1>1. c <= a /\ b <= d
  BY OccupiesBoth
<1>2. a <= c /\ d <= b
  BY OccupiesBoth
<1>3. a \in Int /\ b \in Int /\ c \in Int /\ d \in Int
  BY DEF Occupies
<1> QED
  BY <1>1, <1>2, <1>3

(* The blocks of a list are in the order of their levels.                  *)
LEMMA TightInOrder ==
  ASSUME NEW l \in Levelings, NEW t, NEW n, Shape(t, n, N), Tight(l, t), NEW p \in Ids(t) \cup {Top},
         NEW i \in DOMAIN t.kids[p], NEW j \in DOMAIN t.kids[p], i < j
  PROVE  \A v \in VarsOf(t, t.kids[p][i]), w \in VarsOf(t, t.kids[p][j]) : l[v] < l[w]
<1>1. PICK L : L = t.kids[p]
  OBVIOUS
<1>2. /\ Len(L) \in Nat /\ DOMAIN L = 1..Len(L)
      /\ \A h \in 1..Len(L) : L[h] \in Ids(t)
  BY <1>1, BlocksFacts DEF Shape
<1>3. i \in Int /\ j \in Int /\ 1 <= i /\ i < j /\ j <= Len(L) /\ j - i \in Nat
  BY <1>1, <1>2
<1>4. L[i] \in Ids(t)
  BY <1>2, <1>3
<1>5. PICK a \in Vars, e \in Vars : Occupies(l, VarsOf(t, L[i]), a, e)
  BY <1>4 DEF Tight, Held
<1>6. a \in Int /\ e \in Int /\ a <= e
  BY <1>5, VarsRange DEF Occupies
<1> DEFINE Good(d) == \E f, g \in Int : /\ Occupies(l, VarsOf(t, L[i + d]), f, g)
                                        /\ e <= g /\ (d # 0 => e < f)
           P == {d \in 0..(j - i) : Good(d)}
<1>7. 0 \in P
  <2>1. i + 0 = i /\ 0 \in 0..(j - i)
    BY <1>3
  <2> QED
    BY <1>5, <1>6, <2>1
<1>8. ASSUME NEW d \in 0..(j - i - 1), d \in P PROVE d + 1 \in P
  <2>1. PICK f \in Int, g \in Int : Occupies(l, VarsOf(t, L[i + d]), f, g) /\ e <= g
    BY <1>8
  <2>2. i + d \in 1..(Len(L) - 1) /\ (i + d) + 1 = i + (d + 1) /\ d + 1 \in 0..(j - i) /\ d + 1 # 0
    BY <1>3
  <2>3. NextTo(l, VarsOf(t, L[i + d]), VarsOf(t, L[(i + d) + 1]))
    BY <1>1, <2>2 DEF Tight
  <2>4. PICK lo \in Vars, mid \in Vars, hi \in Vars :
          /\ Occupies(l, VarsOf(t, L[i + d]), lo, mid)
          /\ Occupies(l, VarsOf(t, L[(i + d) + 1]), mid + 1, hi)
    BY <2>3 DEF NextTo
  <2>5. g = mid
    BY <2>1, <2>4, SamePlace
  <2>6. mid + 1 \in Int /\ hi \in Int /\ e < mid + 1 /\ e <= hi
    <3>1. mid \in Int /\ hi \in Int /\ mid + 1 <= hi
      BY <2>4, VarsRange DEF Occupies
    <3> QED
      BY <1>6, <2>1, <2>5, <3>1
  <2>7. Good(d + 1)
    BY <2>2, <2>4, <2>6
  <2> QED
    BY <2>2, <2>7
<1>9. j - i \in P
  <2>1. P \in SUBSET (0..(j - i))
    OBVIOUS
  <2>2. PICK m : m = j - i
    OBVIOUS
  <2>3. m \in Nat /\ m - 1 = j - i - 1
    BY <1>3, <2>2
  <2>4. P = 0..m
    <3> HIDE DEF P
    <3> QED
      BY <1>7, <1>8, <2>1, <2>2, <2>3, UpTo
  <2> QED
    BY <2>2, <2>3, <2>4
<1>10. i + (j - i) = j /\ j - i # 0
  BY <1>3
<1>11. PICK f \in Int, g \in Int : Occupies(l, VarsOf(t, L[j]), f, g) /\ e < f
  BY <1>9, <1>10
<1>12. ASSUME NEW v \in VarsOf(t, L[i]), NEW w \in VarsOf(t, L[j]) PROVE l[v] < l[w]
  <2>1. v \in Vars /\ w \in Vars /\ l[v] <= e /\ f <= l[w]
    BY <1>5, <1>11, OccupiesOnce
  <2>2. l[v] \in Int /\ l[w] \in Int
    BY <2>1, LevelingFacts
  <2> QED
    BY <1>6, <1>11, <2>1, <2>2
<1> QED
  BY <1>1, <1>12

(* In the order they were declared in, the variables of a range.           *)
LEMMA IdentityFacts ==
  /\ Identity \in Levelings
  /\ \A v \in Vars : Identity[v] = v
  /\ \A a, b \in Int : 0 <= a /\ a <= b /\ b < N => Occupies(Identity, a..b, a, b)
<1>1. \A v \in Vars : Identity[v] = v
  BY DEF Identity
<1>2. Identity \in Levelings
  BY DEF Identity, Levelings
<1>3. ASSUME NEW a \in Int, NEW b \in Int, 0 <= a, a <= b, b < N PROVE Occupies(Identity, a..b, a, b)
  <2>1. \A v : v \in a..b <=> v \in Int /\ a <= v /\ v <= b
    OBVIOUS
  <2>2. \A v : v \in a..b <=> v \in Vars /\ a <= v /\ v <= b
    BY <1>3, <2>1, VarsRange
  <2>3. a..b = {v \in Vars : a <= Identity[v] /\ Identity[v] <= b}
    BY <1>1, <2>2
  <2> QED
    BY <1>3, <2>3 DEF Occupies
<1> QED
  BY <1>1, <1>2, <1>3

(* Lists that leave no variable out come one after the other.              *)
LEMMA NoGapTight ==
  ASSUME NEW n, Shape(tree, n, N), InLine(tree), \A p \in DOMAIN tree.kids : ~ HasGap(p)
  PROVE  Tight(Identity, tree)
<1>0. Blocks(tree, n, N)
  BY DEF Shape
<1>1. Identity \in Levelings
  BY IdentityFacts
<1>2. ASSUME NEW b \in Ids(tree)
      PROVE  Occupies(Identity, VarsOf(tree, b), tree.block[b].first, tree.block[b].last)
  <2>1. /\ tree.block[b].first \in Int /\ tree.block[b].last \in Int /\ 0 <= tree.block[b].first
        /\ tree.block[b].first <= tree.block[b].last /\ tree.block[b].last < N
    BY <1>0, BlocksFacts
  <2> QED
    BY <2>1, IdentityFacts DEF VarsOf
<1>3. ASSUME NEW b \in Ids(tree) PROVE Held(Identity, VarsOf(tree, b))
  BY <1>1, <1>2, OccupiesOnce DEF Held
<1>4. ASSUME NEW p \in Ids(tree) \cup {Top}, NEW i \in 1..(Len(tree.kids[p]) - 1)
      PROVE  NextTo(Identity, VarsOf(tree, tree.kids[p][i]), VarsOf(tree, tree.kids[p][i + 1]))
  <2>1. PICK L : L = tree.kids[p]
    OBVIOUS
  <2>2. /\ Len(L) \in Nat /\ DOMAIN L = 1..Len(L)
        /\ \A h \in 1..Len(L) : L[h] \in Ids(tree)
    BY <1>0, <2>1, BlocksFacts
  <2>3. i \in Int /\ i \in 1..Len(L) /\ i + 1 \in 1..Len(L)
    BY <1>4, <2>1, <2>2
  <2>4. PICK x, y : x = L[i] /\ y = L[i + 1]
    OBVIOUS
  <2>5. x \in Ids(tree) /\ y \in Ids(tree)
    BY <2>2, <2>3, <2>4
  <2>6. /\ tree.block[x].first \in Int /\ tree.block[x].last \in Int /\ 0 <= tree.block[x].first
        /\ tree.block[x].first <= tree.block[x].last
        /\ tree.block[y].first \in Int /\ tree.block[y].last \in Int
        /\ tree.block[y].first <= tree.block[y].last /\ tree.block[y].last < N
    BY <1>0, <2>5, BlocksFacts
  <2>7. \A g, h \in 1..Len(L) : g < h => tree.block[L[g]].last < tree.block[L[h]].first
    <3> SUFFICES ASSUME NEW g \in 1..Len(L), NEW h \in 1..Len(L), g < h
                 PROVE  tree.block[L[g]].last < tree.block[L[h]].first
      OBVIOUS
    <3>1. g \in DOMAIN tree.kids[p] /\ h \in DOMAIN tree.kids[p]
      BY <2>1, <2>2
    <3> QED
      BY <2>1, <3>1 DEF InLine
  <2>8. tree.block[x].last < tree.block[y].first
    BY <2>3, <2>4, <2>7
  <2>9. PICK v : v = tree.block[x].last + 1
    OBVIOUS
  <2>10. v = tree.block[y].first
    <3> SUFFICES ASSUME v # tree.block[y].first PROVE FALSE
      OBVIOUS
    <3>1. v \in Int /\ v < tree.block[y].first /\ tree.block[x].last < v
      BY <2>6, <2>8, <2>9
    <3>2. v \in Vars
      BY <2>6, <3>1, VarsRange
    <3>3. ASSUME NEW h \in 1..Len(L) PROVE v \notin VarsOf(tree, L[h])
      <4>1. L[h] \in Ids(tree)
        BY <2>2
      <4>2. /\ tree.block[L[h]].first \in Int /\ tree.block[L[h]].last \in Int
            /\ tree.block[L[h]].first <= tree.block[L[h]].last
        BY <1>0, <4>1, BlocksFacts
      <4>3. h = i \/ h = i + 1 \/ h < i \/ i + 1 < h
        BY <2>3
      <4>4. CASE h = i \/ h < i
        <5>1. tree.block[L[h]].last <= tree.block[x].last
          <6>1. h < i => tree.block[L[h]].last < tree.block[x].first
            BY <2>3, <2>4, <2>7
          <6>2. h = i => L[h] = x
            BY <2>4
          <6> QED
            BY <2>6, <4>2, <4>4, <6>1, <6>2
        <5> QED
          BY <2>6, <3>1, <4>2, <5>1 DEF VarsOf
      <4>5. CASE h = i + 1 \/ i + 1 < h
        <5>1. tree.block[y].first <= tree.block[L[h]].first
          <6>1. i + 1 < h => tree.block[y].last < tree.block[L[h]].first
            BY <2>3, <2>4, <2>7
          <6>2. h = i + 1 => L[h] = y
            BY <2>4
          <6> QED
            BY <2>6, <4>2, <4>5, <6>1, <6>2
        <5> QED
          BY <2>6, <3>1, <4>2, <5>1 DEF VarsOf
      <4> QED
        BY <4>3, <4>4, <4>5
    <3>4. \A h \in DOMAIN L : v \notin VarsOf(tree, L[h])
      BY <2>2, <3>3
    <3>5. i \in DOMAIN L /\ i + 1 \in DOMAIN L
      BY <2>2, <2>3
    <3>6. HasGap(p)
      BY <2>1, <2>4, <3>1, <3>2, <3>4, <3>5 DEF HasGap
    <3>7. p \in DOMAIN tree.kids
      BY <1>0, BlocksFacts
    <3> QED
      BY <3>6, <3>7
  <2>11. /\ Occupies(Identity, VarsOf(tree, x), tree.block[x].first, tree.block[x].last)
         /\ Occupies(Identity, VarsOf(tree, y), tree.block[x].last + 1, tree.block[y].last)
    BY <1>2, <2>5, <2>9, <2>10
  <2> QED
    BY <1>1, <2>1, <2>4, <2>11, NextToIs
<1> QED
  BY <1>3, <1>4 DEF Tight

(* And when the order is the one they were declared in, so are the lists.  *)
LEMMA TightInLine ==
  ASSUME NEW t, NEW n, Shape(t, n, N), Tight(Identity, t)
  PROVE  InLine(t)
<1>1. Identity \in Levelings
  BY IdentityFacts
<1>2. SUFFICES ASSUME NEW p \in Ids(t) \cup {Top}, NEW i \in DOMAIN t.kids[p], NEW j \in DOMAIN t.kids[p], i < j
               PROVE  t.block[t.kids[p][i]].last < t.block[t.kids[p][j]].first
  BY DEF InLine
<1>3. PICK x, y : x = t.kids[p][i] /\ y = t.kids[p][j]
  OBVIOUS
<1>4. x \in Ids(t) /\ y \in Ids(t)
  BY <1>3, BlocksFacts DEF Shape
<1>5. PICK v, w : v = t.block[x].last /\ w = t.block[y].first
  OBVIOUS
<1>6. v \in VarsOf(t, x) /\ w \in VarsOf(t, y) /\ v \in Vars /\ w \in Vars
  <2>1. Blocks(t, n, N)
    BY DEF Shape
  <2>2. /\ t.block[x].first \in Int /\ v \in Int /\ 0 <= t.block[x].first /\ t.block[x].first <= v /\ v < N
        /\ w \in Int /\ t.block[y].last \in Int /\ 0 <= w /\ w <= t.block[y].last /\ t.block[y].last < N
    BY <1>4, <1>5, <2>1, BlocksFacts
  <2>3. v \in VarsOf(t, x) /\ w \in VarsOf(t, y)
    BY <1>5, <2>2 DEF VarsOf
  <2>4. v \in Int /\ 0 <= v /\ v < N /\ w \in Int /\ 0 <= w /\ w < N
    BY <2>2, VarsRange
  <2> QED
    BY <2>3, <2>4, VarsRange
<1>7. Identity[v] < Identity[w]
  BY <1>1, <1>2, <1>3, <1>6, TightInOrder
<1> QED
  BY <1>3, <1>5, <1>6, <1>7, IdentityFacts

-----------------------------------------------------------------------------
(* Steps of bdd_reorder.                                                   *)

(* Other entries at the front of a list.                                   *)
LEMMA FrontReplaced ==
  ASSUME NEW S, NEW L \in Seq(S), L # <<>>, NEW F \in Seq(S), NEW M, M = F \o Tail(L)
  PROVE  /\ M \in Seq(S) /\ Len(M) = Len(F) + Len(L) - 1 /\ Len(F) \in Nat /\ Len(L) \in Nat /\ Len(L) >= 1
         /\ DOMAIN M = 1..Len(M) /\ DOMAIN L = 1..Len(L)
         /\ \A i \in 1..Len(F) : M[i] = F[i]
         /\ \A i \in (Len(F) + 1)..Len(M) : M[i] = L[i - Len(F) + 1]
<1>1. Len(L) \in Nat /\ Len(L) >= 1 /\ DOMAIN L = 1..Len(L) /\ Len(F) \in Nat
  BY LenProperties, EmptySeq
<1>2. Tail(L) \in Seq(S) /\ Len(Tail(L)) = Len(L) - 1 /\ \A i \in 1..(Len(L) - 1) : Tail(L)[i] = L[i + 1]
  BY HeadTailProperties
<1>3. PICK T : T = Tail(L)
  OBVIOUS
<1>4. /\ M \in Seq(S) /\ Len(M) = Len(F) + Len(T)
      /\ \A i \in 1..(Len(F) + Len(T)) : M[i] = IF i <= Len(F) THEN F[i] ELSE T[i - Len(F)]
  BY <1>2, <1>3, ConcatProperties
<1>5. DOMAIN M = 1..Len(M)
  BY <1>4, LenProperties
<1>6. Len(M) = Len(F) + Len(L) - 1
  BY <1>1, <1>2, <1>3, <1>4
<1>7. \A i \in 1..Len(F) : M[i] = F[i]
  <2> SUFFICES ASSUME NEW i \in 1..Len(F) PROVE M[i] = F[i]
    OBVIOUS
  <2>1. Len(T) = Len(L) - 1
    BY <1>2, <1>3
  <2>2. i \in 1..(Len(F) + Len(T)) /\ i <= Len(F)
    BY <1>1, <2>1
  <2> QED
    BY <1>4, <2>2
<1>8. \A i \in (Len(F) + 1)..Len(M) : M[i] = L[i - Len(F) + 1]
  <2> SUFFICES ASSUME NEW i \in (Len(F) + 1)..Len(M) PROVE M[i] = L[i - Len(F) + 1]
    OBVIOUS
  <2>1. Len(T) = Len(L) - 1
    BY <1>2, <1>3
  <2>2. i \in 1..(Len(F) + Len(T)) /\ ~ (i <= Len(F)) /\ i - Len(F) \in 1..(Len(L) - 1)
    BY <1>1, <1>6, <2>1
  <2>3. M[i] = T[i - Len(F)]
    BY <1>4, <2>2
  <2> QED
    BY <1>2, <1>3, <2>2, <2>3
<1> QED
  BY <1>1, <1>4, <1>5, <1>6, <1>7, <1>8

(* The search that begins is one in the list of the block.                 *)
LEMMA BegunFits ==
  ASSUME NEW m \in Methods, NEW b, NEW L, L = tree.kids[b], Len(L) \in Nat, DOMAIN L = 1..Len(L), Len(L) >= 1
  PROVE  Begun(m, b).on = b /\ KindFits(Begun(m, b), L)
<1>1. PICK size, x : size = Size /\ x = L[1]
  OBVIOUS
<1>2. 1 \in 1..Len(L)
  OBVIOUS
<1>3. x \in ToSet(L)
  BY <1>1, <1>2 DEF ToSet
<1>4. PICK r : r = Begun(m, b)
  OBVIOUS
<1>5. CASE m \in Windows
  <2>1. r = [kind |-> m, on |-> b, t |-> x, this |-> x, first |-> x,
             lastsize |-> size, left |-> 0, moves |-> 0, pos |-> 0, best |-> 0]
    BY <1>1, <1>4, <1>5 DEF Begun, Windows, Sifting
  <2>2. r.on = b /\ WindowFits(r, L)
    BY <1>1, <1>3, <1>5, <2>1 DEF WindowFits
  <2> QED
    BY <1>4, <2>2 DEF KindFits
<1>6. CASE m \in Sifting
  <2>1. r = [kind |-> m, on |-> b, this |-> NoBlock, left |-> ToSet(L),
             best |-> 0, allowed |-> 0, bestpos |-> 0, up |-> FALSE, leg |-> 0,
             fresh |-> FALSE, lastsize |-> size]
    BY <1>1, <1>4, <1>6 DEF Begun, Windows, Sifting
  <2>2. r.on = b /\ SiftFits(r, L)
    BY <1>6, <2>1 DEF SiftFits
  <2> QED
    BY <1>4, <2>2 DEF KindFits
<1>7. CASE m \notin Windows /\ m \notin Sifting
  <2>1. m = "random"
    BY <1>7 DEF Methods
  <2>2. r = [kind |-> m, on |-> b, left |-> 4 * Len(L)]
    BY <1>4, <1>7 DEF Begun
  <2>3. r.on = b /\ RandomFits(r)
    BY <2>1, <2>2 DEF RandomFits
  <2> QED
    BY <1>4, <2>3 DEF KindFits
<1> QED
  BY <1>5, <1>6, <1>7

(* The first of what is left to do.                                        *)
LEMMA TodoFacts ==
  ASSUME BlocksInv, ~ Idle
  PROVE  /\ todo \in Seq([step : {"search", "children", "sort"}, block : Ids(tree) \cup {Top}])
         /\ Len(todo) \in Nat /\ Len(todo) >= 1 /\ DOMAIN todo = 1..Len(todo) /\ 1 \in DOMAIN todo
         /\ todo[1] = [step |-> todo[1].step, block |-> todo[1].block]
         /\ todo[1].block \in Ids(tree) \cup {Top}
         /\ level \in Levelings /\ Shape(tree, blockid, N) /\ Tight(level, tree)
         /\ Fresh(level, tree, Unsorted(todo))
<1>1. todo \in Seq([step : {"search", "children", "sort"}, block : Ids(tree) \cup {Top}])
  BY DEF BlocksInv, TodoInv, TodoFits
<1>2. todo # <<>>
  BY DEF Idle
<1>3. Len(todo) \in Nat /\ DOMAIN todo = 1..Len(todo) /\ Len(todo) >= 1
  BY <1>1, <1>2, LenProperties, EmptySeq
<1>4. 1 \in DOMAIN todo
  BY <1>3
<1>5. todo[1] \in [step : {"search", "children", "sort"}, block : Ids(tree) \cup {Top}]
  BY <1>1, <1>3, <1>4, ElementOfSeq
<1>6. /\ level \in Levelings /\ Shape(tree, blockid, N) /\ Tight(level, tree)
      /\ Fresh(level, tree, Unsorted(todo))
  BY <1>2 DEF BlocksInv, TreeInv, TreeFits
<1> QED
  BY <1>1, <1>3, <1>4, <1>5, <1>6

(* reorder_block reaching a block: it starts the method, or goes on to the *)
(* children.                                                               *)
LEMMA VisitBlockKeeps ==
  ASSUME BlocksInv, call.method \in Methods, VisitBlock
  PROVE  BlocksInv'
<1>1. ~ Idle /\ search = NoSearch /\ todo[1].step = "search"
  BY DEF VisitBlock
<1>2. PICK do, t, l, b : do = todo /\ t = tree /\ l = level /\ b = todo[1].block
  OBVIOUS
<1>3. /\ do \in Seq([step : {"search", "children", "sort"}, block : Ids(t) \cup {Top}])
      /\ Len(do) \in Nat /\ Len(do) >= 1 /\ DOMAIN do = 1..Len(do) /\ 1 \in DOMAIN do
      /\ b \in Ids(t) \cup {Top} /\ do[1].block = b
      /\ l \in Levelings /\ Shape(t, blockid, N) /\ Tight(l, t) /\ Fresh(l, t, Unsorted(do))
  BY <1>1, <1>2, TodoFacts
<1>4. PICK M, e : e = [step |-> "children", block |-> b] /\ M = <<e>> \o Tail(do)
  OBVIOUS
<1>5. /\ tree' = t /\ level' = l /\ todo' = M /\ blockid' = blockid
      /\ search' = IF IsFree(b) /\ tree.kids[b] # <<>> THEN Begun(call.method, b) ELSE NoSearch
  BY <1>2, <1>4 DEF VisitBlock, settings
<1>6. e \in [step : {"search", "children", "sort"}, block : Ids(t) \cup {Top}] /\ e.step = "children" /\ e.block = b
  BY <1>3, <1>4
<1>7. /\ <<e>> \in Seq([step : {"search", "children", "sort"}, block : Ids(t) \cup {Top}])
      /\ Len(<<e>>) = 1 /\ <<e>>[1] = e
  BY <1>6
<1>8. do # <<>>
  BY <1>1, <1>2 DEF Idle
<1>9. /\ M \in Seq([step : {"search", "children", "sort"}, block : Ids(t) \cup {Top}])
      /\ Len(M) = Len(do) /\ DOMAIN M = DOMAIN do /\ M[1] = e
      /\ \A i \in DOMAIN do : i # 1 => M[i] = do[i]
  <2>1. PICK F : F = <<e>>
    OBVIOUS
  <2>2. /\ M \in Seq([step : {"search", "children", "sort"}, block : Ids(t) \cup {Top}])
        /\ Len(M) = Len(F) + Len(do) - 1 /\ DOMAIN M = 1..Len(M)
        /\ \A i \in 1..Len(F) : M[i] = F[i]
        /\ \A i \in (Len(F) + 1)..Len(M) : M[i] = do[i - Len(F) + 1]
    BY <1>3, <1>4, <1>7, <1>8, <2>1, FrontReplaced
  <2>3. Len(F) = 1 /\ F[1] = e
    BY <1>7, <2>1
  <2>4. Len(M) = Len(do) /\ M[1] = e
    BY <1>3, <2>2, <2>3
  <2>5. \A i \in DOMAIN do : i # 1 => M[i] = do[i]
    <3> SUFFICES ASSUME NEW i \in DOMAIN do, i # 1 PROVE M[i] = do[i]
      OBVIOUS
    <3>1. i \in (1 + 1)..Len(M) /\ i - 1 + 1 = i
      BY <1>3, <2>4
    <3> QED
      BY <2>2, <2>3, <3>1
  <2> QED
    BY <1>3, <2>2, <2>4, <2>5
<1>10. \A i \in DOMAIN do : i \in Int /\ (i = 1 \/ 1 < i) /\ M[i].block = do[i].block /\ (i # 1 => M[i] = do[i])
  BY <1>3, <1>6, <1>9
<1>11. TreeFits(l, t, blockid, M)
  <2>1. ASSUME NEW c, c \in Unsorted(do) PROVE c \in Unsorted(M)
    <3>1. PICK i \in DOMAIN do : do[i].step # "search" /\ do[i].block = c
      BY <2>1 DEF Unsorted
    <3>2. i # 1
      BY <1>1, <1>2, <3>1
    <3>3. i \in DOMAIN M /\ M[i].step # "search" /\ M[i].block = c
      BY <1>9, <3>1, <3>2
    <3> QED
      BY <3>3 DEF Unsorted
  <2>2. Fresh(l, t, Unsorted(M))
    BY <1>3, <2>1 DEF Fresh
  <2> QED
    BY <1>3, <2>2 DEF TreeFits
<1>12. TodoFits(M, t)
  <2>1. /\ \A i \in DOMAIN do : \A c \in Ids(t) \cup {Top} : IsAround(t, c, do[i].block) =>
             \E j \in DOMAIN do : i < j /\ do[j] = [step |-> "sort", block |-> c]
        /\ \A i, j \in DOMAIN do : i < j /\ do[j].step # "search" =>
             IsAround(t, do[j].block, do[i].block)
    BY <1>2 DEF BlocksInv, TodoInv, TodoFits
  <2>2. ASSUME NEW i \in DOMAIN M, NEW c \in Ids(t) \cup {Top}, IsAround(t, c, M[i].block)
        PROVE  \E j \in DOMAIN M : i < j /\ M[j] = [step |-> "sort", block |-> c]
    <3>1. PICK j \in DOMAIN do : i < j /\ do[j] = [step |-> "sort", block |-> c]
      BY <1>9, <1>10, <2>1, <2>2
    <3>2. j # 1
      BY <1>9, <1>10, <3>1
    <3> QED
      BY <1>9, <1>10, <3>1, <3>2
  <2>3. ASSUME NEW i \in DOMAIN M, NEW j \in DOMAIN M, i < j, M[j].step # "search"
        PROVE  IsAround(t, M[j].block, M[i].block)
    <3>1. j # 1 /\ i \in DOMAIN do /\ j \in DOMAIN do
      BY <1>9, <1>10, <2>3
    <3>2. M[j] = do[j] /\ M[i].block = do[i].block
      BY <1>10, <3>1
    <3> QED
      BY <2>1, <2>3, <3>1, <3>2
  <2> QED
    BY <1>9, <2>2, <2>3 DEF TodoFits
<1>13. FixedOrder(t)
  BY <1>2 DEF BlocksInv, FixedInv
<1>14. SearchFits(search', t, M)
  <2>1. CASE IsFree(b) /\ t.kids[b] # <<>>
    <3>1. PICK L : L = t.kids[b]
      OBVIOUS
    <3>2. L \in Seq(Ids(t)) /\ Len(L) \in Nat /\ DOMAIN L = 1..Len(L)
      BY <1>3, <3>1, BlocksFacts DEF Shape
    <3>3. Len(L) >= 1
      BY <2>1, <3>1, <3>2, EmptySeq
    <3>4. PICK q : q = search'
      OBVIOUS
    <3>5. q = Begun(call.method, b)
      BY <1>2, <1>5, <2>1, <3>4
    <3>6. q.on = b /\ KindFits(q, L)
      BY <1>2, <3>1, <3>2, <3>3, <3>5, BegunFits
    <3>7. b = Top \/ t.block[b].fixed = FREE
      BY <1>2, <2>1 DEF IsFree
    <3>8. M # <<>> /\ M[1] = [step |-> "children", block |-> q.on]
      <4>1. Len(M) >= 1
        BY <1>3, <1>9
      <4> QED
        BY <1>4, <1>9, <3>6, <4>1, EmptySeq
    <3>9. SearchFits(q, t, M)
      BY <1>3, <3>1, <3>3, <3>6, <3>7, <3>8 DEF SearchFits, KindFits
    <3> QED
      BY <3>4, <3>9
  <2>2. CASE ~ (IsFree(b) /\ t.kids[b] # <<>>)
    BY <1>2, <1>5, <2>2 DEF SearchFits
  <2> QED
    BY <2>1, <2>2
<1> QED
  BY <1>5, <1>11, <1>12, <1>13, <1>14 DEF BlocksInv, TreeInv, TodoInv, SearchInv, FixedInv

(* reorder_block calling itself for each child of a block.                 *)
LEMMA VisitChildrenKeeps ==
  ASSUME BlocksInv, VisitChildren
  PROVE  BlocksInv'
<1>1. ~ Idle /\ search = NoSearch /\ todo[1].step = "children"
  BY DEF VisitChildren
<1>2. PICK do, t, l, b, E : /\ do = todo /\ t = tree /\ l = level /\ b = todo[1].block
                            /\ E = [step : {"search", "children", "sort"}, block : Ids(t) \cup {Top}]
  OBVIOUS
<1>3. /\ do \in Seq(E)
      /\ Len(do) \in Nat /\ Len(do) >= 1 /\ DOMAIN do = 1..Len(do) /\ 1 \in DOMAIN do
      /\ b \in Ids(t) \cup {Top} /\ do[1].block = b /\ do[1].step = "children"
      /\ l \in Levelings /\ Shape(t, blockid, N) /\ Tight(l, t) /\ Fresh(l, t, Unsorted(do))
  BY <1>1, <1>2, TodoFacts
<1>4. PICK L : L = t.kids[b]
  OBVIOUS
<1>5. /\ Blocks(t, blockid, N) /\ Len(L) \in Nat /\ DOMAIN L = 1..Len(L)
      /\ \A h \in 1..Len(L) : L[h] \in Ids(t) /\ Kid(t, b, L[h]) /\ IsParent(t, b, L[h])
  <2>1. Blocks(t, blockid, N) /\ Parents(t)
    BY <1>3 DEF Shape
  <2>2. Len(L) \in Nat /\ DOMAIN L = 1..Len(L) /\ \A h \in 1..Len(L) : L[h] \in Ids(t)
    BY <1>3, <1>4, <2>1, BlocksFacts
  <2>3. \A h \in 1..Len(L) : Kid(t, b, L[h])
    BY <1>4, <2>2 DEF Kid
  <2> QED
    BY <1>3, <2>1, <2>2, <2>3 DEF Parents
<1>6. PICK C, e, k : /\ C = [i \in DOMAIN L |-> [step |-> "search", block |-> L[i]]]
                     /\ e = [step |-> "sort", block |-> b] /\ k = Len(L)
  OBVIOUS
<1>7. e \in E /\ C \in Seq(E) /\ Len(C) = k /\ \A h \in 1..k : C[h] = [step |-> "search", block |-> L[h]]
  <2>1. e \in E
    BY <1>2, <1>3, <1>6
  <2>2. \A h \in 1..k : [step |-> "search", block |-> L[h]] \in E
    BY <1>2, <1>5, <1>6
  <2>3. C = [i \in 1..k |-> [step |-> "search", block |-> L[i]]] /\ k \in Nat
    BY <1>5, <1>6
  <2>4. C \in [1..k -> E]
    BY <2>2, <2>3
  <2>5. C \in Seq(E)
    BY <2>3, <2>4
  <2>6. Len(C) = k
    BY <2>3, <2>4, <2>5
  <2> QED
    BY <2>1, <2>3, <2>5, <2>6
<1>8. PICK F : F = C \o <<e>>
  OBVIOUS
<1>9. F \in Seq(E) /\ Len(F) = k + 1 /\ F[k + 1] = e /\ \A h \in 1..k : F[h] = C[h]
  <2>1. <<e>> \in Seq(E) /\ Len(<<e>>) = 1 /\ <<e>>[1] = e
    BY <1>7
  <2>2. PICK G : G = <<e>>
    OBVIOUS
  <2>3. /\ F \in Seq(E) /\ Len(F) = Len(C) + Len(G)
        /\ \A i \in 1..(Len(C) + Len(G)) : F[i] = IF i <= Len(C) THEN C[i] ELSE G[i - Len(C)]
    BY <1>7, <1>8, <2>1, <2>2, ConcatProperties
  <2>4. Len(G) = 1 /\ G[1] = e /\ k \in Nat
    BY <1>5, <1>6, <2>1, <2>2
  <2>5. F \in Seq(E) /\ Len(F) = k + 1
    BY <1>7, <2>3, <2>4
  <2>6. F[k + 1] = e
    <3>1. k + 1 \in 1..(k + 1) /\ ~ (k + 1 <= k) /\ (k + 1) - k = 1
      BY <2>4
    <3> QED
      BY <1>7, <2>3, <2>4, <3>1
  <2>7. \A h \in 1..k : F[h] = C[h]
    <3>1. \A h \in 1..k : h \in 1..(k + 1) /\ h <= k
      BY <2>4
    <3> QED
      BY <1>7, <2>3, <2>4, <3>1
  <2> QED
    BY <2>5, <2>6, <2>7
<1>10. PICK M : M = F \o Tail(do)
  OBVIOUS
<1>11. tree' = t /\ level' = l /\ todo' = M /\ blockid' = blockid /\ search' = NoSearch
  BY <1>1, <1>2, <1>4, <1>6, <1>8, <1>10 DEF VisitChildren, settings
<1>12. do # <<>>
  BY <1>1, <1>2 DEF Idle
<1>13. k \in Nat
  BY <1>5, <1>6
<1>14. /\ M \in Seq(E) /\ Len(M) = k + Len(do) /\ DOMAIN M = 1..(k + Len(do))
       /\ \A h \in 1..k : M[h] = [step |-> "search", block |-> L[h]]
       /\ M[k + 1] = e
       /\ \A i \in (k + 2)..(k + Len(do)) : M[i] = do[i - k]
  <2>0. F \in Seq(E) /\ do \in Seq(E)
    BY <1>3, <1>9
  <2>1. /\ M \in Seq(E) /\ Len(M) = Len(F) + Len(do) - 1 /\ DOMAIN M = 1..Len(M)
        /\ \A i \in 1..Len(F) : M[i] = F[i]
        /\ \A i \in (Len(F) + 1)..Len(M) : M[i] = do[i - Len(F) + 1]
    BY <1>10, <1>12, <2>0, FrontReplaced
  <2>2. Len(M) = k + Len(do)
    BY <1>3, <1>9, <1>13, <2>1
  <2>3. \A h \in 1..k : M[h] = [step |-> "search", block |-> L[h]]
    <3>1. \A h \in 1..k : h \in 1..(k + 1)
      BY <1>13
    <3> QED
      BY <1>7, <1>9, <2>1, <3>1
  <2>4. M[k + 1] = e
    <3>1. k + 1 \in 1..(k + 1)
      BY <1>13
    <3> QED
      BY <1>9, <2>1, <3>1
  <2>5. \A i \in (k + 2)..(k + Len(do)) : M[i] = do[i - k]
    <3> SUFFICES ASSUME NEW i \in (k + 2)..(k + Len(do)) PROVE M[i] = do[i - k]
      OBVIOUS
    <3>1. i \in (k + 1 + 1)..(k + Len(do)) /\ i - (k + 1) + 1 = i - k
      BY <1>3, <1>13
    <3> QED
      BY <1>9, <2>1, <2>2, <3>1
  <2> QED
    BY <2>1, <2>2, <2>3, <2>4, <2>5
<1>15. /\ e.step = "sort" /\ e.block = b
       /\ \A h \in 1..k : M[h].step = "search" /\ M[h].block = L[h]
  BY <1>6, <1>14
<1>16. \A i \in DOMAIN M : \/ i \in 1..k /\ M[i].step = "search" /\ M[i].block = L[i]
                           \/ i = k + 1 /\ M[i] = e
                           \/ i \in (k + 2)..(k + Len(do)) /\ i - k \in DOMAIN do /\ 1 < i - k /\ M[i] = do[i - k]
  <2> SUFFICES ASSUME NEW i \in DOMAIN M
               PROVE  \/ i \in 1..k /\ M[i].step = "search" /\ M[i].block = L[i]
                      \/ i = k + 1 /\ M[i] = e
                      \/ i \in (k + 2)..(k + Len(do)) /\ i - k \in DOMAIN do /\ 1 < i - k /\ M[i] = do[i - k]
    OBVIOUS
  <2>1. i \in Int /\ (i \in 1..k \/ i = k + 1 \/ i \in (k + 2)..(k + Len(do)))
    BY <1>3, <1>13, <1>14
  <2>2. i \in (k + 2)..(k + Len(do)) => i - k \in DOMAIN do /\ 1 < i - k
    BY <1>3, <1>13, <2>1
  <2>3. i \in (k + 2)..(k + Len(do)) => M[i] = do[i - k]
    BY <1>14
  <2>4. i = k + 1 => M[i] = e
    BY <1>14
  <2> QED
    BY <1>15, <2>1, <2>2, <2>3, <2>4
<1>17. \A j \in DOMAIN do : 1 < j => j + k \in DOMAIN M /\ M[j + k] = do[j] /\ k + 1 < j + k
  <2> SUFFICES ASSUME NEW j \in DOMAIN do, 1 < j
               PROVE  j + k \in DOMAIN M /\ M[j + k] = do[j] /\ k + 1 < j + k
    OBVIOUS
  <2>1. j + k \in (k + 2)..(k + Len(do)) /\ (j + k) - k = j /\ j + k \in 1..(k + Len(do)) /\ k + 1 < j + k
    BY <1>3, <1>13
  <2> QED
    BY <1>14, <2>1
<1>18. k + 1 \in DOMAIN M
  BY <1>3, <1>13, <1>14
<1>19. /\ \A i \in DOMAIN do : \A c \in Ids(t) \cup {Top} : IsAround(t, c, do[i].block) =>
            \E j \in DOMAIN do : i < j /\ do[j] = [step |-> "sort", block |-> c]
       /\ \A i, j \in DOMAIN do : i < j /\ do[j].step # "search" =>
            IsAround(t, do[j].block, do[i].block)
  BY <1>2 DEF BlocksInv, TodoInv, TodoFits
<1>20. TreeFits(l, t, blockid, M)
  <2>1. ASSUME NEW c, c \in Unsorted(do) PROVE c \in Unsorted(M)
    <3>1. PICK i \in DOMAIN do : do[i].step # "search" /\ do[i].block = c
      BY <2>1 DEF Unsorted
    <3>2. CASE i = 1
      BY <1>3, <1>14, <1>15, <1>18, <3>1, <3>2 DEF Unsorted
    <3>3. CASE i # 1
      <4>1. 1 < i
        BY <1>3, <3>3
      <4>2. i + k \in DOMAIN M /\ M[i + k] = do[i]
        BY <1>17, <4>1
      <4> QED
        BY <3>1, <4>2 DEF Unsorted
    <3> QED
      BY <3>2, <3>3
  <2>2. Fresh(l, t, Unsorted(M))
    BY <1>3, <2>1 DEF Fresh
  <2> QED
    BY <1>3, <2>2 DEF TreeFits
<1>21. ASSUME NEW c \in Ids(t) \cup {Top}, IsAround(t, c, b)
       PROVE  \E j \in DOMAIN M : k + 1 < j /\ M[j] = [step |-> "sort", block |-> c]
  <2>1. PICK j \in DOMAIN do : 1 < j /\ do[j] = [step |-> "sort", block |-> c]
    BY <1>3, <1>19, <1>21
  <2> QED
    BY <1>17, <2>1
<1>22. ASSUME NEW i \in DOMAIN M, NEW c \in Ids(t) \cup {Top}, IsAround(t, c, M[i].block)
       PROVE  \E j \in DOMAIN M : i < j /\ M[j] = [step |-> "sort", block |-> c]
  <2>1. CASE i \in 1..k /\ M[i].block = L[i]
    <3>1. i < k + 1 /\ \A j \in DOMAIN M : k + 1 < j => i < j
      BY <1>3, <1>13, <1>14, <2>1
    <3>2. L[i] \in Ids(t) /\ IsParent(t, b, L[i])
      BY <1>5, <1>6, <2>1
    <3>3. c = b \/ IsAround(t, c, b)
      <4>1. c = Top \/ (c \in Ids(t) /\ Strictly(t, L[i], c))
        BY <1>22, <2>1 DEF IsAround
      <4>2. CASE c = Top
        BY <1>3, <4>2 DEF IsAround
      <4>3. CASE c \in Ids(t) /\ Strictly(t, L[i], c)
        <5>1. b # Top /\ (c = b \/ Strictly(t, b, c))
          BY <3>2, <4>3 DEF IsParent
        <5> QED
          BY <1>3, <4>3, <5>1 DEF IsAround
      <4> QED
        BY <4>1, <4>2, <4>3
    <3>4. CASE c = b
      BY <1>6, <1>14, <1>18, <3>1, <3>4
    <3>5. CASE IsAround(t, c, b)
      BY <1>21, <3>1, <3>5
    <3> QED
      BY <3>3, <3>4, <3>5
  <2>2. CASE i = k + 1 /\ M[i] = e
    BY <1>15, <1>21, <1>22, <2>2
  <2>3. CASE i \in (k + 2)..(k + Len(do)) /\ i - k \in DOMAIN do /\ 1 < i - k /\ M[i] = do[i - k]
    <3>1. PICK j \in DOMAIN do : i - k < j /\ do[j] = [step |-> "sort", block |-> c]
      BY <1>19, <1>22, <2>3
    <3>2. 1 < j /\ i < j + k
      BY <1>3, <1>13, <2>3, <3>1
    <3> QED
      BY <1>17, <3>1, <3>2
  <2> QED
    BY <1>16, <2>1, <2>2, <2>3
<1>23. ASSUME NEW i \in DOMAIN M, NEW j \in DOMAIN M, i < j, M[j].step # "search"
       PROVE  IsAround(t, M[j].block, M[i].block)
  <2>0. i \in Int /\ j \in Int
    BY <1>14
  <2>1. CASE j = k + 1 /\ M[j] = e
    <3>1. i \in 1..k /\ M[i].block = L[i]
      <4>1. i \in 1..k \/ ~ (i < k + 1)
        BY <1>13, <1>14
      <4> QED
        BY <1>15, <1>23, <2>1, <4>1
    <3>2. L[i] \in Ids(t) /\ IsParent(t, b, L[i])
      BY <1>5, <1>6, <3>1
    <3> QED
      BY <1>3, <1>15, <2>1, <3>1, <3>2 DEF IsAround, IsParent
  <2>2. CASE j \in (k + 2)..(k + Len(do)) /\ j - k \in DOMAIN do /\ 1 < j - k /\ M[j] = do[j - k]
    <3>1. do[j - k].step # "search"
      BY <1>23, <2>2
    <3>2. IsAround(t, M[j].block, b)
      BY <1>3, <1>19, <2>2, <3>1
    <3>3. CASE i \in 1..k /\ M[i].block = L[i]
      <4>1. L[i] \in Ids(t) /\ IsParent(t, b, L[i])
        BY <1>5, <1>6, <3>3
      <4>2. b \in Ids(t) /\ b # Top
        BY <1>5, <3>2, BlocksFacts DEF IsAround
      <4>3. Strictly(t, L[i], b)
        BY <4>1, <4>2 DEF IsParent
      <4>4. M[j].block = Top \/ (M[j].block \in Ids(t) /\ Strictly(t, b, M[j].block))
        BY <3>2 DEF IsAround
      <4>5. \A c \in Ids(t) : Strictly(t, b, c) => Strictly(t, L[i], c)
        BY <1>5, <4>1, <4>2, <4>3, StrictlyFacts
      <4> QED
        BY <3>3, <4>1, <4>4, <4>5 DEF IsAround
    <3>4. CASE i = k + 1 /\ M[i] = e
      BY <1>15, <3>2, <3>4
    <3>5. CASE i \in (k + 2)..(k + Len(do)) /\ i - k \in DOMAIN do /\ 1 < i - k /\ M[i] = do[i - k]
      <4>1. i - k < j - k
        BY <1>13, <1>23, <2>0
      <4> QED
        BY <1>19, <2>2, <3>1, <3>5, <4>1
    <3> QED
      BY <1>16, <3>3, <3>4, <3>5
  <2>3. ~ (j \in 1..k /\ M[j].step = "search")
    BY <1>23
  <2> QED
    BY <1>16, <2>1, <2>2, <2>3
<1>24. TodoFits(M, t)
  BY <1>2, <1>14, <1>22, <1>23 DEF TodoFits
<1>25. FixedOrder(t)
  BY <1>2 DEF BlocksInv, FixedInv
<1>26. SearchFits(search', t, M)
  BY <1>11 DEF SearchFits
<1> QED
  BY <1>11, <1>20, <1>24, <1>25, <1>26 DEF BlocksInv, TreeInv, TodoInv, SearchInv, FixedInv

(* What a block's order is depends on its range only.                      *)
LEMMA SameSorted ==
  ASSUME NEW x, NEW y, x.first = y.first, x.last = y.last, NEW m
  PROVE  Sorted(m, x) = Sorted(m, y)
BY DEF Sorted

(* A block whose variables have been sorted may be relied on again.        *)
LEMMA SortBlockKeeps ==
  ASSUME BlocksInv, SortBlock
  PROVE  BlocksInv'
<1>1. ~ Idle /\ search = NoSearch /\ todo[1].step = "sort" /\ todo[1].block # Top
  BY DEF SortBlock
<1>2. PICK do, t, l, b, E : /\ do = todo /\ t = tree /\ l = level /\ b = todo[1].block
                            /\ E = [step : {"search", "children", "sort"}, block : Ids(t) \cup {Top}]
  OBVIOUS
<1>3. /\ do \in Seq(E)
      /\ Len(do) \in Nat /\ Len(do) >= 1 /\ DOMAIN do = 1..Len(do) /\ 1 \in DOMAIN do
      /\ b \in Ids(t) /\ do[1].block = b
      /\ l \in Levelings /\ Shape(t, blockid, N) /\ Tight(l, t) /\ Fresh(l, t, Unsorted(do))
  BY <1>1, <1>2, TodoFacts
<1>4. PICK seq, u : seq = Sorted(l, t.block[b]) /\ u = [t EXCEPT !.block[b].seq = seq]
  OBVIOUS
<1>5. /\ Shape(u, blockid, N) /\ Ids(u) = Ids(t) /\ u.kids = t.kids
      /\ u.block[b].seq = seq
      /\ \A c \in Ids(t) : /\ u.block[c].first = t.block[c].first
                           /\ u.block[c].last = t.block[c].last
                           /\ u.block[c].fixed = t.block[c].fixed
                           /\ c # b => u.block[c].seq = t.block[c].seq
  <2>1. b \in Ids(t) /\ Shape(t, blockid, N)
    BY <1>3
  <2>2. u = Resorted(t, b, seq)
    BY <1>4 DEF Resorted
  <2> QED
    BY <2>1, <2>2, ResortedShape
<1>6. PICK M : M = Tail(do)
  OBVIOUS
<1>7. tree' = u /\ level' = l /\ todo' = M /\ blockid' = blockid /\ search' = NoSearch
  BY <1>1, <1>2, <1>4, <1>6 DEF SortBlock, settings
<1>8. do # <<>>
  BY <1>1, <1>2 DEF Idle
<1>9. /\ M \in Seq(E) /\ Len(M) = Len(do) - 1 /\ DOMAIN M = 1..(Len(do) - 1)
      /\ \A i \in 1..(Len(do) - 1) : M[i] = do[i + 1]
  <2>1. /\ M \in Seq(E) /\ Len(M) = Len(do) - 1
        /\ \A i \in 1..Len(M) : M[i] = do[i + 1]
    BY <1>3, <1>6, <1>8, HeadTailProperties
  <2>2. DOMAIN M = 1..Len(M)
    BY <2>1, LenProperties
  <2> QED
    BY <2>1, <2>2
<1>10. /\ \A i \in DOMAIN do : \A c \in Ids(t) \cup {Top} : IsAround(t, c, do[i].block) =>
            \E j \in DOMAIN do : i < j /\ do[j] = [step |-> "sort", block |-> c]
       /\ \A i, j \in DOMAIN do : i < j /\ do[j].step # "search" =>
            IsAround(t, do[j].block, do[i].block)
  BY <1>2 DEF BlocksInv, TodoInv, TodoFits
<1>11. \A c, x : IsAround(u, c, x) <=> IsAround(t, c, x)
  BY <1>5 DEF IsAround, Strictly, SameRange
<1>12. \A c \in Ids(t) : VarsOf(u, c) = VarsOf(t, c) /\ \A m : Sorted(m, u.block[c]) = Sorted(m, t.block[c])
  <2> SUFFICES ASSUME NEW c \in Ids(t)
               PROVE  VarsOf(u, c) = VarsOf(t, c) /\ \A m : Sorted(m, u.block[c]) = Sorted(m, t.block[c])
    OBVIOUS
  <2>1. u.block[c].first = t.block[c].first /\ u.block[c].last = t.block[c].last
    BY <1>5
  <2>2. \A m : Sorted(m, u.block[c]) = Sorted(m, t.block[c])
    BY <2>1, SameSorted
  <2>3. VarsOf(u, c) = VarsOf(t, c)
    BY <2>1 DEF VarsOf
  <2> QED
    BY <2>2, <2>3
<1>13. \A i \in DOMAIN M : i + 1 \in DOMAIN do /\ M[i] = do[i + 1] /\ i \in Int
  BY <1>3, <1>9
<1>14. \A j \in DOMAIN do : j \in Int /\ (j = 1 \/ (1 < j /\ j - 1 \in DOMAIN M /\ M[j - 1] = do[j]))
  <2> SUFFICES ASSUME NEW j \in DOMAIN do
               PROVE  j \in Int /\ (j = 1 \/ (1 < j /\ j - 1 \in DOMAIN M /\ M[j - 1] = do[j]))
    OBVIOUS
  <2>1. j \in Int /\ (j = 1 \/ (1 < j /\ j - 1 \in 1..(Len(do) - 1) /\ (j - 1) + 1 = j))
    BY <1>3
  <2> QED
    BY <1>9, <2>1
<1>15. TreeFits(l, u, blockid, M)
  <2>1. ASSUME NEW c, c \in Unsorted(do), c # b PROVE c \in Unsorted(M)
    <3>1. PICK i \in DOMAIN do : do[i].step # "search" /\ do[i].block = c
      BY <2>1 DEF Unsorted
    <3>2. i # 1
      BY <1>3, <2>1, <3>1
    <3>3. i - 1 \in DOMAIN M /\ M[i - 1] = do[i]
      BY <1>14, <3>2
    <3> QED
      BY <3>1, <3>3 DEF Unsorted
  <2>2. Fresh(l, u, Unsorted(M))
    <3> SUFFICES ASSUME NEW c \in Ids(t), c \notin Unsorted(M) PROVE u.block[c].seq = Sorted(l, u.block[c])
      BY <1>5 DEF Fresh
    <3>1. CASE c = b
      BY <1>4, <1>5, <1>12, <3>1
    <3>2. CASE c # b
      <4>1. c \notin Unsorted(do)
        BY <2>1, <3>2
      <4>2. t.block[c].seq = Sorted(l, t.block[c])
        BY <1>3, <4>1 DEF Fresh
      <4> QED
        BY <1>5, <1>12, <3>2, <4>2
    <3> QED
      BY <3>1, <3>2
  <2>3. Tight(l, u)
    <3>1. \A p \in Ids(t) \cup {Top} : \A i \in 1..(Len(t.kids[p]) - 1) :
            t.kids[p][i] \in Ids(t) /\ t.kids[p][i + 1] \in Ids(t)
      <4> SUFFICES ASSUME NEW p \in Ids(t) \cup {Top}, NEW i \in 1..(Len(t.kids[p]) - 1)
                   PROVE  t.kids[p][i] \in Ids(t) /\ t.kids[p][i + 1] \in Ids(t)
        OBVIOUS
      <4>1. Len(t.kids[p]) \in Nat /\ \A h \in 1..Len(t.kids[p]) : t.kids[p][h] \in Ids(t)
        BY <1>3, BlocksFacts DEF Shape
      <4> QED
        BY <4>1
    <3>2. \A c \in Ids(t) : VarsOf(u, c) = VarsOf(t, c)
      BY <1>12
    <3> QED
      BY <1>3, <1>5, <3>1, <3>2 DEF Tight
  <2> QED
    BY <1>3, <1>5, <2>2, <2>3 DEF TreeFits
<1>16. ASSUME NEW i \in DOMAIN M, NEW c \in Ids(u) \cup {Top}, IsAround(u, c, M[i].block)
       PROVE  \E j \in DOMAIN M : i < j /\ M[j] = [step |-> "sort", block |-> c]
  <2>1. i + 1 \in DOMAIN do /\ M[i] = do[i + 1] /\ i \in Int
    BY <1>13
  <2>2. PICK j \in DOMAIN do : i + 1 < j /\ do[j] = [step |-> "sort", block |-> c]
    BY <1>5, <1>10, <1>11, <1>16, <2>1
  <2>3. j # 1
    BY <1>9, <2>2
  <2>4. j - 1 \in DOMAIN M /\ M[j - 1] = do[j] /\ i < j - 1
    BY <1>14, <2>1, <2>2, <2>3
  <2> QED
    BY <2>2, <2>4
<1>17. ASSUME NEW i \in DOMAIN M, NEW j \in DOMAIN M, i < j, M[j].step # "search"
       PROVE  IsAround(u, M[j].block, M[i].block)
  <2>1. i + 1 \in DOMAIN do /\ j + 1 \in DOMAIN do /\ i + 1 < j + 1 /\ M[i] = do[i + 1] /\ M[j] = do[j + 1]
    BY <1>13, <1>17
  <2> QED
    BY <1>10, <1>11, <1>17, <2>1
<1>18. TodoFits(M, u)
  BY <1>2, <1>5, <1>9, <1>16, <1>17 DEF TodoFits
<1>19. FixedOrder(u)
  <2>1. FixedOrder(t)
    BY <1>2 DEF BlocksInv, FixedInv
  <2>2. \A c \in Ids(t) : \A i \in DOMAIN t.kids[c] : t.kids[c][i] \in Ids(t)
    BY <1>3, BlocksFacts DEF Shape
  <2> QED
    BY <1>5, <2>1, <2>2 DEF FixedOrder
<1>20. SearchFits(search', u, M)
  BY <1>7 DEF SearchFits
<1> QED
  BY <1>7, <1>15, <1>18, <1>19, <1>20 DEF BlocksInv, TreeInv, TodoInv, SearchInv, FixedInv

(* Nothing is left to do after the top.                                    *)
LEMMA EndReorderKeeps ==
  ASSUME BlocksInv, EndReorder
  PROVE  BlocksInv'
<1>1. ~ Idle /\ search = NoSearch /\ todo[1].step = "sort" /\ todo[1].block = Top
  BY DEF EndReorder
<1>2. PICK do, t, l : do = todo /\ t = tree /\ l = level
  OBVIOUS
<1>3. /\ DOMAIN do = 1..Len(do) /\ 1 \in DOMAIN do /\ Len(do) \in Nat
      /\ l \in Levelings /\ Shape(t, blockid, N) /\ Tight(l, t) /\ Fresh(l, t, Unsorted(do))
  BY <1>1, <1>2, TodoFacts
<1>4. tree' = t /\ level' = l /\ todo' = <<>> /\ blockid' = blockid /\ search' = NoSearch
  BY <1>1, <1>2 DEF EndReorder, settings
<1>5. Top \notin Ids(t)
  BY <1>3, BlocksFacts DEF Shape
<1>6. ASSUME NEW c, c \in Unsorted(do) PROVE c = Top
  <2>1. PICK i \in DOMAIN do : do[i].step # "search" /\ do[i].block = c
    BY <1>6 DEF Unsorted
  <2>2. \A i1, j \in DOMAIN do : i1 < j /\ do[j].step # "search" => IsAround(t, do[j].block, do[i1].block)
    BY <1>2 DEF BlocksInv, TodoInv, TodoFits
  <2>3. CASE i = 1
    BY <1>1, <1>2, <2>1, <2>3
  <2>4. CASE i # 1
    <3>1. 1 < i
      BY <1>3, <2>4
    <3>2. IsAround(t, c, Top)
      BY <1>1, <1>2, <1>3, <2>1, <2>2, <3>1
    <3> QED
      BY <1>5, <3>2 DEF IsAround
  <2> QED
    BY <2>3, <2>4
<1>7. TreeFits(l, t, blockid, <<>>)
  <2>1. Fresh(l, t, Unsorted(<<>>))
    BY <1>3, <1>5, <1>6 DEF Fresh
  <2> QED
    BY <1>3, <2>1 DEF TreeFits
<1>8. TodoFits(<<>>, t)
  BY DEF TodoFits
<1>9. FixedOrder(t)
  BY <1>2 DEF BlocksInv, FixedInv
<1>10. SearchFits(search', t, <<>>)
  BY <1>4 DEF SearchFits
<1> QED
  BY <1>4, <1>7, <1>8, <1>9, <1>10 DEF BlocksInv, TreeInv, TodoInv, SearchInv, FixedInv

(* The blocks of a list come one after the other when a reordering begins, *)
(* if the program declared no gaps.                                        *)
LEMMA BeginReorderKeeps ==
  ASSUME BlocksInv, ~ Gaps, NEW m, NEW isAuto, BeginReorder(m, isAuto)
  PROVE  BlocksInv'
<1>1. PICK t, l, M : t = tree /\ l = level /\ M = <<[step |-> "search", block |-> Top]>>
  OBVIOUS
<1>2. todo = <<>> /\ tree' = t /\ level' = l /\ todo' = M /\ blockid' = blockid /\ search' = search
  BY <1>1 DEF BeginReorder, MayCall, Idle, settings
<1>3. l \in Levelings /\ Shape(t, blockid, N) /\ Fresh(l, t, Unsorted(todo))
  BY <1>1 DEF BlocksInv, TreeInv, TreeFits
<1>4. Top \notin Ids(t)
  BY <1>3, BlocksFacts DEF Shape
<1>5. Tight(l, t)
  <2>1. (l = Identity /\ InLine(t)) \/ Tight(l, t)
    BY <1>1 DEF BlocksInv, TreeInv, TreeFits
  <2>2. CASE l = Identity /\ InLine(t)
    <3>1. \A p \in DOMAIN tree.kids : ~ HasGap(p)
      BY DEF BeginReorder
    <3> QED
      BY <1>1, <1>3, <2>2, <3>1, NoGapTight
  <2> QED
    BY <2>1, <2>2
<1>6. /\ M \in Seq([step : {"search", "children", "sort"}, block : Ids(t) \cup {Top}])
      /\ DOMAIN M = {1} /\ M[1].step = "search" /\ M[1].block = Top
  BY <1>1
<1>7. Unsorted(M) = {} /\ Unsorted(<<>>) = {}
  <2>1. Unsorted(M) = {}
    BY <1>6 DEF Unsorted
  <2>2. Unsorted(<<>>) = {}
    BY DEF Unsorted
  <2> QED
    BY <2>1, <2>2
<1>8. TreeFits(l, t, blockid, M)
  BY <1>2, <1>3, <1>5, <1>7 DEF TreeFits
<1>9. TodoFits(M, t)
  BY <1>4, <1>6 DEF TodoFits, IsAround
<1>10. FixedOrder(t)
  BY <1>1 DEF BlocksInv, FixedInv
<1>11. search' = NoSearch
  BY <1>2 DEF BlocksInv, SearchInv, SearchFits
<1>12. SearchFits(search', t, M)
  BY <1>11 DEF SearchFits
<1> QED
  BY <1>2, <1>8, <1>9, <1>10, <1>12 DEF BlocksInv, TreeInv, TodoInv, SearchInv, FixedInv

-----------------------------------------------------------------------------
(* The calls that build the tree, which is done in the declared order.     *)

(* In that order the lists of the tree are in the order of their ranges.   *)
Declared(t, n) ==
  /\ Shape(t, n, N) /\ InLine(t)
  /\ \A b \in Ids(t) : t.block[b].seq = Sorted(Identity, t.block[b])

(* Nothing is left to do or to sort between two calls.                     *)
LEMMA IdleFacts ==
  ASSUME BlocksInv, Idle
  PROVE  todo = <<>> /\ search = NoSearch /\ Unsorted(todo) = {}
<1>1. todo = <<>>
  BY DEF Idle
<1>2. Unsorted(<<>>) = {}
  BY DEF Unsorted
<1>3. search = NoSearch
  BY <1>1 DEF BlocksInv, SearchInv, SearchFits
<1> QED
  BY <1>1, <1>2, <1>3

(* The tree before such a call.                                            *)
LEMMA DeclaredBefore ==
  ASSUME BlocksInv, Idle, level = Identity
  PROVE  Declared(tree, blockid)
<1>1. PICK t, l, D : t = tree /\ l = level /\ D = Unsorted(todo)
  OBVIOUS
<1>2. D = {} /\ l = Identity
  BY <1>1, IdleFacts
<1>3. Shape(t, blockid, N) /\ Fresh(l, t, D) /\ ((l = Identity /\ InLine(t)) \/ Tight(l, t))
  BY <1>1 DEF BlocksInv, TreeInv, TreeFits
<1>4. InLine(t)
  BY <1>2, <1>3, TightInLine
<1>5. \A b \in Ids(t) : t.block[b].seq = Sorted(Identity, t.block[b])
  BY <1>2, <1>3 DEF Fresh
<1> QED
  BY <1>1, <1>3, <1>4, <1>5 DEF Declared

(* Lists in the order of their ranges are so below fixed blocks.           *)
LEMMA InLineFixed ==
  ASSUME NEW t, NEW n, Shape(t, n, N), InLine(t)
  PROVE  FixedOrder(t)
<1> SUFFICES ASSUME NEW p \in Ids(t), NEW i \in DOMAIN t.kids[p], NEW j \in DOMAIN t.kids[p], i < j
             PROVE  t.block[t.kids[p][i]].first < t.block[t.kids[p][j]].first
  BY DEF FixedOrder
<1>1. Blocks(t, n, N)
  BY DEF Shape
<1>2. PICK x, y : x = t.kids[p][i] /\ y = t.kids[p][j]
  OBVIOUS
<1>3. x \in Ids(t) /\ y \in Ids(t)
  BY <1>1, <1>2, BlocksFacts
<1>4. t.block[x].last < t.block[y].first
  BY <1>2 DEF InLine
<1>5. /\ t.block[x].first \in Int /\ t.block[x].last \in Int /\ t.block[x].first <= t.block[x].last
      /\ t.block[y].first \in Int
  BY <1>1, <1>3, BlocksFacts
<1>6. t.block[x].first < t.block[y].first
  BY <1>4, <1>5
<1> QED
  BY <1>2, <1>6

(* And the invariant after the call.                                       *)
LEMMA DeclaredAfter ==
  ASSUME Declared(tree', blockid'), level' = Identity, todo' = <<>>, search' = NoSearch
  PROVE  BlocksInv'
<1>1. PICK t, n : t = tree' /\ n = blockid'
  OBVIOUS
<1>2. Shape(t, n, N) /\ InLine(t) /\ \A b \in Ids(t) : t.block[b].seq = Sorted(Identity, t.block[b])
  BY <1>1 DEF Declared
<1>3. Fresh(Identity, t, Unsorted(<<>>))
  BY <1>2 DEF Fresh
<1>4. TreeFits(Identity, t, n, <<>>)
  BY <1>2, <1>3, IdentityFacts DEF TreeFits
<1>5. TodoFits(<<>>, t)
  BY DEF TodoFits
<1>6. FixedOrder(t)
  BY <1>2, InLineFixed
<1>7. SearchFits(NoSearch, t, <<>>)
  BY DEF SearchFits
<1>8. TreeInv'
  BY <1>1, <1>4 DEF TreeInv
<1>9. TodoInv'
  BY <1>1, <1>5 DEF TodoInv
<1>10. SearchInv'
  BY <1>1, <1>7 DEF SearchInv
<1>11. FixedInv'
  BY <1>1, <1>6 DEF FixedInv
<1> QED
  BY <1>8, <1>9, <1>10, <1>11 DEF BlocksInv

(* update_seq and qsort agree about a range in the declared order.         *)
LEMMA DeclaredSeq ==
  ASSUME NEW first \in Int, NEW last \in Int, 0 <= first, first <= last, last < N,
         NEW b, b.first = first, b.last = last
  PROVE  InCurrentOrder(Identity, first, last) = Sorted(Identity, b)
<1> DEFINE X == first..last
           D == 0..(last - first)
           low == CHOOSE v \in X : \A w \in X : Identity[v] <= Identity[w]
           there(p) == {v \in X : Identity[v] - Identity[low] = p}
<1>1. \A v \in X : v \in Vars /\ v \in Int /\ first <= v /\ v <= last /\ Identity[v] = v
  <2>1. \A v \in X : v \in Int /\ 0 <= v /\ v < N /\ first <= v /\ v <= last
    BY VarsRange
  <2> HIDE DEF X
  <2> QED
    BY <2>1, VarsRange, IdentityFacts
<1>2. first \in X
  OBVIOUS
<1>3. low = first
  <2>1. \A w \in X : Identity[first] <= Identity[w]
    BY <1>1, <1>2
  <2>2. low \in X /\ \A w \in X : Identity[low] <= Identity[w]
    <3> HIDE DEF X
    <3> QED
      BY <1>2, <2>1
  <2> HIDE DEF low, X
  <2>3. Identity[low] <= Identity[first] /\ Identity[low] = low /\ Identity[first] = first
    BY <1>1, <1>2, <2>2
  <2>4. low \in Int /\ first <= low
    BY <1>1, <2>2
  <2> QED
    BY <2>3, <2>4
<1>4. InCurrentOrder(Identity, first, last) =
        [p \in D |-> IF there(p) = {} THEN Unset ELSE CHOOSE v \in there(p) : TRUE]
  BY DEF InCurrentOrder
<1>5. ASSUME NEW p \in D PROVE there(p) = {first + p}
  <2>1. Identity[low] = first
    BY <1>1, <1>2, <1>3
  <2>2. first + p \in X /\ p \in Int
    OBVIOUS
  <2>3. \A v \in X : Identity[v] - Identity[low] = p <=> v = first + p
    <3> SUFFICES ASSUME NEW v \in X PROVE Identity[v] - Identity[low] = p <=> v = first + p
      OBVIOUS
    <3>1. Identity[v] = v /\ v \in Int
      BY <1>1
    <3> HIDE DEF X, low
    <3> QED
      BY <2>1, <2>2, <3>1
  <2> HIDE DEF X, low
  <2> QED
    BY <2>2, <2>3
<1>6. Occupies(Identity, b.first .. b.last, first, last)
  BY IdentityFacts
<1>7. Lists(Identity, Sorted(Identity, b), first, last)
  BY <1>6, IdentityFacts, SortedPlaces
<1>8. \A p \in D : Sorted(Identity, b)[p] \in Vars /\ Identity[Sorted(Identity, b)[p]] = first + p
  BY <1>7 DEF Lists
<1>9. \A p \in D : Sorted(Identity, b)[p] = first + p
  BY <1>8, IdentityFacts
<1>10. \A p \in D : InCurrentOrder(Identity, first, last)[p] = first + p
  <2> SUFFICES ASSUME NEW p \in D PROVE InCurrentOrder(Identity, first, last)[p] = first + p
    OBVIOUS
  <2> HIDE DEF D, there
  <2>1. there(p) = {first + p}
    BY <1>5
  <2>2. (CHOOSE v \in there(p) : TRUE) = first + p
    BY <2>1
  <2> QED
    BY <1>4, <2>1, <2>2
<1>11. /\ Sorted(Identity, b) = [p \in D |-> Sorted(Identity, b)[p]]
       /\ InCurrentOrder(Identity, first, last) = [p \in D |-> InCurrentOrder(Identity, first, last)[p]]
  <2>1. Sorted(Identity, b) \in [D -> Vars]
    BY <1>7 DEF Lists
  <2> HIDE DEF D, there
  <2>2. InCurrentOrder(Identity, first, last) = [p \in D |-> InCurrentOrder(Identity, first, last)[p]]
    BY <1>4
  <2> QED
    BY <2>1, <2>2
<1> HIDE DEF D
<1> QED
  BY <1>9, <1>10, <1>11

(* What a call that adds a range leaves, and what it keeps.                *)
Kept(t, u) == Ids(t) \subseteq Ids(u) /\ \A b \in Ids(t) : u.block[b] = t.block[b]

HasRange(t, first, last) == \E b \in Ids(t) : SameRange(t.block[b], first, last)

(* One range added to the tree.                                            *)
LEMMA AddKeeps ==
  ASSUME NEW t, NEW n, Declared(t, n), NEW first \in Vars, NEW last \in Vars, NEW fixed,
         NEW a, a = AddRange(t, Identity, first, last, fixed, n)
  PROVE  /\ a.ok \in BOOLEAN
         /\ Declared(a.tree, IF a.ok THEN n + 1 ELSE n)
         /\ ~ a.ok => a.tree = t
         /\ a.ok => first <= last
         /\ first <= last /\ (\A b \in Ids(t) : ~ Overlap(t.block[b], first, last)) =>
              a.ok /\ Kept(t, a.tree) /\ HasRange(a.tree, first, last)
<1>1. first \in Int /\ 0 <= first /\ last \in Int /\ last < N
  BY VarsRange
<1>2. Shape(t, n, N) /\ InLine(t) /\ \A b \in Ids(t) : t.block[b].seq = Sorted(Identity, t.block[b])
  BY DEF Declared
<1>3. LET c == AddRange(t, Identity, first, last, fixed, n) IN
      c.ok \in BOOLEAN /\ Added(t, c.tree, c.ok, n, N, Identity, first, last, fixed)
  BY <1>1, <1>2, AddRangeFacts
<1>4. PICK u, ok : u = a.tree /\ ok = a.ok
  OBVIOUS
<1>5. ok \in BOOLEAN /\ Added(t, u, ok, n, N, Identity, first, last, fixed)
  BY <1>3, <1>4
<1>6. PICK m : m = IF ok THEN n + 1 ELSE n
  OBVIOUS
<1>7. /\ Shape(u, m, N) /\ InLine(u)
      /\ ~ ok => u = t
      /\ \A b \in Ids(u) : \/ b \in Ids(t) /\ u.block[b] = t.block[b]
                           \/ b = n /\ u.block[b] = NewBlock(Identity, first, last, fixed)
      /\ first <= last /\ (\A b \in Ids(t) : ~ Overlap(t.block[b], first, last)) =>
           /\ ok /\ Ids(t) \subseteq Ids(u) /\ \A b \in Ids(t) : u.block[b] = t.block[b]
           /\ \E b \in Ids(u) : SameRange(u.block[b], first, last)
  BY <1>5, <1>6 DEF Added
<1>8. ok => first <= last
  <2> SUFFICES ASSUME ok, last < first PROVE FALSE
    BY <1>1
  <2>1. a = [ok |-> FALSE, tree |-> t]
    BY DEF AddRange
  <2>2. a.ok = FALSE
    BY <2>1
  <2>3. ok = FALSE
    BY <1>4, <2>2, Zenon
  <2> QED
    BY <2>3, Zenon
<1>9. ASSUME NEW b \in Ids(u) PROVE u.block[b].seq = Sorted(Identity, u.block[b])
  <2>1. CASE b \in Ids(t) /\ u.block[b] = t.block[b]
    BY <1>2, <2>1
  <2>2. CASE u.block[b] = NewBlock(Identity, first, last, fixed)
    <3>1. PICK r : r = u.block[b]
      OBVIOUS
    <3>2. r.first = first /\ r.last = last /\ r.seq = InCurrentOrder(Identity, first, last)
      BY <2>2, <3>1 DEF NewBlock
    <3>3. first <= last
      <4>1. Blocks(u, m, N)
        BY <1>7 DEF Shape
      <4>2. r.first <= r.last
        BY <3>1, <4>1, BlocksFacts
      <4> QED
        BY <3>2, <4>2
    <3>4. InCurrentOrder(Identity, first, last) = Sorted(Identity, r)
      BY <1>1, <3>2, <3>3, DeclaredSeq
    <3> QED
      BY <3>1, <3>2, <3>4
  <2> QED
    BY <1>7, <2>1, <2>2
<1>10. Declared(u, m)
  BY <1>7, <1>9 DEF Declared
<1> QED
  BY <1>4, <1>5, <1>6, <1>7, <1>8, <1>10 DEF Kept, HasRange

(* bdd_intaddvarblock.                                                     *)
LEMMA IntAddVarBlockKeeps ==
  ASSUME BlocksInv, IntAddVarBlock
  PROVE  BlocksInv'
<1>1. MayAdd /\ Idle /\ level = Identity
  BY DEF IntAddVarBlock, MayAdd, MayCall
<1>2. todo = <<>> /\ search = NoSearch /\ Declared(tree, blockid)
  BY <1>1, IdleFacts, DeclaredBefore
<1>3. level' = Identity /\ todo' = <<>> /\ search' = NoSearch
  BY <1>1, <1>2 DEF IntAddVarBlock
<1>4. PICK r : \/ UNCHANGED <<tree, blockid>>
               \/ r.first \in Vars /\ r.last \in Vars /\ Add(r.first, r.last, r.fixed)
  BY DEF IntAddVarBlock
<1>5. CASE UNCHANGED <<tree, blockid>>
  BY <1>2, <1>3, <1>5, DeclaredAfter
<1>6. CASE r.first \in Vars /\ r.last \in Vars /\ Add(r.first, r.last, r.fixed)
  <2>1. PICK a : a = AddRange(tree, Identity, r.first, r.last, r.fixed, blockid)
    OBVIOUS
  <2>2. tree' = a.tree /\ blockid' = IF a.ok THEN blockid + 1 ELSE blockid
    BY <1>1, <1>6, <2>1 DEF Add
  <2>3. Declared(a.tree, IF a.ok THEN blockid + 1 ELSE blockid)
    BY <1>2, <1>6, <2>1, AddKeeps
  <2> QED
    BY <1>3, <2>2, <2>3, DeclaredAfter
<1> QED
  BY <1>4, <1>5, <1>6

(* A block for one more variable, as bdd_varblockall adds it.              *)
OneMore(r, v) ==
  LET a == AddRange(r.tree, Identity, v, v, FIXED, r.id)
  IN  [tree |-> a.tree, id |-> IF a.ok THEN r.id + 1 ELSE r.id]

EachInTurn(f, s, n) == f[0] = s /\ \A k \in 1..n : f[k] = OneMore(f[k - 1], k - 1)

(* The recursion of bdd_varblockall has these steps.                       *)
LEMMA VarBlockAllSteps ==
  ASSUME VarBlockAll, NEW s, s = [tree |-> tree, id |-> blockid]
  PROVE  \E f : EachInTurn(f, s, N) /\ tree' = f[N].tree /\ blockid' = f[N].id
<1> DEFINE Eq(f) == f = [k \in 0..N |-> IF k = 0 THEN s ELSE OneMore(f[k - 1], k - 1)]
           Good(f, h) == \A k \in 0..h : f[k] = IF k = 0 THEN s ELSE OneMore(f[k - 1], k - 1)
           P == {h \in 0..N : \E f : Good(f, h)}
           g == CHOOSE f : Eq(f)
<1>1. N \in Nat /\ level = Identity
  BY VarsRange DEF VarBlockAll, MayAdd
<1>2. 0 \in P
  <2>1. PICK f : f = [k \in {0} |-> s]
    OBVIOUS
  <2>2. Good(f, 0)
    <3>1. f[0] = s /\ \A k \in 0..0 : k = 0
      BY <2>1
    <3> QED
      BY <3>1
  <2>3. 0 \in 0..N
    BY <1>1
  <2> HIDE DEF Good
  <2> QED
    BY <2>2, <2>3
<1>3. ASSUME NEW h \in 0..(N - 1), h \in P PROVE h + 1 \in P
  <2>1. PICK f : Good(f, h)
    BY <1>3
  <2> DEFINE e == [k \in 0..(h + 1) |-> IF k = h + 1 THEN OneMore(f[h], h) ELSE f[k]]
  <2>2. \A k \in 0..(h + 1) : e[k] = IF k = h + 1 THEN OneMore(f[h], h) ELSE f[k]
    OBVIOUS
  <2>3. \A k \in 0..h : k # h + 1 /\ k \in 0..(h + 1) /\ (k # 0 => k - 1 \in 0..(h + 1) /\ k - 1 # h + 1)
    OBVIOUS
  <2> HIDE DEF e
  <2>4. \A k \in 0..h : e[k] = f[k] /\ (k # 0 => e[k - 1] = f[k - 1])
    BY <2>2, <2>3
  <2>5. h + 1 \in 0..(h + 1) /\ h \in 0..h /\ h + 1 # 0 /\ (h + 1) - 1 = h
    OBVIOUS
  <2>6. \A k \in 0..(h + 1) : k = h + 1 \/ k \in 0..h
    OBVIOUS
  <2>7. Good(e, h + 1)
    <3> SUFFICES ASSUME NEW k \in 0..(h + 1)
                 PROVE  e[k] = IF k = 0 THEN s ELSE OneMore(e[k - 1], k - 1)
      OBVIOUS
    <3>1. CASE k = h + 1
      <4>1. e[h + 1] = OneMore(f[h], h) /\ e[h] = f[h]
        BY <2>2, <2>4, <2>5
      <4> QED
        BY <2>5, <3>1, <4>1
    <3>2. CASE k \in 0..h
      BY <2>1, <2>4, <3>2
    <3> QED
      BY <2>6, <3>1, <3>2
  <2>8. h + 1 \in 0..N
    BY <1>1
  <2> QED
    BY <2>7, <2>8
<1>4. N \in P
  <2>1. P \in SUBSET (0..N)
    OBVIOUS
  <2>2. P = 0..N
    <3> HIDE DEF P
    <3> QED
      BY <1>1, <1>2, <1>3, <2>1, UpTo
  <2> QED
    BY <1>1, <2>2
<1>5. \E f : Eq(f)
  <2>1. PICK f : Good(f, N)
    BY <1>4
  <2> DEFINE e == [k \in 0..N |-> f[k]]
  <2>2. \A k \in 0..N : e[k] = IF k = 0 THEN s ELSE OneMore(e[k - 1], k - 1)
    <3> SUFFICES ASSUME NEW k \in 0..N
                 PROVE  e[k] = IF k = 0 THEN s ELSE OneMore(e[k - 1], k - 1)
      OBVIOUS
    <3>1. e[k] = f[k] /\ (k # 0 => e[k - 1] = f[k - 1])
      BY <1>1
    <3>2. f[k] = IF k = 0 THEN s ELSE OneMore(f[k - 1], k - 1)
      BY <2>1
    <3> HIDE DEF e
    <3> QED
      BY <3>1, <3>2
  <2>3. Eq(e)
    BY <2>2
  <2> QED
    BY <2>3
<1>6. Eq(g)
  <2> HIDE DEF Eq
  <2> QED
    BY <1>5
<1>7. tree' = g[N].tree /\ blockid' = g[N].id
  BY <1>1 DEF VarBlockAll, OneMore
<1> HIDE DEF g
<1>8. \A k \in 0..N : g[k] = IF k = 0 THEN s ELSE OneMore(g[k - 1], k - 1)
  BY <1>6
<1>9. g[0] = s /\ \A k \in 1..N : g[k] = OneMore(g[k - 1], k - 1)
  BY <1>1, <1>8
<1> QED
  BY <1>7, <1>9 DEF EachInTurn

(* bdd_varblockall keeps the blocks there are, and each variable has one.  *)
LEMMA VarBlockAllAdds ==
  ASSUME BlocksInv, VarBlockAll
  PROVE  /\ Declared(tree', blockid') /\ Kept(tree, tree')
         /\ \A v \in Vars : HasRange(tree', v, v)
<1>1. Idle /\ level = Identity
  BY DEF VarBlockAll, MayAdd, MayCall
<1>2. Declared(tree, blockid)
  BY <1>1, DeclaredBefore
<1>3. PICK s : s = [tree |-> tree, id |-> blockid]
  OBVIOUS
<1>4. PICK f : EachInTurn(f, s, N) /\ tree' = f[N].tree /\ blockid' = f[N].id
  BY <1>3, VarBlockAllSteps
<1>5. f[0] = s /\ \A k \in 1..N : f[k] = OneMore(f[k - 1], k - 1)
  BY <1>4 DEF EachInTurn
<1> DEFINE Good(r, h) == /\ Declared(r.tree, r.id) /\ Kept(tree, r.tree)
                         /\ \A v \in Vars : v < h => HasRange(r.tree, v, v)
           P == {h \in 0..N : Good(f[h], h)}
<1>6. N \in Nat /\ \A v \in Vars : v \in Int /\ 0 <= v /\ v < N
  BY VarsRange
<1>7. 0 \in P
  <2>1. Kept(tree, tree)
    BY DEF Kept
  <2>2. s.tree = tree /\ s.id = blockid
    BY <1>3
  <2>3. \A v \in Vars : ~ (v < 0)
    BY <1>6
  <2>4. Good(s, 0)
    BY <1>2, <2>1, <2>2, <2>3
  <2>5. 0 \in 0..N
    BY <1>6
  <2> HIDE DEF Good
  <2> QED
    BY <1>5, <2>4, <2>5
<1>8. ASSUME NEW h \in 0..(N - 1), h \in P PROVE h + 1 \in P
  <2>1. PICK r : r = f[h]
    OBVIOUS
  <2>2. Declared(r.tree, r.id) /\ Kept(tree, r.tree) /\ \A v \in Vars : v < h => HasRange(r.tree, v, v)
    BY <1>8, <2>1
  <2>3. h + 1 \in 1..N /\ (h + 1) - 1 = h /\ h \in Vars /\ h + 1 \in 0..N /\ h \in Int
    BY <1>6, VarsRange
  <2>4. PICK a : a = AddRange(r.tree, Identity, h, h, FIXED, r.id)
    OBVIOUS
  <2>5. PICK e : e = f[h + 1]
    OBVIOUS
  <2>6. e = OneMore(r, h)
    BY <1>5, <2>1, <2>3, <2>5
  <2>7. e.tree = a.tree /\ e.id = IF a.ok THEN r.id + 1 ELSE r.id
    BY <2>4, <2>6 DEF OneMore
  <2>8. \A b \in Ids(r.tree) : ~ Overlap(r.tree.block[b], h, h)
    <3>1. Blocks(r.tree, r.id, N)
      BY <2>2 DEF Declared, Shape
    <3>2. \A b \in Ids(r.tree) : r.tree.block[b].first \in Int /\ r.tree.block[b].last \in Int
      BY <3>1, BlocksFacts
    <3> QED
      BY <2>3, <3>2 DEF Overlap
  <2>9. /\ Declared(a.tree, IF a.ok THEN r.id + 1 ELSE r.id)
        /\ Kept(r.tree, a.tree) /\ HasRange(a.tree, h, h)
    <3>1. h <= h
      BY <2>3
    <3>2. /\ Declared(a.tree, IF a.ok THEN r.id + 1 ELSE r.id)
          /\ h <= h /\ (\A b \in Ids(r.tree) : ~ Overlap(r.tree.block[b], h, h)) =>
               a.ok /\ Kept(r.tree, a.tree) /\ HasRange(a.tree, h, h)
      BY <2>2, <2>3, <2>4, AddKeeps
    <3> QED
      BY <2>8, <3>1, <3>2
  <2>10. Declared(e.tree, e.id) /\ Kept(tree, e.tree)
    <3>1. Kept(tree, a.tree)
      BY <2>2, <2>9 DEF Kept
    <3> QED
      BY <2>7, <2>9, <3>1
  <2>11. \A v \in Vars : v < h + 1 => HasRange(e.tree, v, v)
    <3> SUFFICES ASSUME NEW v \in Vars, v < h + 1 PROVE HasRange(a.tree, v, v)
      BY <2>7
    <3>1. CASE v = h
      BY <2>9, <3>1
    <3>2. CASE v # h
      <4>1. v < h
        BY <1>6, <2>3, <3>2
      <4>2. PICK b \in Ids(r.tree) : SameRange(r.tree.block[b], v, v)
        BY <2>2, <4>1 DEF HasRange
      <4> QED
        BY <2>9, <4>2 DEF Kept, HasRange
    <3> QED
      BY <3>1, <3>2
  <2>12. Good(e, h + 1)
    BY <2>10, <2>11
  <2> HIDE DEF Good
  <2> QED
    BY <2>3, <2>5, <2>12
<1>9. N \in P
  <2>1. P \in SUBSET (0..N)
    OBVIOUS
  <2>2. P = 0..N
    <3> HIDE DEF P
    <3> QED
      BY <1>6, <1>7, <1>8, <2>1, UpTo
  <2> QED
    BY <1>6, <2>2
<1>10. Good(f[N], N)
  BY <1>9
<1> QED
  BY <1>4, <1>6, <1>10

(* bdd_varblockall.                                                        *)
LEMMA VarBlockAllKeeps ==
  ASSUME BlocksInv, VarBlockAll
  PROVE  BlocksInv'
<1>1. Idle /\ level = Identity /\ level' = level /\ todo' = todo /\ search' = search
  BY DEF VarBlockAll, MayAdd, MayCall
<1>2. todo = <<>> /\ search = NoSearch
  BY <1>1, IdleFacts
<1> QED
  BY <1>1, <1>2, VarBlockAllAdds, DeclaredAfter

(* A tree with nothing below the top has no blocks.                        *)
LEMMA NoBlocks ==
  ASSUME NEW t, NEW n, Shape(t, n, N), t.kids[Top] = <<>>
  PROVE  Ids(t) = {}
<1> SUFFICES ASSUME NEW b \in Ids(t) PROVE FALSE
  OBVIOUS
<1>1. PICK c \in Ids(t) : Kid(t, Top, c)
  <2>1. Top \in Ids(t) \cup {Top}
    OBVIOUS
  <2> QED
    BY <2>1, KidAround
<1> QED
  BY <1>1 DEF Kid

(* Without blocks every order will do.                                     *)
LEMMA NoBlocksFit ==
  ASSUME NEW t, NEW n, Shape(t, n, N), Ids(t) = {}, t.kids[Top] = <<>>, NEW l \in Levelings
  PROVE  TreeFits(l, t, n, <<>>) /\ TodoFits(<<>>, t) /\ FixedOrder(t)
<1>1. Tight(l, t)
  <2>1. \A p \in Ids(t) \cup {Top} : p = Top
    OBVIOUS
  <2>2. 1..(Len(t.kids[Top]) - 1) = {}
    OBVIOUS
  <2> QED
    BY <2>1, <2>2 DEF Tight
<1>2. Fresh(l, t, Unsorted(<<>>))
  BY DEF Fresh
<1> QED
  BY <1>1, <1>2 DEF TreeFits, TodoFits, FixedOrder

(* bdd_varblock_init leaves a tree.                                        *)
LEMMA EmptyShape == Shape(EmptyTree, 0, N) /\ Ids(EmptyTree) = {} /\ EmptyTree.kids[Top] = <<>>
<1>1. PICK t : t = EmptyTree
  OBVIOUS
<1>2. /\ t = [block |-> <<>>, kids |-> [p \in {Top} |-> <<>>]]
      /\ t.block = <<>> /\ t.kids = [p \in {Top} |-> <<>>]
  BY <1>1 DEF EmptyTree
<1>3. Ids(t) = {} /\ t.kids[Top] = <<>>
  BY <1>2 DEF Ids
<1>4. Blocks(t, 0, N)
  <2>1. t.block = [b \in Ids(t) |-> t.block[b]]
    BY <1>2, <1>3
  <2>2. t.kids \in [Ids(t) \cup {Top} -> Seq(Ids(t))]
    BY <1>2, <1>3
  <2>3. t = [block |-> t.block, kids |-> t.kids]
    BY <1>2
  <2> QED
    BY <1>3, <2>1, <2>2, <2>3, VarsRange DEF Blocks
<1>5. Listed(t)
  BY <1>3 DEF Listed
<1> QED
  BY <1>1, <1>3, <1>4, <1>5 DEF Shape, Nested, Parents

(* bdd_clrvarblocks.                                                       *)
LEMMA ClrVarBlocksKeeps ==
  ASSUME BlocksInv, ClrVarBlocks
  PROVE  BlocksInv'
<1>1. Idle /\ level' = level /\ todo' = todo /\ search' = search /\ tree' = EmptyTree /\ blockid' = 0
  BY DEF ClrVarBlocks, MayCall
<1>2. todo' = <<>> /\ search' = NoSearch
  BY <1>1, IdleFacts
<1>3. PICK t, l : t = EmptyTree /\ l = level
  OBVIOUS
<1>4. l \in Levelings
  BY <1>3 DEF BlocksInv, TreeInv, TreeFits
<1>5. TreeFits(l, t, 0, <<>>) /\ TodoFits(<<>>, t) /\ FixedOrder(t)
  BY <1>3, <1>4, EmptyShape, NoBlocksFit
<1>6. SearchFits(NoSearch, t, <<>>)
  BY DEF SearchFits
<1> QED
  BY <1>1, <1>2, <1>3, <1>5, <1>6 DEF BlocksInv, TreeInv, TodoInv, SearchInv, FixedInv

(* The initial state.                                                      *)
LEMMA BlocksInit ==
  ASSUME Init
  PROVE  BlocksInv
<1>1. level = Identity /\ tree = EmptyTree /\ blockid = 0 /\ todo = <<>> /\ search = NoSearch
  BY DEF Init
<1>2. TreeFits(Identity, EmptyTree, 0, <<>>) /\ TodoFits(<<>>, EmptyTree) /\ FixedOrder(EmptyTree)
  BY EmptyShape, NoBlocksFit, IdentityFacts
<1>3. SearchFits(NoSearch, EmptyTree, <<>>)
  BY DEF SearchFits
<1> QED
  BY <1>1, <1>2, <1>3 DEF BlocksInv, TreeInv, TodoInv, SearchInv, FixedInv

(* What the settings, or nothing, change leaves the blocks alone.          *)
LEMMA BlocksStay ==
  ASSUME BlocksInv, UNCHANGED <<level, tree, blockid, todo, search>>
  PROVE  BlocksInv'
BY DEF BlocksInv, TreeInv, TodoInv, SearchInv, FixedInv

-----------------------------------------------------------------------------
(* The orders the program asks for.                                        *)

(* Second loop of bdd_swapvar: then the two have changed places, and       *)
(* nothing else has moved.                                                 *)
LEMMA ExchangedFacts ==
  ASSUME NEW l \in Levelings, NEW v1 \in Vars, NEW v2 \in Vars, l[v1] < l[v2]
  PROVE  /\ Exchanged(l, v1, v2) \in Levelings
         /\ Exchanged(l, v1, v2) = [l EXCEPT ![v1] = l[v2], ![v2] = l[v1]]
<1> DEFINE Eq(f) == f = [m \in Levelings |-> IF m[v2] > l[v1] THEN f[VarUp(m, v2)] ELSE m]
           T == {m \in Levelings : ~ (m[v2] > l[v1])}
           out == [m \in Levelings |-> m]
           next == [m \in Levelings |-> VarUp(m, v2)]
           g == CHOOSE f : Eq(f)
<1>1. PICK d : d = UpperDown(l, v1, v2)
  OBVIOUS
<1>2. /\ d \in Levelings /\ d[v1] = l[v2]
      /\ \A w \in Vars \ {v1} : d[w] = IF l[v1] < l[w] /\ l[w] <= l[v2] THEN l[w] - 1 ELSE l[w]
  BY <1>1, UpperDownMoves
<1>3. /\ \A v \in Vars : l[v] \in Int /\ 0 <= l[v] /\ l[v] < N
      /\ \A v, w \in Vars : l[v] = l[w] => v = w
      /\ l \in [Vars -> Vars]
  BY LevelingFacts
<1>4. /\ \A v \in Vars : d[v] \in Int /\ 0 <= d[v] /\ d[v] < N
      /\ \A v, w \in Vars : d[v] = d[w] => v = w
  BY <1>2, LevelingFacts
<1>5. \A m \in Levelings : \A v \in Vars : m[v] \in Int /\ 0 <= m[v] /\ m[v] < N
  BY LevelingFacts
<1>6. v1 # v2 /\ d[v2] = l[v2] - 1 /\ l[v1] <= d[v2]
  BY <1>2, <1>3
<1> DEFINE I == {m \in Levelings :
                   /\ l[v1] <= m[v2] /\ m[v2] <= d[v2]
                   /\ \A w \in Vars \ {v2} :
                        m[w] = IF m[v2] <= d[w] /\ d[w] < d[v2] THEN d[w] + 1 ELSE d[w]}
           high == [m \in I |-> m[v2] - l[v1]]
           low  == [m \in I |-> 0]
<1>7. \A m \in Levelings : VarUp(m, v2) \in Levelings
  BY VarUpSwaps
<1>8. IsLoop(g, Levelings, T, out, next)
  <2>1. \A f : Eq(f) <=> IsLoop(f, Levelings, T, out, next)
    BY DEF IsLoop
  <2>2. out \in [Levelings -> Levelings] /\ next \in [Levelings -> Levelings]
    BY <1>7
  <2>3. \E f : IsLoop(f, Levelings, T, out, next)
    <3> HIDE DEF T, out, next
    <3> QED
      BY <2>2, LoopExists
  <2> HIDE DEF T, out, next, Eq
  <2> QED
    BY <2>1, <2>3
<1>9. Exchanged(l, v1, v2) = g[d]
  BY <1>1 DEF Exchanged
<1>10. I \in SUBSET Levelings /\ high \in [I -> Nat] /\ low \in [I -> Nat]
  BY <1>3, <1>5
<1>11. d \in I
  <2>1. \A w \in Vars : d[w] \in Int
    BY <1>4
  <2> QED
    BY <1>2, <1>6, <2>1
<1>12. ASSUME NEW m \in I, m \notin T
       PROVE  next[m] \in I /\ high[next[m]] < high[m]
  <2>1. m \in Levelings /\ m[v2] > l[v1] /\ m[v2] <= d[v2]
        /\ \A w \in Vars \ {v2} : m[w] = IF m[v2] <= d[w] /\ d[w] < d[v2] THEN d[w] + 1 ELSE d[w]
    BY <1>12
  <2>2. m[v2] > 0
    BY <2>1, <1>3, <1>5
  <2>3. PICK w \in Vars : /\ m[w] = m[v2] - 1 /\ w # v2
                          /\ VarUp(m, v2)[v2] = m[v2] - 1 /\ VarUp(m, v2)[w] = m[v2]
                          /\ \A u \in Vars \ {v2, w} : VarUp(m, v2)[u] = m[u]
    BY <2>1, <2>2, VarUpSwaps
  <2>4. PICK e : e = VarUp(m, v2)
    OBVIOUS
  <2>5. e \in Levelings /\ next[m] = e /\ e[v2] = m[v2] - 1 /\ e[w] = m[v2]
        /\ \A u \in Vars \ {v2, w} : e[u] = m[u]
    BY <1>7, <2>1, <2>3, <2>4
  <2>6. d[w] = m[v2] - 1
    <3>1. m[w] = IF m[v2] <= d[w] /\ d[w] < d[v2] THEN d[w] + 1 ELSE d[w]
      BY <2>1, <2>3
    <3>2. m[w] = m[v2] - 1 /\ m[v2] \in Int /\ d[w] \in Int
      BY <2>3, <1>4, <1>5, <2>1
    <3> QED
      BY <3>1, <3>2
  <2>7. ASSUME NEW u \in Vars \ {v2}
        PROVE  e[u] = IF e[v2] <= d[u] /\ d[u] < d[v2] THEN d[u] + 1 ELSE d[u]
    <3>1. m[v2] \in Int /\ d[v2] \in Int /\ d[u] \in Int
      BY <2>1, <1>4, <1>5
    <3>2. CASE u = w
      BY <2>1, <2>5, <2>6, <3>1, <3>2
    <3>3. CASE u # w
      <4>1. e[u] = m[u] /\ m[u] = IF m[v2] <= d[u] /\ d[u] < d[v2] THEN d[u] + 1 ELSE d[u]
        BY <2>1, <2>5, <3>3
      <4>2. d[u] # m[v2] - 1
        BY <1>4, <2>6, <3>3
      <4> QED
        BY <2>5, <3>1, <4>1, <4>2
    <3> QED
      BY <3>2, <3>3
  <2>8. l[v1] <= e[v2] /\ e[v2] <= d[v2] /\ e[v2] - l[v1] < m[v2] - l[v1]
    <3>1. l[v1] \in Int /\ m[v2] \in Int /\ d[v2] \in Int
      BY <1>3, <1>4, <1>5, <2>1
    <3> QED
      BY <2>1, <2>5, <3>1
  <2>9. e \in I
    BY <2>5, <2>7, <2>8
  <2>10. high[e] = e[v2] - l[v1] /\ high[m] = m[v2] - l[v1]
    BY <2>9
  <2> QED
    BY <2>5, <2>8, <2>9, <2>10
<1>13. PICK m \in I \cap T : g[d] = out[m]
  <2>1. GoesOn(I, T, next, high, low)
    BY <1>12 DEF GoesOn
  <2> HIDE DEF T, out, next, g, I, high, low, Eq
  <2> QED
    BY <2>1, <1>8, <1>10, <1>11, LoopEnds
<1>14. Exchanged(l, v1, v2) = m /\ m \in Levelings
  BY <1>9, <1>13
<1>15. m[v2] = l[v1]
  BY <1>13, <1>3, <1>5
<1>16. \A w \in Vars \ {v2} : m[w] = IF l[v1] <= d[w] /\ d[w] < d[v2] THEN d[w] + 1 ELSE d[w]
  BY <1>13, <1>15
<1>17. m[v1] = l[v2]
  BY <1>2, <1>3, <1>6, <1>16
<1>18. ASSUME NEW w \in Vars \ {v1, v2} PROVE m[w] = l[w]
  <2>1. l[w] \in Int /\ l[v1] \in Int /\ l[v2] \in Int /\ l[w] # l[v1] /\ l[w] # l[v2]
    BY <1>3
  <2>2. d[w] = IF l[v1] < l[w] /\ l[w] <= l[v2] THEN l[w] - 1 ELSE l[w]
    BY <1>2
  <2>3. m[w] = IF l[v1] <= d[w] /\ d[w] < d[v2] THEN d[w] + 1 ELSE d[w]
    BY <1>16
  <2> QED
    BY <1>6, <2>1, <2>2, <2>3
<1>19. m \in [Vars -> Vars]
  BY <1>14, LevelingFacts
<1> HIDE DEF g, I, T, out, next, Eq, high, low
<1>20. m = [l EXCEPT ![v1] = l[v2], ![v2] = l[v1]]
  BY <1>3, <1>6, <1>15, <1>17, <1>18, <1>19
<1> QED
  BY <1>14, <1>20

(* The loops of bdd_setvarorder end in the order asked for.                *)
LEMMA RaisedFacts ==
  ASSUME NEW l \in Levelings, NEW neworder \in Levelings
  PROVE  /\ Raised(l, neworder) \in Levelings
         /\ Raised(l, neworder) = [v \in Vars |-> CHOOSE k \in Vars : neworder[k] = v]
<1> DEFINE S == [level : Levelings, k : 0..N]
           raise(m, k) == IF m[neworder[k]] > k THEN [level |-> VarUp(m, neworder[k]), k |-> k]
                          ELSE [level |-> m, k |-> k + 1]
           Eq(f) == f = [s \in S |-> IF s.k = N THEN s.level ELSE f[raise(s.level, s.k)]]
           T == {s \in S : s.k = N}
           out == [s \in S |-> s.level]
           next == [s \in S |-> IF s.k = N THEN s ELSE raise(s.level, s.k)]
           g == CHOOSE f : Eq(f)
           s0 == [level |-> l, k |-> 0]
           I == {s \in S : \A j \in Vars : j < s.k => s.level[neworder[j]] = j}
           high == [s \in I |-> N - s.k]
           low  == [s \in I |-> IF s.k = N THEN 0 ELSE s.level[neworder[s.k]]]
<1>1. /\ \A k \in Vars : neworder[k] \in Vars
      /\ \A j, k \in Vars : neworder[j] = neworder[k] => j = k
      /\ \A v \in Vars : \E k \in Vars : neworder[k] = v
  BY LevelingFacts
<1>2. \A m \in Levelings : \A v \in Vars : m[v] \in Int /\ 0 <= m[v] /\ m[v] < N
  BY LevelingFacts
<1>3. N \in Nat /\ \A k : k \in Vars <=> k \in Int /\ 0 <= k /\ k < N
  BY VarsRange
<1>4. \A s \in S : s.level \in Levelings /\ s.k \in 0..N /\ s.k \in Int /\ (s.k # N => s.k \in Vars)
  BY <1>3
<1>5. ASSUME NEW s \in S, s.k # N PROVE raise(s.level, s.k) \in S
  <2>1. PICK m, k : m = s.level /\ k = s.k
    OBVIOUS
  <2>2. m \in Levelings /\ k \in Vars /\ k \in 0..N /\ k + 1 \in 0..N
    BY <1>3, <1>4, <1>5, <2>1
  <2>3. VarUp(m, neworder[k]) \in Levelings
    BY <1>1, <2>2, VarUpSwaps
  <2> QED
    BY <2>1, <2>2, <2>3
<1>6. IsLoop(g, S, T, out, next)
  <2>1. \A f : Eq(f) <=> IsLoop(f, S, T, out, next)
    <3> HIDE DEF raise
    <3> QED
      BY DEF IsLoop
  <2>2. out \in [S -> Levelings]
    BY <1>4
  <2>3. next \in [S -> S]
    <3> HIDE DEF raise
    <3> QED
      BY <1>5
  <2>4. \E f : IsLoop(f, S, T, out, next)
    <3> HIDE DEF S, T, out, next
    <3> QED
      BY <2>2, <2>3, LoopExists
  <2> HIDE DEF S, T, out, next, Eq
  <2> QED
    BY <2>1, <2>4
<1>7. Raised(l, neworder) = g[s0]
  BY DEF Raised
<1>8. I \in SUBSET S /\ high \in [I -> Nat] /\ low \in [I -> Nat]
  <2>1. I \in SUBSET S
    OBVIOUS
  <2>2. \A s \in I : N - s.k \in Nat
    BY <1>3, <1>4
  <2>3. \A s \in I : (IF s.k = N THEN 0 ELSE s.level[neworder[s.k]]) \in Nat
    <3> SUFFICES ASSUME NEW s \in I, s.k # N PROVE s.level[neworder[s.k]] \in Nat
      OBVIOUS
    <3>1. s.level \in Levelings /\ neworder[s.k] \in Vars
      BY <1>1, <1>4
    <3> QED
      BY <1>2, <3>1
  <2> HIDE DEF I
  <2> QED
    BY <2>1, <2>2, <2>3
<1>9. s0 \in I
  <2>1. s0 \in S /\ s0.k = 0
    BY <1>3
  <2>2. \A j \in Vars : ~ (j < 0)
    BY <1>3
  <2> QED
    BY <2>1, <2>2
<1>10. ASSUME NEW s \in I, s \notin T
       PROVE  /\ next[s] \in I
              /\ \/ high[next[s]] < high[s]
                 \/ high[next[s]] = high[s] /\ low[next[s]] < low[s]
  <2>1. PICK m, k, v, e : m = s.level /\ k = s.k /\ v = neworder[k] /\ e = next[s]
    OBVIOUS
  <2>2. s \in S /\ s.k # N
    BY <1>10
  <2>3. m \in Levelings /\ k \in Vars /\ v \in Vars /\ k \in Int /\ k # N /\ k < N /\ 0 <= k
    BY <1>1, <1>3, <1>4, <2>1, <2>2
  <2>4. \A j \in Vars : j < k => m[neworder[j]] = j
    BY <2>1
  <2>5. e = raise(m, k) /\ e \in S
    <3> HIDE DEF raise
    <3> QED
      BY <1>5, <2>1, <2>2
  <2>6. \A u \in Vars : m[u] \in Int /\ 0 <= m[u] /\ m[u] < N
    BY <1>2, <2>3
  <2>7. \A u, w \in Vars : m[u] = m[w] => u = w
    BY <2>3, LevelingFacts
  <2>8. m[v] >= k
    <3> SUFFICES ASSUME m[v] < k PROVE FALSE
      BY <2>3, <2>6
    <3>1. PICK j : j = m[v]
      OBVIOUS
    <3>2. j \in Vars /\ j < k
      BY <1>3, <2>3, <2>6, <3>1
    <3>3. m[neworder[j]] = m[v]
      BY <2>4, <3>1, <3>2
    <3>4. neworder[j] = v
      BY <1>1, <2>3, <2>7, <3>2, <3>3
    <3>5. j = k
      BY <1>1, <2>1, <2>3, <3>2, <3>4
    <3> QED
      BY <2>3, <3>2, <3>5
  <2>9. CASE m[v] > k
    <3>1. e = [level |-> VarUp(m, v), k |-> k]
      BY <2>1, <2>5, <2>9
    <3>2. m[v] > 0
      BY <2>3, <2>6, <2>9
    <3>3. PICK w \in Vars : /\ m[w] = m[v] - 1 /\ w # v
                            /\ VarUp(m, v)[v] = m[v] - 1 /\ VarUp(m, v)[w] = m[v]
                            /\ \A u \in Vars \ {v, w} : VarUp(m, v)[u] = m[u]
      BY <2>3, <3>2, VarUpSwaps
    <3>4. PICK d : d = VarUp(m, v)
      OBVIOUS
    <3>5. e.level = d /\ e.k = k
      BY <3>1, <3>4
    <3>6. ASSUME NEW j \in Vars, j < k PROVE d[neworder[j]] = j
      <4>1. m[neworder[j]] = j /\ neworder[j] \in Vars /\ j \in Int
        BY <1>1, <1>3, <2>4, <3>6
      <4>2. neworder[j] # v
        <5>1. j # m[v]
          BY <2>3, <2>6, <2>9, <3>6, <4>1
        <5> QED
          BY <4>1, <5>1
      <4>3. neworder[j] # w
        <5>1. j # m[v] - 1
          BY <2>3, <2>6, <2>9, <3>6, <4>1
        <5> QED
          BY <3>3, <4>1, <5>1
      <4> QED
        BY <3>3, <3>4, <4>1, <4>2, <4>3
    <3>7. e \in I
      BY <2>5, <3>5, <3>6
    <3>8. high[e] = N - k /\ high[s] = N - k
      BY <2>1, <3>5, <3>7
    <3>9. low[e] = d[v] /\ low[s] = m[v]
      BY <2>1, <2>3, <3>5, <3>7
    <3>10. d[v] < m[v]
      BY <2>3, <2>6, <3>3, <3>4
    <3> HIDE DEF high, low, I, next
    <3> QED
      BY <2>1, <3>7, <3>8, <3>9, <3>10
  <2>10. CASE m[v] = k
    <3>1. e = [level |-> m, k |-> k + 1]
      BY <2>1, <2>3, <2>5, <2>10
    <3>2. e.level = m /\ e.k = k + 1
      BY <3>1
    <3>3. ASSUME NEW j \in Vars, j < k + 1 PROVE m[neworder[j]] = j
      <4>1. j < k \/ j = k
        BY <1>3, <2>3, <3>3
      <4> QED
        BY <2>1, <2>4, <2>10, <4>1
    <3>4. e \in I
      BY <2>5, <3>2, <3>3
    <3>5. high[e] = N - (k + 1) /\ high[s] = N - k
      BY <2>1, <3>2, <3>4
    <3>6. N - (k + 1) < N - k
      BY <1>3, <2>3
    <3> HIDE DEF high, low, I, next
    <3> QED
      BY <2>1, <3>4, <3>5, <3>6
  <2>11. m[v] > k \/ m[v] = k
    BY <2>3, <2>6, <2>8
  <2> QED
    BY <2>9, <2>10, <2>11
<1>11. PICK s \in I \cap T : g[s0] = out[s]
  <2>1. GoesOn(I, T, next, high, low)
    <3> HIDE DEF T, next, I, high, low
    <3> QED
      BY <1>10 DEF GoesOn
  <2> HIDE DEF S, T, out, next, g, I, high, low, Eq, s0
  <2> QED
    BY <2>1, <1>6, <1>8, <1>9, LoopEnds
<1>12. PICK m : m = s.level
  OBVIOUS
<1>13. Raised(l, neworder) = m /\ m \in Levelings /\ \A j \in Vars : m[neworder[j]] = j
  <2>1. s \in S /\ s.k = N /\ \A j \in Vars : j < s.k => s.level[neworder[j]] = j
    BY <1>11
  <2>2. out[s] = m
    BY <1>12, <2>1
  <2>3. m \in Levelings
    BY <1>4, <1>12, <2>1
  <2>4. \A j \in Vars : m[neworder[j]] = j
    BY <1>3, <1>12, <2>1
  <2> HIDE DEF g, out, s0, T, I, S
  <2> QED
    BY <1>7, <1>11, <2>2, <2>3, <2>4
<1> HIDE DEF g, out, s0, T, I, S, next, high, low, Eq, raise
<1>14. \A v \in Vars : m[v] = CHOOSE k \in Vars : neworder[k] = v
  <2> SUFFICES ASSUME NEW v \in Vars PROVE m[v] = CHOOSE k \in Vars : neworder[k] = v
    OBVIOUS
  <2>1. PICK j : j = CHOOSE k \in Vars : neworder[k] = v
    OBVIOUS
  <2>2. j \in Vars /\ neworder[j] = v
    BY <1>1, <2>1
  <2> QED
    BY <1>13, <2>1, <2>2
<1>15. m \in [Vars -> Vars]
  BY <1>13, LevelingFacts
<1> QED
  BY <1>13, <1>14, <1>15

(* A new order, while there are no blocks.                                 *)
LEMMA OrderKeeps ==
  ASSUME BlocksInv, MayOrder, level' \in Levelings, UNCHANGED <<tree, blockid, todo, search>>
  PROVE  BlocksInv'
<1>1. Idle /\ tree.kids[Top] = <<>>
  BY DEF MayOrder, MayCall
<1>2. todo = <<>> /\ search = NoSearch
  BY <1>1, IdleFacts
<1>3. PICK t, l : t = tree /\ l = level'
  OBVIOUS
<1>4. Shape(t, blockid, N) /\ t.kids[Top] = <<>>
  BY <1>1, <1>3 DEF BlocksInv, TreeInv, TreeFits
<1>5. Ids(t) = {}
  BY <1>4, NoBlocks
<1>6. TreeFits(l, t, blockid, <<>>) /\ TodoFits(<<>>, t) /\ FixedOrder(t)
  BY <1>3, <1>4, <1>5, NoBlocksFit
<1>7. SearchFits(NoSearch, t, <<>>)
  BY DEF SearchFits
<1> QED
  BY <1>2, <1>3, <1>6, <1>7 DEF BlocksInv, TreeInv, TodoInv, SearchInv, FixedInv

(* bdd_setvarorder ends in the order asked for.                            *)
LEMMA SetVarOrderFacts ==
  ASSUME BlocksInv, SetVarOrder
  PROVE  BlocksInv' /\ level' \in Levelings /\ level' = wanted'
<1>1. level \in Levelings
  BY DEF BlocksInv, TreeInv, TreeFits
<1>2. PICK neworder \in Levelings :
        /\ level' = Raised(level, neworder)
        /\ wanted' = [v \in Vars |-> CHOOSE k \in Vars : neworder[k] = v]
  BY DEF SetVarOrder
<1>3. level' \in Levelings /\ level' = wanted'
  BY <1>1, <1>2, RaisedFacts
<1>4. MayOrder /\ UNCHANGED <<tree, blockid, todo, search>>
  BY DEF SetVarOrder, settings
<1> QED
  BY <1>3, <1>4, OrderKeeps

(* So does bdd_swapvar.                                                    *)
LEMMA SwapVarFacts ==
  ASSUME BlocksInv, SwapVar
  PROVE  BlocksInv' /\ level' \in Levelings /\ level' = wanted'
<1>1. level \in Levelings
  BY DEF BlocksInv, TreeInv, TreeFits
<1>2. PICK v1 \in Vars, v2 \in Vars :
        /\ level[v1] < level[v2]
        /\ level' = Exchanged(level, v1, v2)
        /\ wanted' = [level EXCEPT ![v1] = level[v2], ![v2] = level[v1]]
  BY DEF SwapVar
<1>3. level' \in Levelings /\ level' = wanted'
  BY <1>1, <1>2, ExchangedFacts
<1>4. MayOrder /\ UNCHANGED <<tree, blockid, todo, search>>
  BY DEF SwapVar, settings
<1> QED
  BY <1>3, <1>4, OrderKeeps

(* The methods of automatic reordering that bdd_reorder is given.          *)
LEMMA BddReorderKeeps ==
  ASSUME BlocksInv, ~ Gaps, BddReorder \/ AutoReorder
  PROVE  BlocksInv'
<1>1. CASE BddReorder
  <2>1. PICK m \in Methods : BeginReorder(m, FALSE)
    BY <1>1 DEF BddReorder
  <2> QED
    BY <2>1, BeginReorderKeeps
<1>2. CASE AutoReorder
  <2>1. PICK m : m = auto.method
    OBVIOUS
  <2>2. BeginReorder(m, TRUE)
    BY <1>2, <2>1 DEF AutoReorder
  <2> QED
    BY <2>2, BeginReorderKeeps
<1> QED
  BY <1>1, <1>2

(* Every step keeps what the searches rely on.                             *)
LEMMA BlocksNext ==
  ASSUME BlocksInv, SettingsInv, ~ Gaps, [Next]_vars
  PROVE  BlocksInv'
<1>1. CASE SearchStep
  BY <1>1, SearchStepKeeps
<1>2. CASE VisitBlock
  <2>1. ~ Idle
    BY <1>2 DEF VisitBlock
  <2>2. call.method \in Methods
    BY <2>1 DEF SettingsInv
  <2> QED
    BY <1>2, <2>2, VisitBlockKeeps
<1>3. CASE VisitChildren
  BY <1>3, VisitChildrenKeeps
<1>4. CASE SortBlock
  BY <1>4, SortBlockKeeps
<1>5. CASE EndReorder
  BY <1>5, EndReorderKeeps
<1>6. CASE BddReorder \/ AutoReorder
  BY <1>6, BddReorderKeeps
<1>7. CASE IntAddVarBlock
  BY <1>7, IntAddVarBlockKeeps
<1>8. CASE VarBlockAll
  BY <1>8, VarBlockAllKeeps
<1>9. CASE ClrVarBlocks
  BY <1>9, ClrVarBlocksKeeps
<1>10. CASE SetVarOrder
  BY <1>10, SetVarOrderFacts
<1>11. CASE SwapVar
  BY <1>11, SwapVarFacts
<1>12. CASE SetAuto \/ Switch \/ Probe \/ UNCHANGED vars
  <2>1. UNCHANGED <<level, tree, blockid, todo, search>>
    BY <1>12 DEF SetAuto, Switch, Probe, vars, settings
  <2> QED
    BY <2>1, BlocksStay
<1> QED
  BY <1>1, <1>2, <1>3, <1>4, <1>5, <1>6, <1>7, <1>8, <1>9, <1>10, <1>11, <1>12 DEF Next, ReorderStep

-----------------------------------------------------------------------------
(* The settings, the number of automatic reorderings, the order asked for. *)

(* A search runs in the middle of bdd_reorder.                             *)
LEMMA SearchBusy ==
  ASSUME BlocksInv, SearchStep
  PROVE  search # NoSearch /\ ~ Idle
<1>1. search.kind \in Windows \cup Sifting \cup {"random"}
  <2>1. CASE Win2Step \/ Win2Again \/ Win2Ends
    BY <2>1 DEF Win2Step, Win2Again, Win2Ends, Windows
  <2>2. CASE Win3Move \/ Win3Back \/ Win3Pair \/ Win3Again \/ Win3Ends
    BY <2>2 DEF Win3Move, Win3Back, Win3Pair, Win3Again, Win3Ends, Windows
  <2>3. CASE SiftStart \/ SiftMove \/ SiftTurn \/ SiftBack \/ SiftAgain \/ SiftEnds
    BY <2>3 DEF SiftStart, SiftMove, SiftTurn, SiftBack, SiftAgain, SiftEnds, AllSifted
  <2>4. CASE RandomMove \/ RandomEnds
    BY <2>4 DEF RandomMove, RandomEnds
  <2> QED
    BY <2>1, <2>2, <2>3, <2>4 DEF SearchStep
<1>2. search # NoSearch
  BY <1>1, WhichSearch
<1>3. todo # <<>>
  BY <1>2 DEF BlocksInv, SearchInv, SearchFits
<1> QED
  BY <1>2, <1>3 DEF Idle

(* Only EndReorder ends a reordering: before it there is something to do.  *)
LEMMA StillBusy ==
  ASSUME BlocksInv, SearchStep \/ VisitBlock \/ VisitChildren \/ SortBlock
  PROVE  ~ Idle /\ ~ Idle'
<1>1. CASE SearchStep
  BY <1>1, SearchBusy DEF SearchStep, Idle
<1>2. ASSUME ~ Idle, NEW F, F # <<>>, F \in Seq([step : {"search", "children", "sort"}, block : Ids(tree) \cup {Top}]),
             todo' = F \o Tail(todo)
      PROVE  ~ Idle'
  <2>1. PICK do, M, E : /\ do = todo /\ M = F \o Tail(do)
                        /\ E = [step : {"search", "children", "sort"}, block : Ids(tree) \cup {Top}]
    OBVIOUS
  <2>2. do \in Seq(E) /\ do # <<>> /\ F \in Seq(E)
    BY <1>2, <2>1, TodoFacts DEF Idle
  <2>3. Len(M) = Len(F) + Len(do) - 1 /\ Len(F) \in Nat /\ Len(do) \in Nat /\ Len(do) >= 1
    BY <2>1, <2>2, FrontReplaced
  <2>4. Len(F) # 0
    BY <1>2, <2>2, EmptySeq
  <2>5. Len(M) # 0
    BY <2>3, <2>4
  <2>6. M # <<>>
    BY <2>5
  <2> QED
    BY <1>2, <2>1, <2>6 DEF Idle
<1>3. CASE VisitBlock
  <2>1. ~ Idle /\ todo' = <<[step |-> "children", block |-> todo[1].block]>> \o Tail(todo)
    BY <1>3 DEF VisitBlock
  <2>2. todo[1].block \in Ids(tree) \cup {Top}
    BY <2>1, TodoFacts
  <2>3. PICK F : F = <<[step |-> "children", block |-> todo[1].block]>>
    OBVIOUS
  <2>4. F # <<>> /\ F \in Seq([step : {"search", "children", "sort"}, block : Ids(tree) \cup {Top}])
    BY <2>2, <2>3
  <2> QED
    BY <1>2, <2>1, <2>3, <2>4
<1>4. CASE VisitChildren
  <2>1. PICK b, K, F : /\ b = todo[1].block /\ K = tree.kids[b]
                       /\ F = [i \in DOMAIN K |-> [step |-> "search", block |-> K[i]]]
                                \o <<[step |-> "sort", block |-> b]>>
    BY Zenon
  <2>2. ~ Idle /\ todo' = F \o Tail(todo)
    BY <1>4, <2>1 DEF VisitChildren
  <2>3. b \in Ids(tree) \cup {Top} /\ Shape(tree, blockid, N)
    BY <2>1, <2>2, TodoFacts, Zenon
  <2>4. Len(K) \in Nat /\ DOMAIN K = 1..Len(K) /\ \A i \in 1..Len(K) : K[i] \in Ids(tree)
    BY <2>1, <2>3, BlocksFacts DEF Shape
  <2> DEFINE E == [step : {"search", "children", "sort"}, block : Ids(tree) \cup {Top}]
             G == [i \in DOMAIN K |-> [step |-> "search", block |-> K[i]]]
             H == <<[step |-> "sort", block |-> b]>>
  <2>5. G \in Seq(E) /\ H \in Seq(E)
    BY <2>3, <2>4
  <2>6. Len(H) = 1
    OBVIOUS
  <2>7. F = G \o H
    BY <2>1
  <2> HIDE DEF G, H, E
  <2>8. F \in Seq(E) /\ Len(F) = Len(G) + Len(H) /\ Len(G) \in Nat
    BY <2>5, <2>7, ConcatProperties, LenProperties
  <2>9. Len(F) # 0
    BY <2>6, <2>8
  <2>10. F # <<>>
    BY <2>9
  <2> QED
    BY <1>2, <2>2, <2>8, <2>10 DEF E
<1>5. CASE SortBlock
  <2>1. ~ Idle /\ todo[1].step = "sort" /\ todo[1].block # Top /\ todo' = Tail(todo)
    BY <1>5 DEF SortBlock
  <2>2. PICK do, E : /\ do = todo
                     /\ E = [step : {"search", "children", "sort"}, block : Ids(tree) \cup {Top}]
    OBVIOUS
  <2>3. do \in Seq(E) /\ Len(do) \in Nat /\ DOMAIN do = 1..Len(do) /\ 1 \in DOMAIN do
        /\ do[1].block \in Ids(tree)
    BY <2>1, <2>2, TodoFacts
  <2>4. IsAround(tree, Top, do[1].block)
    BY <2>3 DEF IsAround
  <2>5. \E j \in DOMAIN do : 1 < j
    BY <2>2, <2>3, <2>4 DEF BlocksInv, TodoInv, TodoFits
  <2>6. Len(do) >= 2 /\ do # <<>>
    BY <2>3, <2>5
  <2>7. PICK M : M = Tail(do)
    OBVIOUS
  <2>8. Len(M) = Len(do) - 1
    BY <2>3, <2>6, <2>7, HeadTailProperties
  <2>9. Len(M) # 0
    BY <2>3, <2>6, <2>8
  <2>10. M # <<>>
    BY <2>9
  <2> QED
    BY <2>1, <2>2, <2>7, <2>10 DEF Idle
<1>6. VisitBlock \/ VisitChildren \/ SortBlock => ~ Idle
  BY Zenon DEF VisitBlock, VisitChildren, SortBlock
<1> QED
  BY <1>1, <1>3, <1>4, <1>5, <1>6, SearchBusy

(* The steps of a reordering but the last change no setting.               *)
LEMMA BusySettings ==
  ASSUME SearchStep \/ VisitBlock \/ VisitChildren \/ SortBlock
  PROVE  auto' = auto /\ call' = call /\ nodenum' = nodenum /\ automatic' = automatic /\ wanted' = wanted
BY DEF SearchStep, VisitBlock, VisitChildren, SortBlock, settings, history

(* bdd_reorder saves the settings and gives them back.                     *)
LEMMA BeginReorderSettings ==
  ASSUME SettingsInv, NEW m \in Methods, NEW isAuto \in BOOLEAN, BeginReorder(m, isAuto)
  PROVE  /\ SettingsInv'
         /\ call'.automatic = isAuto /\ call'.saved.times = auto.times /\ todo' # <<>>
<1>1. PICK cap : call' = [method |-> m, automatic |-> isAuto, before |-> Size, after |-> 0,
                          saturated |-> FALSE, cap |-> cap,
                          saved |-> [method |-> auto.method, times |-> auto.times]]
  BY DEF BeginReorder
<1>2. auto' = [auto EXCEPT !.method = m, !.times = 1] /\ nodenum' = nodenum
      /\ todo' = <<[step |-> "search", block |-> Top]>>
  BY DEF BeginReorder, settings
<1>3. PICK c, a, x : c = call' /\ a = auto /\ x = Size
  OBVIOUS
<1>4. a \in [method : Methods \cup {"none"}, times : Int, disabled : BOOLEAN] /\ nodenum \in Handlers
  BY <1>3 DEF SettingsInv
<1>5. c = [method |-> m, automatic |-> isAuto, before |-> x, after |-> 0, saturated |-> FALSE, cap |-> cap,
           saved |-> [method |-> a.method, times |-> a.times]]
  BY <1>1, <1>3
<1>6. c = [method |-> c.method, automatic |-> c.automatic, before |-> c.before,
           after |-> c.after, saturated |-> c.saturated, cap |-> c.cap, saved |-> c.saved]
  BY <1>5
<1>7. c.saved = [method |-> a.method, times |-> a.times] /\ c.method = m
  BY <1>5
<1>8. c.automatic = isAuto
  BY <1>5, Zenon
<1>9. c.saved \in [method : Methods \cup {"none"}, times : Int] /\ c.saved.times = a.times
  BY <1>4, <1>7
<1>10. auto' \in [method : Methods \cup {"none"}, times : Int, disabled : BOOLEAN]
  <2>1. m \in Methods \cup {"none"} /\ 1 \in Int
    OBVIOUS
  <2>2. auto' = [a EXCEPT !.method = m, !.times = 1]
    BY <1>2, <1>3
  <2> QED
    BY <1>4, <2>1, <2>2
<1>11. c.automatic \in BOOLEAN
  BY <1>8, Zenon
<1>12. todo' # <<>>
  BY <1>2
<1>13. SettingsInv'
  BY <1>2, <1>3, <1>4, <1>6, <1>7, <1>9, <1>10, <1>11 DEF SettingsInv
<1> QED
  BY <1>3, <1>8, <1>9, <1>12, <1>13

(* The last step.                                                          *)
LEMMA EndReorderSettings ==
  ASSUME SettingsInv, EndReorder
  PROVE  /\ SettingsInv' /\ Idle'
         /\ auto'.times = call.saved.times - (IF call.automatic THEN 1 ELSE 0)
<1>1. PICK c, a, x, full, less : /\ c = call /\ a = auto /\ x = Size /\ full = (kept # {})
                                 /\ less = IF call.automatic THEN 1 ELSE 0
  OBVIOUS
<1>2. /\ todo' = <<>> /\ nodenum' = nodenum
      /\ call' = [c EXCEPT !.after = x, !.saturated = full, !.saved = Unsaved]
      /\ auto' = [a EXCEPT !.method = c.saved.method, !.times = c.saved.times - less]
  BY <1>1 DEF EndReorder, settings
<1>3. /\ a \in [method : Methods \cup {"none"}, times : Int, disabled : BOOLEAN] /\ nodenum \in Handlers
      /\ c = [method |-> c.method, automatic |-> c.automatic, before |-> c.before,
              after |-> c.after, saturated |-> c.saturated, cap |-> c.cap, saved |-> c.saved]
      /\ c.saved \in [method : Methods \cup {"none"}, times : Int]
  BY <1>1 DEF SettingsInv
<1>4. less \in Int
  <2>1. less = 0 \/ less = 1
    BY <1>1
  <2> QED
    BY <2>1
<1>5. c.saved.method \in Methods \cup {"none"} /\ c.saved.times - less \in Int
  BY <1>3, <1>4
<1>6. auto' \in [method : Methods \cup {"none"}, times : Int, disabled : BOOLEAN]
      /\ auto'.times = c.saved.times - less
  BY <1>2, <1>3, <1>5
<1>7. PICK d : d = call'
  OBVIOUS
<1>8. d = [method |-> c.method, automatic |-> c.automatic, before |-> c.before,
           after |-> x, saturated |-> full, cap |-> c.cap, saved |-> Unsaved]
  BY <1>2, <1>3, <1>7
<1>9. d = [method |-> d.method, automatic |-> d.automatic, before |-> d.before,
           after |-> d.after, saturated |-> d.saturated, cap |-> d.cap, saved |-> d.saved]
      /\ d.saved = Unsaved
  BY <1>8
<1>10. d.automatic = c.automatic
  BY <1>8, Zenon
<1>11. d.automatic \in BOOLEAN
  <2>1. c.automatic \in BOOLEAN
    BY <1>1, Zenon DEF SettingsInv
  <2> QED
    BY <2>1, <1>10, Zenon
<1>12. Unsaved \in [method : Methods \cup {"none"}, times : Int]
  BY DEF Unsaved
<1>13. Idle'
  BY <1>2 DEF Idle
<1>14. SettingsInv'
  BY <1>2, <1>3, <1>6, <1>7, <1>9, <1>11, <1>12, <1>13 DEF SettingsInv
<1> QED
  BY <1>1, <1>6, <1>13, <1>14

(* The calls that set something.                                           *)
LEMMA SettingsCalls ==
  ASSUME SettingsInv, Idle, SetAuto \/ Switch \/ Probe
  PROVE  SettingsInv' /\ Idle'
<1>1. Idle'
  BY DEF SetAuto, Switch, Probe, Idle
<1>2. PICK a, c : a = auto /\ c = call
  OBVIOUS
<1>3. /\ a \in [method : Methods \cup {"none"}, times : Int, disabled : BOOLEAN] /\ nodenum \in Handlers
      /\ c = [method |-> c.method, automatic |-> c.automatic, before |-> c.before,
              after |-> c.after, saturated |-> c.saturated, cap |-> c.cap, saved |-> c.saved]
      /\ c.saved \in [method : Methods \cup {"none"}, times : Int]
  BY <1>2 DEF SettingsInv
<1>4. CASE SetAuto
  <2>1. PICK m \in AutoMethods, n \in -1..MaxTimes : auto' = [a EXCEPT !.method = m, !.times = n]
    BY <1>2, <1>4 DEF SetAuto
  <2>2. m \in Methods \cup {"none"} /\ n \in Int
    BY BlockOrderSettings
  <2>3. auto' \in [method : Methods \cup {"none"}, times : Int, disabled : BOOLEAN]
    BY <1>3, <2>1, <2>2
  <2>4. call' = call /\ nodenum' = nodenum
    BY <1>4 DEF SetAuto, settings
  <2> QED
    BY <1>1, <2>3, <2>4 DEF SettingsInv
<1>5. CASE Switch
  <2>1. auto' = [a EXCEPT !.disabled = ~ a.disabled]
    BY <1>2, <1>5 DEF Switch
  <2>2. (~ a.disabled) \in BOOLEAN
    OBVIOUS
  <2>3. auto' \in [method : Methods \cup {"none"}, times : Int, disabled : BOOLEAN]
    BY <1>3, <2>1, <2>2
  <2>4. call' = call /\ nodenum' = nodenum
    BY <1>5 DEF Switch, settings
  <2> QED
    BY <1>1, <2>3, <2>4 DEF SettingsInv
<1>6. CASE Probe
  <2>1. call' = [c EXCEPT !.method = "none"] /\ nodenum' \in Handlers /\ auto' = auto
    BY <1>2, <1>6 DEF Probe
  <2>2. PICK d : d = call'
    OBVIOUS
  <2>3. d = [method |-> "none", automatic |-> c.automatic, before |-> c.before,
             after |-> c.after, saturated |-> c.saturated, cap |-> c.cap, saved |-> c.saved]
    BY <1>3, <2>1, <2>2
  <2>4. d = [method |-> d.method, automatic |-> d.automatic, before |-> d.before,
             after |-> d.after, saturated |-> d.saturated, cap |-> d.cap, saved |-> d.saved]
        /\ d.saved = c.saved
    BY <2>3
  <2>5. d.automatic = c.automatic
    BY <2>3, Zenon
  <2>6. d.automatic \in BOOLEAN
    <3>1. c.automatic \in BOOLEAN
      BY <1>2, Zenon DEF SettingsInv
    <3> QED
      BY <3>1, <2>5, Zenon
  <2> QED
    BY <1>1, <1>2, <1>3, <2>1, <2>2, <2>4, <2>6 DEF SettingsInv
<1> QED
  BY <1>1, <1>4, <1>5, <1>6

(* The calls that change the tree or the order set nothing.                *)
LEMMA OtherCalls ==
  ASSUME IntAddVarBlock \/ VarBlockAll \/ ClrVarBlocks \/ SetVarOrder \/ SwapVar
  PROVE  /\ Idle /\ todo' = todo
         /\ auto' = auto /\ call' = call /\ nodenum' = nodenum /\ automatic' = automatic
BY DEF IntAddVarBlock, VarBlockAll, ClrVarBlocks, SetVarOrder, SwapVar, MayAdd, MayOrder, MayCall, settings

(* A method for bdd_reorder, the one set if it is automatic.               *)
LEMMA WhichMethod ==
  ASSUME SettingsInv, BddReorder \/ AutoReorder
  PROVE  \/ \E m \in Methods : BeginReorder(m, FALSE) /\ automatic' = automatic
         \/ \E m \in Methods : /\ BeginReorder(m, TRUE) /\ auto.times # 0
                               /\ automatic' = [automatic EXCEPT !.done = @ + 1]
<1>1. CASE BddReorder
  BY <1>1 DEF BddReorder
<1>2. CASE AutoReorder
  <2>1. PICK m : m = auto.method
    OBVIOUS
  <2>2. m \in Methods
    <3>1. m \in Methods \cup {"none"}
      BY <2>1 DEF SettingsInv
    <3>2. m # "none"
      BY <1>2, <2>1 DEF AutoReorder, Ready
    <3> QED
      BY <3>1, <3>2
  <2>3. /\ BeginReorder(m, TRUE) /\ auto.times # 0
        /\ automatic' = [automatic EXCEPT !.done = @ + 1]
    BY <1>2, <2>1 DEF AutoReorder, Ready
  <2> QED
    BY <2>2, <2>3
<1> QED
  BY <1>1, <1>2

(* Every step keeps the settings in order.                                 *)
LEMMA SettingsNext ==
  ASSUME BlocksInv, SettingsInv, [Next]_vars
  PROVE  SettingsInv'
<1>1. CASE SearchStep \/ VisitBlock \/ VisitChildren \/ SortBlock
  <2>1. auto' = auto /\ call' = call /\ nodenum' = nodenum /\ ~ Idle
    BY <1>1, BusySettings, StillBusy
  <2> QED
    BY <2>1 DEF SettingsInv
<1>2. CASE EndReorder
  BY <1>2, EndReorderSettings
<1>3. CASE BddReorder \/ AutoReorder
  <2>1. PICK m \in Methods : BeginReorder(m, FALSE) \/ BeginReorder(m, TRUE)
    BY <1>3, WhichMethod
  <2> QED
    BY <2>1, BeginReorderSettings
<1>4. CASE IntAddVarBlock \/ VarBlockAll \/ ClrVarBlocks \/ SetVarOrder \/ SwapVar
  BY <1>4, OtherCalls DEF SettingsInv, Idle
<1>5. CASE SetAuto \/ Switch \/ Probe
  BY <1>5, SettingsCalls DEF SetAuto, Switch, Probe, MayCall
<1>6. CASE UNCHANGED vars
  BY <1>6 DEF vars, settings, SettingsInv, Idle
<1> QED
  BY <1>1, <1>2, <1>3, <1>4, <1>5, <1>6 DEF Next, ReorderStep

(* Every step keeps account of the automatic reorderings.                  *)
LEMMA TimesNext ==
  ASSUME BlocksInv, SettingsInv, TimesInv, [Next]_vars
  PROVE  TimesInv'
<1>1. PICK h, a, c : h = automatic /\ a = auto /\ c = call
  OBVIOUS
<1>2. /\ h \in [granted : Int, done : Int]
      /\ h.granted >= 0 => h.done <= h.granted
      /\ h.granted >= 0 /\ Idle => h.granted - h.done = a.times
      /\ h.granted >= 0 /\ ~ Idle => h.granted - h.done = c.saved.times - (IF c.automatic THEN 1 ELSE 0)
  BY <1>1 DEF TimesInv
<1>3. CASE SearchStep \/ VisitBlock \/ VisitChildren \/ SortBlock
  <2>1. auto' = auto /\ call' = call /\ automatic' = automatic /\ ~ Idle /\ ~ Idle'
    BY <1>3, BusySettings, StillBusy
  <2> QED
    BY <1>1, <1>2, <2>1 DEF TimesInv
<1>4. CASE EndReorder
  <2>1. automatic' = h /\ Idle' /\ ~ Idle
    BY <1>1, <1>4, EndReorderSettings DEF EndReorder, history
  <2>2. auto'.times = c.saved.times - (IF c.automatic THEN 1 ELSE 0)
    BY <1>1, <1>4, EndReorderSettings
  <2> QED
    BY <1>2, <2>1, <2>2 DEF TimesInv
<1>5. CASE BddReorder \/ AutoReorder
  <2>1. Idle /\ a.times \in Int
    <3>1. Idle
      BY <1>5 DEF BddReorder, AutoReorder, BeginReorder, MayCall
    <3> QED
      BY <1>1, <3>1 DEF SettingsInv
  <2>2. h.granted \in Int /\ h.done \in Int /\ (h.granted >= 0 => h.granted - h.done = a.times /\ h.done <= h.granted)
    BY <1>2, <2>1
  <2>3. CASE \E m \in Methods : BeginReorder(m, FALSE) /\ automatic' = automatic
    <3>1. PICK m \in Methods : BeginReorder(m, FALSE) /\ automatic' = automatic
      BY <2>3
    <3>2. ~ call'.automatic /\ call'.saved.times = a.times /\ todo' # <<>>
      BY <1>1, <3>1, BeginReorderSettings
    <3>3. ~ Idle'
      BY <3>2 DEF Idle
    <3>4. a.times - 0 = a.times
      BY <2>1
    <3> QED
      BY <1>1, <1>2, <2>2, <3>1, <3>2, <3>3, <3>4 DEF TimesInv
  <2>4. CASE \E m \in Methods : /\ BeginReorder(m, TRUE) /\ auto.times # 0
                                /\ automatic' = [automatic EXCEPT !.done = @ + 1]
    <3>1. PICK m \in Methods : /\ BeginReorder(m, TRUE) /\ auto.times # 0
                               /\ automatic' = [automatic EXCEPT !.done = @ + 1]
      BY <2>4
    <3>2. call'.automatic /\ call'.saved.times = a.times /\ todo' # <<>>
      BY <1>1, <3>1, BeginReorderSettings
    <3>3. ~ Idle'
      BY <3>2 DEF Idle
    <3>4. PICK g : g = automatic'
      OBVIOUS
    <3>5. g = [h EXCEPT !.done = h.done + 1]
      BY <1>1, <3>1, <3>4
    <3>6. g \in [granted : Int, done : Int] /\ g.granted = h.granted /\ g.done = h.done + 1
      BY <1>2, <2>2, <3>5
    <3>7. g.granted >= 0 => g.done <= g.granted /\ g.granted - g.done = a.times - 1
      BY <1>1, <2>1, <2>2, <3>1, <3>6
    <3> QED
      BY <3>2, <3>3, <3>4, <3>6, <3>7 DEF TimesInv
  <2> QED
    BY <1>5, <2>3, <2>4, WhichMethod
<1>6. CASE IntAddVarBlock \/ VarBlockAll \/ ClrVarBlocks \/ SetVarOrder \/ SwapVar
  <2>1. auto' = auto /\ call' = call /\ automatic' = automatic /\ Idle /\ Idle'
    BY <1>6, OtherCalls DEF Idle
  <2> QED
    BY <1>1, <1>2, <2>1 DEF TimesInv
<1>7. CASE SetAuto
  <2>1. PICK m \in AutoMethods, n \in -1..MaxTimes :
          auto' = [auto EXCEPT !.method = m, !.times = n] /\ automatic' = [granted |-> n, done |-> 0]
    BY <1>7 DEF SetAuto
  <2>2. n \in Int /\ m \in Methods \cup {"none"}
    BY BlockOrderSettings
  <2>3. a \in [method : Methods \cup {"none"}, times : Int, disabled : BOOLEAN]
    BY <1>1 DEF SettingsInv
  <2>4. auto'.times = n
    BY <1>1, <2>1, <2>2, <2>3
  <2>5. Idle'
    BY <1>7 DEF SetAuto, MayCall, Idle
  <2>6. PICK g : g = automatic'
    OBVIOUS
  <2>7. g = [granted |-> n, done |-> 0]
    BY <2>1, <2>6
  <2>8. g \in [granted : Int, done : Int] /\ g.granted = n /\ g.done = 0
    BY <2>2, <2>7
  <2> QED
    BY <2>2, <2>4, <2>5, <2>6, <2>8 DEF TimesInv
<1>8. CASE Switch \/ Probe
  <2>1. automatic' = automatic /\ Idle /\ Idle'
    BY <1>8 DEF Switch, Probe, MayCall, Idle, history
  <2>2. auto'.times = a.times
    <3>1. a \in [method : Methods \cup {"none"}, times : Int, disabled : BOOLEAN]
      BY <1>1 DEF SettingsInv
    <3> QED
      BY <1>1, <1>8, <3>1 DEF Switch, Probe
  <2> QED
    BY <1>1, <1>2, <2>1, <2>2 DEF TimesInv
<1>9. CASE UNCHANGED vars
  BY <1>9 DEF vars, history, TimesInv, Idle
<1> QED
  BY <1>3, <1>4, <1>5, <1>6, <1>7, <1>8, <1>9 DEF Next, ReorderStep

(* Every step keeps the order asked for, or starts a reordering.           *)
LEMMA WantedNext ==
  ASSUME BlocksInv, WantedInv, [Next]_vars
  PROVE  WantedInv'
<1>1. CASE SearchStep \/ VisitBlock \/ VisitChildren \/ SortBlock
  BY <1>1, BusySettings, StillBusy DEF WantedInv
<1>2. CASE EndReorder
  BY <1>2 DEF EndReorder, history, WantedInv
<1>3. CASE BddReorder \/ AutoReorder
  <2>1. wanted' = AnyOrder
    BY <1>3 DEF BddReorder, AutoReorder, BeginReorder
  <2> QED
    BY <2>1 DEF WantedInv
<1>4. CASE SetVarOrder \/ SwapVar
  <2>1. level' = wanted' /\ Idle'
    BY <1>4, SetVarOrderFacts, SwapVarFacts, OtherCalls DEF Idle
  <2> QED
    BY <2>1 DEF WantedInv
<1>5. CASE IntAddVarBlock \/ VarBlockAll \/ ClrVarBlocks \/ SetAuto \/ Switch \/ Probe \/ UNCHANGED vars
  <2>1. level' = level /\ wanted' = wanted /\ todo' = todo
    BY <1>5 DEF IntAddVarBlock, VarBlockAll, ClrVarBlocks, SetAuto, Switch, Probe, vars, history
  <2> QED
    BY <2>1 DEF WantedInv, Idle
<1> QED
  BY <1>1, <1>2, <1>3, <1>4, <1>5 DEF Next, ReorderStep

(* The invariant of the searches and of the calls between them.            *)
LEMMA BlockInvHolds ==
  ASSUME ~ Gaps
  PROVE  Spec => []BlockInv
<1>1. Init => BlockInv
  <2> SUFFICES ASSUME Init PROVE BlockInv
    OBVIOUS
  <2>1. BlocksInv
    BY BlocksInit
  <2>2. /\ nodenum = Default /\ auto = [method |-> "none", times |-> 0, disabled |-> FALSE]
        /\ todo = <<>> /\ level = Identity /\ wanted = Identity
        /\ automatic = [granted |-> 0, done |-> 0]
        /\ call = [method |-> "none", automatic |-> FALSE, before |-> 0, after |-> 0,
                   saturated |-> FALSE, cap |-> NoCap, saved |-> Unsaved]
    BY DEF Init
  <2>3. auto \in [method : Methods \cup {"none"}, times : Int, disabled : BOOLEAN]
        /\ Unsaved \in [method : Methods \cup {"none"}, times : Int] /\ nodenum \in Handlers
    BY <2>2, BlockOrderSettings DEF Unsaved
  <2>4. call = [method |-> call.method, automatic |-> call.automatic, before |-> call.before,
                after |-> call.after, saturated |-> call.saturated, cap |-> call.cap, saved |-> call.saved]
        /\ call.saved = Unsaved
    BY <2>2
  <2>5. call.automatic \in BOOLEAN
    <3>1. call.automatic = FALSE
      BY <2>2, Zenon
    <3> QED
      BY <3>1, Zenon
  <2>6. Idle
    BY <2>2 DEF Idle
  <2>7. SettingsInv
    BY <2>3, <2>4, <2>5, <2>6 DEF SettingsInv
  <2>8. TimesInv
    BY <2>2, <2>6 DEF TimesInv
  <2>9. WantedInv
    BY <2>2, <2>6 DEF WantedInv
  <2> QED
    BY <2>1, <2>7, <2>8, <2>9 DEF BlockInv
<1>2. BlockInv /\ [Next]_vars => BlockInv'
  BY BlocksNext, SettingsNext, TimesNext, WantedNext DEF BlockInv
<1> QED
  BY <1>1, <1>2, PTL DEF Spec

-----------------------------------------------------------------------------
(* The properties.                                                         *)

(* The variables of each block are together in the order, the blocks of a  *)
(* list in the order of their levels.                                      *)
LEMMA TreeTogether ==
  ASSUME TreeInv
  PROVE  KeptTogether /\ \A p \in DOMAIN tree.kids : InOrder(p)
<1>1. PICK t, l : t = tree /\ l = level
  OBVIOUS
<1>2. l \in Levelings /\ Shape(t, blockid, N) /\ ((l = Identity /\ InLine(t)) \/ Tight(l, t))
  BY <1>1 DEF TreeInv, TreeFits
<1>3. Blocks(t, blockid, N)
  BY <1>2 DEF Shape
<1>4. \A v \in Vars : l[v] \in Int
  BY <1>2, LevelingFacts
<1>5. ASSUME NEW b \in Ids(t) PROVE \E lo, hi : Occupies(l, VarsOf(t, b), lo, hi)
  <2>1. CASE Tight(l, t)
    BY <2>1 DEF Tight, Held
  <2>2. CASE l = Identity
    <3>1. /\ t.block[b].first \in Int /\ t.block[b].last \in Int /\ 0 <= t.block[b].first
          /\ t.block[b].first <= t.block[b].last /\ t.block[b].last < N
      BY <1>3, BlocksFacts
    <3>2. Occupies(Identity, t.block[b].first .. t.block[b].last, t.block[b].first, t.block[b].last)
      BY <3>1, IdentityFacts
    <3> QED
      BY <2>2, <3>2 DEF VarsOf
  <2> QED
    BY <1>2, <2>1, <2>2
<1>6. KeptTogether
  <2> SUFFICES ASSUME NEW b \in Ids(t), NEW u \in VarsOf(t, b), NEW w \in VarsOf(t, b), NEW v \in Vars,
                      l[u] < l[v], l[v] < l[w]
               PROVE  v \in VarsOf(t, b)
    BY <1>1 DEF KeptTogether, Together
  <2>1. PICK lo, hi : Occupies(l, VarsOf(t, b), lo, hi)
    BY <1>5
  <2>2. lo \in Int /\ hi \in Int /\ VarsOf(t, b) = {x \in Vars : lo <= l[x] /\ l[x] <= hi}
    BY <2>1 DEF Occupies
  <2>3. u \in Vars /\ w \in Vars /\ lo <= l[u] /\ l[w] <= hi
    BY <2>2
  <2>4. lo <= l[v] /\ l[v] <= hi
    BY <1>4, <2>2, <2>3
  <2> QED
    BY <2>2, <2>4
<1>7. ASSUME NEW p \in DOMAIN t.kids, NEW i \in DOMAIN t.kids[p], NEW j \in DOMAIN t.kids[p], i < j
      PROVE  \A v \in VarsOf(t, t.kids[p][i]), w \in VarsOf(t, t.kids[p][j]) : l[v] < l[w]
  <2>1. p \in Ids(t) \cup {Top}
    BY <1>3, BlocksFacts
  <2>2. CASE Tight(l, t)
    BY <1>2, <1>7, <2>1, <2>2, TightInOrder
  <2>3. CASE l = Identity /\ InLine(t)
    <3>1. PICK x, y : x = t.kids[p][i] /\ y = t.kids[p][j]
      OBVIOUS
    <3>2. x \in Ids(t) /\ y \in Ids(t)
      BY <1>3, <2>1, <3>1, BlocksFacts
    <3>3. t.block[x].last < t.block[y].first
      BY <1>7, <2>1, <2>3, <3>1 DEF InLine
    <3>4. /\ t.block[x].first \in Int /\ t.block[x].last \in Int /\ 0 <= t.block[x].first
          /\ t.block[x].last < N /\ t.block[y].first \in Int /\ t.block[y].last \in Int
          /\ 0 <= t.block[y].first /\ t.block[y].last < N
      BY <1>3, <3>2, BlocksFacts
    <3> SUFFICES ASSUME NEW v \in VarsOf(t, x), NEW w \in VarsOf(t, y) PROVE l[v] < l[w]
      BY <3>1
    <3>5. v \in Int /\ t.block[x].first <= v /\ v <= t.block[x].last
          /\ w \in Int /\ t.block[y].first <= w /\ w <= t.block[y].last
      BY <3>4 DEF VarsOf
    <3>6. 0 <= v /\ v < N /\ 0 <= w /\ w < N /\ v < w
      BY <3>3, <3>4, <3>5, VarsRange
    <3>7. v \in Vars /\ w \in Vars
      BY <3>5, <3>6, VarsRange
    <3> QED
      BY <2>3, <3>6, <3>7, IdentityFacts
  <2> QED
    BY <1>2, <2>2, <2>3
<1>8. \A p \in DOMAIN tree.kids : InOrder(p)
  BY <1>1, <1>7 DEF InOrder, Above
<1> QED
  BY <1>6, <1>8

(* seq is right for every block that is relied on.                         *)
LEMMA ReliedFresh ==
  ASSUME BlocksInv
  PROVE  \A b \in Relied : tree.block[b].seq = Sorted(level, tree.block[b])
<1>1. PICK t, l, D : t = tree /\ l = level /\ D = Unsorted(todo)
  OBVIOUS
<1>2. \A b \in Ids(t) : b \notin D => t.block[b].seq = Sorted(l, t.block[b])
  BY <1>1 DEF BlocksInv, TreeInv, TreeFits, Fresh
<1>3. CASE Idle
  BY <1>1, <1>2, <1>3, IdleFacts DEF Relied
<1>4. CASE ~ Idle /\ search = NoSearch
  BY <1>4 DEF Relied
<1>5. CASE ~ Idle /\ search # NoSearch
  <2>1. Relied = ToSet(List)
    BY <1>5 DEF Relied
  <2>2. PICK L : L = List
    OBVIOUS
  <2>3. Searching(L, D)
    BY <1>1, <1>5, <2>2, SearchRuns
  <2>4. /\ L \in Seq(Ids(t)) /\ DOMAIN L = 1..Len(L) /\ L = t.kids[search.on]
        /\ \A k \in Ids(t) : Kid(t, search.on, k) => k \notin D
    BY <1>1, <2>2, <2>3 DEF Searching, Movable, List
  <2>5. \A b \in ToSet(L) : b \in Ids(t) /\ b \notin D
    <3> SUFFICES ASSUME NEW i \in DOMAIN L PROVE L[i] \in Ids(t) /\ L[i] \notin D
      BY DEF ToSet
    <3>1. L[i] \in Ids(t)
      BY <2>4, ElementOfSeq
    <3>2. Kid(t, search.on, L[i])
      BY <2>4 DEF Kid
    <3> QED
      BY <2>4, <3>1, <3>2
  <2> QED
    BY <1>1, <1>2, <2>1, <2>2, <2>5
<1> QED
  BY <1>3, <1>4, <1>5

(* Types, as far as they are not in the invariant.                         *)
LEMMA BlockTypes ==
  ASSUME BlocksInv, SettingsInv
  PROVE  /\ TypeOK
         /\ \A p \in Ids(tree) : \A c \in ToSet(tree.kids[p]) : VarsOf(tree, c) \subseteq VarsOf(tree, p)
<1>1. PICK t, do : t = tree /\ do = todo
  OBVIOUS
<1>2. level \in Levelings /\ Shape(t, blockid, N)
  BY <1>1 DEF BlocksInv, TreeInv, TreeFits
<1>3. Blocks(t, blockid, N)
  BY <1>2 DEF Shape
<1>4. ASSUME NEW b \in Ids(t) PROVE b \in 0..(blockid - 1) /\ VarsOf(t, b) \subseteq Vars
  <2>1. b \in 0..(blockid - 1)
    BY <1>3 DEF Blocks
  <2>2. VarsOf(t, b) \subseteq Vars
    <3> SUFFICES ASSUME NEW v \in VarsOf(t, b) PROVE v \in Vars
      OBVIOUS
    <3>1. /\ t.block[b].first \in Int /\ t.block[b].last \in Int /\ 0 <= t.block[b].first
          /\ t.block[b].last < N
      BY <1>3, BlocksFacts
    <3>2. v \in Int /\ t.block[b].first <= v /\ v <= t.block[b].last
      BY <3>1 DEF VarsOf
    <3>3. 0 <= v /\ v < N
      BY <3>1, <3>2, VarsRange
    <3> QED
      BY <3>2, <3>3, VarsRange
  <2> QED
    BY <2>1, <2>2
<1>5. ASSUME NEW i \in DOMAIN do
      PROVE  do[i].step \in {"search", "children", "sort"} /\ do[i].block \in Ids(t) \cup {Top}
  <2>1. do \in Seq([step : {"search", "children", "sort"}, block : Ids(t) \cup {Top}])
    BY <1>1 DEF BlocksInv, TodoInv, TodoFits
  <2>2. do[i] \in [step : {"search", "children", "sort"}, block : Ids(t) \cup {Top}]
    BY <2>1, ElementOfSeq, LenProperties
  <2> QED
    BY <2>2
<1>6. search # NoSearch => search.on \in Ids(t) \cup {Top}
  BY <1>1 DEF BlocksInv, SearchInv, SearchFits
<1>7. TypeOK
  BY <1>1, <1>2, <1>4, <1>5, <1>6 DEF TypeOK, SettingsInv
<1>8. ASSUME NEW p \in Ids(t), NEW c \in ToSet(t.kids[p]) PROVE VarsOf(t, c) \subseteq VarsOf(t, p)
  <2>1. Kid(t, p, c)
    BY <1>8 DEF ToSet, Kid
  <2>2. c \in Ids(t) /\ p # Top
    BY <1>3, <2>1, BlocksFacts
  <2>3. Strictly(t, c, p)
    BY <1>2, <2>1, <2>2 DEF Shape, Parents, IsParent
  <2>4. /\ t.block[p].first <= t.block[c].first /\ t.block[c].last <= t.block[p].last
        /\ t.block[p].first \in Int /\ t.block[c].first \in Int
        /\ t.block[p].last \in Int /\ t.block[c].last \in Int
    BY <1>3, <2>2, <2>3, BlocksFacts DEF Strictly
  <2> QED
    BY <2>4 DEF VarsOf
<1> QED
  BY <1>1, <1>7, <1>8

(* As long as the program reorders only when no variable lies between two  *)
(* blocks of a list without being in one, no search, whichever way the     *)
(* sizes make it go, takes the variables of a block apart, takes a block   *)
(* out of the block around it, or works with a seq out of date.            *)
THEOREM BlocksTogetherHolds ==
  ASSUME ~ Gaps
  PROVE  Spec => []BlocksTogether
<1>1. BlockInv => BlocksTogether
  <2> SUFFICES ASSUME BlockInv PROVE BlocksTogether
    OBVIOUS
  <2>1. BlocksInv /\ SettingsInv /\ TreeInv
    BY DEF BlockInv, BlocksInv
  <2> QED
    BY <2>1, TreeTogether, ReliedFresh, BlockTypes DEF BlocksTogether
<1> QED
  BY <1>1, BlockInvHolds, PTL

(* Nor does it change the order of blocks inside a fixed one.              *)
THEOREM FixedKeptHolds ==
  ASSUME ~ Gaps
  PROVE  Spec => []FixedKept
<1>1. BlockInv => FixedKept
  BY DEF BlockInv, BlocksInv, FixedInv, FixedOrder, FixedKept
<1> QED
  BY <1>1, BlockInvHolds, PTL

(* bdd_reorder, which overwrites the number of automatic reorderings left, *)
(* and the count of bdd_reorder_auto keep to the number the program gave.  *)
THEOREM TimesRespectedHolds ==
  ASSUME ~ Gaps
  PROVE  Spec => []TimesRespected
<1>1. BlockInv => TimesRespected
  BY DEF BlockInv, TimesInv, TimesRespected
<1> QED
  BY <1>1, BlockInvHolds, PTL

(* The loops of bdd_setvarorder and bdd_swapvar end, for every number of   *)
(* variables, in the order the call was for.                               *)
THEOREM OrdersAsAskedHolds ==
  ASSUME ~ Gaps
  PROVE  Spec => []OrdersAsAsked
<1>1. BlockInv => OrdersAsAsked
  BY DEF BlockInv, WantedInv, OrdersAsAsked
<1> QED
  BY <1>1, BlockInvHolds, PTL

(* The ranges of the tree are still there.                                 *)
RangesKept(t, u) ==
  \A b \in Ids(t) : /\ b \in Ids(u)
                    /\ u.block[b].first = t.block[b].first /\ u.block[b].last = t.block[b].last

(* A search moves blocks, or leaves the tree alone.                        *)
LEMMA SearchTree ==
  ASSUME BlocksInv, SearchStep
  PROVE  tree' = tree \/ \E s : Move(s)
<1>1. search # NoSearch
  BY SearchBusy
<1>2. CASE Win2Step \/ Win3Pair
  BY <1>2 DEF Win2Step, Win2, Win3Pair
<1>3. CASE Win2Again \/ Win3Again \/ SiftStart \/ SiftTurn \/ SiftAgain
  BY <1>3 DEF Win2Again, Win3Again, SiftStart, SiftTurn, SiftAgain, Stay
<1>4. CASE Win3Move \/ Win3Back \/ SiftMove \/ SiftBack
  BY <1>4 DEF Win3Move, Win3Back, SiftMove, SiftBack
<1>5. CASE RandomMove
  BY <1>5 DEF RandomMove, Stay
<1>6. CASE Win2Ends \/ Win3Ends
  <2>1. search.kind \in Windows /\ Return(search.first)
    BY <1>6 DEF Win2Ends, Win3Ends, Windows
  <2>2. WindowFits(search, List)
    BY <2>1, WhichSearch
  <2>3. search.kind \in {"win2", "win2ite"} \/ search.moves = 0
    BY <1>6 DEF Win2Ends, Win3Ends
  <2>4. search.moves = 0
    BY <2>2, <2>3 DEF WindowFits
  <2>5. search.first = List[1]
    BY <2>2, <2>4 DEF WindowFits
  <2> QED
    BY <1>1, <2>1, <2>5, ReturnSame
<1>7. CASE SiftEnds \/ RandomEnds
  <2>1. Return(List[1])
    BY <1>7 DEF SiftEnds, RandomEnds
  <2> QED
    BY <1>1, <2>1, ReturnSame
<1> QED
  BY <1>2, <1>3, <1>4, <1>5, <1>6, <1>7 DEF SearchStep

(* A reordering keeps every range.                                         *)
LEMMA ReorderRanges ==
  ASSUME BlocksInv, ReorderStep
  PROVE  RangesKept(tree, tree')
<1>1. PICK t : t = tree
  OBVIOUS
<1>2. Shape(t, blockid, N) /\ Blocks(t, blockid, N)
  BY <1>1 DEF BlocksInv, TreeInv, TreeFits, Shape
<1>3. tree' = t => RangesKept(t, tree')
  BY DEF RangesKept
<1>4. CASE SearchStep
  <2>1. CASE \E s : Move(s)
    <3>1. PICK s : Move(s)
      BY <2>1
    <3>2. PICK K : K = [t.kids EXCEPT ![search.on] = s.list]
      OBVIOUS
    <3>3. tree' = [t EXCEPT !.kids = K]
      BY <1>1, <3>1, <3>2 DEF Move
    <3>4. t = [block |-> t.block, kids |-> t.kids]
      BY <1>2 DEF Blocks
    <3>5. tree' = [block |-> t.block, kids |-> K]
      BY <3>3, <3>4
    <3>6. tree'.block = t.block
      BY <3>5
    <3> QED
      BY <1>1, <3>6 DEF RangesKept, Ids
  <2> QED
    BY <1>1, <1>3, <1>4, <2>1, SearchTree
<1>5. CASE VisitBlock \/ VisitChildren \/ EndReorder
  BY <1>1, <1>3, <1>5 DEF VisitBlock, VisitChildren, EndReorder
<1>6. CASE SortBlock
  <2>1. PICK b, seq : /\ ~ Idle /\ b = todo[1].block /\ b # Top
                      /\ tree' = [t EXCEPT !.block[b].seq = seq]
    BY <1>1, <1>6 DEF SortBlock
  <2>2. b \in Ids(t)
    BY <1>1, <2>1, TodoFacts
  <2>3. PICK u : u = tree'
    OBVIOUS
  <2>4. u = Resorted(t, b, seq)
    BY <2>1, <2>3 DEF Resorted
  <2>5. Ids(u) = Ids(t) /\ \A c \in Ids(t) : u.block[c].first = t.block[c].first /\ u.block[c].last = t.block[c].last
    BY <1>2, <2>2, <2>4, ResortedShape
  <2> QED
    BY <1>1, <2>3, <2>5 DEF RangesKept
<1> QED
  BY <1>4, <1>5, <1>6 DEF ReorderStep

(* So does every call of the program that asks for no overlap.             *)
LEMMA BlocksKeptNext ==
  ASSUME BlocksInv, BlocksKept, [Next]_vars
  PROVE  BlocksKept'
<1>1. ~ overlap => \A r \in asked : HasRange(tree, r[1], r[2])
  BY DEF BlocksKept, HasRange
<1>2. SUFFICES ASSUME ~ overlap', NEW r \in asked' PROVE HasRange(tree', r[1], r[2])
  BY DEF BlocksKept, HasRange
<1>3. ASSUME RangesKept(tree, tree'), HasRange(tree, r[1], r[2]) PROVE HasRange(tree', r[1], r[2])
  BY <1>3 DEF RangesKept, HasRange, SameRange
<1>4. tree' = tree => RangesKept(tree, tree')
  BY DEF RangesKept
<1>5. CASE ReorderStep
  <2>1. asked' = asked /\ overlap' = overlap
    BY <1>5 DEF ReorderStep, SearchStep, VisitBlock, VisitChildren, SortBlock, EndReorder, history
  <2> QED
    BY <1>1, <1>2, <1>3, <1>5, <2>1, ReorderRanges
<1>6. CASE BddReorder \/ AutoReorder \/ SetVarOrder \/ SwapVar \/ SetAuto \/ Switch \/ Probe \/ UNCHANGED vars
  <2>1. asked' = asked /\ overlap' = overlap /\ tree' = tree
    BY <1>6 DEF BddReorder, AutoReorder, BeginReorder, SetVarOrder, SwapVar, SetAuto, Switch, Probe,
                vars, history
  <2> QED
    BY <1>1, <1>2, <1>3, <1>4, <2>1
<1>7. CASE ClrVarBlocks
  BY <1>2, <1>7 DEF ClrVarBlocks
<1>8. CASE VarBlockAll
  <2>1. Kept(tree, tree') /\ \A v \in Vars : HasRange(tree', v, v)
    BY <1>8, VarBlockAllAdds
  <2>2. overlap' = overlap /\ asked' = asked \cup {<<v, v>> : v \in Vars}
    BY <1>8 DEF VarBlockAll
  <2>3. CASE r \in asked
    <3>1. RangesKept(tree, tree')
      BY <2>1 DEF Kept, RangesKept
    <3> QED
      BY <1>1, <1>2, <1>3, <2>2, <2>3, <3>1
  <2>4. CASE r \notin asked
    <3>1. PICK v \in Vars : r = <<v, v>>
      BY <2>2, <2>4
    <3>2. r[1] = v /\ r[2] = v
      BY <3>1
    <3> QED
      BY <2>1, <3>2
  <2> QED
    BY <2>3, <2>4
<1>9. CASE IntAddVarBlock
  <2>1. Idle /\ level = Identity
    BY <1>9 DEF IntAddVarBlock, MayAdd, MayCall
  <2>2. PICK q : \/ UNCHANGED <<tree, asked, overlap>>
                 \/ q.first \in Vars /\ q.last \in Vars /\ Add(q.first, q.last, q.fixed)
    BY <1>9 DEF IntAddVarBlock
  <2>3. CASE UNCHANGED <<tree, asked, overlap>>
    BY <1>1, <1>2, <1>3, <1>4, <2>3
  <2>4. CASE q.first \in Vars /\ q.last \in Vars /\ Add(q.first, q.last, q.fixed)
    <3>1. PICK a, first, last : /\ first = q.first /\ last = q.last
                                /\ a = AddRange(tree, Identity, first, last, q.fixed, blockid)
      OBVIOUS
    <3>2. /\ tree' = a.tree
          /\ asked' = IF a.ok THEN asked \cup {<<first, last>>} ELSE asked
          /\ overlap' = (overlap \/ \E b \in Ids(tree) : Overlap(tree.block[b], first, last))
      BY <2>1, <2>4, <3>1 DEF Add
    <3>3. ~ overlap /\ \A b \in Ids(tree) : ~ Overlap(tree.block[b], first, last)
      BY <1>2, <3>2
    <3>4. /\ ~ a.ok => a.tree = tree
          /\ a.ok => first <= last
          /\ first <= last /\ (\A b \in Ids(tree) : ~ Overlap(tree.block[b], first, last)) =>
               a.ok /\ Kept(tree, a.tree) /\ HasRange(a.tree, first, last)
      BY <2>1, <2>4, <3>1, AddKeeps, DeclaredBefore
    <3>5. CASE a.ok
      <4>1. Kept(tree, tree') /\ HasRange(tree', first, last)
        BY <3>2, <3>3, <3>4, <3>5
      <4>2. CASE r \in asked
        <5>1. RangesKept(tree, tree')
          BY <4>1 DEF Kept, RangesKept
        <5> QED
          BY <1>1, <1>3, <3>3, <4>2, <5>1
      <4>3. CASE r \notin asked
        <5>1. r = <<first, last>>
          BY <3>2, <3>5, <4>3
        <5>2. r[1] = first /\ r[2] = last
          BY <5>1
        <5> QED
          BY <4>1, <5>2
      <4> QED
        BY <4>2, <4>3
    <3>6. CASE ~ a.ok
      <4>1. tree' = tree /\ r \in asked
        BY <3>2, <3>4, <3>6
      <4> QED
        BY <1>1, <1>3, <1>4, <3>3, <4>1
    <3> QED
      BY <3>5, <3>6
  <2> QED
    BY <2>2, <2>3, <2>4
<1> QED
  BY <1>5, <1>6, <1>7, <1>8, <1>9 DEF Next

(* Every range that was answered with an identifier stays in the tree: no  *)
(* search returns a list that has lost its first blocks, and no new block  *)
(* cuts others off, until a range is asked for that overlaps another.      *)
THEOREM BlocksKeptHolds ==
  ASSUME ~ Gaps
  PROVE  Spec => []BlocksKept
<1>1. Init => BlocksKept
  BY DEF Init, BlocksKept
<1>2. BlockInv /\ BlocksKept /\ [Next]_vars => BlocksKept'
  BY BlocksKeptNext DEF BlockInv
<1> QED
  BY <1>1, <1>2, BlockInvHolds, PTL DEF Spec

-----------------------------------------------------------------------------
(* Searches and sizes.                                                     *)

(* The size of s as long as no count has saturated.                        *)
Measured(s) == SizeIn(s, {})

(* From s, the calls of blockdown at these places make an order of a size. *)
LeadsTo(s, places, n, size) == \E f : InARow(f, s, places, n) /\ Measured(f[n]) = size

(* In a window, the way back that Win3Back takes after the fifth exchange. *)
WindowWay(q) == [k \in 1..q.pos |-> Win3Place(q.left, q.moves + 1 - k)]

(* While a search tries out orders, the way back leads to the best of      *)
(* them, which has no more nodes than the first; between trials the order  *)
(* itself has no more.                                                     *)
NoWorse(q, s, before) ==
  /\ q = NoSearch => Measured(s) <= before
  /\ q.kind \in Windows =>
       IF q.moves = 0 THEN Measured(s) <= before
       ELSE q.best \in Int /\ q.best <= before /\ LeadsTo(s, WindowWay(q), q.pos, q.best)
  /\ q.kind \in Sifting =>
       IF q.this = NoBlock THEN Measured(s) <= before
       ELSE /\ q.best \in Int /\ q.best <= before
            /\ \E h \in 1..Len(s.list) :
                 s.list[h] = q.this /\ LeadsTo(s, WayFrom(h, q.bestpos), Far(q.bestpos), q.best)

NotWorse == \E q, s, before : q = search /\ s = Now /\ before = call.before /\ NoWorse(q, s, before)

SizesInv ==
  /\ call.before \in Int
  /\ Idle => kept = {}
  /\ Idle /\ call.method \notin {"none", "random"} /\ ~ call.saturated => call.after <= call.before
  /\ ~ Idle /\ call.method # "random" /\ kept = {} =>
       (search # NoSearch => search.kind = call.method) /\ NotWorse

(* No call at all leads to where one is.                                   *)
LEMMA LeadsHere ==
  ASSUME NEW s, NEW places
  PROVE  LeadsTo(s, places, 0, Measured(s))
<1>1. PICK f : f = [k \in {0} |-> s]
  OBVIOUS
<1>2. f[0] = s
  BY <1>1
<1>3. InARow(f, s, places, 0)
  BY <1>2 DEF InARow
<1> QED
  BY <1>2, <1>3 DEF LeadsTo

(* One call more, which takes back what has just been done.                *)
LEMMA LeadsBack ==
  ASSUME NEW n \in Nat, NEW s, NEW places, NEW size, LeadsTo(s, places, n, size),
         NEW t, NEW back, blockdown(t, back[1]) = s, \A k \in 1..n : back[k + 1] = places[k]
  PROVE  LeadsTo(t, back, n + 1, size)
<1>1. PICK f : InARow(f, s, places, n) /\ Measured(f[n]) = size
  BY DEF LeadsTo
<1>2. f[0] = s /\ \A k \in 1..n : f[k] = blockdown(f[k - 1], places[k])
  BY <1>1 DEF InARow
<1>3. PICK g : g = [k \in 0..(n + 1) |-> IF k = 0 THEN t ELSE f[k - 1]]
  OBVIOUS
<1>4. g[0] = t /\ g[1] = s /\ g[n + 1] = f[n]
  BY <1>2, <1>3
<1>5. ASSUME NEW k \in 1..(n + 1) PROVE g[k] = blockdown(g[k - 1], back[k])
  <2>1. CASE k = 1
    BY <1>4, <2>1
  <2>2. CASE k # 1
    <3>1. PICK j \in 1..n : k = j + 1
      <4>1. k - 1 \in 1..n /\ k = (k - 1) + 1
        BY <2>2
      <4> QED
        BY <4>1
    <3>2. g[k] = f[j] /\ g[k - 1] = f[j - 1]
      BY <1>3, <3>1
    <3>3. f[j] = blockdown(f[j - 1], places[j]) /\ back[k] = places[j]
      BY <1>2, <3>1
    <3> QED
      BY <3>2, <3>3
  <2> QED
    BY <2>1, <2>2
<1>6. InARow(g, t, back, n + 1)
  BY <1>4, <1>5 DEF InARow
<1> QED
  BY <1>1, <1>4, <1>6 DEF LeadsTo

(* The first call made, the others are left.                               *)
LEMMA LeadsOn ==
  ASSUME NEW n \in Nat, NEW s, NEW places, NEW size, LeadsTo(s, places, n + 1, size),
         NEW rest, \A k \in 1..n : rest[k] = places[k + 1]
  PROVE  LeadsTo(blockdown(s, places[1]), rest, n, size)
<1>1. PICK f : InARow(f, s, places, n + 1) /\ Measured(f[n + 1]) = size
  BY DEF LeadsTo
<1>2. f[0] = s /\ \A k \in 1..(n + 1) : f[k] = blockdown(f[k - 1], places[k])
  BY <1>1 DEF InARow
<1>3. PICK g : g = [k \in 0..n |-> f[k + 1]]
  OBVIOUS
<1>4. g[0] = f[1] /\ g[n] = f[n + 1]
  BY <1>3
<1>5. f[1] = blockdown(s, places[1])
  <2>1. 1 \in 1..(n + 1) /\ 1 - 1 = 0
    OBVIOUS
  <2> QED
    BY <1>2, <2>1
<1>6. ASSUME NEW k \in 1..n PROVE g[k] = blockdown(g[k - 1], rest[k])
  <2>1. k + 1 \in 1..(n + 1) /\ (k + 1) - 1 = k
    OBVIOUS
  <2>2. g[k] = f[k + 1] /\ g[k - 1] = f[k]
    BY <1>3
  <2>3. f[k + 1] = blockdown(f[k], places[k + 1])
    BY <1>2, <2>1
  <2> QED
    BY <2>2, <2>3
<1>7. InARow(g, blockdown(s, places[1]), rest, n)
  BY <1>4, <1>5, <1>6 DEF InARow
<1> QED
  BY <1>1, <1>4, <1>7 DEF LeadsTo

(* Where all the calls lead is where BlocksDown goes.                      *)
LEMMA LeadsDown ==
  ASSUME NEW s, NEW places \in Seq(Int), NEW size, LeadsTo(s, places, Len(places), size)
  PROVE  Measured(BlocksDown(s, places)) = size
<1>1. PICK n : n = Len(places)
  OBVIOUS
<1>2. PICK f : InARow(f, s, places, n) /\ Measured(f[n]) = size
  BY <1>1 DEF LeadsTo
<1>3. PICK g : InARow(g, s, places, n) /\ BlocksDown(s, places) = g[n]
  BY <1>1, BlocksDownSteps
<1>4. /\ f[0] = s /\ \A k \in 1..n : f[k] = blockdown(f[k - 1], places[k])
      /\ g[0] = s /\ \A k \in 1..n : g[k] = blockdown(g[k - 1], places[k])
  BY <1>2, <1>3 DEF InARow
<1>5. n \in Nat
  BY <1>1, LenProperties
<1> DEFINE Bad == {k \in 0..n : f[k] # g[k]}
<1>6. Bad = {}
  <2> SUFFICES ASSUME Bad # {} PROVE FALSE
    OBVIOUS
  <2>1. PICK k \in Bad : \A j \in Bad : k <= j
    <3>1. Bad \in SUBSET Nat
      BY <1>5
    <3> HIDE DEF Bad
    <3> QED
      BY <3>1, LeastExists
  <2>2. k # 0 /\ k \in 0..n
    BY <1>4, <2>1
  <2>3. k \in 1..n /\ k - 1 \in 0..n /\ ~ (k <= k - 1)
    BY <1>5, <2>2
  <2>4. f[k - 1] = g[k - 1]
    BY <2>1, <2>3
  <2> QED
    BY <1>4, <2>1, <2>3, <2>4
<1>7. f[n] = g[n]
  BY <1>5, <1>6
<1> QED
  BY <1>2, <1>3, <1>7

(* What has been kept is kept to the end of the reordering.                *)
LEMMA KeptGrows == ASSUME SearchStep, kept' = {} PROVE kept = {}
<1>1. ASSUME NEW s, Move(s) PROVE kept = {}
  BY <1>1 DEF Move, KeptAfter
<1>2. ASSUME Stay PROVE kept = {}
  BY <1>2 DEF Stay
<1>3. ASSUME NEW b, Return(b) PROVE kept = {}
  BY <1>3 DEF Return
<1>4. CASE Win2Step \/ Win3Pair
  BY <1>1, <1>4 DEF Win2Step, Win2, Win3Pair
<1>5. CASE Win2Again \/ Win3Again \/ SiftStart \/ SiftTurn \/ SiftAgain
  BY <1>2, <1>5 DEF Win2Again, Win3Again, SiftStart, SiftTurn, SiftAgain
<1>6. CASE Win2Ends \/ Win3Ends \/ SiftEnds \/ RandomEnds
  BY <1>3, <1>6 DEF Win2Ends, Win3Ends, SiftEnds, RandomEnds
<1>7. CASE Win3Move \/ Win3Back \/ SiftMove \/ SiftBack
  BY <1>1, <1>7 DEF Win3Move, Win3Back, SiftMove, SiftBack
<1>8. CASE RandomMove
  BY <1>1, <1>2, <1>8 DEF RandomMove
<1> QED
  BY <1>4, <1>5, <1>6, <1>7, <1>8 DEF SearchStep

(* What a path is depends on the blocks and on the handler only.           *)
LEMMA LeadsStill ==
  ASSUME tree'.block = tree.block, nodenum' = nodenum,
         NEW CONSTANT s, NEW CONSTANT places, NEW CONSTANT n, NEW CONSTANT size,
         LeadsTo(s, places, n, size)
  PROVE  LeadsTo(s, places, n, size)'
<1>1. PICK f : InARow(f, s, places, n) /\ Measured(f[n]) = size
  BY DEF LeadsTo
<1>2. ASSUME NEW CONSTANT a, NEW CONSTANT i PROVE blockdown(a, i)' = blockdown(a, i)
  BY DEF blockdown
<1>3. f[0] = s /\ \A k \in 1..n : f[k] = blockdown(f[k - 1], places[k])
  BY <1>1 DEF InARow
<1>4. \A k \in 1..n : f[k] = blockdown(f[k - 1], places[k])'
  BY <1>2, <1>3
<1>5. InARow(f, s, places, n)'
  BY <1>3, <1>4 DEF InARow
<1>6. Measured(f[n])' = size
  BY <1>1 DEF Measured, SizeIn
<1> QED
  BY <1>5, <1>6 DEF LeadsTo

(* So it is after a step that leaves the blocks alone.                     *)
LEMMA NotWorseAfter ==
  ASSUME tree'.block = tree.block, nodenum' = nodenum, call' = call,
         NEW CONSTANT q, search' = q, NEW CONSTANT s, Now' = s,
         NEW CONSTANT before, before = call.before, NoWorse(q, s, before)
  PROVE  NotWorse'
<1>1. Measured(s)' = Measured(s)
  BY DEF Measured, SizeIn
<1>2. LeadsTo(s, WindowWay(q), q.pos, q.best) => LeadsTo(s, WindowWay(q), q.pos, q.best)'
  BY LeadsStill
<1>3. ASSUME NEW CONSTANT h
      PROVE  LeadsTo(s, WayFrom(h, q.bestpos), Far(q.bestpos), q.best)
               => LeadsTo(s, WayFrom(h, q.bestpos), Far(q.bestpos), q.best)'
  BY LeadsStill
<1>4. NoWorse(q, s, before)'
  BY <1>1, <1>2, <1>3 DEF NoWorse
<1>5. before = call'.before
  OBVIOUS
<1> QED
  BY <1>4, <1>5 DEF NotWorse

(* Where a search is that moves.                                           *)
LEMMA SearchMoved ==
  ASSUME BlocksInv, search # NoSearch, search'.on = search.on,
         NEW CONSTANT s, Arranged(s, tree, search.on, blockid, Unsorted(todo)), Move(s)
  PROVE  Now' = s /\ tree'.block = tree.block
<1>1. PICK t, p : t = tree /\ p = search.on
  OBVIOUS
<1>2. Blocks(t, blockid, N) /\ p \in Ids(t) \cup {Top}
  BY <1>1 DEF BlocksInv, TreeInv, TreeFits, Shape, SearchInv, SearchFits
<1>3. PICK u : u = WithKids(t, p, s.list)
  OBVIOUS
<1>4. tree' = u /\ level' = s.level
  BY <1>1, <1>3 DEF Move, WithKids
<1>5. u.block = t.block /\ u.kids[p] = s.list
  BY <1>2, <1>3, WithKidsFacts
<1>6. s = [level |-> s.level, list |-> s.list]
  BY DEF Arranged
<1>7. Now' = [level |-> level', list |-> tree'.kids[search'.on]]
  BY DEF Now, List
<1> QED
  BY <1>1, <1>4, <1>5, <1>6, <1>7

(* A number of nodes.                                                      *)
LEMMA SizeIsInt ==
  ASSUME SettingsInv, NEW s, NEW t, NEW p, NEW n, NEW D, Arranged(s, t, p, n, D)
  PROVE  Measured(s) \in Int
<1>1. nodenum \in Handlers /\ s.level \in Levelings
  BY DEF SettingsInv, Arranged, Layout
<1>2. {} \in SUBSET Immortals[nodenum]
  OBVIOUS
<1>3. SizeOf[nodenum][{}][s.level] \in Nat
  BY <1>1, <1>2, BlockOrderSize
<1> QED
  BY <1>3 DEF Measured, SizeIn

(* What a step of a search begins with.                                    *)
LEMMA SearchAt ==
  ASSUME BlocksInv, SettingsInv, search # NoSearch, NotWorse, call.before \in Int, kept = {},
         NEW q, q = search, NEW L, L = List, NEW now, now = Now, NEW before, before = call.before
  PROVE  /\ Searching(L, Unsorted(todo)) /\ Arranged(now, tree, search.on, blockid, Unsorted(todo))
         /\ now.list = L /\ now = [level |-> level, list |-> L]
         /\ Measured(now) \in Int /\ Measured(now) = Size /\ NoWorse(q, now, before)
         /\ Len(L) \in Nat /\ Len(L) >= 1 /\ DOMAIN L = 1..Len(L)
<1>1. Searching(L, Unsorted(todo))
  BY SearchRuns
<1>2. Arranged(now, tree, search.on, blockid, Unsorted(todo))
  BY <1>1 DEF Searching
<1>3. now.list = L /\ now = [level |-> level, list |-> L] /\ now.level = level
  BY DEF Now
<1>4. Measured(now) = Size
  BY <1>3 DEF Measured, SizeIn, Size
<1>5. Measured(now) \in Int
  BY <1>2, SizeIsInt
<1>6. NoWorse(q, now, before)
  BY DEF NotWorse
<1> QED
  BY <1>1, <1>2, <1>3, <1>4, <1>5, <1>6 DEF Searching

(* After a step that ends with no trial under way.                         *)
LEMMA NoTrial ==
  ASSUME NEW q, NEW s, NEW before, Measured(s) <= before,
         \/ q = NoSearch
         \/ q.kind \in Windows /\ q.moves = 0
         \/ q.kind \in Sifting /\ q.this = NoBlock
  PROVE  NoWorse(q, s, before)
<1>1. NoSearch.kind = "none"
  BY DEF NoSearch
<1>2. \A k : k \in Windows => k \notin Sifting /\ k # "none"
  BY DEF Windows, Sifting
<1>3. \A k : k \in Sifting => k # "none"
  BY DEF Windows, Sifting
<1>4. CASE q = NoSearch
  BY <1>1, <1>2, <1>3, <1>4 DEF NoWorse
<1>5. CASE q.kind \in Windows /\ q.moves = 0
  BY <1>2, <1>5 DEF NoWorse
<1>6. CASE q.kind \in Sifting /\ q.this = NoBlock
  BY <1>2, <1>6 DEF NoWorse
<1> QED
  BY <1>4, <1>5, <1>6

(* The window of two keeps an exchange only if it makes no more nodes.     *)
LEMMA PairNotWorse ==
  ASSUME BlocksInv, SettingsInv, NotWorse, call.before \in Int, UNCHANGED <<nodenum, call>>,
         kept = {}, kept' = {}, Win2Step \/ Win3Pair
  PROVE  NotWorse' /\ search'.kind = search.kind
<1>1. search.kind \in Windows /\ HasNext /\ (search.kind \in {"win2", "win2ite"} \/ search.moves = 0)
  BY DEF Win2Step, Win3Pair, Windows
<1>2. search # NoSearch /\ WindowFits(search, List)
  BY <1>1, WhichSearch
<1>3. PICK q, L, D, now, before, h : /\ q = search /\ L = List /\ D = Unsorted(todo) /\ now = Now
                                     /\ before = call.before /\ h = Here
  OBVIOUS
<1>4. /\ q = [kind |-> q.kind, on |-> q.on, t |-> q.t, this |-> q.this, first |-> q.first,
              lastsize |-> q.lastsize, left |-> q.left, moves |-> q.moves, pos |-> q.pos, best |-> q.best]
      /\ q.this \in ToSet(L) /\ q.moves = 0 /\ q.kind \in Windows
  BY <1>1, <1>2, <1>3 DEF WindowFits
<1>5. /\ Searching(L, D) /\ Arranged(now, tree, search.on, blockid, D)
      /\ Measured(now) \in Int /\ Measured(now) = Size /\ NoWorse(q, now, before)
      /\ Len(L) \in Nat /\ Len(L) >= 1 /\ DOMAIN L = 1..Len(L)
  BY <1>2, <1>3, SearchAt
<1>6. Measured(now) <= before /\ before \in Int
  BY <1>3, <1>4, <1>5 DEF NoWorse
<1>7. PICK i \in 1..Len(L) : L[i] = q.this
  BY <1>4, <1>5, PlaceInList
<1>8. h = i
  BY <1>3, <1>5, <1>7, HereIs
<1>9. h \in Int /\ 1 <= h /\ h + 1 <= Len(L)
  BY <1>1, <1>3, <1>5, <1>7, <1>8 DEF HasNext
<1>10. PICK down, back : down = blockdown(now, h) /\ back = blockdown(down, h)
  OBVIOUS
<1>11. Arranged(down, tree, search.on, blockid, D) /\ back = now
  BY <1>3, <1>5, <1>9, <1>10, OneDown
<1>12. Measured(down) \in Int
  BY <1>11, SizeIsInt
<1>13. \E x, v : \/ /\ Size < Measured(down) /\ Move(back)
                    /\ search' = [q EXCEPT !.this = x]
                 \/ /\ ~ (Size < Measured(down)) /\ Move(down)
                    /\ search' = [q EXCEPT !.first = v]
  <2>1. CASE Win2Step
    <3>1. PICK k \in KeptAfter(kept) :
            IF Size < SizeIn(down, k)
            THEN Move(back) /\ k \subseteq kept' /\ search' = [q EXCEPT !.this = back.list[h + 1]]
            ELSE Move(down) /\ k = kept' /\ search' = [q EXCEPT !.first = FirstAfter(down)]
      BY <1>3, <1>10, <2>1 DEF Win2Step, Win2
    <3>2. k = {}
      BY <3>1
    <3> QED
      BY <3>1, <3>2 DEF Measured
  <2>2. CASE Win3Pair
    <3>1. PICK k \in KeptAfter(kept) :
            IF Size < SizeIn(down, k)
            THEN Move(back) /\ k \subseteq kept' /\ search' = [q EXCEPT !.this = back.list[h + 1]]
            ELSE Move(down) /\ k = kept' /\ search' = [q EXCEPT !.first = IF h = 1 THEN down.list[1] ELSE @]
      BY <1>3, <1>10, <2>2 DEF Win3Pair
    <3>2. k = {}
      BY <3>1
    <3> QED
      BY <3>1, <3>2 DEF Measured
  <2> QED
    BY <2>1, <2>2
<1>14. PICK s, r : /\ (s = down \/ s = now) /\ Move(s) /\ Measured(s) <= Measured(now) /\ r = search'
                   /\ \E x : r = [q EXCEPT !.this = x] \/ r = [q EXCEPT !.first = x]
  BY <1>5, <1>11, <1>12, <1>13
<1>15. r.kind = q.kind /\ r.on = q.on /\ r.moves = 0
  BY <1>4, <1>14
<1>16. Arranged(s, tree, search.on, blockid, D)
  BY <1>5, <1>11, <1>14
<1>17. Now' = s /\ tree'.block = tree.block
  BY <1>2, <1>3, <1>14, <1>15, <1>16, SearchMoved
<1>18. Measured(s) <= before
  <2>1. Measured(s) \in Int
    BY <1>16, SizeIsInt
  <2> QED
    BY <1>5, <1>6, <1>14, <2>1
<1>19. NoWorse(r, s, before)
  BY <1>4, <1>15, <1>18, NoTrial
<1> QED
  BY <1>3, <1>14, <1>15, <1>17, <1>19, NotWorseAfter

(* One of the five exchanges in a window of three.                         *)
LEMMA Win3MoveNotWorse ==
  ASSUME BlocksInv, SettingsInv, NotWorse, call.before \in Int, UNCHANGED <<nodenum, call>>,
         kept = {}, kept' = {}, Win3Move
  PROVE  NotWorse' /\ search'.kind = search.kind
<1>1. search.kind \in Windows /\ search.kind \in {"win3", "win3ite"}
  BY DEF Win3Move, Windows
<1>2. search # NoSearch /\ WindowFits(search, List)
  BY <1>1, WhichSearch
<1>3. PICK q, L, D, now, before : /\ q = search /\ L = List /\ D = Unsorted(todo) /\ now = Now
                                  /\ before = call.before
  OBVIOUS
<1>4. /\ q = [kind |-> q.kind, on |-> q.on, t |-> q.t, this |-> q.this, first |-> q.first,
              lastsize |-> q.lastsize, left |-> q.left, moves |-> q.moves, pos |-> q.pos, best |-> q.best]
      /\ q.this \in ToSet(L) /\ q.moves \in 0..5 /\ q.pos \in 0..q.moves /\ q.kind \in Windows
  BY <1>1, <1>2, <1>3 DEF WindowFits
<1>5. /\ Searching(L, D) /\ Arranged(now, tree, search.on, blockid, D)
      /\ Measured(now) \in Int /\ Measured(now) = Size /\ NoWorse(q, now, before)
      /\ Len(L) \in Nat /\ Len(L) >= 1 /\ DOMAIN L = 1..Len(L)
  BY <1>2, <1>3, SearchAt
<1>6. PICK left, i : /\ left = (IF q.moves = 0 THEN Here ELSE q.left)
                     /\ i = Win3Place(left, q.moves + 1)
  OBVIOUS
<1>7. left \in Int /\ 1 <= left /\ left + 2 <= Len(L)
  <2>1. CASE q.moves = 0
    <3>1. PICK h \in 1..Len(L) : L[h] = q.this
      BY <1>4, <1>5, PlaceInList
    <3>2. Here = h
      BY <1>3, <1>5, <3>1, HereIs
    <3>3. h + 1 < Len(L)
      BY <1>3, <2>1, <3>2 DEF Win3Move, HasTwo
    <3> QED
      BY <1>5, <1>6, <2>1, <3>1, <3>2, <3>3
  <2>2. CASE q.moves # 0
    <3>1. q.left \in 1..(Len(L) - 2)
      BY <1>2, <1>3, <2>2 DEF WindowFits
    <3> QED
      BY <1>5, <1>6, <2>2, <3>1
  <2> QED
    BY <2>1, <2>2
<1>8. i \in Int /\ 1 <= i /\ i + 1 <= Len(L)
  BY <1>5, <1>6, <1>7 DEF Win3Place
<1>9. PICK s, best, better : /\ s = blockdown(now, i) /\ best = (IF q.moves = 0 THEN Size ELSE q.best)
                             /\ better = Better(best, Measured(s))
  OBVIOUS
<1>10. Arranged(s, tree, search.on, blockid, D) /\ blockdown(s, i) = now
  BY <1>3, <1>5, <1>8, <1>9, OneDown
<1>11. Measured(s) \in Int
  BY <1>10, SizeIsInt
<1>12. PICK r : r = search'
  OBVIOUS
<1>13. /\ Move(s) /\ q.moves < 5
       /\ r = [q EXCEPT !.left  = left,
                        !.moves = @ + 1,
                        !.pos   = SinceBest(better, @ + 1),
                        !.best  = IF better THEN Measured(s) ELSE best]
  BY <1>3, <1>6, <1>9, <1>12 DEF Win3Move, Measured
<1>14. /\ r.kind = q.kind /\ r.on = q.on /\ r.left = left /\ r.moves = q.moves + 1
       /\ r.pos = SinceBest(better, q.pos + 1) /\ r.best = IF better THEN Measured(s) ELSE best
  BY <1>4, <1>13
<1>15. Now' = s /\ tree'.block = tree.block
  BY <1>2, <1>3, <1>10, <1>12, <1>13, <1>14, SearchMoved
<1>16. PICK way : way = [k \in 1..q.pos |-> Win3Place(left, q.moves + 1 - k)]
  OBVIOUS
<1>17. best \in Int /\ best <= before /\ LeadsTo(now, way, q.pos, best)
  <2>1. CASE q.moves = 0
    <3>1. Measured(now) <= before /\ best = Measured(now) /\ q.pos = 0
      BY <1>4, <1>5, <1>9, <2>1 DEF NoWorse
    <3> QED
      BY <1>5, <3>1, LeadsHere
  <2>2. CASE q.moves # 0
    <3>1. q.best \in Int /\ q.best <= before /\ LeadsTo(now, WindowWay(q), q.pos, q.best)
      BY <1>4, <1>5, <2>2 DEF NoWorse
    <3>2. WindowWay(q) = way /\ best = q.best
      BY <1>6, <1>9, <1>16, <2>2 DEF WindowWay
    <3> QED
      BY <3>1, <3>2
  <2> QED
    BY <2>1, <2>2
<1>18. r.best \in Int /\ r.best <= before /\ LeadsTo(s, WindowWay(r), r.pos, r.best)
  <2>1. CASE better
    <3>1. Measured(s) < best
      BY <1>9, <2>1 DEF Better
    <3>2. r.best = Measured(s) /\ r.pos = 0
      BY <1>14, <2>1 DEF SinceBest
    <3>3. LeadsTo(s, WindowWay(r), 0, Measured(s))
      BY LeadsHere
    <3>4. before \in Int
      BY <1>3
    <3> QED
      BY <1>11, <1>17, <3>1, <3>2, <3>3, <3>4
  <2>2. CASE ~ better
    <3>1. r.best = best /\ r.pos = q.pos + 1 /\ q.pos \in Nat /\ q.moves \in Int
      BY <1>4, <1>14, <2>2 DEF SinceBest
    <3>2. PICK ways : ways = WindowWay(r)
      OBVIOUS
    <3>3. ways = [k \in 1..(q.pos + 1) |-> Win3Place(left, q.moves + 1 + 1 - k)]
      BY <1>14, <3>1, <3>2 DEF WindowWay
    <3>4. ways[1] = i
      <4>1. 1 \in 1..(q.pos + 1) /\ q.moves + 1 + 1 - 1 = q.moves + 1
        BY <3>1
      <4> QED
        BY <1>6, <3>3, <4>1
    <3>5. \A k \in 1..q.pos : ways[k + 1] = way[k]
      <4> SUFFICES ASSUME NEW k \in 1..q.pos PROVE ways[k + 1] = way[k]
        OBVIOUS
      <4>1. k + 1 \in 1..(q.pos + 1) /\ q.moves + 1 + 1 - (k + 1) = q.moves + 1 - k
        BY <3>1
      <4> QED
        BY <1>16, <3>3, <4>1
    <3>6. LeadsTo(s, ways, q.pos + 1, best)
      BY <1>10, <1>17, <3>1, <3>4, <3>5, LeadsBack
    <3> QED
      BY <1>17, <3>1, <3>2, <3>6
  <2> QED
    BY <2>1, <2>2
<1>19. NoWorse(r, s, before)
  <2>1. r # NoSearch /\ r.kind \notin Sifting /\ r.kind \in Windows
    BY <1>4, <1>14 DEF NoSearch, Windows, Sifting
  <2>2. r.moves # 0
    BY <1>4, <1>14
  <2> QED
    BY <1>18, <2>1, <2>2 DEF NoWorse
<1> QED
  BY <1>3, <1>12, <1>14, <1>15, <1>19, NotWorseAfter

(* Back at the best arrangement of a window of three.                      *)
LEMMA Win3BackNotWorse ==
  ASSUME BlocksInv, SettingsInv, NotWorse, call.before \in Int,
         UNCHANGED <<nodenum, call, blockid, todo>>, kept = {}, Win3Back
  PROVE  NotWorse' /\ search'.kind = search.kind
<1>1. search.kind \in Windows /\ search.kind \in {"win3", "win3ite"}
  BY DEF Win3Back, Windows
<1>2. search # NoSearch /\ WindowFits(search, List)
  BY <1>1, WhichSearch
<1>3. PICK q, L, D, now, before : /\ q = search /\ L = List /\ D = Unsorted(todo) /\ now = Now
                                  /\ before = call.before
  OBVIOUS
<1>4. /\ q = [kind |-> q.kind, on |-> q.on, t |-> q.t, this |-> q.this, first |-> q.first,
              lastsize |-> q.lastsize, left |-> q.left, moves |-> q.moves, pos |-> q.pos, best |-> q.best]
      /\ q.moves = 5 /\ q.pos \in 0..5 /\ q.kind \in Windows /\ q.left \in 1..(Len(L) - 2)
  BY <1>1, <1>2, <1>3 DEF WindowFits, Win3Back
<1>5. /\ Searching(L, D) /\ Arranged(now, tree, search.on, blockid, D) /\ NoWorse(q, now, before)
      /\ Len(L) \in Nat
  BY <1>2, <1>3, SearchAt
<1>6. q.best \in Int /\ q.best <= before /\ LeadsTo(now, WindowWay(q), q.pos, q.best)
  BY <1>4, <1>5 DEF NoWorse
<1>7. PICK way, s : way = [k \in 1..q.pos |-> Win3Place(q.left, 6 - k)] /\ s = BlocksDown(now, way)
  OBVIOUS
<1>8. WindowWay(q) = way
  BY <1>4, <1>7 DEF WindowWay
<1>9. PlacesFit(way, 1, Len(L)) /\ Len(way) = q.pos
  <2>1. q.pos \in Nat /\ q.left \in Int /\ 1 <= q.left /\ q.left + 2 <= Len(L)
    BY <1>4, <1>5
  <2>2. \A k \in 1..q.pos : way[k] = q.left \/ way[k] = q.left + 1
    BY <1>7 DEF Win3Place
  <2>3. \A k \in 1..q.pos : way[k] \in Int /\ 1 <= way[k] /\ way[k] + 1 <= Len(L)
    BY <1>5, <2>1, <2>2
  <2>4. DOMAIN way = 1..q.pos /\ way = [k \in 1..q.pos |-> way[k]]
    BY <1>7
  <2> QED
    BY <2>1, <2>3, <2>4, PlacesFromFunction
<1>10. Arranged(s, tree, search.on, blockid, D)
  BY <1>3, <1>5, <1>7, <1>9, SomeDown
<1>11. Measured(s) = q.best
  <2>1. way \in Seq(Int)
    BY <1>9 DEF PlacesFit
  <2> QED
    BY <1>6, <1>7, <1>8, <1>9, <2>1, LeadsDown
<1>12. PICK r : r = search'
  OBVIOUS
<1>13. /\ Move(s)
       /\ r = [q EXCEPT !.this  = IF q.pos = 0 THEN @ ELSE s.list[q.left + 1],
                        !.first = IF q.pos > 0 /\ q.left = 1 THEN s.list[1] ELSE @,
                        !.left = 0, !.moves = 0, !.pos = 0, !.best = 0]
  BY <1>3, <1>7, <1>12 DEF Win3Back
<1>14. r.kind = q.kind /\ r.on = q.on /\ r.moves = 0
  BY <1>4, <1>13
<1>15. Now' = s /\ tree'.block = tree.block
  BY <1>2, <1>3, <1>10, <1>12, <1>14, <1>13, SearchMoved
<1>16. NoWorse(r, s, before)
  BY <1>4, <1>6, <1>11, <1>14, NoTrial
<1> QED
  BY <1>3, <1>12, <1>14, <1>15, <1>16, NotWorseAfter

(* A step that leaves the order alone, with no trial under way before or   *)
(* after it.                                                               *)
LEMMA StayNotWorse ==
  ASSUME NotWorse, UNCHANGED <<nodenum, call, level>>,
         \/ search = NoSearch
         \/ search.kind \in Windows /\ search.moves = 0
         \/ search.kind \in Sifting /\ search.this = NoBlock,
         \/ search' = NoSearch
         \/ search'.kind \in Windows /\ search'.moves = 0
         \/ search'.kind \in Sifting /\ search'.this = NoBlock
  PROVE  NotWorse'
<1>1. PICK q, now, before : q = search /\ now = Now /\ before = call.before /\ NoWorse(q, now, before)
  BY DEF NotWorse
<1>2. \A k \in Sifting : k \notin Windows
  BY DEF Windows, Sifting
<1>3. Measured(now) <= before
  BY <1>1, <1>2 DEF NoWorse
<1>4. PICK r, s : r = search' /\ s = Now'
  OBVIOUS
<1>5. Measured(s)' <= before
  <2>1. s.level = now.level
    BY <1>1, <1>4 DEF Now
  <2> QED
    BY <1>3, <2>1 DEF Measured, SizeIn
<1>6. NoWorse(r, s, before)'
  <2>1. NoSearch.kind = "none" /\ "none" \notin Windows \cup Sifting
    BY DEF NoSearch, Windows, Sifting
  <2>2. CASE r = NoSearch
    BY <1>5, <2>1, <2>2 DEF NoWorse
  <2>3. CASE r.kind \in Windows /\ r.moves = 0
    BY <1>2, <1>5, <2>3 DEF NoWorse
  <2>4. CASE r.kind \in Sifting /\ r.this = NoBlock
    BY <1>2, <1>5, <2>4 DEF NoWorse
  <2> QED
    BY <1>4, <2>2, <2>3, <2>4
<1>7. before = call'.before
  BY <1>1
<1> QED
  BY <1>4, <1>6, <1>7 DEF NotWorse

(* A scan that starts again, and one that ends.                            *)
LEMMA ScanNotWorse ==
  ASSUME BlocksInv, NotWorse, UNCHANGED <<nodenum, call>>,
         Win2Again \/ Win2Ends \/ Win3Again \/ Win3Ends
  PROVE  NotWorse' /\ (search' # NoSearch => search'.kind = search.kind)
<1>1. search.kind \in Windows /\ (search.kind \in {"win2", "win2ite"} \/ search.moves = 0)
  BY DEF Win2Again, Win2Ends, Win3Again, Win3Ends, Windows
<1>2. search # NoSearch /\ WindowFits(search, List)
  BY <1>1, WhichSearch
<1>3. PICK q : q = search
  OBVIOUS
<1>4. /\ q = [kind |-> q.kind, on |-> q.on, t |-> q.t, this |-> q.this, first |-> q.first,
              lastsize |-> q.lastsize, left |-> q.left, moves |-> q.moves, pos |-> q.pos, best |-> q.best]
      /\ q.moves = 0 /\ q.kind \in Windows /\ q.first = List[1]
  BY <1>1, <1>2, <1>3 DEF WindowFits
<1>5. CASE Win2Ends \/ Win3Ends
  <2>1. Return(q.first)
    BY <1>3, <1>5 DEF Win2Ends, Win3Ends
  <2>2. tree' = tree /\ level' = level /\ search' = NoSearch
    BY <1>2, <1>4, <2>1, ReturnSame
  <2> QED
    BY <1>3, <1>4, <2>2, StayNotWorse
<1>6. CASE Win2Again \/ Win3Again
  <2>1. PICK r, x, size : r = search' /\ r = [q EXCEPT !.this = x, !.lastsize = size] /\ Stay
    BY <1>3, <1>6 DEF Win2Again, Win3Again
  <2>2. r.kind = q.kind /\ r.moves = 0
    BY <1>4, <2>1
  <2>3. tree' = tree /\ level' = level
    BY <2>1 DEF Stay
  <2> QED
    BY <1>3, <1>4, <2>1, <2>2, <2>3, StayNotWorse
<1> QED
  BY <1>5, <1>6

(* The steps of the way back when the block moves: one more, which takes   *)
(* the move back, or one less.                                             *)
LEMMA WayChanges ==
  ASSUME NEW now, NEW h \in Int, NEW d \in Int, NEW best, LeadsTo(now, WayFrom(h, d), Far(d), best),
         NEW up, NEW i, i = (IF up THEN h - 1 ELSE h), NEW s, s = blockdown(now, i),
         blockdown(s, i) = now, NEW g, g = (IF up THEN h - 1 ELSE h + 1),
         NEW e, e = d + (IF up THEN -1 ELSE 1)
  PROVE  LeadsTo(s, WayFrom(g, e), Far(e), best)
<1>1. PICK way, n, next, m : /\ way = WayFrom(h, d) /\ n = Far(d)
                             /\ next = WayFrom(g, e) /\ m = Far(e)
  OBVIOUS
<1>2. /\ n \in Nat /\ n = IF d < 0 THEN -d ELSE d
      /\ \A k \in 1..n : way[k] = IF d < 0 THEN h + k - 1 ELSE h - k
  BY <1>1 DEF WayFrom, Far
<1>3. /\ g \in Int /\ e \in Int
      /\ m \in Nat /\ m = IF e < 0 THEN -e ELSE e
      /\ \A k \in 1..m : next[k] = IF e < 0 THEN g + k - 1 ELSE g - k
  <2>1. g \in Int /\ e \in Int
    OBVIOUS
  <2> QED
    BY <1>1, <2>1 DEF WayFrom, Far
<1>4. LeadsTo(now, way, n, best)
  BY <1>1
<1>5. CASE IF up THEN d <= 0 ELSE d >= 0
  <2>1. m = n + 1
    BY <1>2, <1>3, <1>5
  <2>2. next[1] = i
    <3>1. 1 \in 1..m
      BY <1>2, <2>1
    <3>2. next[1] = IF e < 0 THEN g + 1 - 1 ELSE g - 1
      BY <1>3, <3>1
    <3> QED
      BY <1>5, <3>2
  <2>3. \A k \in 1..n : next[k + 1] = way[k]
    <3> SUFFICES ASSUME NEW k \in 1..n PROVE next[k + 1] = way[k]
      OBVIOUS
    <3>1. k + 1 \in 1..m
      BY <1>2, <2>1
    <3>2. next[k + 1] = IF e < 0 THEN g + (k + 1) - 1 ELSE g - (k + 1)
      BY <1>3, <3>1
    <3>3. way[k] = IF d < 0 THEN h + k - 1 ELSE h - k
      BY <1>2
    <3>4. up => d < 0
      BY <1>2, <1>5
    <3> QED
      BY <1>5, <3>2, <3>3, <3>4
  <2>4. blockdown(s, next[1]) = now
    BY <2>2
  <2>5. LeadsTo(s, next, n + 1, best)
    BY <1>2, <1>4, <2>3, <2>4, LeadsBack
  <2> QED
    BY <1>1, <2>1, <2>5
<1>6. CASE ~ (IF up THEN d <= 0 ELSE d >= 0)
  <2>1. m \in Nat /\ n = m + 1
    BY <1>2, <1>3, <1>6
  <2>2. way[1] = i
    <3>1. 1 \in 1..n
      BY <2>1
    <3>2. way[1] = IF d < 0 THEN h + 1 - 1 ELSE h - 1
      BY <1>2, <3>1
    <3> QED
      BY <1>6, <3>2
  <2>3. \A k \in 1..m : next[k] = way[k + 1]
    <3> SUFFICES ASSUME NEW k \in 1..m PROVE next[k] = way[k + 1]
      OBVIOUS
    <3>1. k + 1 \in 1..n
      BY <2>1
    <3>2. way[k + 1] = IF d < 0 THEN h + (k + 1) - 1 ELSE h - (k + 1)
      BY <1>2, <3>1
    <3>3. next[k] = IF e < 0 THEN g + k - 1 ELSE g - k
      BY <1>3
    <3>4. ~ up => e < 0
      BY <1>3, <1>6
    <3> QED
      BY <1>6, <3>2, <3>3, <3>4
  <2>4. LeadsTo(now, way, m + 1, best)
    BY <1>4, <2>1
  <2>5. LeadsTo(blockdown(now, way[1]), next, m, best)
    BY <2>1, <2>3, <2>4, LeadsOn
  <2> QED
    BY <1>1, <2>2, <2>5
<1> QED
  BY <1>5, <1>6

(* A block that sifts moves on.                                            *)
LEMMA SiftMoveNotWorse ==
  ASSUME BlocksInv, SettingsInv, NotWorse, call.before \in Int, UNCHANGED <<nodenum, call>>,
         kept = {}, kept' = {}, SiftMove
  PROVE  NotWorse' /\ search'.kind = search.kind
<1>1. search.kind \in Sifting
  BY DEF SiftMove
<1>2. search # NoSearch /\ SiftFits(search, List)
  BY <1>1, WhichSearch
<1>3. PICK q, L, D, now, before : /\ q = search /\ L = List /\ D = Unsorted(todo) /\ now = Now
                                  /\ before = call.before
  OBVIOUS
<1>4. /\ q = [kind |-> q.kind, on |-> q.on, this |-> q.this, left |-> q.left, best |-> q.best,
              allowed |-> q.allowed, bestpos |-> q.bestpos, up |-> q.up, leg |-> q.leg,
              fresh |-> q.fresh, lastsize |-> q.lastsize]
      /\ q.kind \in Sifting /\ q.this # NoBlock /\ q.bestpos \in Int
  <2>1. q.this # NoBlock
    BY <1>3 DEF SiftMove
  <2> QED
    BY <1>1, <1>2, <1>3, <2>1 DEF SiftFits
<1>5. /\ Searching(L, D) /\ Arranged(now, tree, search.on, blockid, D) /\ now.list = L
      /\ NoWorse(q, now, before) /\ Len(L) \in Nat /\ Len(L) >= 1 /\ DOMAIN L = 1..Len(L)
  BY <1>2, <1>3, SearchAt
<1>6. PICK d, h : /\ d = q.bestpos /\ h \in 1..Len(L) /\ L[h] = q.this
                  /\ q.best \in Int /\ q.best <= before
                  /\ LeadsTo(now, WayFrom(h, d), Far(d), q.best)
  <2>1. q.kind \notin Windows
    BY <1>4 DEF Windows, Sifting
  <2> QED
    BY <1>4, <1>5, <2>1 DEF NoWorse
<1>7. Here = h
  BY <1>3, <1>5, <1>6, HereIs
<1>8. PICK up, i, g : /\ up = q.up /\ i = (IF up THEN h - 1 ELSE h)
                      /\ g = (IF up THEN h - 1 ELSE h + 1)
  OBVIOUS
<1>9. h \in Int /\ i \in Int /\ 1 <= i /\ i + 1 <= Len(L) /\ g \in 1..Len(L)
  <2>1. IF up THEN h > 1 ELSE h < Len(L)
    BY <1>3, <1>7, <1>8 DEF SiftMove, OnItsWay, CanMove, HasNext
  <2> QED
    BY <1>5, <1>6, <1>8, <2>1
<1>10. PICK s : s = blockdown(now, i)
  OBVIOUS
<1>11. /\ Arranged(s, tree, search.on, blockid, D) /\ blockdown(s, i) = now
       /\ s.list[i] = L[i + 1] /\ s.list[i + 1] = L[i] /\ Len(s.list) = Len(L)
  BY <1>3, <1>5, <1>9, <1>10, OneDown
<1>12. Measured(s) \in Int
  BY <1>11, SizeIsInt
<1>13. s.list[g] = q.this
  BY <1>5, <1>6, <1>8, <1>9, <1>11
<1>14. PICK r, e, better : /\ r = search' /\ e = d + (IF up THEN -1 ELSE 1)
                           /\ better = Better(q.best, Measured(s))
  OBVIOUS
<1>15. /\ Move(s)
       /\ r = [q EXCEPT !.fresh   = FALSE,
                        !.bestpos = SinceBest(better, e),
                        !.best    = IF better THEN Measured(s) ELSE @,
                        !.allowed = IF better THEN Allowed(Measured(s)) ELSE @]
  BY <1>3, <1>6, <1>7, <1>8, <1>10, <1>14 DEF SiftMove, Measured
<1>16. /\ r.kind = q.kind /\ r.on = q.on /\ r.this = q.this
       /\ r.bestpos = SinceBest(better, e) /\ r.best = IF better THEN Measured(s) ELSE q.best
  BY <1>4, <1>15
<1>17. Now' = s /\ tree'.block = tree.block
  BY <1>2, <1>3, <1>11, <1>14, <1>15, <1>16, SearchMoved
<1>18. r.best \in Int /\ r.best <= before /\ LeadsTo(s, WayFrom(g, r.bestpos), Far(r.bestpos), r.best)
  <2>1. CASE better
    <3>1. Measured(s) < q.best
      BY <1>14, <2>1 DEF Better
    <3>2. r.best = Measured(s) /\ r.bestpos = 0 /\ Far(0) = 0
      BY <1>16, <2>1 DEF SinceBest, Far
    <3>3. LeadsTo(s, WayFrom(g, 0), 0, Measured(s))
      BY LeadsHere
    <3>4. before \in Int
      BY <1>3
    <3> QED
      BY <1>6, <1>12, <3>1, <3>2, <3>3, <3>4
  <2>2. CASE ~ better
    <3>1. r.best = q.best /\ r.bestpos = e
      BY <1>16, <2>2 DEF SinceBest
    <3>2. d \in Int
      BY <1>4, <1>6
    <3>3. LeadsTo(s, WayFrom(g, e), Far(e), q.best)
      BY <1>6, <1>8, <1>9, <1>10, <1>11, <1>14, <3>2, WayChanges
    <3> QED
      BY <1>6, <3>1, <3>3
  <2> QED
    BY <2>1, <2>2
<1>19. NoWorse(r, s, before)
  <2>1. r # NoSearch /\ r.kind \notin Windows /\ r.kind \in Sifting /\ r.this # NoBlock
    BY <1>4, <1>16 DEF NoSearch, Windows, Sifting
  <2>2. g \in 1..Len(s.list) /\ s.list[g] = r.this
    BY <1>9, <1>11, <1>13, <1>16
  <2> QED
    BY <1>18, <2>1, <2>2 DEF NoWorse
<1> QED
  BY <1>3, <1>14, <1>16, <1>17, <1>19, NotWorseAfter

(* Back at the best place it passed.                                       *)
LEMMA SiftBackNotWorse ==
  ASSUME BlocksInv, SettingsInv, NotWorse, call.before \in Int, UNCHANGED <<nodenum, call>>,
         kept = {}, SiftBack
  PROVE  NotWorse' /\ search'.kind = search.kind
<1>1. search.kind \in Sifting
  BY DEF SiftBack
<1>2. search # NoSearch /\ SiftFits(search, List)
  BY <1>1, WhichSearch
<1>3. PICK q, L, D, now, before : /\ q = search /\ L = List /\ D = Unsorted(todo) /\ now = Now
                                  /\ before = call.before
  OBVIOUS
<1>4. /\ q = [kind |-> q.kind, on |-> q.on, this |-> q.this, left |-> q.left, best |-> q.best,
              allowed |-> q.allowed, bestpos |-> q.bestpos, up |-> q.up, leg |-> q.leg,
              fresh |-> q.fresh, lastsize |-> q.lastsize]
      /\ q.kind \in Sifting /\ q.this # NoBlock /\ q.bestpos \in Int
      /\ \E h \in 1..Len(L) : L[h] = q.this /\ h - q.bestpos \in 1..Len(L)
  <2>1. q.this # NoBlock
    BY <1>3 DEF SiftBack
  <2> QED
    BY <1>1, <1>2, <1>3, <2>1 DEF SiftFits
<1>5. /\ Searching(L, D) /\ Arranged(now, tree, search.on, blockid, D) /\ now.list = L
      /\ NoWorse(q, now, before) /\ Len(L) \in Nat /\ DOMAIN L = 1..Len(L)
      /\ \A i, j \in 1..Len(L) : L[i] = L[j] => i = j
  <2>1. Searching(L, D)
    BY <1>2, <1>3, SearchAt
  <2>2. \A i, j \in 1..Len(L) : L[i] = L[j] => i = j
    BY <2>1 DEF Searching
  <2> QED
    BY <1>2, <1>3, <2>2, SearchAt
<1>6. PICK d, h : /\ d = q.bestpos /\ h \in 1..Len(L) /\ L[h] = q.this
                  /\ q.best \in Int /\ q.best <= before
                  /\ LeadsTo(now, WayFrom(h, d), Far(d), q.best)
  <2>1. q.kind \notin Windows
    BY <1>4 DEF Windows, Sifting
  <2> QED
    BY <1>4, <1>5, <2>1 DEF NoWorse
<1>7. d \in Int /\ h \in Int /\ 1 <= h /\ h <= Len(L) /\ 1 <= h - d /\ h - d <= Len(L)
  <2>1. h - d \in 1..Len(L)
    BY <1>4, <1>5, <1>6
  <2> QED
    BY <1>4, <1>5, <1>6, <2>1
<1>8. Here = h
  BY <1>3, <1>5, <1>6, HereIs
<1>9. PICK way, s : way = WayFrom(h, d) /\ s = BlocksDown(now, way)
  OBVIOUS
<1>10. PlacesFit(way, 1, Len(L)) /\ Len(way) = Far(d)
  BY <1>5, <1>7, <1>9, WayFits
<1>11. Arranged(s, tree, search.on, blockid, D)
  BY <1>3, <1>5, <1>9, <1>10, SomeDown
<1>12. Measured(s) = q.best
  <2>1. way \in Seq(Int) /\ LeadsTo(now, way, Len(way), q.best)
    BY <1>6, <1>9, <1>10 DEF PlacesFit
  <2> QED
    BY <1>9, <2>1, LeadsDown
<1>13. PICK r : r = search'
  OBVIOUS
<1>14. Move(s) /\ r = [q EXCEPT !.this = NoBlock, !.best = 0, !.allowed = 0, !.bestpos = 0]
  <2>1. WayBack(d) = way
    BY <1>8, <1>9 DEF WayBack, WayFrom
  <2> QED
    BY <1>3, <1>6, <1>9, <1>13, <2>1 DEF SiftBack
<1>15. r.kind = q.kind /\ r.on = q.on /\ r.this = NoBlock
  BY <1>4, <1>14
<1>16. Now' = s /\ tree'.block = tree.block
  BY <1>2, <1>3, <1>11, <1>13, <1>14, <1>15, SearchMoved
<1>17. NoWorse(r, s, before)
  BY <1>4, <1>6, <1>12, <1>15, NoTrial
<1> QED
  BY <1>3, <1>13, <1>15, <1>16, <1>17, NotWorseAfter

(* The other steps of sifting move no block.                               *)
LEMMA SiftRestNotWorse ==
  ASSUME BlocksInv, SettingsInv, NotWorse, call.before \in Int, UNCHANGED <<nodenum, call>>,
         kept = {}, SiftStart \/ SiftTurn \/ SiftAgain \/ SiftEnds
  PROVE  NotWorse' /\ (search' # NoSearch => search'.kind = search.kind)
<1>1. search.kind \in Sifting
  BY DEF SiftStart, SiftTurn, SiftAgain, SiftEnds, AllSifted
<1>2. search # NoSearch /\ SiftFits(search, List)
  BY <1>1, WhichSearch
<1>3. PICK q, L, D, now, before, r : /\ q = search /\ L = List /\ D = Unsorted(todo) /\ now = Now
                                     /\ before = call.before /\ r = search'
  OBVIOUS
<1>4. /\ q = [kind |-> q.kind, on |-> q.on, this |-> q.this, left |-> q.left, best |-> q.best,
              allowed |-> q.allowed, bestpos |-> q.bestpos, up |-> q.up, leg |-> q.leg,
              fresh |-> q.fresh, lastsize |-> q.lastsize]
      /\ q.kind \in Sifting /\ q.left \subseteq ToSet(L)
  BY <1>1, <1>2, <1>3 DEF SiftFits
<1>5. /\ Searching(L, D) /\ now.list = L /\ now = [level |-> level, list |-> L]
      /\ Measured(now) \in Int /\ Measured(now) = Size /\ NoWorse(q, now, before)
  BY <1>2, <1>3, SearchAt
<1>6. q.kind \notin Windows
  BY <1>4 DEF Windows, Sifting
<1>7. ASSUME Stay, r.on = q.on PROVE Now' = now /\ tree'.block = tree.block
  <2>1. level' = level /\ tree' = tree
    BY <1>7 DEF Stay
  <2>2. Now' = [level |-> level', list |-> tree'.kids[search'.on]]
    BY DEF Now, List
  <2> QED
    BY <1>3, <1>5, <1>7, <2>1, <2>2 DEF List
<1>8. CASE SiftStart
  <2>1. PICK b, allowed, up :
          b \in q.left /\ r = [q EXCEPT !.this = b, !.left = @ \ {b}, !.best = Size, !.allowed = allowed,
                                        !.bestpos = 0, !.up = up, !.leg = 0, !.fresh = TRUE]
    <3>1. PICK b \in search.left :
            LET pos == (CHOOSE i \in DOMAIN List : List[i] = b) - 1 IN
            search' = [search EXCEPT
              !.this = b, !.left = @ \ {b},
              !.best = Size, !.allowed = Allowed(Size), !.bestpos = 0,
              !.up = ~ (pos > Len(List) \div 2), !.leg = 0, !.fresh = TRUE]
      BY <1>8 DEF SiftStart
    <3> DEFINE high == ~ ((CHOOSE i \in DOMAIN List : List[i] = b) - 1 > Len(List) \div 2)
    <3>2. search' = [search EXCEPT
             !.this = b, !.left = @ \ {b}, !.best = Size, !.allowed = Allowed(Size), !.bestpos = 0,
             !.up = high, !.leg = 0, !.fresh = TRUE]
      BY <3>1, Zenon
    <3> HIDE DEF high
    <3> QED
      BY <1>3, <3>2, Zenon
  <2>2. PICK size : size = Size
    OBVIOUS
  <2>3. r.kind = q.kind /\ r.on = q.on /\ r.this = b /\ r.bestpos = 0 /\ r.best = size
    BY <1>4, <2>1, <2>2
  <2>4. Stay /\ q.this = NoBlock
    BY <1>3, <1>8 DEF SiftStart
  <2>5. Measured(now) <= before
    BY <1>4, <1>5, <1>6, <2>4 DEF NoWorse
  <2>6. PICK h \in 1..Len(L) : L[h] = b
    BY <1>4, <1>5, <2>1, PlaceInList
  <2>7. LeadsTo(now, WayFrom(h, 0), Far(0), size)
    <3>1. Far(0) = 0
      BY DEF Far
    <3> QED
      BY <1>5, <2>2, <3>1, LeadsHere
  <2>8. NoWorse(r, now, before)
    <3>1. r # NoSearch /\ r.kind \in Sifting /\ r.kind \notin Windows
      BY <1>4, <1>6, <2>3 DEF NoSearch, Sifting
    <3>2. r.best \in Int /\ r.best <= before /\ LeadsTo(now, WayFrom(h, r.bestpos), Far(r.bestpos), r.best)
      BY <1>5, <2>2, <2>3, <2>5, <2>7
    <3>3. h \in 1..Len(now.list) /\ now.list[h] = r.this
      BY <1>5, <2>3, <2>6
    <3> QED
      BY <2>5, <3>1, <3>2, <3>3 DEF NoWorse
  <2> QED
    BY <1>3, <1>7, <2>3, <2>4, <2>8, NotWorseAfter
<1>9. CASE SiftTurn
  <2>1. r = [q EXCEPT !.leg = @ + 1, !.up = ~ @, !.fresh = TRUE] /\ Stay
    BY <1>3, <1>9 DEF SiftTurn
  <2>2. r.kind = q.kind /\ r.on = q.on /\ r.this = q.this /\ r.bestpos = q.bestpos /\ r.best = q.best
    BY <1>4, <2>1
  <2>3. NoWorse(r, now, before)
    <3>1. r # NoSearch /\ r.kind \in Sifting /\ r.kind \notin Windows
      BY <1>4, <1>6, <2>2 DEF NoSearch, Sifting
    <3> QED
      BY <1>4, <1>5, <2>2, <3>1 DEF NoWorse
  <2> QED
    BY <1>3, <1>7, <2>1, <2>2, <2>3, NotWorseAfter
<1>10. CASE SiftAgain
  <2>1. PICK left, size : r = [q EXCEPT !.left = left, !.lastsize = size] /\ q.this = NoBlock /\ Stay
    BY <1>3, <1>10 DEF SiftAgain, AllSifted
  <2>2. r.kind = q.kind /\ r.this = NoBlock
    BY <1>4, <2>1
  <2>3. level' = level
    BY <2>1 DEF Stay
  <2> QED
    BY <1>3, <1>4, <2>1, <2>2, <2>3, StayNotWorse
<1>11. CASE SiftEnds
  <2>1. Return(List[1]) /\ search.this = NoBlock
    BY <1>11 DEF SiftEnds, AllSifted
  <2>2. level' = level /\ search' = NoSearch
    BY <1>2, <2>1, ReturnSame
  <2> QED
    BY <1>1, <2>1, <2>2, StayNotWorse
<1> QED
  BY <1>8, <1>9, <1>10, <1>11

(* Every step of a search but the random one.                              *)
LEMMA SearchNotWorse ==
  ASSUME BlocksInv, SettingsInv, NotWorse, call.before \in Int, SearchStep, search.kind # "random",
         kept = {}, kept' = {}
  PROVE  NotWorse' /\ (search' # NoSearch => search'.kind = search.kind)
<1>1. UNCHANGED <<nodenum, call>> /\ UNCHANGED <<blockid, todo>>
  BY DEF SearchStep, settings
<1>2. CASE Win2Step \/ Win3Pair
  BY <1>1, <1>2, PairNotWorse
<1>3. CASE Win2Again \/ Win2Ends \/ Win3Again \/ Win3Ends
  BY <1>1, <1>3, ScanNotWorse
<1>4. CASE Win3Move
  BY <1>1, <1>4, Win3MoveNotWorse
<1>5. CASE Win3Back
  BY <1>1, <1>5, Win3BackNotWorse
<1>6. CASE SiftStart \/ SiftTurn \/ SiftAgain \/ SiftEnds
  BY <1>1, <1>6, SiftRestNotWorse
<1>7. CASE SiftMove
  BY <1>1, <1>7, SiftMoveNotWorse
<1>8. CASE SiftBack
  BY <1>1, <1>8, SiftBackNotWorse
<1>9. ~ RandomMove /\ ~ RandomEnds
  BY DEF RandomMove, RandomEnds
<1> QED
  BY <1>2, <1>3, <1>4, <1>5, <1>6, <1>7, <1>8, <1>9 DEF SearchStep

(* A search that begins has tried nothing yet.                             *)
LEMMA BegunAtRest ==
  ASSUME NEW m \in Methods, m # "random", NEW b
  PROVE  /\ Begun(m, b).kind = m
         /\ \/ m \in Windows /\ Begun(m, b).moves = 0
            \/ m \in Sifting /\ Begun(m, b).this = NoBlock
<1>1. PICK r, x, L, size : r = Begun(m, b) /\ L = tree.kids[b] /\ x = L[1] /\ size = Size
  OBVIOUS
<1>2. CASE m \in Windows
  <2>1. r = [kind |-> m, on |-> b, t |-> x, this |-> x, first |-> x,
             lastsize |-> size, left |-> 0, moves |-> 0, pos |-> 0, best |-> 0]
    BY <1>1, <1>2 DEF Begun, Windows, Sifting
  <2> QED
    BY <1>1, <1>2, <2>1
<1>3. CASE m \in Sifting
  <2>1. r = [kind |-> m, on |-> b, this |-> NoBlock, left |-> ToSet(L),
             best |-> 0, allowed |-> 0, bestpos |-> 0, up |-> FALSE, leg |-> 0,
             fresh |-> FALSE, lastsize |-> size]
    BY <1>1, <1>3 DEF Begun, Windows, Sifting
  <2> QED
    BY <1>1, <1>3, <2>1
<1> QED
  BY <1>2, <1>3 DEF Methods

(* A reordering under way.                                                 *)
LEMMA BusySizes ==
  ASSUME BlocksInv, SettingsInv, SizesInv, SearchStep \/ VisitBlock \/ VisitChildren \/ SortBlock
  PROVE  SizesInv'
<1>1. ~ Idle /\ ~ Idle' /\ call' = call /\ nodenum' = nodenum
  BY StillBusy, BusySettings
<1>2. call.before \in Int
  BY DEF SizesInv
<1> SUFFICES ASSUME call.method # "random", kept' = {}
             PROVE  (search' # NoSearch => search'.kind = call.method) /\ NotWorse'
  BY <1>1, <1>2 DEF SizesInv
<1>6. kept = {}
  BY KeptGrows DEF VisitBlock, VisitChildren, SortBlock
<1>3. (search # NoSearch => search.kind = call.method) /\ NotWorse /\ call.method \in Methods
  BY <1>1, <1>6 DEF SizesInv, SettingsInv
<1>4. CASE SearchStep
  <2>1. search # NoSearch
    BY <1>4, SearchBusy
  <2> QED
    BY <1>2, <1>3, <1>4, <1>6, <2>1, SearchNotWorse
<1>5. CASE VisitBlock \/ VisitChildren \/ SortBlock
  <2>1. search = NoSearch /\ level' = level
    BY <1>5, Zenon DEF VisitBlock, VisitChildren, SortBlock
  <2>2. search' = NoSearch \/ \E b : search' = Begun(call.method, b)
    BY <1>5, <2>1 DEF VisitBlock, VisitChildren, SortBlock
  <2>3. CASE search' = NoSearch
    BY <1>1, <1>3, <2>1, <2>3, StayNotWorse
  <2>4. CASE \E b : search' = Begun(call.method, b)
    <3>1. PICK m, b : m = call.method /\ search' = Begun(m, b)
      BY <2>4
    <3>2. PICK r : r = Begun(m, b)
      OBVIOUS
    <3>3. /\ r.kind = m
          /\ \/ r.kind \in Windows /\ r.moves = 0
             \/ r.kind \in Sifting /\ r.this = NoBlock
      BY <1>3, <3>1, <3>2, BegunAtRest
    <3>4. search' = r
      BY <3>1, <3>2
    <3> QED
      BY <1>1, <1>3, <2>1, <3>1, <3>3, <3>4, StayNotWorse
  <2> QED
    BY <2>2, <2>3, <2>4
<1> QED
  BY <1>4, <1>5

(* bdd_reorder when it begins and when it ends.                            *)
LEMMA EndsOfReorder ==
  ASSUME BlocksInv, SettingsInv, SizesInv,
         EndReorder \/ \E m \in Methods : BeginReorder(m, TRUE) \/ BeginReorder(m, FALSE)
  PROVE  SizesInv'
<1>1. CASE EndReorder
  <2>1. PICK c, x, full : c = call /\ x = Size /\ full = (kept # {})
    OBVIOUS
  <2>2. /\ ~ Idle /\ Idle' /\ search = NoSearch /\ kept' = {}
        /\ call' = [c EXCEPT !.after = x, !.saturated = full, !.saved = Unsaved]
    BY <1>1, <2>1 DEF EndReorder, Idle
  <2>3. c = [method |-> c.method, automatic |-> c.automatic, before |-> c.before,
             after |-> c.after, saturated |-> c.saturated, cap |-> c.cap, saved |-> c.saved]
    BY <2>1 DEF SettingsInv
  <2>4. PICK d : d = call'
    OBVIOUS
  <2>5. d.before = c.before /\ d.method = c.method /\ d.after = x /\ d.saturated = full
    BY <2>2, <2>3, <2>4
  <2>6. c.before \in Int
    BY <2>1 DEF SizesInv
  <2>7. c.method # "random" /\ ~ full => x <= c.before
    <3> SUFFICES ASSUME c.method # "random", ~ full PROVE x <= c.before
      OBVIOUS
    <3>4. kept = {}
      BY <2>1
    <3>1. NotWorse
      BY <2>1, <2>2, <3>4 DEF SizesInv
    <3>2. PICK s : s = Now /\ NoWorse(NoSearch, s, c.before)
      BY <2>1, <2>2, <3>1 DEF NotWorse
    <3>3. Measured(s) = x
      BY <2>1, <3>2, <3>4 DEF Measured, SizeIn, Size, Now
    <3> QED
      BY <3>2, <3>3 DEF NoWorse
  <2> QED
    BY <2>2, <2>4, <2>5, <2>6, <2>7 DEF SizesInv
<1>2. CASE \E m \in Methods : BeginReorder(m, TRUE) \/ BeginReorder(m, FALSE)
  <2>1. PICK m \in Methods, isAuto \in BOOLEAN : BeginReorder(m, isAuto)
    BY <1>2
  <2>2. PICK x, cap, c : /\ x = Size /\ c = call'
                         /\ c = [method |-> m, automatic |-> isAuto, before |-> x, after |-> 0,
                                 saturated |-> FALSE, cap |-> cap,
                                 saved |-> [method |-> auto.method, times |-> auto.times]]
    BY <2>1 DEF BeginReorder
  <2>3. c.before = x
    BY <2>2
  <2>4. /\ Idle /\ todo' = <<[step |-> "search", block |-> Top]>>
        /\ level' = level /\ search' = search /\ nodenum' = nodenum
    BY <2>1 DEF BeginReorder, MayCall, settings
  <2>5. ~ Idle'
    BY <2>4 DEF Idle
  <2>6. search = NoSearch
    BY <2>4, IdleFacts
  <2>12. kept = {} /\ kept' = kept
    BY <2>1, <2>4 DEF SizesInv, BeginReorder
  <2>7. x \in Int
    <3>1. nodenum \in Handlers /\ level \in Levelings
      BY DEF SettingsInv, BlocksInv, TreeInv, TreeFits
    <3>2. {} \in SUBSET Immortals[nodenum]
      OBVIOUS
    <3>3. SizeOf[nodenum][{}][level] \in Nat
      BY <3>1, <3>2, BlockOrderSize
    <3> QED
      BY <2>2, <2>12, <3>3 DEF Size
  <2>8. PICK s : s = Now'
    OBVIOUS
  <2>9. Measured(s)' = x
    BY <2>2, <2>4, <2>8, <2>12 DEF Measured, SizeIn, Size, Now
  <2>10. NoWorse(NoSearch, s, x)'
    <3>1. NoSearch.kind = "none" /\ "none" \notin Windows \cup Sifting
      BY DEF NoSearch, Windows, Sifting
    <3>2. x <= x
      BY <2>7
    <3> QED
      BY <2>9, <3>1, <3>2 DEF NoWorse
  <2>11. NotWorse'
    BY <2>2, <2>3, <2>4, <2>6, <2>8, <2>10 DEF NotWorse
  <2> QED
    BY <2>2, <2>3, <2>4, <2>5, <2>6, <2>7, <2>11 DEF SizesInv
<1> QED
  BY <1>1, <1>2

(* Every step keeps account of the sizes.                                  *)
LEMMA SizesNext ==
  ASSUME BlocksInv, SettingsInv, SizesInv, [Next]_vars
  PROVE  SizesInv'
<1>1. CASE SearchStep \/ VisitBlock \/ VisitChildren \/ SortBlock
  BY <1>1, BusySizes
<1>2. CASE EndReorder
  BY <1>2, EndsOfReorder
<1>3. CASE BddReorder \/ AutoReorder
  BY <1>3, WhichMethod, EndsOfReorder
<1>4. CASE IntAddVarBlock \/ VarBlockAll \/ ClrVarBlocks \/ SetVarOrder \/ SwapVar
  <2>1. kept' = kept
    BY <1>4 DEF IntAddVarBlock, VarBlockAll, ClrVarBlocks, SetVarOrder, SwapVar
  <2> QED
    BY <1>4, <2>1, OtherCalls DEF SizesInv, Idle
<1>5. CASE SetAuto \/ Switch
  <2>1. Idle /\ todo' = todo /\ call' = call /\ kept' = kept
    BY <1>5 DEF SetAuto, Switch, MayCall
  <2> QED
    BY <2>1 DEF SizesInv, Idle
<1>6. CASE Probe
  <2>1. PICK c, d : c = call /\ d = call' /\ d = [c EXCEPT !.method = "none"]
    BY <1>6 DEF Probe
  <2>2. c = [method |-> c.method, automatic |-> c.automatic, before |-> c.before,
             after |-> c.after, saturated |-> c.saturated, cap |-> c.cap, saved |-> c.saved]
    BY <2>1 DEF SettingsInv
  <2>3. d.method = "none" /\ d.before = c.before
    BY <2>1, <2>2
  <2>4. Idle /\ todo' = todo /\ kept' = kept
    BY <1>6 DEF Probe, MayCall
  <2> QED
    BY <2>1, <2>3, <2>4 DEF SizesInv, Idle
<1>7. CASE UNCHANGED vars
  <2>1. /\ todo' = todo /\ call' = call /\ nodenum' = nodenum /\ search' = search
        /\ level' = level /\ tree' = tree /\ kept' = kept
    BY <1>7 DEF vars, settings
  <2>2. NotWorse => NotWorse'
    <3> SUFFICES ASSUME NotWorse PROVE NotWorse'
      OBVIOUS
    <3>1. PICK q, s, before : q = search /\ s = Now /\ before = call.before /\ NoWorse(q, s, before)
      BY DEF NotWorse
    <3>2. Now' = s /\ search' = q
      BY <2>1, <3>1 DEF Now, List
    <3> QED
      BY <2>1, <3>1, <3>2, NotWorseAfter
  <2> QED
    BY <2>1, <2>2 DEF SizesInv, Idle
<1> QED
  BY <1>1, <1>2, <1>3, <1>4, <1>5, <1>6, <1>7 DEF Next, ReorderStep

(* No search but the random one, whichever sizes the orders have, ends     *)
(* with more nodes than it began with, unless a count has saturated: a     *)
(* window and sifting always find the way back, exchange by exchange, to   *)
(* the best order they came by.                                            *)
THEOREM NeverWorseHolds ==
  ASSUME ~ Gaps
  PROVE  Spec => []NeverWorse
<1>1. Init => SizesInv
  <2> SUFFICES ASSUME Init PROVE SizesInv
    OBVIOUS
  <2>1. todo = <<>> /\ call.before = 0 /\ call.method = "none" /\ kept = {}
    BY DEF Init
  <2> QED
    BY <2>1 DEF SizesInv, Idle
<1>2. BlockInv /\ SizesInv /\ [Next]_vars => SizesInv'
  BY SizesNext DEF BlockInv
<1>3. SizesInv => NeverWorse
  BY DEF SizesInv, NeverWorse, MeetsSaturation
<1> QED
  BY <1>1, <1>2, <1>3, BlockInvHolds, PTL DEF Spec

=============================================================================
