--------------------------- MODULE HandlesProofs ---------------------------
(***************************************************************************)
(* Proofs about Handles, for every value of its constants: no collection   *)
(* and no exchange of levels takes a node that a C++ program or a call     *)
(* that runs names, and a node has one reference for each place that       *)
(* names it.                                                               *)
(*                                                                         *)
(* Matches relates a ledger to a set of places. A place more is a          *)
(* reference more (TakeMatches), and a place less one less (GiveMatches),  *)
(* which is never an error; the loops of bvec_addref and bvec_delref do so *)
(* for the places of a vector (TakePlaces, GivePlaces). Each action has a  *)
(* lemma that says what becomes of Holding, the places there are; those of *)
(* temporaries that come and go within one action are added and taken away *)
(* again in its proof. They all end in Sound, what HandlesInv says unless  *)
(* a load has spoiled the counts.                                          *)
(***************************************************************************)
EXTENDS Handles, Induction, TLAPS, FiniteSetTheorems, SequenceTheorems

-----------------------------------------------------------------------------
(* The ledger.                                                             *)

(* A ledger has no node without a reference, and nothing was given back    *)
(* that nobody had.                                                        *)
IsLedger(m) ==
  /\ m = [count |-> m.count, broken |-> m.broken] /\ ~ m.broken
  /\ m.count = [f \in DOMAIN m.count |-> m.count[f]]
  /\ \A f \in DOMAIN m.count : m.count[f] \in Nat /\ m.count[f] # 0

(* A node has a count if it is in the bag.                                 *)
LEMMA CountIs ==
  ASSUME NEW m, IsLedger(m), NEW f
  PROVE  /\ Count(f, m) = IF f \in DOMAIN m.count THEN m.count[f] ELSE 0
         /\ Count(f, m) \in Nat
         /\ (Count(f, m) # 0) = (f \in DOMAIN m.count)
  BY DEF IsLedger, Count

(* bdd_addref adds one to the count of its node.                           *)
LEMMA AddRefCounts ==
  ASSUME NEW m, IsLedger(m), NEW f, ~ Pinned(f)
  PROVE  LET a == AddRef(f, m) IN
         /\ IsLedger(a) /\ Count(f, a) = Count(f, m) + 1
         /\ \A g : g # f => Count(g, a) = Count(g, m)
<1> DEFINE a == AddRef(f, m)
<1>1. PICK c : c = m.count
  OBVIOUS
<1>2. c = [g \in DOMAIN c |-> c[g]] /\ \A g \in DOMAIN c : c[g] \in Nat /\ c[g] # 0
  BY <1>1 DEF IsLedger
<1>3. a = [count |-> BagAdd(c, f), broken |-> m.broken]
  BY <1>1 DEF AddRef, IsLedger
<1>4. /\ DOMAIN BagAdd(c, f) = DOMAIN c \cup {f}
      /\ BagAdd(c, f)[f] = IF f \in DOMAIN c THEN c[f] + 1 ELSE 1
      /\ \A g \in DOMAIN c : g # f => BagAdd(c, f)[g] = c[g]
      /\ BagAdd(c, f) = [g \in DOMAIN BagAdd(c, f) |-> BagAdd(c, f)[g]]
  <2>1. CASE f \in DOMAIN c
    BY <2>1 DEF BagAdd
  <2>2. CASE f \notin DOMAIN c
    BY <2>2 DEF BagAdd
  <2> QED
    BY <2>1, <2>2
<1>5. PICK d : d = BagAdd(c, f)
  OBVIOUS
<1>6. IsLedger(a)
  BY <1>2, <1>3, <1>4, <1>5 DEF IsLedger
<1>7. a.count = d
  BY <1>3, <1>5
<1> HIDE DEF a
<1>8. /\ Count(f, a) = (IF f \in DOMAIN d THEN d[f] ELSE 0)
      /\ Count(f, m) = IF f \in DOMAIN c THEN c[f] ELSE 0
  BY <1>1, <1>6, <1>7, CountIs
<1>9. Count(f, a) = Count(f, m) + 1
  BY <1>2, <1>4, <1>5, <1>8
<1>10. ASSUME NEW g, g # f PROVE Count(g, a) = Count(g, m)
  <2>1. /\ Count(g, a) = (IF g \in DOMAIN d THEN d[g] ELSE 0)
        /\ Count(g, m) = IF g \in DOMAIN c THEN c[g] ELSE 0
    BY <1>1, <1>6, <1>7, CountIs
  <2> QED
    BY <1>4, <1>5, <1>10, <2>1
<1> QED
  BY <1>6, <1>9, <1>10 DEF a

(* bdd_delref takes one from the count of a node that has one.             *)
LEMMA DelRefCounts ==
  ASSUME NEW m, IsLedger(m), NEW f, ~ Pinned(f), Count(f, m) # 0
  PROVE  LET d == DelRef(f, m) IN
         /\ IsLedger(d) /\ Count(f, d) = Count(f, m) - 1
         /\ \A g : g # f => Count(g, d) = Count(g, m)
<1> DEFINE a == DelRef(f, m)
<1>1. PICK c : c = m.count
  OBVIOUS
<1>2. c = [g \in DOMAIN c |-> c[g]] /\ \A g \in DOMAIN c : c[g] \in Nat /\ c[g] # 0
  BY <1>1 DEF IsLedger
<1>0. f \in DOMAIN c
  BY <1>1, CountIs
<1>3. a = [count |-> BagRemove(c, f), broken |-> FALSE]
  <2>1. ~ m.broken /\ ~ (Count(f, m) = 0)
    BY DEF IsLedger
  <2>2. (m.broken \/ Count(f, m) = 0) = FALSE
    BY <2>1
  <2> QED
    BY <1>1, <2>2 DEF DelRef
<1>4. /\ DOMAIN BagRemove(c, f) = IF c[f] = 1 THEN DOMAIN c \ {f} ELSE DOMAIN c
      /\ c[f] # 1 => BagRemove(c, f)[f] = c[f] - 1
      /\ \A g \in DOMAIN c : g # f => BagRemove(c, f)[g] = c[g]
      /\ BagRemove(c, f) = [g \in DOMAIN BagRemove(c, f) |-> BagRemove(c, f)[g]]
  <2>1. CASE c[f] = 1
    BY <1>0, <2>1 DEF BagRemove
  <2>2. CASE c[f] # 1
    BY <1>0, <2>2 DEF BagRemove
  <2> QED
    BY <2>1, <2>2
<1>5. PICK d : d = BagRemove(c, f)
  OBVIOUS
<1>6. IsLedger(a)
  BY <1>0, <1>2, <1>3, <1>4, <1>5 DEF IsLedger
<1>7. a.count = d
  BY <1>3, <1>5
<1> HIDE DEF a
<1>8. /\ Count(f, a) = (IF f \in DOMAIN d THEN d[f] ELSE 0)
      /\ Count(f, m) = IF f \in DOMAIN c THEN c[f] ELSE 0
  BY <1>1, <1>6, <1>7, CountIs
<1>9. Count(f, a) = Count(f, m) - 1
  BY <1>0, <1>2, <1>4, <1>5, <1>8
<1>10. ASSUME NEW g, g # f PROVE Count(g, a) = Count(g, m)
  <2>1. /\ Count(g, a) = (IF g \in DOMAIN d THEN d[g] ELSE 0)
        /\ Count(g, m) = IF g \in DOMAIN c THEN c[g] ELSE 0
    BY <1>1, <1>6, <1>7, CountIs
  <2> QED
    BY <1>0, <1>4, <1>5, <1>10, <2>1
<1> QED
  BY <1>6, <1>9, <1>10 DEF a

-----------------------------------------------------------------------------
(* The ledger has one reference for each of the places.                    *)

Matches(places, m) ==
  /\ IsFiniteSet(places) /\ IsLedger(m)
  /\ \A f : Pinned(f) \/ Count(f, m) = HoldersIn(places, f)

(* One place more, one reference more.                                     *)
LEMMA TakeMatches ==
  ASSUME Running, NEW places, NEW m, Matches(places, m), NEW p, p \notin places
  PROVE  Matches(places \cup {p}, Take(p[3], m))
<1> DEFINE f == p[3]
           more == places \cup {p}
           of(g) == {h \in places : h[3] = g}
<1>1. IsFiniteSet(places) /\ IsLedger(m) /\ \A g : Pinned(g) \/ Count(g, m) = Cardinality(of(g))
  BY DEF Matches, HoldersIn
<1>2. IsFiniteSet(more)
  BY <1>1, FS_AddElement
<1>3. \A g : g # f => {h \in more : h[3] = g} = of(g)
  OBVIOUS
<1>4. {h \in more : h[3] = f} = of(f) \cup {p} /\ p \notin of(f)
  OBVIOUS
<1>5. IsFiniteSet(of(f))
  BY <1>1, FS_Subset
<1>6. Cardinality({h \in more : h[3] = f}) = Cardinality(of(f)) + 1
  <2> HIDE DEF of, more
  <2> QED
    BY <1>4, <1>5, FS_AddElement
<1>7. CASE Pinned(f)
  <2>1. Take(f, m) = m
    BY <1>7 DEF Take, AddRef
  <2>2. \A g : Pinned(g) \/ Count(g, m) = Cardinality({h \in more : h[3] = g})
    BY <1>1, <1>3, <1>7
  <2> QED
    BY <1>1, <1>2, <2>1, <2>2 DEF Matches, HoldersIn
<1>8. CASE ~ Pinned(f)
  <2>1. Take(f, m) = AddRef(f, m)
    BY DEF Take
  <2>2. PICK a : a = AddRef(f, m)
    OBVIOUS
  <2>3. IsLedger(a) /\ Count(f, a) = Count(f, m) + 1 /\ \A g : g # f => Count(g, a) = Count(g, m)
    BY <1>1, <1>8, <2>2, AddRefCounts
  <2>4. ASSUME NEW g, ~ Pinned(g) PROVE Count(g, a) = Cardinality({h \in more : h[3] = g})
    <3>1. CASE g = f
      BY <1>1, <1>6, <1>8, <2>3, <3>1
    <3>2. CASE g # f
      BY <1>1, <1>3, <2>3, <2>4, <3>2
    <3> QED
      BY <3>1, <3>2
  <2> QED
    BY <1>2, <2>1, <2>2, <2>3, <2>4 DEF Matches, HoldersIn
<1> QED
  BY <1>7, <1>8

(* One place less, one reference less.                                     *)
LEMMA GiveMatches ==
  ASSUME Running, NEW places, NEW m, Matches(places, m), NEW p \in places
  PROVE  Matches(places \ {p}, Give(p[3], m))
<1> DEFINE f == p[3]
           less == places \ {p}
           of(g) == {h \in places : h[3] = g}
<1>1. IsFiniteSet(places) /\ IsLedger(m) /\ \A g : Pinned(g) \/ Count(g, m) = Cardinality(of(g))
  BY DEF Matches, HoldersIn
<1>2. IsFiniteSet(less)
  BY <1>1, FS_RemoveElement
<1>3. \A g : g # f => {h \in less : h[3] = g} = of(g)
  OBVIOUS
<1>4. {h \in less : h[3] = f} = of(f) \ {p} /\ p \in of(f)
  OBVIOUS
<1>5. IsFiniteSet(of(f))
  BY <1>1, FS_Subset
<1>6. Cardinality({h \in less : h[3] = f}) = Cardinality(of(f)) - 1 /\ Cardinality(of(f)) # 0
  <2> HIDE DEF of, less
  <2>1. Cardinality(of(f) \ {p}) = Cardinality(of(f)) - 1
    BY <1>4, <1>5, FS_RemoveElement
  <2>2. Cardinality(of(f)) # 0
    BY <1>4, <1>5, FS_EmptySet
  <2> QED
    BY <1>4, <2>1, <2>2
<1>7. CASE Pinned(f)
  <2>1. Give(f, m) = m
    BY <1>7 DEF Give, DelRef
  <2>2. \A g : Pinned(g) \/ Count(g, m) = Cardinality({h \in less : h[3] = g})
    BY <1>1, <1>3, <1>7
  <2> QED
    BY <1>1, <1>2, <2>1, <2>2 DEF Matches, HoldersIn
<1>8. CASE ~ Pinned(f)
  <2>1. Give(f, m) = DelRef(f, m)
    BY DEF Give
  <2>2. PICK a : a = DelRef(f, m)
    OBVIOUS
  <2>0. Count(f, m) # 0
    BY <1>1, <1>6, <1>8
  <2>3. IsLedger(a) /\ Count(f, a) = Count(f, m) - 1 /\ \A g : g # f => Count(g, a) = Count(g, m)
    BY <1>1, <1>8, <2>0, <2>2, DelRefCounts
  <2>4. ASSUME NEW g, ~ Pinned(g) PROVE Count(g, a) = Cardinality({h \in less : h[3] = g})
    <3>1. CASE g = f
      BY <1>1, <1>6, <1>8, <2>3, <3>1
    <3>2. CASE g # f
      BY <1>1, <1>3, <2>3, <2>4, <3>2
    <3> QED
      BY <3>1, <3>2
  <2> QED
    BY <1>2, <2>1, <2>2, <2>3, <2>4 DEF Matches, HoldersIn
<1> QED
  BY <1>7, <1>8

-----------------------------------------------------------------------------
(* Loops that take or give back one reference after the other.             *)

Moved(take, f, m) == IF take THEN Take(f, m) ELSE Give(f, m)

InTurn(take, s, m, t, n) == \A k \in 0..n : t[k] = IF k = 0 THEN m ELSE Moved(take, s[k], t[k - 1])

(* They are what their turns make of the ledger.                           *)
LEMMA MovesInTurn ==
  ASSUME NEW take \in BOOLEAN, NEW s, NEW m, NEW n \in Nat, n = Len(s)
  PROVE  \E t : InTurn(take, s, m, t, n) /\ (IF take THEN TakeAll(s, m) ELSE GiveAll(s, m)) = t[n]
<1> DEFINE Eq(t) == t = [k \in 0..n |-> IF k = 0 THEN m ELSE Moved(take, s[k], t[k - 1])]
           P == {h \in 0..n : \E t : InTurn(take, s, m, t, h)}
           g == CHOOSE t : Eq(t)
<1>2. 0 \in P
  <2>1. PICK f : f = [k \in {0} |-> m]
    OBVIOUS
  <2>2. InTurn(take, s, m, f, 0)
    <3>1. f[0] = m /\ \A k \in 0..0 : k = 0
      BY <2>1
    <3> QED
      BY <3>1 DEF InTurn
  <2>3. 0 \in 0..n
    OBVIOUS
  <2> QED
    BY <2>2, <2>3
<1>3. ASSUME NEW h \in 0..(n - 1), h \in P PROVE h + 1 \in P
  <2>1. PICK f : InTurn(take, s, m, f, h)
    BY <1>3
  <2> DEFINE e == [k \in 0..(h + 1) |-> IF k = h + 1 THEN Moved(take, s[h + 1], f[h]) ELSE f[k]]
  <2>2. \A k \in 0..(h + 1) : e[k] = IF k = h + 1 THEN Moved(take, s[h + 1], f[h]) ELSE f[k]
    OBVIOUS
  <2>3. \A k \in 0..h : k # h + 1 /\ k \in 0..(h + 1) /\ (k # 0 => k - 1 \in 0..(h + 1) /\ k - 1 # h + 1)
    OBVIOUS
  <2> HIDE DEF e
  <2>4. \A k \in 0..h : e[k] = f[k] /\ (k # 0 => e[k - 1] = f[k - 1])
    BY <2>2, <2>3
  <2>5. h + 1 \in 0..(h + 1) /\ h \in 0..h /\ h + 1 # 0 /\ (h + 1) - 1 = h
    OBVIOUS
  <2>6. \A k \in 0..(h + 1) : k = h + 1 \/ k \in 0..h
    OBVIOUS
  <2>7. InTurn(take, s, m, e, h + 1)
    <3> SUFFICES ASSUME NEW k \in 0..(h + 1)
                 PROVE  e[k] = IF k = 0 THEN m ELSE Moved(take, s[k], e[k - 1])
      BY DEF InTurn
    <3>1. CASE k = h + 1
      <4>1. e[h + 1] = Moved(take, s[h + 1], f[h]) /\ e[h] = f[h]
        BY <2>2, <2>4, <2>5
      <4> QED
        BY <2>5, <3>1, <4>1
    <3>2. CASE k \in 0..h
      BY <2>1, <2>4, <3>2 DEF InTurn
    <3> QED
      BY <2>6, <3>1, <3>2
  <2>8. h + 1 \in 0..n
    OBVIOUS
  <2> QED
    BY <2>7, <2>8
<1>4. n \in P
  <2>1. P \in SUBSET (0..n)
    OBVIOUS
  <2>2. P = 0..n
    <3> HIDE DEF P
    <3> QED
      BY <1>2, <1>3, <2>1, UpTo
  <2> QED
    BY <2>2
<1>5. \E t : Eq(t)
  <2>1. PICK f : InTurn(take, s, m, f, n)
    BY <1>4
  <2> DEFINE e == [k \in 0..n |-> f[k]]
  <2>2. \A k \in 0..n : e[k] = IF k = 0 THEN m ELSE Moved(take, s[k], e[k - 1])
    <3> SUFFICES ASSUME NEW k \in 0..n
                 PROVE  e[k] = IF k = 0 THEN m ELSE Moved(take, s[k], e[k - 1])
      OBVIOUS
    <3>1. e[k] = f[k] /\ (k # 0 => e[k - 1] = f[k - 1])
      OBVIOUS
    <3>2. f[k] = IF k = 0 THEN m ELSE Moved(take, s[k], f[k - 1])
      BY <2>1 DEF InTurn
    <3> HIDE DEF e
    <3> QED
      BY <3>1, <3>2
  <2>3. Eq(e)
    BY <2>2
  <2> QED
    BY <2>3
<1>6. Eq(g)
  <2> HIDE DEF Eq
  <2> QED
    BY <1>5
<1>7. (IF take THEN TakeAll(s, m) ELSE GiveAll(s, m)) = g[n]
  <2>1. CASE take
    <3>1. TakeAll(s, m) = g[n]
      BY <2>1 DEF TakeAll, Moved
    <3> QED
      BY <2>1, <3>1
  <2>2. CASE ~ take
    <3>1. GiveAll(s, m) = g[n]
      BY <2>2 DEF GiveAll, Moved
    <3> QED
      BY <2>2, <3>1
  <2> QED
    BY <2>1, <2>2
<1> HIDE DEF g
<1>8. InTurn(take, s, m, g, n)
  BY <1>6 DEF InTurn
<1> QED
  BY <1>7, <1>8

(* q has a place of its own for each of the first n elements of s.         *)
AreAt(q, s, n) ==
  \A i \in 1..n : q[i][3] = s[i] /\ \A j \in 1..n : q[i] = q[j] => i = j

At(q, n) == {q[i] : i \in 1..n}

(* A place for each reference taken.                                       *)
LEMMA TakeAllMatches ==
  ASSUME Running, NEW places, NEW m, Matches(places, m), NEW s, NEW n \in Nat, n = Len(s),
         NEW q, AreAt(q, s, n), \A i \in 1..n : q[i] \notin places
  PROVE  Matches(places \cup At(q, n), TakeAll(s, m))
<1>0. PICK take \in BOOLEAN : take = TRUE
  OBVIOUS
<1>1. PICK t : InTurn(take, s, m, t, n) /\ TakeAll(s, m) = t[n]
  <2>1. \E t : InTurn(take, s, m, t, n) /\ (IF take THEN TakeAll(s, m) ELSE GiveAll(s, m)) = t[n]
    BY MovesInTurn
  <2> QED
    BY <1>0, <2>1
<1>2. t[0] = m /\ \A k \in 1..n : t[k] = Take(s[k], t[k - 1])
  BY <1>0, <1>1 DEF InTurn, Moved
<1> DEFINE P == {k \in 0..n : Matches(places \cup At(q, k), t[k])}
<1>3. 0 \in P
  <2>1. places \cup At(q, 0) = places
    BY DEF At
  <2>2. 0 \in 0..n
    OBVIOUS
  <2>3. Matches(places \cup At(q, 0), t[0])
    BY <1>2, <2>1
  <2> QED
    BY <2>2, <2>3
<1>4. ASSUME NEW k \in 0..(n - 1), k \in P PROVE k + 1 \in P
  <2>1. k + 1 \in 1..n /\ k + 1 \in 0..n /\ (k + 1) - 1 = k /\ \A i \in 1..k : i \in 1..n /\ i # k + 1
    OBVIOUS
  <2>2. PICK h : h = k + 1
    OBVIOUS
  <2>3. PICK now : now = places \cup At(q, k)
    OBVIOUS
  <2>4. Matches(now, t[k]) /\ t[h] = Take(s[h], t[k]) /\ q[h][3] = s[h]
    BY <1>2, <1>4, <2>1, <2>2, <2>3 DEF AreAt
  <2>5. q[h] \notin now
    <3>1. q[h] \notin places
      BY <2>1, <2>2
    <3>2. \A i \in 1..k : q[h] # q[i]
      BY <2>1, <2>2 DEF AreAt
    <3> QED
      BY <2>3, <3>1, <3>2 DEF At
  <2>6. Matches(now \cup {q[h]}, Take(q[h][3], t[k]))
    BY <2>4, <2>5, TakeMatches
  <2>7. places \cup At(q, h) = now \cup {q[h]}
    <3>1. \A i \in 1..h : i \in 1..k \/ i = h
      BY <2>2
    <3>2. h \in 1..h /\ \A i \in 1..k : i \in 1..h
      BY <2>2
    <3> QED
      BY <2>3, <3>1, <3>2 DEF At
  <2>8. Matches(places \cup At(q, h), t[h])
    BY <2>4, <2>6, <2>7
  <2> QED
    BY <2>1, <2>2, <2>8
<1>5. P = 0..n
  <2>1. P \in SUBSET (0..n)
    OBVIOUS
  <2> HIDE DEF P
  <2> QED
    BY <1>3, <1>4, <2>1, UpTo
<1>6. Matches(places \cup At(q, n), t[n])
  <2>1. n \in P
    <3>1. n \in 0..n
      OBVIOUS
    <3> HIDE DEF P
    <3> QED
      BY <1>5, <3>1
  <2> QED
    BY <2>1, Zenon
<1> QED
  BY <1>1, <1>6

(* A place for each reference given back.                                  *)
LEMMA GiveAllMatches ==
  ASSUME Running, NEW places, NEW m, Matches(places, m), NEW s, NEW n \in Nat, n = Len(s),
         NEW q, AreAt(q, s, n), \A i \in 1..n : q[i] \in places
  PROVE  Matches(places \ At(q, n), GiveAll(s, m))
<1>0. PICK take \in BOOLEAN : take = FALSE
  OBVIOUS
<1>1. PICK t : InTurn(take, s, m, t, n) /\ GiveAll(s, m) = t[n]
  <2>1. \E t : InTurn(take, s, m, t, n) /\ (IF take THEN TakeAll(s, m) ELSE GiveAll(s, m)) = t[n]
    BY MovesInTurn
  <2> QED
    BY <1>0, <2>1
<1>2. t[0] = m /\ \A k \in 1..n : t[k] = Give(s[k], t[k - 1])
  BY <1>0, <1>1 DEF InTurn, Moved
<1> DEFINE P == {k \in 0..n : Matches(places \ At(q, k), t[k])}
<1>3. 0 \in P
  <2>1. places \ At(q, 0) = places
    BY DEF At
  <2>2. 0 \in 0..n
    OBVIOUS
  <2>3. Matches(places \ At(q, 0), t[0])
    BY <1>2, <2>1
  <2> QED
    BY <2>2, <2>3
<1>4. ASSUME NEW k \in 0..(n - 1), k \in P PROVE k + 1 \in P
  <2>1. k + 1 \in 1..n /\ k + 1 \in 0..n /\ (k + 1) - 1 = k /\ \A i \in 1..k : i \in 1..n /\ i # k + 1
    OBVIOUS
  <2>2. PICK h : h = k + 1
    OBVIOUS
  <2>3. PICK now : now = places \ At(q, k)
    OBVIOUS
  <2>4. Matches(now, t[k]) /\ t[h] = Give(s[h], t[k]) /\ q[h][3] = s[h]
    BY <1>2, <1>4, <2>1, <2>2, <2>3 DEF AreAt
  <2>5. q[h] \in now
    <3>1. q[h] \in places
      BY <2>1, <2>2
    <3>2. \A i \in 1..k : q[h] # q[i]
      BY <2>1, <2>2 DEF AreAt
    <3> QED
      BY <2>3, <3>1, <3>2 DEF At
  <2>6. Matches(now \ {q[h]}, Give(q[h][3], t[k]))
    BY <2>4, <2>5, GiveMatches
  <2>7. places \ At(q, h) = now \ {q[h]}
    <3>1. \A i \in 1..h : i \in 1..k \/ i = h
      BY <2>2
    <3>2. h \in 1..h /\ \A i \in 1..k : i \in 1..h
      BY <2>2
    <3> QED
      BY <2>3, <3>1, <3>2 DEF At
  <2>8. Matches(places \ At(q, h), t[h])
    BY <2>4, <2>6, <2>7
  <2> QED
    BY <2>1, <2>2, <2>8
<1>5. P = 0..n
  <2>1. P \in SUBSET (0..n)
    OBVIOUS
  <2> HIDE DEF P
  <2> QED
    BY <1>3, <1>4, <2>1, UpTo
<1>6. Matches(places \ At(q, n), t[n])
  <2>1. n \in P
    <3>1. n \in 0..n
      OBVIOUS
    <3> HIDE DEF P
    <3> QED
      BY <1>5, <3>1
  <2> QED
    BY <2>1, Zenon
<1> QED
  BY <1>1, <1>6

(* The elements of s have a place each, and P is the set of them.          *)
Placed(q, s, n, P) ==
  n \in Nat /\ n = Len(s) /\ AreAt(q, s, n) /\ At(q, n) = P /\ \A i \in 1..n : q[i] \in P

(* So many places more.                                                    *)
LEMMA TakePlaces ==
  ASSUME Running, NEW places, NEW m, Matches(places, m), NEW s, NEW q, NEW n, NEW P, Placed(q, s, n, P),
         \A h \in P : h \notin places
  PROVE  Matches(places \cup P, TakeAll(s, m))
<1>1. n \in Nat /\ n = Len(s) /\ AreAt(q, s, n) /\ At(q, n) = P /\ \A i \in 1..n : q[i] \notin places
  BY DEF Placed
<1>2. Matches(places \cup At(q, n), TakeAll(s, m))
  BY <1>1, TakeAllMatches
<1> QED
  BY <1>1, <1>2

(* So many places less.                                                    *)
LEMMA GivePlaces ==
  ASSUME Running, NEW places, NEW m, Matches(places, m), NEW s, NEW q, NEW n, NEW P, Placed(q, s, n, P),
         P \subseteq places
  PROVE  Matches(places \ P, GiveAll(s, m))
<1>1. n \in Nat /\ n = Len(s) /\ AreAt(q, s, n) /\ At(q, n) = P /\ \A i \in 1..n : q[i] \in places
  BY DEF Placed
<1>2. Matches(places \ At(q, n), GiveAll(s, m))
  BY <1>1, GiveAllMatches
<1> QED
  BY <1>1, <1>2

(* A place of another name for a node.                                     *)
LEMMA RenamedMatches ==
  ASSUME NEW places, NEW m, Matches(places, m), NEW p \in places, NEW q, q \notin places, q[3] = p[3]
  PROVE  Matches((places \ {p}) \cup {q}, m)
<1> DEFINE new == (places \ {p}) \cup {q}
           of(g) == {h \in places : h[3] = g}
<1>1. IsFiniteSet(places) /\ IsLedger(m) /\ \A g : Pinned(g) \/ Count(g, m) = Cardinality(of(g))
  BY DEF Matches, HoldersIn
<1>2. IsFiniteSet(places \ {p})
  BY <1>1, FS_RemoveElement
<1>3. IsFiniteSet(new)
  BY <1>2, FS_AddElement
<1>4. ASSUME NEW g PROVE Cardinality({h \in new : h[3] = g}) = Cardinality(of(g))
  <2>1. CASE p[3] = g
    <3>1. {h \in new : h[3] = g} = (of(g) \ {p}) \cup {q} /\ p \in of(g) /\ q \notin of(g)
      BY <2>1
    <3>2. IsFiniteSet(of(g))
      BY <1>1, FS_Subset
    <3> HIDE DEF of, new
    <3>3. /\ IsFiniteSet(of(g) \ {p}) /\ Cardinality(of(g) \ {p}) = Cardinality(of(g)) - 1
          /\ Cardinality(of(g)) \in Nat
      BY <3>1, <3>2, FS_RemoveElement, FS_CardinalityType
    <3>4. Cardinality((of(g) \ {p}) \cup {q}) = Cardinality(of(g) \ {p}) + 1
      BY <3>1, <3>3, FS_AddElement
    <3>5. Cardinality((of(g) \ {p}) \cup {q}) = Cardinality(of(g))
      BY <3>3, <3>4
    <3> QED
      BY <3>1, <3>5, Zenon
  <2>2. CASE p[3] # g
    <3>1. {h \in new : h[3] = g} = of(g)
      BY <2>2
    <3> QED
      BY <3>1
  <2> QED
    BY <2>1, <2>2
<1>5. \A g : Pinned(g) \/ Count(g, m) = Cardinality({h \in new : h[3] = g})
  BY <1>1, <1>4
<1> QED
  BY <1>1, <1>3, <1>5 DEF Matches, HoldersIn

(* Places of another name for the nodes of a sequence.                     *)
LEMMA RenamedAllMatches ==
  ASSUME NEW places, NEW m, Matches(places, m), NEW s, NEW n \in Nat,
         NEW p, NEW q, AreAt(p, s, n), AreAt(q, s, n),
         \A i \in 1..n : p[i] \in places /\ q[i] \notin places
  PROVE  Matches((places \ At(p, n)) \cup At(q, n), m)
<1> DEFINE P == {k \in 0..n : Matches((places \ At(p, k)) \cup At(q, k), m)}
<1>3. 0 \in P
  <2>1. (places \ At(p, 0)) \cup At(q, 0) = places
    BY DEF At
  <2>2. 0 \in 0..n
    OBVIOUS
  <2>3. Matches((places \ At(p, 0)) \cup At(q, 0), m)
    BY <2>1
  <2> QED
    BY <2>2, <2>3
<1>4. ASSUME NEW k \in 0..(n - 1), k \in P PROVE k + 1 \in P
  <2>1. k + 1 \in 1..n /\ k + 1 \in 0..n /\ \A i \in 1..k : i \in 1..n /\ i # k + 1
    OBVIOUS
  <2>2. PICK h : h = k + 1
    OBVIOUS
  <2>3. PICK now : now = (places \ At(p, k)) \cup At(q, k)
    OBVIOUS
  <2>4. Matches(now, m) /\ q[h][3] = p[h][3]
    BY <1>4, <2>1, <2>2, <2>3 DEF AreAt
  <2>5. p[h] \in now
    <3>1. p[h] \in places
      BY <2>1, <2>2
    <3>2. \A i \in 1..k : p[h] # p[i]
      BY <2>1, <2>2 DEF AreAt
    <3> QED
      BY <2>3, <3>1, <3>2 DEF At
  <2>6. q[h] \notin now
    <3>1. q[h] \notin places
      BY <2>1, <2>2
    <3>2. \A i \in 1..k : q[h] # q[i]
      BY <2>1, <2>2 DEF AreAt
    <3> QED
      BY <2>3, <3>1, <3>2 DEF At
  <2>7. Matches((now \ {p[h]}) \cup {q[h]}, m)
    BY <2>4, <2>5, <2>6, RenamedMatches
  <2>8. (places \ At(p, h)) \cup At(q, h) = (now \ {p[h]}) \cup {q[h]}
    <3>1. \A i \in 1..h : i \in 1..k \/ i = h
      BY <2>2
    <3>2. h \in 1..h /\ \A i \in 1..k : i \in 1..h
      BY <2>2
    <3>3. At(p, h) = At(p, k) \cup {p[h]} /\ At(q, h) = At(q, k) \cup {q[h]}
      BY <3>1, <3>2 DEF At
    <3>4. p[h] \notin At(q, k)
      <4>1. p[h] \in places /\ \A i \in 1..k : q[i] \notin places
        BY <2>1, <2>2
      <4> QED
        BY <4>1 DEF At
    <3> QED
      BY <2>3, <3>3, <3>4
  <2>9. Matches((places \ At(p, h)) \cup At(q, h), m)
    BY <2>7, <2>8
  <2> QED
    BY <2>1, <2>2, <2>9
<1>5. P = 0..n
  <2>1. P \in SUBSET (0..n)
    OBVIOUS
  <2> HIDE DEF P
  <2> QED
    BY <1>3, <1>4, <2>1, UpTo
<1> QED
  <2>1. n \in P
    <3>1. n \in 0..n
      OBVIOUS
    <3> HIDE DEF P
    <3> QED
      BY <1>5, <3>1
  <2> QED
    BY <2>1, Zenon

(* The ledger of the places.                                               *)
LEMMA CountedMatches ==
  ASSUME NEW places, IsFiniteSet(places)
  PROVE  Matches(places, Counted(places))
<1> DEFINE F == {h[3] : h \in {p \in places : ~ Pinned(p[3])}}
           of(g) == {h \in places : h[3] = g}
<1>1. PICK c : c = [f \in F |-> Cardinality(of(f))]
  OBVIOUS
<1>2. Counted(places) = [count |-> c, broken |-> FALSE]
  BY <1>1 DEF Counted, HoldersIn
<1>3. ASSUME NEW g PROVE /\ IsFiniteSet(of(g)) /\ Cardinality(of(g)) \in Nat
                         /\ (Cardinality(of(g)) = 0) = (of(g) = {})
  <2>1. IsFiniteSet(of(g))
    BY FS_Subset
  <2> HIDE DEF of
  <2> QED
    BY <2>1, FS_CardinalityType, FS_EmptySet
<1>4. \A f \in F : of(f) # {}
  OBVIOUS
<1>5. \A g : ~ Pinned(g) /\ g \notin F => of(g) = {}
  OBVIOUS
<1>6. \A f \in F : c[f] \in Nat /\ c[f] # 0
  <2> HIDE DEF F, of
  <2> QED
    BY <1>1, <1>3, <1>4
<1>7. DOMAIN c = F /\ c = [f \in DOMAIN c |-> c[f]]
  BY <1>1
<1>8. PICK a : a = Counted(places)
  OBVIOUS
<1>9. a.count = c /\ ~ a.broken /\ a = [count |-> a.count, broken |-> a.broken]
  BY <1>2, <1>8
<1>10. IsLedger(a)
  <2> HIDE DEF F
  <2> QED
    BY <1>6, <1>7, <1>9 DEF IsLedger
<1>11. ASSUME NEW g, ~ Pinned(g) PROVE Count(g, a) = Cardinality(of(g))
  <2>1. Count(g, a) = IF g \in F THEN c[g] ELSE 0
    <3> HIDE DEF F
    <3> QED
      BY <1>7, <1>9, <1>10, CountIs
  <2>2. CASE g \in F
    <3> HIDE DEF F
    <3> QED
      BY <1>1, <2>1, <2>2
  <2>3. CASE g \notin F
    <3>1. of(g) = {}
      BY <1>5, <1>11, <2>3
    <3> HIDE DEF F, of
    <3>2. Cardinality(of(g)) = 0
      BY <1>3, <3>1
    <3> QED
      BY <2>1, <2>3, <3>2
  <2> QED
    BY <2>2, <2>3
<1> QED
  BY <1>8, <1>10, <1>11 DEF Matches, HoldersIn

-----------------------------------------------------------------------------
(* Diagrams and the nodes below them.                                      *)

Diagrams == SUBSET Assignments

(* The values that are no diagram, and the diagrams of variables.          *)
LEMMA DiagramFacts ==
  /\ Zero \in Diagrams /\ One \in Diagrams /\ \A v : Ithvar(v) \in Diagrams
  /\ Undeclared \notin Diagrams /\ Unwritten \notin Diagrams
  /\ Pinned(Zero) /\ Pinned(One) /\ Zero # Undeclared
<1>1. -1 \notin Vars /\ -2 \notin Vars
  BY MaxVarsAssumption DEF Vars
<1>2. {-1} \notin Assignments /\ {-2} \notin Assignments
  BY <1>1 DEF Assignments
<1>3. Zero \in Diagrams /\ One \in Diagrams /\ \A v : Ithvar(v) \in Diagrams
  BY DEF Diagrams, Zero, One, Ithvar
<1>4. Pinned(Zero) /\ Pinned(One)
  BY DEF Pinned, IsConst
<1> QED
  BY <1>2, <1>3, <1>4 DEF Diagrams, Undeclared, Unwritten

(* An operator makes a diagram of diagrams.                                *)
LEMMA OperatorMakes ==
  ASSUME NEW l \in Diagrams, NEW r \in Diagrams, NEW operator \in Operators
  PROVE  Opr(OprOf(operator), l, r) \in Diagrams
<1>0. PICK op : op = OprOf(operator)
  OBVIOUS
<1>1. op \in {"and", "xor", "or", "imp", "diff", "less", "invimp"}
  BY <1>0 DEF Operators, OprOf
<1>9. l \subseteq Assignments /\ r \subseteq Assignments
  BY DEF Diagrams
<1> DEFINE f == Opr(op, l, r)
<1> SUFFICES f \in Diagrams
  BY <1>0
<1>2. CASE op = "and"
  <2>1. f = l \cap r
    BY <1>2 DEF Opr
  <2> HIDE DEF f
  <2> QED
    BY <1>9, <2>1 DEF Not, Diagrams
<1>3. CASE op = "xor"
  <2>1. f = (l \ r) \cup (r \ l)
    BY <1>3 DEF Opr
  <2> HIDE DEF f
  <2> QED
    BY <1>9, <2>1 DEF Not, Diagrams
<1>4. CASE op = "or"
  <2>1. f = l \cup r
    BY <1>4 DEF Opr
  <2> HIDE DEF f
  <2> QED
    BY <1>9, <2>1 DEF Not, Diagrams
<1>5. CASE op = "imp"
  <2>1. f = Not(l) \cup r
    BY <1>5 DEF Opr
  <2> HIDE DEF f
  <2> QED
    BY <1>9, <2>1 DEF Not, Diagrams
<1>6. CASE op = "diff"
  <2>1. f = l \ r
    BY <1>6 DEF Opr
  <2> HIDE DEF f
  <2> QED
    BY <1>9, <2>1 DEF Not, Diagrams
<1>7. CASE op = "less"
  <2>1. f = r \ l
    BY <1>7 DEF Opr
  <2> HIDE DEF f
  <2> QED
    BY <1>9, <2>1 DEF Not, Diagrams
<1>8. CASE op = "invimp"
  <2>1. f = l \cup Not(r)
    BY <1>8 DEF Opr
  <2> HIDE DEF f
  <2> QED
    BY <1>9, <2>1 DEF Not, Diagrams
<1> QED
  BY <1>1, <1>2, <1>3, <1>4, <1>5, <1>6, <1>7, <1>8

(* A node is below itself, and finitely many are.                          *)
LEMMA BelowFacts ==
  ASSUME NEW levels, NEW f
  PROVE  /\ IsConst(f) \/ f \in Below(levels, f)
         /\ IsFiniteSet(Below(levels, f))
         /\ f \in Diagrams => Below(levels, f) \subseteq Diagrams
<1> DEFINE Sets == {{levels[k] : k \in 0..l} : l \in DOMAIN levels}
           Left == UNION {{Fixing(f, vs, s) : s \in SUBSET vs} : vs \in Sets}
<1>0. \A vs, s : Fixing(f, vs, s) \in Diagrams
  BY DEF Fixing, Diagrams
<1>1. Left \in SUBSET Diagrams
  <2> HIDE DEF Sets
  <2> QED
    BY <1>0
<1>2. IsFiniteSet(Diagrams)
  <2>1. IsFiniteSet(Vars)
    BY FS_Interval, MaxVarsAssumption DEF Vars
  <2>2. IsFiniteSet(Assignments)
    BY <2>1, FS_SUBSET DEF Assignments
  <2> QED
    BY <2>2, FS_SUBSET DEF Diagrams
<1>3. Below(levels, f) = ({f} \cup Left) \ {Zero, One}
  BY DEF Below
<1> HIDE DEF Left
<1>4. IsFiniteSet(Left)
  BY <1>1, <1>2, FS_Subset
<1>5. IsFiniteSet({f} \cup Left)
  BY <1>4, FS_Singleton, FS_Union
<1>6. IsFiniteSet(Below(levels, f))
  BY <1>3, <1>5, FS_Subset
<1> QED
  BY <1>1, <1>3, <1>6 DEF IsConst

-----------------------------------------------------------------------------
(* The inductive invariant.                                                *)

(* What the program names are diagrams.                                    *)
NamesDiagrams ==
  /\ program \in Programs
  /\ object \in [Objects -> Diagrams \cup {Undeclared}]
  /\ temps \in Seq(Diagrams)
  /\ vector = [v \in Vectors |-> vector[v]]
  /\ \A v \in Vectors : vector[v] = NoVector \/ (vector[v] = Roots(Bits(v)) /\ Bits(v) \in Seq(Diagrams))
  /\ file = NoFile \/ file.nodenum \in Nat
  /\ table \subseteq Diagrams
  /\ ~ Running => table = {}

(* The local variables of bvec_map1, 2 and 3.                              *)
MapFits ==
  map # Nothing =>
    /\ Running
    /\ map = [of |-> "map", args |-> map.args, fun |-> map.fun, n |-> map.n, res |-> map.res]
    /\ map.args \in Seq(Built) /\ Len(map.args) \in {1, 2, 3}
    /\ Len(map.args) = 2 => map.fun \in Operators
    /\ map.res \in Seq(Diagrams) /\ map.n \in Nat /\ map.n # 0
    /\ map.res = << >> \/ \A i \in 1..Len(map.args) : Len(Bits(map.args[i])) = Len(map.res)

(* lh_table has been filled from its first slot on, n of its slots.        *)
HashFits(h, n, size) ==
  /\ h = [slot |-> h.slot, freepos |-> h.freepos]
  /\ h.slot = [i \in 0..(size - 1) |-> h.slot[i]]
  /\ \A i \in 0..(size - 1) :
       /\ h.slot[i] = [key |-> h.slot[i].key, data |-> h.slot[i].data,
                       first |-> h.slot[i].first, next |-> h.slot[i].next]
       /\ i < n => h.slot[i].data \in Diagrams
       /\ ~ (i < n) => /\ h.slot[i].data = Unwritten
                       /\ h.slot[i].next = IF i = size - 1 THEN -1 ELSE i + 1
  /\ n < size => h.freepos = n

(* The local variables of bdd_load.                                        *)
LoadFits ==
  load # Nothing =>
    /\ Running /\ file # NoFile
    /\ load = [of |-> "load", into |-> load.into, hash |-> load.hash, n |-> load.n,
               root |-> load.root, erred |-> load.erred]
    /\ load.into \in Declared
    /\ load.n \in 0..file.nodenum
    /\ HashFits(load.hash, load.n, file.nodenum)
    /\ load.root = Zero \/ \E i \in 0..(load.n - 1) : load.root = load.hash.slot[i].data

(* What is held is in the table.                                           *)
Alive == \A f \in Held : Pinned(f) \/ f \in table

Sound ==
  /\ NamesDiagrams /\ MapFits /\ LoadFits
  /\ Running => Matches(Holding, refs) /\ Alive

HandlesInv == ~ spoiled => Sound

-----------------------------------------------------------------------------
(* Places.                                                                 *)

(* No place is of two kinds.                                               *)
LEMMA Tags ==
  /\ \A h \in ObjectsHold : h[1] = "object"
  /\ \A h \in TempsHold   : h[1] = "temps"
  /\ \A h \in VectorsHold : h[1] = "vector"
  /\ \A h \in MapHolds    : h[1] = "map"
  /\ \A h \in LoadHolds   : h[1] = "load"
<1>1. \A h \in ObjectsHold : h[1] = "object"
  BY DEF ObjectsHold
<1>2. \A h \in TempsHold : h[1] = "temps"
  BY DEF TempsHold
<1>3. \A h \in VectorsHold : h[1] = "vector"
  BY DEF VectorsHold
<1>4. \A h \in MapHolds : h[1] = "map"
  BY DEF MapHolds
<1>5. \A h \in LoadHolds : h[1] = "load"
  BY DEF LoadHolds
<1> QED
  BY <1>1, <1>2, <1>3, <1>4, <1>5

(* What a step leaves alone holds what it held.                            *)
LEMMA KeptHold ==
  /\ object' = object => ObjectsHold' = ObjectsHold
  /\ temps' = temps => TempsHold' = TempsHold
  /\ vector' = vector => VectorsHold' = VectorsHold
  /\ map' = map => MapHolds' = MapHolds
  /\ load' = load => LoadHolds' = LoadHolds
<1>1. object' = object => ObjectsHold' = ObjectsHold
  BY DEF ObjectsHold, Declared
<1>2. temps' = temps => TempsHold' = TempsHold
  BY DEF TempsHold
<1>3. vector' = vector => VectorsHold' = VectorsHold
  BY DEF VectorsHold, Built, Bits
<1>4. map' = map => MapHolds' = MapHolds
  BY DEF MapHolds
<1>5. load' = load => LoadHolds' = LoadHolds
  BY DEF LoadHolds
<1> QED
  BY <1>1, <1>2, <1>3, <1>4, <1>5

(* What is held stays in the table when that loses nothing, and what comes *)
(* to be held was held already or is put there.                            *)
LEMMA AliveStep ==
  ASSUME Alive, table \subseteq table',
         \A h \in Holding' : h \in Holding \/ h[3] \in Held \/ Pinned(h[3]) \/ h[3] \in table'
  PROVE  Alive'
<1> SUFFICES ASSUME NEW h \in Holding' PROVE Pinned(h[3]) \/ h[3] \in table'
  BY DEF Alive, Held
<1>1. h \in Holding => h[3] \in Held
  BY DEF Held
<1> QED
  BY <1>1 DEF Alive

(* A call that does not run has no local variables.                        *)
LEMMA IdleFits == (map' = Nothing => MapFits') /\ (load' = Nothing => LoadFits')
  BY DEF MapFits, LoadFits

(* The invariant of the next state.                                        *)
LEMMA SoundStep ==
  ASSUME NamesDiagrams', MapFits', LoadFits', Running' => Matches(Holding', refs') /\ Alive'
  PROVE  Sound'
  BY DEF Sound

-----------------------------------------------------------------------------
(* References that change hands.                                           *)

(* A place for a pinned node needs no reference.                           *)
LEMMA PinnedMatches ==
  ASSUME NEW places, NEW m, Matches(places, m), NEW more, IsFiniteSet(more), \A h \in more : Pinned(h[3])
  PROVE  Matches(places \cup more, m)
<1> DEFINE all == places \cup more
<1>1. IsFiniteSet(places) /\ IsLedger(m) /\ \A g : Pinned(g) \/ Count(g, m) = Cardinality({h \in places : h[3] = g})
  BY DEF Matches, HoldersIn
<1>2. IsFiniteSet(all)
  BY <1>1, FS_Union
<1>3. ASSUME NEW g, ~ Pinned(g) PROVE {h \in all : h[3] = g} = {h \in places : h[3] = g}
  BY <1>3
<1>4. ASSUME NEW g, ~ Pinned(g) PROVE Count(g, m) = Cardinality({h \in all : h[3] = g})
  BY <1>1, <1>3, <1>4
<1> QED
  BY <1>1, <1>2, <1>4 DEF Matches, HoldersIn

(* One reference is given back and another taken.                          *)
LEMMA SwapMatches ==
  ASSUME Running, NEW places, NEW m, Matches(places, m), NEW p \in places, NEW q, q \notin places \ {p}
  PROVE  Matches((places \ {p}) \cup {q}, Take(q[3], Give(p[3], m)))
<1>1. PICK less : less = places \ {p}
  OBVIOUS
<1>2. PICK g : g = Give(p[3], m)
  OBVIOUS
<1>3. Matches(less, g)
  BY <1>1, <1>2, GiveMatches
<1>4. q \notin less
  BY <1>1
<1>5. Matches(less \cup {q}, Take(q[3], g))
  BY <1>3, <1>4, TakeMatches
<1> QED
  BY <1>1, <1>2, <1>5

(* bdd::operator=, which does nothing if both are the same node.           *)
LEMMA AssignedMatches ==
  ASSUME Running, NEW places, NEW m, Matches(places, m), NEW p \in places, NEW q, q \notin places \ {p},
         p[3] = q[3] => p = q
  PROVE  Matches((places \ {p}) \cup {q}, Assigned(p[3], q[3], m))
<1>1. CASE p[3] = q[3]
  <2>1. (places \ {p}) \cup {q} = places
    BY <1>1
  <2>2. Assigned(p[3], q[3], m) = m
    BY <1>1 DEF Assigned
  <2> QED
    BY <2>1, <2>2
<1>2. CASE p[3] # q[3]
  <2>1. Assigned(p[3], q[3], m) = Take(q[3], Give(p[3], m))
    BY <1>2 DEF Assigned
  <2> QED
    BY <2>1, SwapMatches
<1> QED
  BY <1>1, <1>2

(* The same through a temporary, which has a place of its own.             *)
LEMMA RootMatches ==
  ASSUME Running, NEW places, NEW m, Matches(places, m), NEW p \in places, NEW q, q \notin places \ {p},
         p[3] = q[3] => p = q, NEW t, t \notin places, t # q, t[3] = q[3]
  PROVE  Matches((places \ {p}) \cup {q}, Give(q[3], Assigned(p[3], q[3], Take(q[3], m))))
<1>1. PICK more : more = places \cup {t}
  OBVIOUS
<1>2. PICK a : a = Take(q[3], m)
  OBVIOUS
<1>3. Matches(more, a)
  <2>1. Matches(places \cup {t}, Take(t[3], m))
    BY TakeMatches
  <2> QED
    BY <1>1, <1>2, <2>1
<1>4. p \in more /\ q \notin more \ {p}
  BY <1>1
<1>5. PICK b : b = Assigned(p[3], q[3], a)
  OBVIOUS
<1>6. PICK now : now = (more \ {p}) \cup {q}
  OBVIOUS
<1>7. Matches(now, b)
  BY <1>3, <1>4, <1>5, <1>6, AssignedMatches
<1>8. t \in now /\ now \ {t} = (places \ {p}) \cup {q}
  BY <1>1, <1>6
<1>9. Matches(now \ {t}, Give(t[3], b))
  BY <1>7, <1>8, GiveMatches
<1> QED
  BY <1>2, <1>5, <1>8, <1>9

-----------------------------------------------------------------------------
(* What is held.                                                           *)

(* The slots of lh_table that have been filled.                            *)
LEMMA LoadedPlaces ==
  ASSUME LoadFits, NamesDiagrams, load # Nothing
  PROVE  /\ LoadedBy(load.hash) = 0..(load.n - 1)
         /\ LoadHolds = {<<"load", i, load.hash.slot[i].data>> : i \in 0..(load.n - 1)}
         /\ \A i \in 0..(load.n - 1) : load.hash.slot[i].data \in Diagrams
<1>1. PICK h, n, size : h = load.hash /\ n = load.n /\ size = file.nodenum
  OBVIOUS
<1>2. n \in 0..size /\ size \in Nat /\ HashFits(h, n, size)
  BY <1>1 DEF LoadFits, NamesDiagrams
<1>3. DOMAIN h.slot = 0..(size - 1)
  BY <1>2 DEF HashFits
<1>4. \A i \in 0..(size - 1) : /\ i < n => h.slot[i].data \in Diagrams
                               /\ ~ (i < n) => h.slot[i].data = Unwritten
  BY <1>2 DEF HashFits
<1>5. \A i \in 0..(n - 1) : i \in 0..(size - 1) /\ i < n
  BY <1>2
<1>6. \A i \in 0..(size - 1) : i < n => i \in 0..(n - 1)
  BY <1>2
<1>7. \A i \in 0..(n - 1) : h.slot[i].data \in Diagrams
  BY <1>4, <1>5
<1>8. LoadedBy(h) = 0..(n - 1)
  BY <1>3, <1>4, <1>5, <1>6, DiagramFacts DEF LoadedBy
<1> QED
  BY <1>1, <1>7, <1>8 DEF LoadHolds

(* Whatever is held is a diagram.                                          *)
LEMMA HeldDiagrams == NamesDiagrams /\ MapFits /\ LoadFits => Held \subseteq Diagrams
<1> SUFFICES ASSUME NamesDiagrams, MapFits, LoadFits, NEW h \in Holding PROVE h[3] \in Diagrams
  BY DEF Held
<1>1. CASE h \in ObjectsHold
  BY <1>1 DEF ObjectsHold, Declared, NamesDiagrams
<1>2. CASE h \in TempsHold
  <2>1. \A i \in DOMAIN temps : temps[i] \in Diagrams
    BY DEF NamesDiagrams
  <2> QED
    BY <1>2, <2>1 DEF TempsHold
<1>3. CASE h \in VectorsHold
  <2>0. PICK v \in Built : \E i \in DOMAIN Bits(v) : h = <<"vector", <<v, i>>, Bits(v)[i]>>
    BY <1>3 DEF VectorsHold
  <2>1. PICK i \in DOMAIN Bits(v) : h = <<"vector", <<v, i>>, Bits(v)[i]>>
    BY <2>0
  <2>2. Bits(v) \in Seq(Diagrams)
    BY DEF Built, NamesDiagrams
  <2>3. Bits(v)[i] \in Diagrams
    BY <2>1, <2>2
  <2> QED
    BY <2>1, <2>3
<1>4. CASE h \in MapHolds
  <2>1. map # Nothing /\ map.res \in Seq(Diagrams)
    BY <1>4 DEF MapHolds, MapFits
  <2>2. \A i \in DOMAIN map.res : map.res[i] \in Diagrams
    BY <2>1
  <2> QED
    BY <1>4, <2>1, <2>2 DEF MapHolds
<1>5. CASE h \in LoadHolds
  <2>1. load # Nothing
    BY <1>5 DEF LoadHolds
  <2> QED
    BY <1>5, <2>1, LoadedPlaces
<1> QED
  BY <1>1, <1>2, <1>3, <1>4, <1>5 DEF Holding

(* The values of a function on a finite set.                               *)
LEMMA FiniteImage ==
  ASSUME NEW S, IsFiniteSet(S), NEW f, NEW T, T = {f[x] : x \in S}
  PROVE  IsFiniteSet(T)
<1> DEFINE g == [x \in S |-> f[x]]
<1>1. g \in Surjection(S, T)
  BY DEF Surjection
<1> QED
  BY <1>1, FS_Surjection

(* There are finitely many places.                                         *)
LEMMA HoldingFinite == NamesDiagrams /\ MapFits /\ LoadFits => IsFiniteSet(Holding)
<1> SUFFICES ASSUME NamesDiagrams, MapFits, LoadFits PROVE IsFiniteSet(Holding)
  OBVIOUS
<1>1. IsFiniteSet(ObjectsHold)
  <2>1. IsFiniteSet(Declared)
    BY FS_Subset, HandlesPlaces DEF Declared
  <2> QED
    <3> DEFINE f == [o \in Declared |-> <<"object", o, object[o]>>]
    <3>1. ObjectsHold = {f[o] : o \in Declared}
      BY DEF ObjectsHold
    <3> HIDE DEF f
    <3> QED
      BY <2>1, <3>1, FiniteImage
<1>2. ASSUME NEW s \in Seq(Diagrams) PROVE IsFiniteSet(DOMAIN s)
  <2>1. Len(s) \in Nat /\ DOMAIN s = 1..Len(s)
    OBVIOUS
  <2> QED
    BY <2>1, FS_Interval
<1>3. IsFiniteSet(TempsHold)
  <2>1. IsFiniteSet(DOMAIN temps)
    BY <1>2 DEF NamesDiagrams
  <2> QED
    <3> DEFINE f == [i \in DOMAIN temps |-> <<"temps", i, temps[i]>>]
    <3>1. TempsHold = {f[i] : i \in DOMAIN temps}
      BY DEF TempsHold
    <3> HIDE DEF f
    <3> QED
      BY <2>1, <3>1, FiniteImage
<1>4. IsFiniteSet(VectorsHold)
  <2> DEFINE of(v) == {<<"vector", <<v, i>>, Bits(v)[i]>> : i \in DOMAIN Bits(v)}
  <2>1. IsFiniteSet(Built)
    BY FS_Subset, HandlesPlaces DEF Built
  <2>2. ASSUME NEW v \in Built PROVE IsFiniteSet(of(v))
    <3>1. Bits(v) \in Seq(Diagrams)
      BY DEF Built, NamesDiagrams
    <3>2. IsFiniteSet(DOMAIN Bits(v))
      BY <1>2, <3>1
    <3> QED
      <4> DEFINE f == [i \in DOMAIN Bits(v) |-> <<"vector", <<v, i>>, Bits(v)[i]>>]
      <4>1. of(v) = {f[i] : i \in DOMAIN Bits(v)}
        OBVIOUS
      <4> HIDE DEF f, of
      <4> QED
        BY <3>2, <4>1, FiniteImage
  <2>3. VectorsHold = UNION {of(v) : v \in Built}
    BY DEF VectorsHold
  <2> HIDE DEF of
  <2>4. IsFiniteSet({of(v) : v \in Built})
    <3> DEFINE f == [v \in Built |-> of(v)]
    <3>1. {of(v) : v \in Built} = {f[v] : v \in Built}
      OBVIOUS
    <3> HIDE DEF f
    <3> QED
      BY <2>1, <3>1, FiniteImage
  <2> QED
    BY <2>2, <2>3, <2>4, FS_UNION
<1>5. IsFiniteSet(MapHolds)
  <2>1. CASE map = Nothing
    BY <2>1, FS_EmptySet DEF MapHolds
  <2>2. CASE map # Nothing
    <3>1. IsFiniteSet(DOMAIN map.res)
      BY <1>2, <2>2 DEF MapFits
    <3>2. MapHolds = {<<"map", i, map.res[i]>> : i \in DOMAIN map.res}
      BY <2>2 DEF MapHolds
    <3> QED
      <4> DEFINE f == [i \in DOMAIN map.res |-> <<"map", i, map.res[i]>>]
      <4>1. MapHolds = {f[i] : i \in DOMAIN map.res}
        BY <3>2
      <4> HIDE DEF f
      <4> QED
        BY <3>1, <4>1, FiniteImage
  <2> QED
    BY <2>1, <2>2
<1>6. IsFiniteSet(LoadHolds)
  <2>1. CASE load = Nothing
    BY <2>1, FS_EmptySet DEF LoadHolds
  <2>2. CASE load # Nothing
    <3>1. load.n \in Int
      BY <2>2 DEF LoadFits, NamesDiagrams
    <3>2. IsFiniteSet(0..(load.n - 1))
      BY <3>1, FS_Interval
    <3> QED
      <4> DEFINE f == [i \in 0..(load.n - 1) |-> <<"load", i, load.hash.slot[i].data>>]
      <4>1. LoadHolds = {f[i] : i \in 0..(load.n - 1)}
        BY <2>2, LoadedPlaces
      <4> HIDE DEF f
      <4> QED
        BY <3>2, <4>1, FiniteImage
  <2> QED
    BY <2>1, <2>2
<1>7. IsFiniteSet(ObjectsHold \cup TempsHold)
  BY <1>1, <1>3, FS_Union
<1>8. IsFiniteSet((ObjectsHold \cup TempsHold) \cup VectorsHold)
  BY <1>4, <1>7, FS_Union
<1>9. IsFiniteSet(((ObjectsHold \cup TempsHold) \cup VectorsHold) \cup MapHolds)
  BY <1>5, <1>8, FS_Union
<1>10. IsFiniteSet((((ObjectsHold \cup TempsHold) \cup VectorsHold) \cup MapHolds) \cup LoadHolds)
  BY <1>6, <1>9, FS_Union
<1> QED
  BY <1>10 DEF Holding

-----------------------------------------------------------------------------
(* Objects and temporaries that change.                                    *)

(* One place of an object for another.                                     *)
AssignedHold(p, q) ==
  /\ ObjectsHold' = (ObjectsHold \ {p}) \cup {q}
  /\ p \in ObjectsHold /\ p \in Holding /\ q \notin Holding \ {p} /\ (p[3] = q[3] => p = q)

(* A variable that is alive names another node.                            *)
LEMMA ObjectAssigned ==
  ASSUME NamesDiagrams, NEW o \in Declared, NEW f \in Diagrams, object' = [object EXCEPT ![o] = f]
  PROVE  /\ AssignedHold(<<"object", o, object[o]>>, <<"object", o, f>>)
         /\ object' \in [Objects -> Diagrams \cup {Undeclared}] /\ Declared' = Declared
<1>0. PICK p, q : p = <<"object", o, object[o]>> /\ q = <<"object", o, f>>
  OBVIOUS
<1>1. object \in [Objects -> Diagrams \cup {Undeclared}] /\ o \in Objects
  BY DEF NamesDiagrams, Declared
<1>2. object' \in [Objects -> Diagrams \cup {Undeclared}]
  BY <1>1
<1>3. f # Undeclared
  BY DiagramFacts
<1>4. \A x \in Objects : object'[x] = IF x = o THEN f ELSE object[x]
  BY <1>1
<1>5. Declared' = Declared
  BY <1>3, <1>4 DEF Declared
<1>6. \A h : h \in ObjectsHold <=> \E x \in Declared : h = <<"object", x, object[x]>>
  BY DEF ObjectsHold
<1>7. \A h : h \in ObjectsHold' <=> \E x \in Declared : h = <<"object", x, object'[x]>>
  BY <1>5 DEF ObjectsHold
<1>8. \A x \in Declared : x \in Objects
  BY DEF Declared
<1>9. ObjectsHold' = (ObjectsHold \ {p}) \cup {q}
  BY <1>0, <1>4, <1>6, <1>7, <1>8
<1>10. p \in ObjectsHold
  BY <1>0, <1>6
<1>11. q \notin Holding \ {p}
  <2>1. \A h \in Holding : h[1] = "object" => h \in ObjectsHold
    BY Tags DEF Holding
  <2>2. q[1] = "object"
    BY <1>0
  <2>3. q \in ObjectsHold => q = p
    BY <1>0, <1>6
  <2> QED
    BY <2>1, <2>2, <2>3
<1> QED
  <2>1. AssignedHold(p, q)
    BY <1>0, <1>9, <1>10, <1>11 DEF AssignedHold, Holding
  <2> QED
    BY <1>0, <1>2, <1>5, <2>1

(* A variable that was not alive is now.                                   *)
LEMMA ObjectBuilt ==
  ASSUME NamesDiagrams, NEW o \in Objects \ Declared, NEW f \in Diagrams, object' = [object EXCEPT ![o] = f],
         NEW q, q = <<"object", o, f>>
  PROVE  /\ ObjectsHold' = ObjectsHold \cup {q} /\ q \notin Holding
         /\ object' \in [Objects -> Diagrams \cup {Undeclared}]
<1>1. object \in [Objects -> Diagrams \cup {Undeclared}]
  BY DEF NamesDiagrams
<1>2. object' \in [Objects -> Diagrams \cup {Undeclared}]
  BY <1>1
<1>3. f # Undeclared
  BY DiagramFacts
<1>4. \A x \in Objects : object'[x] = IF x = o THEN f ELSE object[x]
  BY <1>1
<1>5. Declared' = Declared \cup {o}
  BY <1>3, <1>4 DEF Declared
<1>6. \A h : h \in ObjectsHold <=> \E x \in Declared : h = <<"object", x, object[x]>>
  BY DEF ObjectsHold
<1>7. \A h : h \in ObjectsHold' <=> \E x \in Declared' : h = <<"object", x, object'[x]>>
  BY DEF ObjectsHold
<1>8. \A x \in Declared : x \in Objects /\ x # o
  BY DEF Declared
<1>9. ObjectsHold' = ObjectsHold \cup {q}
  BY <1>4, <1>5, <1>6, <1>7, <1>8
<1>10. q \notin Holding
  <2>1. \A h \in Holding : h[1] = "object" => h \in ObjectsHold
    BY Tags DEF Holding
  <2>2. q[1] = "object" /\ q \notin ObjectsHold
    BY <1>6, <1>8
  <2> QED
    BY <2>1, <2>2
<1> QED
  BY <1>2, <1>9, <1>10

(* A variable is destroyed.                                                *)
LEMMA ObjectGone ==
  ASSUME NamesDiagrams, NEW o \in Declared, object' = [object EXCEPT ![o] = Undeclared],
         NEW p, p = <<"object", o, object[o]>>
  PROVE  /\ ObjectsHold' = ObjectsHold \ {p} /\ p \in ObjectsHold
         /\ object' \in [Objects -> Diagrams \cup {Undeclared}]
<1>1. object \in [Objects -> Diagrams \cup {Undeclared}] /\ o \in Objects
  BY DEF NamesDiagrams, Declared
<1>2. object' \in [Objects -> Diagrams \cup {Undeclared}]
  BY <1>1
<1>4. \A x \in Objects : object'[x] = IF x = o THEN Undeclared ELSE object[x]
  BY <1>1
<1>5. Declared' = Declared \ {o}
  BY <1>4 DEF Declared
<1>6. \A h : h \in ObjectsHold <=> \E x \in Declared : h = <<"object", x, object[x]>>
  BY DEF ObjectsHold
<1>7. \A h : h \in ObjectsHold' <=> \E x \in Declared' : h = <<"object", x, object'[x]>>
  BY DEF ObjectsHold
<1>8. \A x \in Declared : x \in Objects
  BY DEF Declared
<1>9. ObjectsHold' = ObjectsHold \ {p}
  BY <1>4, <1>5, <1>6, <1>7, <1>8
<1> QED
  BY <1>2, <1>6, <1>9

(* One temporary more.                                                     *)
LEMMA TempBuilt ==
  ASSUME NamesDiagrams, NEW f \in Diagrams, temps' = Append(temps, f),
         NEW t, t = <<"temps", Len(temps) + 1, f>>
  PROVE  TempsHold' = TempsHold \cup {t} /\ t \notin Holding /\ temps' \in Seq(Diagrams)
<1>1. PICK s \in Seq(Diagrams) : s = temps
  BY DEF NamesDiagrams
<1>2. PICK n \in Nat : n = Len(s)
  OBVIOUS
<1>3. /\ Append(s, f) \in Seq(Diagrams) /\ DOMAIN Append(s, f) = 1..(n + 1) /\ DOMAIN s = 1..n
      /\ \A i \in 1..n : Append(s, f)[i] = s[i]
      /\ Append(s, f)[n + 1] = f
  BY <1>2
<1>4. PICK r : r = Append(s, f)
  OBVIOUS
<1>5. \A h : h \in TempsHold <=> \E i \in 1..n : h = <<"temps", i, s[i]>>
  BY <1>1, <1>3 DEF TempsHold
<1>6. \A h : h \in TempsHold' <=> \E i \in 1..(n + 1) : h = <<"temps", i, r[i]>>
  BY <1>1, <1>3, <1>4 DEF TempsHold
<1>7. \A i \in 1..(n + 1) : i \in 1..n \/ i = n + 1
  OBVIOUS
<1>8. n + 1 \in 1..(n + 1) /\ \A i \in 1..n : i \in 1..(n + 1) /\ i # n + 1
  OBVIOUS
<1>9. TempsHold' = TempsHold \cup {t}
  BY <1>1, <1>2, <1>3, <1>4, <1>5, <1>6, <1>7, <1>8
<1>10. t \notin TempsHold
  BY <1>1, <1>2, <1>5, <1>8
<1>11. t \notin Holding
  <2>1. \A h \in Holding : h[1] = "temps" => h \in TempsHold
    BY Tags DEF Holding
  <2> QED
    BY <1>10, <2>1
<1> QED
  BY <1>1, <1>3, <1>9, <1>11

(* The diagrams that variables and temporaries name.                       *)
LEMMA NamedDiagrams ==
  ASSUME NamesDiagrams, NEW f \in {object[p] : p \in Declared} \cup ToSet(temps)
  PROVE  f \in Diagrams /\ f \in Held
<1>1. CASE f \in {object[p] : p \in Declared}
  <2>1. PICK o \in Declared : f = object[o]
    BY <1>1
  <2>2. <<"object", o, f>> \in Holding
    BY <2>1 DEF ObjectsHold, Holding
  <2>3. f \in Diagrams
    BY <2>1 DEF Declared, NamesDiagrams
  <2> QED
    BY <2>2, <2>3 DEF Held
<1>2. CASE f \in ToSet(temps)
  <2>1. PICK i \in DOMAIN temps : f = temps[i]
    BY <1>2 DEF ToSet
  <2>2. <<"temps", i, f>> \in Holding
    BY <2>1 DEF TempsHold, Holding
  <2>3. f \in Diagrams
    BY <2>1 DEF NamesDiagrams
  <2> QED
    BY <2>2, <2>3 DEF Held
<1> QED
  BY <1>1, <1>2

-----------------------------------------------------------------------------
(* Steps of class bdd.                                                     *)

(* A step that leaves the package, the vectors and the file as they are.   *)
LEMMA NamesKept ==
  ASSUME NamesDiagrams, UNCHANGED <<program, phase, vector, file>>, table' \subseteq Diagrams,
         Running \/ table' = table,
         object' \in [Objects -> Diagrams \cup {Undeclared}], temps' \in Seq(Diagrams)
  PROVE  NamesDiagrams'
  BY DEF NamesDiagrams, Bits, Running

(* ~bdd(void) of each temporary.                                           *)
LEMMA EndStatementSound == ASSUME Sound, EndStatement PROVE Sound'
<1>1. /\ refs' = GiveAll(temps, refs) /\ temps' = << >> /\ Quiet
      /\ UNCHANGED <<program, phase, table, object, vector, map, load, file>>
  BY DEF EndStatement, tableVars, io
<1>2. NamesDiagrams
  BY DEF Sound
<1>3. NamesDiagrams'
  <2>1. temps' \in Seq(Diagrams)
    BY <1>1
  <2>2. object' \in [Objects -> Diagrams \cup {Undeclared}] /\ table' \subseteq Diagrams
    BY <1>1, <1>2 DEF NamesDiagrams
  <2> QED
    BY <1>1, <1>2, <2>1, <2>2, NamesKept
<1>4. MapFits' /\ LoadFits'
  BY <1>1, IdleFits DEF Quiet
<1>5. ASSUME Running PROVE Matches(Holding', refs') /\ Alive'
  <2>1. Matches(Holding, refs) /\ Alive
    BY <1>5 DEF Sound
  <2>2. PICK n \in Nat : n = Len(temps) /\ DOMAIN temps = 1..n
    BY <1>2 DEF NamesDiagrams
  <2> DEFINE q == [i \in 1..n |-> <<"temps", i, temps[i]>>]
  <2>3. AreAt(q, temps, n)
    BY DEF AreAt
  <2>4. At(q, n) = TempsHold
    BY <2>2 DEF At, TempsHold
  <2>5. \A i \in 1..n : q[i] \in Holding
    BY <2>2 DEF TempsHold, Holding
  <2> HIDE DEF q
  <2>6. Matches(Holding \ TempsHold, refs')
    <3>1. Matches(Holding \ At(q, n), GiveAll(temps, refs))
      BY <1>5, <2>1, <2>2, <2>3, <2>5, GiveAllMatches
    <3> QED
      BY <1>1, <2>4, <3>1
  <2>7. TempsHold' = {}
    BY <1>1 DEF TempsHold
  <2>8. Holding' = Holding \ TempsHold
    BY <1>1, <2>7, KeptHold, Tags DEF Holding
  <2>9. Alive'
    BY <1>1, <2>1, <2>8, AliveStep
  <2> QED
    BY <2>6, <2>8, <2>9
<1> QED
  BY <1>1, <1>3, <1>4, <1>5, SoundStep DEF Running

(* bdd(void).                                                              *)
LEMMA DeclareSound == ASSUME Sound, Declare PROVE Sound'
<1>1. /\ Quiet /\ UNCHANGED <<program, phase, table, refs, temps, vector, map, load, file>>
      /\ \E o \in Objects \ Declared : object' = [object EXCEPT ![o] = Zero]
  BY DEF Declare, Asks, Step, tableVars, io
<1>2. NamesDiagrams
  BY DEF Sound
<1>3. PICK o \in Objects \ Declared : object' = [object EXCEPT ![o] = Zero]
  BY <1>1
<1>4. PICK q : q = <<"object", o, Zero>>
  OBVIOUS
<1>5. ObjectsHold' = ObjectsHold \cup {q} /\ object' \in [Objects -> Diagrams \cup {Undeclared}]
  BY <1>2, <1>3, <1>4, ObjectBuilt, DiagramFacts
<1>6. NamesDiagrams'
  <2>1. temps' \in Seq(Diagrams) /\ table' \subseteq Diagrams
    BY <1>1, <1>2 DEF NamesDiagrams
  <2> QED
    BY <1>1, <1>2, <1>5, <2>1, NamesKept
<1>7. MapFits' /\ LoadFits'
  BY <1>1, IdleFits DEF Quiet
<1>8. ASSUME Running PROVE Matches(Holding', refs') /\ Alive'
  <2>1. Matches(Holding, refs) /\ Alive
    BY <1>8 DEF Sound
  <2>2. Holding' = Holding \cup {q}
    BY <1>1, <1>5, KeptHold DEF Holding
  <2>3. Pinned(q[3])
    BY <1>4, DiagramFacts
  <2>4. Matches(Holding \cup {q}, refs)
    BY <2>1, <2>3, FS_Singleton, PinnedMatches
  <2>5. Alive'
    BY <1>1, <2>1, <2>2, <2>3, AliveStep
  <2> QED
    BY <1>1, <2>2, <2>4, <2>5
<1> QED
  BY <1>1, <1>6, <1>7, <1>8, SoundStep DEF Running

(* bdd(const bdd &).                                                       *)
LEMMA CopyConstructSound == ASSUME Sound, CopyConstruct PROVE Sound'
<1>1. /\ Quiet /\ UNCHANGED <<program, phase, table, temps, vector, map, load, file>>
      /\ \E o \in Objects \ Declared, f \in {object[p] : p \in Declared} \cup ToSet(temps) :
           object' = [object EXCEPT ![o] = f] /\ refs' = Copied(f, refs)
  BY DEF CopyConstruct, Asks, Step, tableVars, io
<1>2. NamesDiagrams
  BY DEF Sound
<1>3. PICK o \in Objects \ Declared, f \in {object[p] : p \in Declared} \cup ToSet(temps) :
           object' = [object EXCEPT ![o] = f] /\ refs' = Take(f, refs)
  BY <1>1 DEF Copied
<1>4. PICK q : q = <<"object", o, f>>
  OBVIOUS
<1>0. f \in Diagrams /\ f \in Held
  BY <1>2, NamedDiagrams
<1>5. ObjectsHold' = ObjectsHold \cup {q} /\ object' \in [Objects -> Diagrams \cup {Undeclared}] /\ q \notin Holding
  BY <1>0, <1>2, <1>3, <1>4, ObjectBuilt
<1>6. NamesDiagrams'
  <2>1. temps' \in Seq(Diagrams) /\ table' \subseteq Diagrams
    BY <1>1, <1>2 DEF NamesDiagrams
  <2> QED
    BY <1>1, <1>2, <1>5, <2>1, NamesKept
<1>7. MapFits' /\ LoadFits'
  BY <1>1, IdleFits DEF Quiet
<1>8. ASSUME Running PROVE Matches(Holding', refs') /\ Alive'
  <2>1. Matches(Holding, refs) /\ Alive
    BY <1>8 DEF Sound
  <2>2. Holding' = Holding \cup {q}
    BY <1>1, <1>5, KeptHold DEF Holding
  <2>3. q[3] = f
    BY <1>4
  <2>4. Matches(Holding \cup {q}, refs')
    BY <1>3, <1>5, <1>8, <2>1, <2>3, TakeMatches
  <2>5. Alive'
    BY <1>0, <1>1, <2>1, <2>2, <2>3, AliveStep
  <2> QED
    BY <2>2, <2>4, <2>5
<1> QED
  BY <1>1, <1>6, <1>7, <1>8, SoundStep DEF Running

(* ~bdd(void).                                                             *)
LEMMA DestroySound == ASSUME Sound, Destroy PROVE Sound'
<1>1. /\ Quiet /\ UNCHANGED <<program, phase, table, temps, vector, map, load, file>>
      /\ \E o \in Declared : refs' = Give(object[o], refs) /\ object' = [object EXCEPT ![o] = Undeclared]
  BY DEF Destroy, Asks, Step, tableVars, io
<1>2. NamesDiagrams
  BY DEF Sound
<1>3. PICK o \in Declared : refs' = Give(object[o], refs) /\ object' = [object EXCEPT ![o] = Undeclared]
  BY <1>1
<1>4. PICK p : p = <<"object", o, object[o]>>
  OBVIOUS
<1>5. ObjectsHold' = ObjectsHold \ {p} /\ p \in ObjectsHold /\ object' \in [Objects -> Diagrams \cup {Undeclared}]
  BY <1>2, <1>3, <1>4, ObjectGone
<1>6. NamesDiagrams'
  <2>1. temps' \in Seq(Diagrams) /\ table' \subseteq Diagrams
    BY <1>1, <1>2 DEF NamesDiagrams
  <2> QED
    BY <1>1, <1>2, <1>5, <2>1, NamesKept
<1>7. MapFits' /\ LoadFits'
  BY <1>1, IdleFits DEF Quiet
<1>8. ASSUME Running PROVE Matches(Holding', refs') /\ Alive'
  <2>1. Matches(Holding, refs) /\ Alive
    BY <1>8 DEF Sound
  <2>2. Holding' = Holding \ {p} /\ p \in Holding
    BY <1>1, <1>5, KeptHold, Tags DEF Holding
  <2>3. p[3] = object[o]
    BY <1>4
  <2>4. Matches(Holding \ {p}, refs')
    BY <1>3, <1>8, <2>1, <2>2, <2>3, GiveMatches
  <2>5. Alive'
    BY <1>1, <2>1, <2>2, AliveStep
  <2> QED
    BY <2>2, <2>4, <2>5
<1> QED
  BY <1>1, <1>6, <1>7, <1>8, SoundStep DEF Running

(* bdd::operator=.                                                         *)
LEMMA AssignSound == ASSUME Sound, Assign PROVE Sound'
<1>1. /\ Quiet /\ UNCHANGED <<program, phase, table, vector, map, load, file>>
      /\ \E o \in Declared, f \in {object[p] : p \in Declared} \cup ToSet(temps) :
           /\ refs' = Copied(f, Assigned(object[o], f, refs)) /\ object' = [object EXCEPT ![o] = f]
           /\ temps' = Append(temps, f)
  BY DEF Assign, Asks, Step, tableVars, io
<1>2. NamesDiagrams
  BY DEF Sound
<1>3. PICK o \in Declared, f \in {object[p] : p \in Declared} \cup ToSet(temps) :
           /\ refs' = Take(f, Assigned(object[o], f, refs)) /\ object' = [object EXCEPT ![o] = f]
           /\ temps' = Append(temps, f)
  BY <1>1 DEF Copied
<1>4. PICK p, q, t : p = <<"object", o, object[o]>> /\ q = <<"object", o, f>> /\ t = <<"temps", Len(temps) + 1, f>>
  OBVIOUS
<1>0. f \in Diagrams /\ f \in Held
  BY <1>2, NamedDiagrams
<1>5. /\ ObjectsHold' = (ObjectsHold \ {p}) \cup {q} /\ object' \in [Objects -> Diagrams \cup {Undeclared}]
      /\ p \in ObjectsHold /\ p \in Holding /\ q \notin Holding \ {p} /\ (p[3] = q[3] => p = q)
  <2>1. object' = [object EXCEPT ![o] = f]
    BY <1>3
  <2>2. /\ AssignedHold(<<"object", o, object[o]>>, <<"object", o, f>>)
        /\ object' \in [Objects -> Diagrams \cup {Undeclared}]
    BY <1>0, <1>2, <2>1, ObjectAssigned
  <2> QED
    BY <1>4, <2>2 DEF AssignedHold
<1>9. TempsHold' = TempsHold \cup {t} /\ t \notin Holding /\ temps' \in Seq(Diagrams)
  BY <1>0, <1>2, <1>3, <1>4, TempBuilt
<1>6. NamesDiagrams'
  <2>1. table' \subseteq Diagrams
    BY <1>1, <1>2 DEF NamesDiagrams
  <2> QED
    BY <1>1, <1>2, <1>5, <1>9, <2>1, NamesKept
<1>7. MapFits' /\ LoadFits'
  BY <1>1, IdleFits DEF Quiet
<1>8. ASSUME Running PROVE Matches(Holding', refs') /\ Alive'
  <2>1. Matches(Holding, refs) /\ Alive
    BY <1>8 DEF Sound
  <2>2. PICK now : now = (Holding \ {p}) \cup {q}
    OBVIOUS
  <2>3. Holding' = now \cup {t}
    BY <1>1, <1>5, <1>9, <2>2, KeptHold, Tags DEF Holding
  <2>4. p[3] = object[o] /\ q[3] = f /\ t[3] = f /\ t # q
    BY <1>4
  <2>5. PICK m : m = Assigned(object[o], f, refs)
    OBVIOUS
  <2>6. Matches(now, m)
    <3>1. Matches((Holding \ {p}) \cup {q}, Assigned(p[3], q[3], refs))
      BY <1>5, <1>8, <2>1, AssignedMatches
    <3> QED
      BY <2>2, <2>4, <2>5, <3>1
  <2>7. t \notin now
    BY <1>9, <2>2, <2>4
  <2>8. Matches(now \cup {t}, refs')
    BY <1>3, <1>8, <2>4, <2>5, <2>6, <2>7, TakeMatches
  <2>9. Alive'
    BY <1>0, <1>1, <2>1, <2>2, <2>3, <2>4, AliveStep
  <2> QED
    BY <2>3, <2>8, <2>9
<1> QED
  BY <1>1, <1>6, <1>7, <1>8, SoundStep DEF Running

(* A C++ operator, whose result becomes a temporary.                       *)
LEMMA EvaluateSound == ASSUME Sound, Evaluate PROVE Sound'
<1>1. /\ Quiet /\ Running /\ UNCHANGED <<program, phase, object, vector, map, load, file>>
      /\ \E operator \in program.operators,
            l, r \in {object[p] : p \in Declared} \cup ToSet(temps)
                  \cup {Ithvar(v) : v \in program.literals \cap VarsOf(order)} :
           \E f \in {Opr(OprOf(operator), l, r), Zero} :
             Made(f) /\ refs' = Take(f, refs) /\ temps' = Append(temps, f)
  BY DEF Evaluate, Asks, Step, io
<1>2. NamesDiagrams
  BY DEF Sound
<1>3. PICK f \in Diagrams : Made(f) /\ refs' = Take(f, refs) /\ temps' = Append(temps, f)
  <2> DEFINE Given == {object[p] : p \in Declared} \cup ToSet(temps)
                        \cup {Ithvar(v) : v \in program.literals \cap VarsOf(order)}
  <2>1. PICK operator \in program.operators, l \in Given, r \in Given :
          \E f \in {Opr(OprOf(operator), l, r), Zero} :
             Made(f) /\ refs' = Take(f, refs) /\ temps' = Append(temps, f)
    BY <1>1
  <2>2. Given \subseteq Diagrams
    BY <1>2, NamedDiagrams, DiagramFacts
  <2>3. operator \in Operators
    BY <1>2, HandlesPrograms DEF NamesDiagrams, IsProgram
  <2> HIDE DEF Given
  <2>4. Opr(OprOf(operator), l, r) \in Diagrams
    BY <2>2, <2>3, OperatorMakes
  <2> QED
    BY <2>1, <2>4, DiagramFacts
<1>4. PICK t : t = <<"temps", Len(temps) + 1, f>>
  OBVIOUS
<1>5. TempsHold' = TempsHold \cup {t} /\ t \notin Holding /\ temps' \in Seq(Diagrams)
  BY <1>2, <1>3, <1>4, TempBuilt
<1>0. table' = table \cup Below(order, f) /\ (IsConst(f) \/ f \in table') /\ table' \subseteq Diagrams
  BY <1>2, <1>3, BelowFacts DEF Made, NamesDiagrams
<1>6. NamesDiagrams'
  <2>1. object' \in [Objects -> Diagrams \cup {Undeclared}]
    BY <1>1, <1>2 DEF NamesDiagrams
  <2> QED
    BY <1>0, <1>1, <1>2, <1>5, <2>1, NamesKept
<1>7. MapFits' /\ LoadFits'
  BY <1>1, IdleFits DEF Quiet
<1>8. Matches(Holding', refs') /\ Alive'
  <2>1. Matches(Holding, refs) /\ Alive
    BY <1>1 DEF Sound
  <2>2. Holding' = Holding \cup {t}
    BY <1>1, <1>5, KeptHold DEF Holding
  <2>3. t[3] = f
    BY <1>4
  <2>4. Matches(Holding \cup {t}, refs')
    BY <1>1, <1>3, <1>5, <2>1, <2>3, TakeMatches
  <2>5. Pinned(f) \/ f \in table'
    BY <1>0 DEF Pinned
  <2>6. Alive'
    BY <1>0, <2>1, <2>2, <2>3, <2>5, AliveStep
  <2> QED
    BY <2>2, <2>4, <2>6
<1> QED
  BY <1>6, <1>7, <1>8, SoundStep

-----------------------------------------------------------------------------
(* Vectors that change.                                                    *)

BitPlaces(v, s) == {<<"vector", <<v, i>>, s[i]>> : i \in DOMAIN s}

IsVectors ==
  /\ vector = [v \in Vectors |-> vector[v]]
  /\ \A v \in Vectors : vector[v] = NoVector \/ (vector[v] = Roots(Bits(v)) /\ Bits(v) \in Seq(Diagrams))

(* A vector and none are two things.                                       *)
LEMMA VectorOrNone ==
  ASSUME NEW s
  PROVE  Roots(s) # NoVector /\ Roots(s).bits = s
<1>1. DOMAIN Roots(s) = {"bits"} /\ DOMAIN NoVector = {"gone"}
  BY DEF Roots, NoVector
<1>2. "bits" # "gone"
  OBVIOUS
<1>3. Roots(s).bits = s
  BY DEF Roots
<1> QED
  BY <1>1, <1>2, <1>3

(* The places of a vector, if it is there.                                 *)
OldPlaces(v) == IF v \in Built THEN BitPlaces(v, Bits(v)) ELSE {}

(* Places of a vector for those it had.                                    *)
BuiltHold(v, s, old) ==
  /\ VectorsHold' = (VectorsHold \ old) \cup BitPlaces(v, s)
  /\ old \subseteq VectorsHold /\ \A q \in BitPlaces(v, s) : q \notin Holding \ old
  /\ IsVectors' /\ Built' = Built \cup {v}

(* A vector is there now, with the bits of s.                              *)
LEMMA VectorBuilt ==
  ASSUME NamesDiagrams, NEW v \in Vectors, NEW s \in Seq(Diagrams), vector' = [vector EXCEPT ![v] = Roots(s)]
  PROVE  BuiltHold(v, s, OldPlaces(v))
<1>0. PICK old : old = OldPlaces(v)
  OBVIOUS
<1>1. vector = [x \in Vectors |-> vector[x]]
      /\ \A x \in Vectors : vector[x] = NoVector \/ (vector[x] = Roots(Bits(x)) /\ Bits(x) \in Seq(Diagrams))
  BY DEF NamesDiagrams
<1>2. vector' = [x \in Vectors |-> vector'[x]] /\ \A x \in Vectors : vector'[x] = IF x = v THEN Roots(s) ELSE vector[x]
  BY <1>1
<1>3. Built' = Built \cup {v}
  BY <1>2, VectorOrNone DEF Built
<1>4. \A x \in Vectors : Bits(x)' = IF x = v THEN s ELSE Bits(x)
  BY <1>2, VectorOrNone DEF Bits
<1>5. IsVectors'
  BY <1>1, <1>2, <1>4 DEF IsVectors
<1>6. \A h : h \in VectorsHold <=> \E x \in Built : h \in BitPlaces(x, Bits(x))
  BY DEF VectorsHold, BitPlaces
<1>7. \A h : h \in VectorsHold' <=> \E x \in Built' : h \in BitPlaces(x, Bits(x)')
  BY DEF VectorsHold, BitPlaces
<1>8. \A x, r : \A h \in BitPlaces(x, r) : h[1] = "vector" /\ h[2][1] = x
  BY DEF BitPlaces
<1>9. \A x \in Built : x \in Vectors
  BY DEF Built
<1>10. \A h \in VectorsHold : h \in old <=> h[2][1] = v
  BY <1>0, <1>6, <1>8 DEF OldPlaces
<1>11. VectorsHold' = (VectorsHold \ old) \cup BitPlaces(v, s)
  <2>1. ASSUME NEW h \in VectorsHold' PROVE h \in (VectorsHold \ old) \cup BitPlaces(v, s)
    <3>1. PICK x \in Built' : h \in BitPlaces(x, Bits(x)')
      BY <1>7, <2>1
    <3>2. CASE x = v
      BY <1>4, <3>1, <3>2
    <3>3. CASE x # v
      <4>1. x \in Built /\ h \in BitPlaces(x, Bits(x))
        BY <1>3, <1>4, <1>9, <3>1, <3>3
      <4>2. h \in VectorsHold /\ h[2][1] = x
        BY <1>6, <1>8, <4>1
      <4> QED
        BY <1>10, <3>3, <4>2
    <3> QED
      BY <3>2, <3>3
  <2>2. ASSUME NEW h \in VectorsHold \ old PROVE h \in VectorsHold'
    <3>1. PICK x \in Built : h \in BitPlaces(x, Bits(x))
      BY <1>6, <2>2
    <3>2. x # v
      BY <1>8, <1>10, <3>1
    <3> QED
      BY <1>3, <1>4, <1>7, <1>9, <3>1, <3>2
  <2>3. ASSUME NEW h \in BitPlaces(v, s) PROVE h \in VectorsHold'
    BY <1>3, <1>4, <1>7, <2>3
  <2> QED
    BY <2>1, <2>2, <2>3
<1>12. old \subseteq VectorsHold
  BY <1>0, <1>6 DEF OldPlaces
<1>13. ASSUME NEW q \in BitPlaces(v, s), q \in Holding \ old PROVE FALSE
  <2>1. q[1] = "vector" /\ q[2][1] = v
    BY <1>8
  <2>2. q \in VectorsHold
    BY <1>13, <2>1, Tags DEF Holding
  <2> QED
    BY <1>10, <1>13, <2>1, <2>2
<1> QED
  BY <1>0, <1>3, <1>5, <1>11, <1>12, <1>13 DEF BuiltHold

(* A vector is there no longer.                                            *)
LEMMA VectorGone ==
  ASSUME NamesDiagrams, NEW v \in Built, vector' = [vector EXCEPT ![v] = NoVector]
  PROVE  /\ VectorsHold' = VectorsHold \ BitPlaces(v, Bits(v))
         /\ BitPlaces(v, Bits(v)) \subseteq VectorsHold /\ IsVectors'
<1>1. vector = [x \in Vectors |-> vector[x]] /\ v \in Vectors
      /\ \A x \in Vectors : vector[x] = NoVector \/ (vector[x] = Roots(Bits(x)) /\ Bits(x) \in Seq(Diagrams))
  BY DEF NamesDiagrams, Built
<1>2. vector' = [x \in Vectors |-> vector'[x]] /\ \A x \in Vectors : vector'[x] = IF x = v THEN NoVector ELSE vector[x]
  BY <1>1
<1>3. Built' = Built \ {v}
  BY <1>2 DEF Built
<1>4. \A x \in Vectors : x # v => Bits(x)' = Bits(x)
  BY <1>2 DEF Bits
<1>5. IsVectors'
  BY <1>1, <1>2, <1>4 DEF IsVectors
<1>6. \A h : h \in VectorsHold <=> \E x \in Built : h \in BitPlaces(x, Bits(x))
  BY DEF VectorsHold, BitPlaces
<1>7. \A h : h \in VectorsHold' <=> \E x \in Built' : h \in BitPlaces(x, Bits(x)')
  BY DEF VectorsHold, BitPlaces
<1>8. \A x, r : \A h \in BitPlaces(x, r) : h[2][1] = x
  BY DEF BitPlaces
<1>9. \A x \in Built : x \in Vectors
  BY DEF Built
<1>10. VectorsHold' = VectorsHold \ BitPlaces(v, Bits(v))
  <2>1. ASSUME NEW h \in VectorsHold' PROVE h \in VectorsHold \ BitPlaces(v, Bits(v))
    <3>1. PICK x \in Built' : h \in BitPlaces(x, Bits(x)')
      BY <1>7, <2>1
    <3>2. x \in Built /\ x # v /\ h \in BitPlaces(x, Bits(x))
      BY <1>3, <1>4, <1>9, <3>1
    <3> QED
      BY <1>6, <1>8, <3>2
  <2>2. ASSUME NEW h \in VectorsHold \ BitPlaces(v, Bits(v)) PROVE h \in VectorsHold'
    <3>1. PICK x \in Built : h \in BitPlaces(x, Bits(x))
      BY <1>6, <2>2
    <3>2. x # v
      BY <3>1, <2>2
    <3> QED
      BY <1>3, <1>4, <1>7, <1>9, <3>1, <3>2
  <2> QED
    BY <2>1, <2>2
<1> QED
  BY <1>5, <1>6, <1>10

(* The bits of a vector have a place each.                                 *)
LEMMA BitsAt ==
  ASSUME NEW v, NEW s \in Seq(Diagrams)
  PROVE  \E q, n : Placed(q, s, n, BitPlaces(v, s))
<1>1. PICK n \in Nat : n = Len(s) /\ DOMAIN s = 1..n
  OBVIOUS
<1> DEFINE q == [i \in 1..n |-> <<"vector", <<v, i>>, s[i]>>]
<1>2. AreAt(q, s, n)
  BY DEF AreAt
<1>3. At(q, n) = BitPlaces(v, s) /\ \A i \in 1..n : q[i] \in BitPlaces(v, s)
  BY <1>1 DEF At, BitPlaces
<1> HIDE DEF q
<1>4. Placed(q, s, n, BitPlaces(v, s))
  BY <1>1, <1>2, <1>3 DEF Placed
<1> QED
  BY <1>4

(* Temporaries that are the elements of s.                                 *)
LEMMA TempsAt ==
  ASSUME NEW s \in Seq(Diagrams), temps = << >>, temps' = s
  PROVE  TempsHold = {} /\ \E q, n : Placed(q, s, n, TempsHold')
<1>1. PICK n \in Nat : n = Len(s) /\ DOMAIN s = 1..n
  OBVIOUS
<1> DEFINE q == [i \in 1..n |-> <<"temps", i, s[i]>>]
<1>2. AreAt(q, s, n)
  BY DEF AreAt
<1>3. At(q, n) = TempsHold' /\ \A i \in 1..n : q[i] \in TempsHold'
  BY <1>1 DEF At, TempsHold
<1> HIDE DEF q
<1>4. Placed(q, s, n, TempsHold')
  BY <1>1, <1>2, <1>3 DEF Placed
<1>5. TempsHold = {}
  BY DEF TempsHold
<1> QED
  BY <1>4, <1>5

(* The bits of a vector are diagrams that are held.                        *)
LEMMA BitsHeld ==
  ASSUME NamesDiagrams, NEW v \in Built
  PROVE  Bits(v) \in Seq(Diagrams) /\ v \in Vectors /\ vector[v] = Roots(Bits(v))
         /\ \A i \in DOMAIN Bits(v) : Bits(v)[i] \in Diagrams /\ Bits(v)[i] \in Held
<1>1. Bits(v) \in Seq(Diagrams) /\ v \in Vectors /\ vector[v] = Roots(Bits(v))
  BY DEF Built, NamesDiagrams
<1>2. ASSUME NEW i \in DOMAIN Bits(v) PROVE Bits(v)[i] \in Diagrams /\ Bits(v)[i] \in Held
  <2>1. <<"vector", <<v, i>>, Bits(v)[i]>> \in Holding
    BY DEF VectorsHold, Holding
  <2>2. Bits(v)[i] \in Diagrams
    BY <1>1
  <2> QED
    BY <2>1, <2>2 DEF Held
<1> QED
  BY <1>1, <1>2

(* What places of bits hold.                                               *)
LEMMA BitPlacesHold ==
  ASSUME NEW v, NEW s, NEW S, \A i \in DOMAIN s : s[i] \in S, NEW h \in BitPlaces(v, s)
  PROVE  h[3] \in S
  BY DEF BitPlaces

-----------------------------------------------------------------------------
(* Steps of class bvec.                                                    *)

(* A step that leaves the package, the objects and the file as they are.   *)
LEMMA VectorsKept ==
  ASSUME NamesDiagrams, UNCHANGED <<program, phase, object, file, table>>,
         IsVectors', temps' \in Seq(Diagrams)
  PROVE  NamesDiagrams'
  BY DEF NamesDiagrams, IsVectors, Running

(* bvec(int).                                                              *)
LEMMA VecFalseSound == ASSUME Sound, VecFalse PROVE Sound'
<1>1. /\ Quiet /\ UNCHANGED <<program, phase, table, refs, object, temps, map, load, file>>
      /\ \E v \in Vectors \ Built, n \in program.lengths :
           vector' = [vector EXCEPT ![v] = Roots([i \in 1..n |-> Zero])]
  BY DEF VecFalse, Asks, Step, tableVars, io
<1>2. NamesDiagrams
  BY DEF Sound
<1>3. PICK v \in Vectors \ Built, n \in program.lengths :
        vector' = [vector EXCEPT ![v] = Roots([i \in 1..n |-> Zero])]
  BY <1>1
<1>4. n \in Nat
  BY <1>2, HandlesPrograms DEF NamesDiagrams, IsProgram
<1>5. PICK s : s = [i \in 1..n |-> Zero]
  OBVIOUS
<1>6. s \in Seq(Diagrams) /\ \A i \in DOMAIN s : s[i] \in {Zero}
  BY <1>4, <1>5, DiagramFacts
<1>7. vector' = [vector EXCEPT ![v] = Roots(s)]
  BY <1>3, <1>5
<1>8. VectorsHold' = VectorsHold \cup BitPlaces(v, s) /\ IsVectors'
  <2>1. BuiltHold(v, s, OldPlaces(v))
    BY <1>2, <1>6, <1>7, VectorBuilt
  <2>2. OldPlaces(v) = {}
    BY DEF OldPlaces
  <2> QED
    BY <2>1, <2>2 DEF BuiltHold
<1>9. NamesDiagrams'
  <2>1. temps' \in Seq(Diagrams)
    BY <1>1, <1>2 DEF NamesDiagrams
  <2> QED
    BY <1>1, <1>2, <1>8, <2>1, VectorsKept
<1>10. MapFits' /\ LoadFits'
  BY <1>1, IdleFits DEF Quiet
<1>11. ASSUME Running PROVE Matches(Holding', refs') /\ Alive'
  <2>1. Matches(Holding, refs) /\ Alive
    BY <1>11 DEF Sound
  <2>2. Holding' = Holding \cup BitPlaces(v, s)
    BY <1>1, <1>8, KeptHold DEF Holding
  <2>3. \A h \in BitPlaces(v, s) : Pinned(h[3])
    BY <1>6, BitPlacesHold, DiagramFacts
  <2>4. IsFiniteSet(BitPlaces(v, s))
    <3> DEFINE q == [i \in DOMAIN s |-> <<"vector", <<v, i>>, s[i]>>]
    <3>1. BitPlaces(v, s) = {q[i] : i \in DOMAIN s}
      BY DEF BitPlaces
    <3>2. IsFiniteSet(DOMAIN s)
      BY <1>4, <1>5, FS_Interval
    <3> HIDE DEF q
    <3> QED
      BY <3>1, <3>2, FiniteImage
  <2>5. Matches(Holding \cup BitPlaces(v, s), refs)
    BY <2>1, <2>3, <2>4, PinnedMatches
  <2>6. Alive'
    BY <1>1, <2>1, <2>2, <2>3, AliveStep
  <2> QED
    BY <1>1, <2>2, <2>5, <2>6
<1> QED
  BY <1>1, <1>9, <1>10, <1>11, SoundStep DEF Running

(* bvec(const bvec &).                                                     *)
LEMMA VecCopySound == ASSUME Sound, VecCopy PROVE Sound'
<1>1. /\ Quiet /\ UNCHANGED <<program, phase, table, object, temps, map, load, file>>
      /\ \E v \in Vectors \ Built, w \in Built :
           vector' = [vector EXCEPT ![v] = vector[w]] /\ refs' = TakeAll(Bits(w), refs)
  BY DEF VecCopy, Asks, Step, tableVars, io
<1>2. NamesDiagrams
  BY DEF Sound
<1>3. PICK v \in Vectors \ Built, w \in Built :
        vector' = [vector EXCEPT ![v] = vector[w]] /\ refs' = TakeAll(Bits(w), refs)
  BY <1>1
<1>5. PICK s : s = Bits(w)
  OBVIOUS
<1>6. s \in Seq(Diagrams) /\ (\A i \in DOMAIN s : s[i] \in Held) /\ vector[w] = Roots(s)
  BY <1>2, <1>5, BitsHeld
<1>7. vector' = [vector EXCEPT ![v] = Roots(s)]
  BY <1>3, <1>6
<1>8. VectorsHold' = VectorsHold \cup BitPlaces(v, s) /\ IsVectors' /\ \A q \in BitPlaces(v, s) : q \notin Holding
  <2>1. BuiltHold(v, s, OldPlaces(v))
    BY <1>2, <1>6, <1>7, VectorBuilt
  <2>2. OldPlaces(v) = {}
    BY DEF OldPlaces
  <2> QED
    BY <2>1, <2>2 DEF BuiltHold
<1>9. NamesDiagrams'
  <2>1. temps' \in Seq(Diagrams)
    BY <1>1, <1>2 DEF NamesDiagrams
  <2> QED
    BY <1>1, <1>2, <1>8, <2>1, VectorsKept
<1>10. MapFits' /\ LoadFits'
  BY <1>1, IdleFits DEF Quiet
<1>11. ASSUME Running PROVE Matches(Holding', refs') /\ Alive'
  <2>1. Matches(Holding, refs) /\ Alive
    BY <1>11 DEF Sound
  <2>2. Holding' = Holding \cup BitPlaces(v, s)
    BY <1>1, <1>8, KeptHold DEF Holding
  <2>3. \A h \in BitPlaces(v, s) : h[3] \in Held
    BY <1>6, BitPlacesHold
  <2>4. PICK q, n : Placed(q, s, n, BitPlaces(v, s))
    BY <1>6, BitsAt
  <2>5. Matches(Holding \cup BitPlaces(v, s), TakeAll(s, refs))
    BY <1>8, <1>11, <2>1, <2>4, TakePlaces
  <2>6. Alive'
    BY <1>1, <2>1, <2>2, <2>3, AliveStep
  <2> QED
    BY <1>3, <1>5, <2>2, <2>5, <2>6
<1> QED
  BY <1>1, <1>9, <1>10, <1>11, SoundStep DEF Running

(* ~bvec(void).                                                            *)
LEMMA VecDestroySound == ASSUME Sound, VecDestroy PROVE Sound'
<1>1. /\ Quiet /\ UNCHANGED <<program, phase, table, object, temps, map, load, file>>
      /\ \E v \in Built : refs' = GiveAll(Bits(v), refs) /\ vector' = [vector EXCEPT ![v] = NoVector]
  BY DEF VecDestroy, Asks, Step, tableVars, io
<1>2. NamesDiagrams
  BY DEF Sound
<1>3. PICK v \in Built : refs' = GiveAll(Bits(v), refs) /\ vector' = [vector EXCEPT ![v] = NoVector]
  BY <1>1
<1>5. PICK s : s = Bits(v)
  OBVIOUS
<1>6. s \in Seq(Diagrams)
  BY <1>2, <1>5, BitsHeld
<1>8. VectorsHold' = VectorsHold \ BitPlaces(v, s) /\ IsVectors' /\ BitPlaces(v, s) \subseteq VectorsHold
  BY <1>2, <1>3, <1>5, VectorGone
<1>9. NamesDiagrams'
  <2>1. temps' \in Seq(Diagrams)
    BY <1>1, <1>2 DEF NamesDiagrams
  <2> QED
    BY <1>1, <1>2, <1>8, <2>1, VectorsKept
<1>10. MapFits' /\ LoadFits'
  BY <1>1, IdleFits DEF Quiet
<1>11. ASSUME Running PROVE Matches(Holding', refs') /\ Alive'
  <2>1. Matches(Holding, refs) /\ Alive
    BY <1>11 DEF Sound
  <2>2. \A h \in BitPlaces(v, s) : h[1] = "vector"
    BY DEF BitPlaces
  <2>3. Holding' = Holding \ BitPlaces(v, s) /\ BitPlaces(v, s) \subseteq Holding
    BY <1>1, <1>8, <2>2, KeptHold, Tags DEF Holding
  <2>4. PICK q, n : Placed(q, s, n, BitPlaces(v, s))
    BY <1>6, BitsAt
  <2>5. Matches(Holding \ BitPlaces(v, s), GiveAll(s, refs))
    BY <1>11, <2>1, <2>3, <2>4, GivePlaces
  <2>6. Alive'
    BY <1>1, <2>1, <2>3, AliveStep
  <2> QED
    BY <1>3, <1>5, <2>3, <2>5, <2>6
<1> QED
  BY <1>1, <1>9, <1>10, <1>11, SoundStep DEF Running

(* bvec::operator=.                                                        *)
LEMMA VecAssignSound == ASSUME Sound, VecAssign PROVE Sound'
<1>1. /\ Quiet /\ temps = << >> /\ UNCHANGED <<program, phase, table, object, map, load, file>>
      /\ \E v, w \in Built : /\ refs' = TakeAll(Bits(w), VecAssigned(v, w))
                             /\ vector' = [vector EXCEPT ![v] = vector[w]] /\ temps' = Bits(w)
  BY DEF VecAssign, Asks, Step, tableVars, io
<1>2. NamesDiagrams
  BY DEF Sound
<1>3. PICK v \in Built, w \in Built : /\ refs' = TakeAll(Bits(w), VecAssigned(v, w))
                                      /\ vector' = [vector EXCEPT ![v] = vector[w]] /\ temps' = Bits(w)
  BY <1>1
<1>5. PICK s, r : s = Bits(w) /\ r = Bits(v)
  OBVIOUS
<1>6. /\ s \in Seq(Diagrams) /\ (\A i \in DOMAIN s : s[i] \in Held) /\ vector[w] = Roots(s)
      /\ r \in Seq(Diagrams) /\ v \in Vectors
  BY <1>2, <1>5, BitsHeld
<1>7. vector' = [vector EXCEPT ![v] = Roots(s)]
  BY <1>3, <1>6
<1>8. PICK old : old = BitPlaces(v, r)
  OBVIOUS
<1>9. /\ VectorsHold' = (VectorsHold \ old) \cup BitPlaces(v, s) /\ IsVectors'
      /\ old \subseteq VectorsHold /\ \A q \in BitPlaces(v, s) : q \notin Holding \ old
  <2>1. BuiltHold(v, s, OldPlaces(v))
    BY <1>2, <1>6, <1>7, VectorBuilt
  <2>2. OldPlaces(v) = old
    BY <1>5, <1>8 DEF OldPlaces
  <2> QED
    BY <2>1, <2>2 DEF BuiltHold
<1>10. temps' = s
  BY <1>3, <1>5
<1>11. NamesDiagrams'
  BY <1>1, <1>2, <1>6, <1>9, <1>10, VectorsKept
<1>12. MapFits' /\ LoadFits'
  BY <1>1, IdleFits DEF Quiet
<1>13. ASSUME Running PROVE Matches(Holding', refs') /\ Alive'
  <2>1. Matches(Holding, refs) /\ Alive
    BY <1>13 DEF Sound
  <2>2. PICK now : now = (Holding \ old) \cup BitPlaces(v, s)
    OBVIOUS
  <2>3. PICK m : m = VecAssigned(v, w)
    OBVIOUS
  <2>4. \A h \in old : h[1] = "vector"
    BY <1>8 DEF BitPlaces
  <2>5. PICK p, k : Placed(p, r, k, old)
    BY <1>6, <1>8, BitsAt
  <2>6. PICK q, n : Placed(q, s, n, BitPlaces(v, s))
    BY <1>6, BitsAt
  <2>7. TempsHold = {} /\ \E t, l : Placed(t, s, l, TempsHold')
    BY <1>1, <1>6, <1>10, TempsAt
  <2>8. Matches(now, m)
    <3>1. CASE v = w
      <4>1. m = refs
        BY <2>3, <3>1 DEF VecAssigned
      <4>2. now = Holding
        BY <1>5, <1>8, <1>9, <2>2, <3>1 DEF Holding
      <4> QED
        BY <2>1, <4>1, <4>2
    <3>2. CASE v # w
      <4>1. PICK g : g = GiveAll(r, refs)
        OBVIOUS
      <4>2. m = TakeAll(s, g)
        BY <1>5, <2>3, <3>2, <4>1 DEF VecAssigned
      <4>3. PICK less : less = Holding \ old
        OBVIOUS
      <4>4. old \subseteq Holding
        BY <1>9 DEF Holding
      <4>5. Matches(less, g)
        BY <1>13, <2>1, <2>5, <4>1, <4>3, <4>4, GivePlaces
      <4>6. Matches(less \cup BitPlaces(v, s), TakeAll(s, g))
        BY <1>9, <1>13, <2>6, <4>3, <4>5, TakePlaces
      <4> QED
        BY <2>2, <4>2, <4>3, <4>6
    <3> QED
      BY <3>1, <3>2
  <2>9. Holding' = now \cup TempsHold'
    BY <1>1, <1>9, <2>2, <2>4, <2>7, KeptHold, Tags DEF Holding
  <2>10. \A h \in now : h[1] # "temps"
    <3>1. \A h \in Holding : h[1] # "temps"
      BY <2>7, Tags DEF Holding
    <3>2. \A h \in BitPlaces(v, s) : h[1] # "temps"
      BY DEF BitPlaces
    <3> QED
      BY <2>2, <3>1, <3>2
  <2>11. \A h \in TempsHold' : h[1] = "temps" /\ h[3] \in Held
    BY <1>6, <1>10 DEF TempsHold
  <2>12. Matches(now \cup TempsHold', TakeAll(s, m))
    <3>1. PICK t, l : Placed(t, s, l, TempsHold')
      BY <2>7
    <3>2. \A h \in TempsHold' : h \notin now
      BY <2>10, <2>11
    <3> QED
      BY <1>13, <2>8, <3>1, <3>2, TakePlaces
  <2>13. \A h \in BitPlaces(v, s) : h[3] \in Held
    BY <1>6, BitPlacesHold
  <2>14. Alive'
    BY <1>1, <2>1, <2>2, <2>9, <2>11, <2>13, AliveStep
  <2>15. refs' = TakeAll(s, m)
    BY <1>3, <1>5, <2>3
  <2> QED
    BY <2>9, <2>12, <2>14, <2>15
<1> QED
  BY <1>1, <1>11, <1>12, <1>13, SoundStep DEF Running

(* bvec::set.                                                              *)
LEMMA SetBitSound == ASSUME Sound, SetBit PROVE Sound'
<1>1. /\ Quiet /\ UNCHANGED <<program, phase, table, object, temps, map, load, file>>
      /\ \E v \in Built : \E i \in DOMAIN Bits(v), f \in {object[o] : o \in Declared} \cup ToSet(temps) :
           refs' = VecSet(Bits(v)[i], f, refs) /\ vector' = [vector EXCEPT ![v].bits[i] = f]
  BY DEF SetBit, Asks, Step, tableVars, io
<1>2. NamesDiagrams
  BY DEF Sound
<1>3. PICK v \in Built : \E i \in DOMAIN Bits(v), f \in {object[o] : o \in Declared} \cup ToSet(temps) :
        refs' = VecSet(Bits(v)[i], f, refs) /\ vector' = [vector EXCEPT ![v].bits[i] = f]
  BY <1>1
<1>4. PICK i \in DOMAIN Bits(v), f \in {object[o] : o \in Declared} \cup ToSet(temps) :
        refs' = VecSet(Bits(v)[i], f, refs) /\ vector' = [vector EXCEPT ![v].bits[i] = f]
  BY <1>3
<1>5. PICK r : r = Bits(v)
  OBVIOUS
<1>6. PICK s : s = [r EXCEPT ![i] = f]
  OBVIOUS
<1>7. r \in Seq(Diagrams) /\ v \in Vectors /\ vector[v] = Roots(r) /\ i \in DOMAIN r
  BY <1>2, <1>5, BitsHeld
<1>8. f \in Diagrams /\ f \in Held
  BY <1>2, NamedDiagrams
<1>9. s \in Seq(Diagrams) /\ DOMAIN s = DOMAIN r /\ \A j \in DOMAIN r : s[j] = IF j = i THEN f ELSE r[j]
  BY <1>6, <1>7, <1>8
<1>10. vector' = [vector EXCEPT ![v] = Roots(s)]
  <2>1. [Roots(r) EXCEPT !.bits[i] = f] = Roots(s)
    BY <1>6 DEF Roots
  <2>2. vector' = [vector EXCEPT ![v] = [Roots(r) EXCEPT !.bits[i] = f]]
    BY <1>4, <1>7
  <2> QED
    BY <2>1, <2>2
<1>11. PICK p, q : p = <<"vector", <<v, i>>, r[i]>> /\ q = <<"vector", <<v, i>>, f>>
  OBVIOUS
<1>12. p \in BitPlaces(v, r) /\ BitPlaces(v, s) = (BitPlaces(v, r) \ {p}) \cup {q}
       /\ \A h \in BitPlaces(v, r) : h = q => h = p
  <2>1. \A h : h \in BitPlaces(v, r) <=> \E j \in DOMAIN r : h = <<"vector", <<v, j>>, r[j]>>
    BY DEF BitPlaces
  <2>2. \A h : h \in BitPlaces(v, s) <=> \E j \in DOMAIN r : h = <<"vector", <<v, j>>, s[j]>>
    BY <1>9 DEF BitPlaces
  <2>3. p \in BitPlaces(v, r)
    BY <1>7, <1>11, <2>1
  <2>4. \A h \in BitPlaces(v, r) : h = q => h = p
    BY <1>11, <2>1
  <2>5. \A j \in DOMAIN r : j # i => <<"vector", <<v, j>>, r[j]>> # p
    BY <1>11
  <2>6. BitPlaces(v, s) = (BitPlaces(v, r) \ {p}) \cup {q}
    BY <1>7, <1>9, <1>11, <2>1, <2>2, <2>5
  <2> QED
    BY <2>3, <2>4, <2>6
<1>13. VectorsHold' = (VectorsHold \ {p}) \cup {q} /\ IsVectors' /\ p \in VectorsHold /\ q \notin Holding \ {p}
  <2>1. BuiltHold(v, s, OldPlaces(v))
    BY <1>2, <1>7, <1>9, <1>10, VectorBuilt
  <2>2. OldPlaces(v) = BitPlaces(v, r)
    BY <1>5 DEF OldPlaces
  <2>3. /\ VectorsHold' = (VectorsHold \ BitPlaces(v, r)) \cup BitPlaces(v, s) /\ IsVectors'
        /\ BitPlaces(v, r) \subseteq VectorsHold /\ \A h \in BitPlaces(v, s) : h \notin Holding \ BitPlaces(v, r)
    BY <2>1, <2>2 DEF BuiltHold
  <2>4. VectorsHold' = (VectorsHold \ {p}) \cup {q}
    BY <1>12, <2>3
  <2>5. q \in BitPlaces(v, s)
    BY <1>12
  <2>6. q \notin Holding \ {p}
    BY <1>12, <2>3, <2>5
  <2> QED
    BY <1>12, <2>3, <2>4, <2>6
<1>14. NamesDiagrams'
  <2>1. temps' \in Seq(Diagrams)
    BY <1>1, <1>2 DEF NamesDiagrams
  <2> QED
    BY <1>1, <1>2, <1>13, <2>1, VectorsKept
<1>15. MapFits' /\ LoadFits'
  BY <1>1, IdleFits DEF Quiet
<1>16. ASSUME Running PROVE Matches(Holding', refs') /\ Alive'
  <2>1. Matches(Holding, refs) /\ Alive
    BY <1>16 DEF Sound
  <2>2. p[1] = "vector" /\ p[3] = r[i] /\ q[3] = f
    BY <1>11
  <2>3. Holding' = (Holding \ {p}) \cup {q} /\ p \in Holding
    BY <1>1, <1>13, <2>2, KeptHold, Tags DEF Holding
  <2>4. refs' = Take(q[3], Give(p[3], refs))
    BY <1>4, <1>5, <2>2 DEF VecSet
  <2>5. Matches((Holding \ {p}) \cup {q}, refs')
    BY <1>13, <1>16, <2>1, <2>3, <2>4, SwapMatches
  <2>6. Alive'
    BY <1>1, <1>8, <2>1, <2>2, <2>3, AliveStep
  <2> QED
    BY <2>3, <2>5, <2>6
<1> QED
  BY <1>1, <1>14, <1>15, <1>16, SoundStep DEF Running

(* bvec::operator[].                                                       *)
LEMMA BitAtSound == ASSUME Sound, BitAt PROVE Sound'
<1>1. /\ Quiet /\ UNCHANGED <<program, phase, table, object, vector, map, load, file>>
      /\ \E v \in Built : \E i \in DOMAIN Bits(v) :
           temps' = Append(temps, Bits(v)[i]) /\ refs' = Take(Bits(v)[i], refs)
  BY DEF BitAt, Asks, Step, tableVars, io
<1>2. NamesDiagrams
  BY DEF Sound
<1>3. PICK f : f \in Diagrams /\ f \in Held /\ temps' = Append(temps, f) /\ refs' = Take(f, refs)
  <2>1. PICK v \in Built : \E i \in DOMAIN Bits(v) :
           temps' = Append(temps, Bits(v)[i]) /\ refs' = Take(Bits(v)[i], refs)
    BY <1>1
  <2>2. PICK i \in DOMAIN Bits(v) : temps' = Append(temps, Bits(v)[i]) /\ refs' = Take(Bits(v)[i], refs)
    BY <2>1
  <2>3. Bits(v)[i] \in Diagrams /\ Bits(v)[i] \in Held
    BY <1>2, BitsHeld
  <2> QED
    BY <2>2, <2>3
<1>4. PICK t : t = <<"temps", Len(temps) + 1, f>>
  OBVIOUS
<1>5. TempsHold' = TempsHold \cup {t} /\ t \notin Holding /\ temps' \in Seq(Diagrams)
  BY <1>2, <1>3, <1>4, TempBuilt
<1>6. NamesDiagrams'
  <2>1. object' \in [Objects -> Diagrams \cup {Undeclared}] /\ table' \subseteq Diagrams
    BY <1>1, <1>2 DEF NamesDiagrams
  <2> QED
    BY <1>1, <1>2, <1>5, <2>1, NamesKept
<1>7. MapFits' /\ LoadFits'
  BY <1>1, IdleFits DEF Quiet
<1>8. ASSUME Running PROVE Matches(Holding', refs') /\ Alive'
  <2>1. Matches(Holding, refs) /\ Alive
    BY <1>8 DEF Sound
  <2>2. Holding' = Holding \cup {t}
    BY <1>1, <1>5, KeptHold DEF Holding
  <2>3. t[3] = f
    BY <1>4
  <2>4. Matches(Holding \cup {t}, refs')
    BY <1>3, <1>5, <1>8, <2>1, <2>3, TakeMatches
  <2>5. Alive'
    BY <1>1, <1>3, <2>1, <2>2, <2>3, AliveStep
  <2> QED
    BY <2>2, <2>4, <2>5
<1> QED
  BY <1>1, <1>6, <1>7, <1>8, SoundStep DEF Running

-----------------------------------------------------------------------------
(* Steps of bvec_map1, 2 and 3.                                            *)

(* The local variables of a map that begins.                               *)
Begun(args, fun) ==
  [of |-> "map", args |-> args, fun |-> fun, n |-> 1,
   res |-> IF \A i \in DOMAIN args : Len(Bits(args[i])) = Len(Bits(args[1]))
           THEN [i \in DOMAIN Bits(args[1]) |-> Zero] ELSE << >>]

(* A map that begins.                                                      *)
LEMMA MapBeginSound == ASSUME Sound, MapBegin PROVE Sound'
<1>1. /\ Quiet /\ Running
      /\ UNCHANGED <<program, phase, table, refs, object, temps, vector, load, file>>
      /\ \E args \in UNION {[1..n -> Built] : n \in DOMAIN program.maps} :
           \E fun \in program.maps[Len(args)] :
             map' = [of |-> "map", args |-> args, fun |-> fun, n |-> 1,
                     res |-> IF \A i \in DOMAIN args : Len(Bits(args[i])) = Len(Bits(args[1]))
                             THEN [i \in DOMAIN Bits(args[1]) |-> Zero] ELSE << >>]
  BY DEF MapBegin, Asks, Step, tableVars, handles, io
<1>2. NamesDiagrams
  BY DEF Sound
<1>3. PICK args \in UNION {[1..n -> Built] : n \in DOMAIN program.maps} :
        \E fun \in program.maps[Len(args)] : map' = Begun(args, fun)
  BY <1>1 DEF Begun
<1>16. PICK n \in DOMAIN program.maps : args \in [1..n -> Built]
  OBVIOUS
<1>17. PICK fun \in program.maps[Len(args)] : map' = Begun(args, fun)
  BY <1>3
<1>4. PICK res : res = IF \A i \in DOMAIN args : Len(Bits(args[i])) = Len(Bits(args[1]))
                       THEN [i \in DOMAIN Bits(args[1]) |-> Zero] ELSE << >>
  OBVIOUS
<1>5. n \in {1, 2, 3} /\ (n = 2 => program.maps[n] \subseteq Operators)
  BY <1>2, HandlesPrograms DEF NamesDiagrams, IsProgram
<1>6. args \in Seq(Built) /\ Len(args) = n /\ DOMAIN args = 1..n
  BY <1>5, <1>16
<1>7. map' = [of |-> "map", args |-> args, fun |-> fun, n |-> 1, res |-> res]
  BY <1>4, <1>17 DEF Begun
<1>8. PICK r : r = Bits(args[1])
  OBVIOUS
<1>9. r \in Seq(Diagrams) /\ DOMAIN r = 1..Len(r)
  <2>1. args[1] \in Built
    BY <1>5, <1>16
  <2>2. r \in Seq(Diagrams)
    BY <1>2, <1>8, <2>1, BitsHeld
  <2> QED
    BY <2>2
<1>10. /\ res \in Seq(Diagrams) /\ \A i \in DOMAIN res : res[i] = Zero
       /\ res = << >> \/ \A i \in 1..n : Len(Bits(args[i])) = Len(res)
  <2>1. CASE \A i \in DOMAIN args : Len(Bits(args[i])) = Len(Bits(args[1]))
    <3>1. res = [i \in 1..Len(r) |-> Zero]
      BY <1>4, <1>8, <1>9, <2>1
    <3>2. res \in Seq(Diagrams) /\ Len(res) = Len(r)
      BY <1>9, <3>1, DiagramFacts
    <3> QED
      BY <1>6, <1>8, <2>1, <3>1, <3>2
  <2>2. CASE ~ \A i \in DOMAIN args : Len(Bits(args[i])) = Len(Bits(args[1]))
    BY <1>4, <2>2
  <2> QED
    BY <2>1, <2>2
<1>11. map' # Nothing
  <2>1. map'.of = "map" /\ Nothing.of = "nothing"
    BY <1>7 DEF Nothing
  <2> QED
    BY <2>1
<1>12. MapFits'
  <2>1. /\ map'.args = args /\ map'.fun = fun /\ map'.n = 1 /\ map'.res = res
        /\ map' = [of |-> "map", args |-> map'.args, fun |-> map'.fun, n |-> map'.n, res |-> map'.res]
    BY <1>7
  <2>2. Running' /\ Built' = Built /\ \A v : Bits(v)' = Bits(v)
    BY <1>1 DEF Running, Built, Bits
  <2>3. \A i \in 1..n : Len(Bits(args[i])') = Len(Bits(args[i]))
    BY <2>2
  <2> QED
    BY <1>5, <1>6, <1>10, <2>1, <2>2, <2>3 DEF MapFits
<1>13. NamesDiagrams'
  BY <1>1, <1>2 DEF NamesDiagrams, Bits, Running
<1>14. LoadFits'
  BY <1>1, IdleFits DEF Quiet
<1>15. Matches(Holding', refs') /\ Alive'
  <2>1. Matches(Holding, refs) /\ Alive
    BY <1>1 DEF Sound
  <2> DEFINE q == [i \in DOMAIN res |-> <<"map", i, res[i]>>]
             More == {q[i] : i \in DOMAIN res}
  <2>2. MapHolds' = More
    <3>1. MapHolds' = {<<"map", i, map'.res[i]>> : i \in DOMAIN map'.res}
      BY <1>11 DEF MapHolds
    <3>2. map'.res = res
      BY <1>7
    <3> QED
      BY <3>1, <3>2
  <2>3. \A h \in More : h[3] = Zero
    BY <1>10
  <2>4. IsFiniteSet(More)
    <3>1. Len(res) \in Nat /\ DOMAIN res = 1..Len(res)
      BY <1>10
    <3>2. PICK l \in Nat : DOMAIN res = 1..l
      BY <3>1
    <3>3. IsFiniteSet(DOMAIN res)
      BY <3>2, FS_Interval
    <3> HIDE DEF q
    <3> QED
      BY <3>3, FiniteImage
  <2> HIDE DEF More
  <2>5. MapHolds = {}
    BY <1>1 DEF MapHolds, Quiet
  <2>6. Holding' = Holding \cup More
    BY <1>1, <2>2, <2>5, KeptHold DEF Holding
  <2>7. \A h \in More : Pinned(h[3])
    BY <2>3, DiagramFacts
  <2>8. Matches(Holding \cup More, refs)
    BY <2>1, <2>4, <2>7, PinnedMatches
  <2>9. Alive'
    BY <1>1, <2>1, <2>6, <2>7, AliveStep
  <2> QED
    BY <1>1, <2>6, <2>8, <2>9
<1> QED
  BY <1>12, <1>13, <1>14, <1>15, SoundStep

(* What a map makes of the bits.                                           *)
LEMMA AppliedMakes ==
  ASSUME NEW bits \in Seq(Diagrams), Len(bits) \in {1, 2, 3}, NEW fun, Len(bits) = 2 => fun \in Operators
  PROVE  Applied(fun, bits) \in Diagrams
<1>1. CASE Len(bits) = 1
  BY <1>1 DEF Applied, Not, Diagrams
<1>2. CASE Len(bits) = 2
  <2>1. bits[1] \in Diagrams /\ bits[2] \in Diagrams /\ fun \in Operators
    BY <1>2
  <2>2. Applied(fun, bits) = Opr(OprOf(fun), bits[1], bits[2])
    BY <1>2 DEF Applied
  <2> QED
    BY <2>1, <2>2, OperatorMakes
<1>3. CASE Len(bits) = 3
  <2>1. bits[1] \in Diagrams
    BY <1>3
  <2>2. Applied(fun, bits) = Ite(bits[1], bits[2], bits[3])
    BY <1>3 DEF Applied
  <2>3. bits[3] \in Diagrams
    BY <1>3
  <2> QED
    BY <2>1, <2>2, <2>3 DEF Ite, Not, Diagrams
<1> QED
  BY <1>1, <1>2, <1>3

(* The temporaries of a round, in the order they are built and destroyed.  *)
LEMMA RoundPlaces ==
  ASSUME NEW bits \in Seq(Diagrams), NEW f \in Diagrams
  PROVE  \E R : /\ \A h \in R : h[1] = "round"
                /\ \E q, n : Placed(q, Append(bits, f), n, R)
                /\ \E q, n : Placed(q, <<f>> \o bits, n, R)
<1>1. PICK k \in Nat : k = Len(bits)
  OBVIOUS
<1>2. PICK s : s = Append(bits, f)
  OBVIOUS
<1>3. PICK r : r = <<f>> \o bits
  OBVIOUS
<1>4. Len(s) = k + 1 /\ s[k + 1] = f /\ \A i \in 1..k : s[i] = bits[i]
  BY <1>1, <1>2
<1>5. Len(r) = k + 1 /\ r[1] = f /\ \A i \in 2..(k + 1) : r[i] = bits[i - 1]
  BY <1>1, <1>3
<1> DEFINE n == k + 1
           q == [i \in 1..n |-> <<"round", i, s[i]>>]
           p == [i \in 1..n |-> IF i = 1 THEN <<"round", n, f>> ELSE <<"round", i - 1, bits[i - 1]>>]
           R == At(q, n)
<1>6. Placed(q, s, n, R)
  <2>1. AreAt(q, s, n)
    BY DEF AreAt
  <2>2. \A i \in 1..n : q[i] \in R
    BY DEF At
  <2> QED
    BY <1>4, <2>1, <2>2 DEF Placed
<1>7. Placed(p, r, n, R)
  <2>1. \A i \in 1..n : i = 1 \/ (i # 1 /\ i \in 2..(k + 1) /\ i - 1 \in 1..k)
    OBVIOUS
  <2>2. AreAt(p, r, n)
    <3>1. \A i \in 1..n : p[i][3] = r[i]
      BY <1>5, <2>1
    <3>2. \A i, j \in 1..n : p[i] = p[j] => i = j
      <4> SUFFICES ASSUME NEW i \in 1..n, NEW j \in 1..n, p[i] = p[j] PROVE i = j
        OBVIOUS
      <4>1. p[i][2] = (IF i = 1 THEN n ELSE i - 1) /\ p[j][2] = (IF j = 1 THEN n ELSE j - 1)
        OBVIOUS
      <4>2. p[i][2] = p[j][2]
        OBVIOUS
      <4> HIDE DEF p
      <4> QED
        BY <4>1, <4>2
    <3> QED
      BY <3>1, <3>2 DEF AreAt
  <2>3. ASSUME NEW i \in 1..n PROVE p[i] \in R
    <3>1. CASE i = 1
      <4>1. n \in 1..n /\ p[i] = q[n]
        BY <1>4, <3>1
      <4> QED
        BY <4>1 DEF At
    <3>2. CASE i # 1
      <4>1. i - 1 \in 1..n /\ i - 1 \in 1..k
        BY <2>1, <3>2
      <4>2. p[i] = <<"round", i - 1, bits[i - 1]>> /\ q[i - 1] = <<"round", i - 1, s[i - 1]>>
        BY <3>2, <4>1
      <4>3. p[i] = q[i - 1]
        BY <1>4, <4>1, <4>2
      <4> QED
        BY <4>1, <4>3 DEF At
    <3> QED
      BY <3>1, <3>2
  <2>4. ASSUME NEW i \in 1..n PROVE q[i] \in At(p, n)
    <3>1. CASE i = n
      <4>1. 1 \in 1..n /\ n \in 1..n
        OBVIOUS
      <4>2. p[1] = <<"round", n, f>> /\ q[n] = <<"round", n, s[n]>>
        BY <4>1
      <4>3. s[n] = f
        BY <1>4
      <4>4. p[1] = q[n]
        BY <4>2, <4>3
      <4> QED
        BY <3>1, <4>1, <4>4 DEF At
    <3>2. CASE i # n
      <4>1. i \in 1..k /\ i + 1 \in 1..n /\ i + 1 # 1 /\ (i + 1) - 1 = i
        BY <3>2
      <4>2. p[i + 1] = <<"round", i, bits[i]>> /\ q[i] = <<"round", i, s[i]>>
        BY <4>1
      <4>3. p[i + 1] = q[i]
        BY <1>4, <4>1, <4>2
      <4> QED
        BY <4>1, <4>3 DEF At
    <3> QED
      BY <3>1, <3>2
  <2>5. At(p, n) = R
    <3> HIDE DEF p, q
    <3> QED
      BY <2>3, <2>4 DEF At
  <2> HIDE DEF p, q, R
  <2> QED
    BY <1>5, <2>2, <2>3, <2>5 DEF Placed
<1>8. \A h \in R : h[1] = "round"
  BY DEF At
<1> HIDE DEF q, p, R, n
<1> QED
  BY <1>2, <1>3, <1>6, <1>7, <1>8

(* One round of a map.                                                     *)
LEMMA MapBitSound == ASSUME Sound, MapBit PROVE Sound'
<1> DEFINE bits == [i \in DOMAIN map.args |-> Bits(map.args[i])[map.n]]
           f == Applied(map.fun, bits)
           s == [map.res EXCEPT ![map.n] = f]
<1>1. /\ map # Nothing /\ map.n <= Len(map.res)
      /\ Made(f)
      /\ refs' = GiveAll(<<f>> \o bits, VecSet(map.res[map.n], f, TakeAll(Append(bits, f), refs)))
      /\ map' = [map EXCEPT !.res[map.n] = f, !.n = @ + 1]
      /\ UNCHANGED <<program, phase, object, temps, vector, load, file>>
  BY DEF MapBit, handles, io
<1>2. NamesDiagrams /\ MapFits /\ LoadFits
  BY DEF Sound
<1>3. /\ Running
      /\ map = [of |-> "map", args |-> map.args, fun |-> map.fun, n |-> map.n, res |-> map.res]
      /\ map.args \in Seq(Built) /\ Len(map.args) \in {1, 2, 3}
      /\ Len(map.args) = 2 => map.fun \in Operators
      /\ map.res \in Seq(Diagrams) /\ map.n \in Nat /\ map.n # 0
      /\ map.res = << >> \/ \A i \in 1..Len(map.args) : Len(Bits(map.args[i])) = Len(map.res)
  BY <1>1, <1>2 DEF MapFits
<1>4. PICK k, res, args : k = map.n /\ res = map.res /\ args = map.args
  OBVIOUS
<1>5. k \in 1..Len(res) /\ res \in Seq(Diagrams) /\ args \in Seq(Built) /\ DOMAIN args = 1..Len(args)
  BY <1>1, <1>3, <1>4
<1>6. bits \in Seq(Diagrams) /\ Len(bits) = Len(args)
  <2>1. ASSUME NEW i \in 1..Len(args) PROVE Bits(args[i])[k] \in Diagrams
    <3>1. args[i] \in Built
      BY <1>5
    <3>2. Bits(args[i]) \in Seq(Diagrams)
      BY <1>2, <3>1, BitsHeld
    <3>3. Len(Bits(args[i])) = Len(res)
      BY <1>3, <1>4, <1>5
    <3> QED
      BY <1>5, <3>2, <3>3
  <2>2. bits = [i \in 1..Len(args) |-> Bits(args[i])[k]]
    BY <1>4, <1>5
  <2>3. PICK n \in Nat : n = Len(args)
    BY <1>3, <1>4
  <2> QED
    BY <2>1, <2>2, <2>3
<1> HIDE DEF bits
<1>7. f \in Diagrams
  BY <1>3, <1>4, <1>6, AppliedMakes
<1> HIDE DEF f
<1>8. s \in Seq(Diagrams) /\ Len(s) = Len(res) /\ DOMAIN s = DOMAIN res /\ DOMAIN res = 1..Len(res)
      /\ \A i \in DOMAIN res : s[i] = IF i = k THEN f ELSE res[i]
  BY <1>4, <1>5, <1>7
<1>9. map' = [of |-> "map", args |-> map.args, fun |-> map.fun, n |-> map.n + 1, res |-> s]
  <2>1. map' = [[map EXCEPT !.res = s] EXCEPT !.n = map.n + 1]
    BY <1>1
  <2> HIDE DEF s
  <2>2. PICK a, g, n, r : a = map.args /\ g = map.fun /\ n = map.n /\ r = map.res
    OBVIOUS
  <2>3. map = [of |-> "map", args |-> a, fun |-> g, n |-> n, res |-> r]
    BY <1>3, <2>2
  <2>4. PICK rec : rec = [of |-> "map", args |-> a, fun |-> g, n |-> n, res |-> r]
    OBVIOUS
  <2>5. [[rec EXCEPT !.res = s] EXCEPT !.n = n + 1] = [of |-> "map", args |-> a, fun |-> g, n |-> n + 1, res |-> s]
    <3>1. PICK m, w : m = n + 1 /\ w = s
      OBVIOUS
    <3>2. [rec EXCEPT !.res = w] = [of |-> "map", args |-> a, fun |-> g, n |-> n, res |-> w]
      BY <2>4
    <3>3. [[of |-> "map", args |-> a, fun |-> g, n |-> n, res |-> w] EXCEPT !.n = m]
            = [of |-> "map", args |-> a, fun |-> g, n |-> m, res |-> w]
      OBVIOUS
    <3> QED
      BY <3>1, <3>2, <3>3
  <2>6. map' = [[rec EXCEPT !.res = s] EXCEPT !.n = n + 1]
    <3>1. map = rec
      BY <2>3, <2>4
    <3> QED
      BY <2>1, <2>2, <3>1
  <2> QED
    BY <2>2, <2>5, <2>6
<1> HIDE DEF s
<1>10. /\ map'.args = map.args /\ map'.fun = map.fun /\ map'.n = map.n + 1 /\ map'.res = s
       /\ map' = [of |-> "map", args |-> map'.args, fun |-> map'.fun, n |-> map'.n, res |-> map'.res]
  BY <1>9
<1>11. map' # Nothing
  <2>1. map'.of = "map" /\ Nothing.of = "nothing"
    BY <1>9 DEF Nothing
  <2> QED
    BY <2>1
<1>12. MapFits'
  <2>1. Running' /\ Built' = Built /\ \A v : Bits(v)' = Bits(v)
    BY <1>1, <1>3 DEF Running, Built, Bits
  <2>2. map'.n \in Nat /\ map'.n # 0
    BY <1>3, <1>10
  <2>3. \A i \in 1..Len(args) : Len(Bits(args[i])) = Len(res)
    BY <1>3, <1>4, <1>5
  <2>4. \A i \in 1..Len(args) : Len(Bits(args[i])') = Len(s)
    BY <1>8, <2>1, <2>3
  <2>5. map'.args = args
    BY <1>4, <1>10
  <2>6. Len(args) = 2 => map'.fun \in Operators
    BY <1>3, <1>4, <1>10
  <2> QED
    BY <1>3, <1>4, <1>5, <1>8, <1>10, <2>1, <2>2, <2>4, <2>5, <2>6 DEF MapFits
<1>13. table' = table \cup Below(order, f) /\ (IsConst(f) \/ f \in table') /\ table' \subseteq Diagrams
  BY <1>1, <1>2, <1>7, BelowFacts DEF Made, NamesDiagrams
<1>14. NamesDiagrams'
  <2>1. object' \in [Objects -> Diagrams \cup {Undeclared}] /\ temps' \in Seq(Diagrams)
    BY <1>1, <1>2 DEF NamesDiagrams
  <2> QED
    BY <1>1, <1>2, <1>3, <1>13, <2>1, NamesKept
<1>15. LoadFits'
  BY <1>1, <1>2 DEF LoadFits, Running, Declared
<1>16. Matches(Holding', refs') /\ Alive'
  <2>1. Matches(Holding, refs) /\ Alive
    BY <1>3 DEF Sound
  <2>2. PICK p, q : p = <<"map", k, res[k]>> /\ q = <<"map", k, f>>
    OBVIOUS
  <2>3. \A h : h \in MapHolds <=> \E i \in DOMAIN res : h = <<"map", i, res[i]>>
    BY <1>1, <1>4 DEF MapHolds
  <2>4. \A h : h \in MapHolds' <=> \E i \in DOMAIN res : h = <<"map", i, s[i]>>
    BY <1>8, <1>10, <1>11 DEF MapHolds
  <2>5. p \in MapHolds /\ k \in DOMAIN res
    BY <1>5, <1>8, <2>2, <2>3
  <2>6. \A i \in DOMAIN res : i # k => <<"map", i, res[i]>> # p
    BY <2>2
  <2>7. MapHolds' = (MapHolds \ {p}) \cup {q}
    BY <1>8, <2>2, <2>3, <2>4, <2>5, <2>6
  <2>8. q \in MapHolds => q = p
    BY <2>2, <2>3
  <2>9. p[1] = "map" /\ q[1] = "map" /\ p[3] = res[k] /\ q[3] = f
    BY <2>2
  <2>10. Holding' = (Holding \ {p}) \cup {q}
    BY <1>1, <2>7, <2>9, KeptHold, Tags DEF Holding
  <2>11. p \in Holding /\ q \notin Holding \ {p}
    BY <2>5, <2>8, <2>9, Tags DEF Holding
  <2>12. PICK R : /\ \A h \in R : h[1] = "round"
                  /\ \E t, n : Placed(t, Append(bits, f), n, R)
                  /\ \E t, n : Placed(t, <<f>> \o bits, n, R)
    BY <1>6, <1>7, RoundPlaces
  <2>13. \A h \in Holding : h[1] # "round"
    BY Tags DEF Holding
  <2>14. PICK before : before = Holding \cup R
    OBVIOUS
  <2>15. PICK m : m = TakeAll(Append(bits, f), refs)
    OBVIOUS
  <2>16. Matches(before, m)
    <3>1. PICK t, n : Placed(t, Append(bits, f), n, R)
      BY <2>12
    <3>2. \A h \in R : h \notin Holding
      BY <2>12, <2>13
    <3> QED
      BY <1>3, <2>1, <2>14, <2>15, <3>1, <3>2, TakePlaces
  <2>17. PICK now : now = (before \ {p}) \cup {q}
    OBVIOUS
  <2>18. PICK a : a = VecSet(res[k], f, m)
    OBVIOUS
  <2>19. Matches(now, a)
    <3>1. p \in before /\ q \notin before \ {p}
      BY <2>9, <2>11, <2>12, <2>14
    <3>2. Matches((before \ {p}) \cup {q}, Take(q[3], Give(p[3], m)))
      BY <1>3, <2>16, <3>1, SwapMatches
    <3> QED
      BY <2>9, <2>17, <2>18, <3>2 DEF VecSet
  <2>20. R \subseteq now /\ now \ R = (Holding \ {p}) \cup {q}
    BY <2>9, <2>12, <2>13, <2>14, <2>17
  <2>21. refs' = GiveAll(<<f>> \o bits, a)
    BY <1>1, <1>4, <2>15, <2>18
  <2>22. Matches(now \ R, refs')
    <3>1. PICK t, n : Placed(t, <<f>> \o bits, n, R)
      BY <2>12
    <3> QED
      BY <1>3, <2>19, <2>20, <2>21, <3>1, GivePlaces
  <2>23. Pinned(f) \/ f \in table'
    BY <1>13 DEF Pinned
  <2>24. Alive'
    BY <1>13, <2>1, <2>9, <2>10, <2>23, AliveStep
  <2> QED
    BY <2>10, <2>20, <2>22, <2>24
<1> QED
  BY <1>12, <1>14, <1>15, <1>16, SoundStep

(* The places of the local vector of a map.                                *)
LEMMA MapAt ==
  ASSUME map # Nothing, map.res \in Seq(Diagrams)
  PROVE  \E q, n : Placed(q, map.res, n, MapHolds)
<1>1. PICK s \in Seq(Diagrams) : s = map.res
  OBVIOUS
<1>2. PICK n \in Nat : n = Len(s) /\ DOMAIN s = 1..n
  OBVIOUS
<1> DEFINE q == [i \in 1..n |-> <<"map", i, s[i]>>]
<1>3. AreAt(q, s, n)
  BY DEF AreAt
<1>4. At(q, n) = MapHolds /\ \A i \in 1..n : q[i] \in MapHolds
  BY <1>1, <1>2 DEF At, MapHolds
<1> HIDE DEF q
<1>5. Placed(q, s, n, MapHolds)
  BY <1>2, <1>3, <1>4 DEF Placed
<1> QED
  BY <1>1, <1>5

(* The end of a map.                                                       *)
LEMMA MapEndSound == ASSUME Sound, MapEnd PROVE Sound'
<1>1. /\ map # Nothing /\ map' = Nothing /\ UNCHANGED <<program, phase, table, object, temps, load, file>>
      /\ \/ (\E v \in Vectors \ Built : vector' = [vector EXCEPT ![v] = Roots(map.res)]) /\ UNCHANGED refs
         \/ refs' = GiveAll(map.res, refs) /\ UNCHANGED vector
  BY DEF MapEnd, tableVars, io
<1>2. NamesDiagrams /\ MapFits /\ LoadFits
  BY DEF Sound
<1>3. Running /\ map.res \in Seq(Diagrams)
  BY <1>1, <1>2 DEF MapFits
<1>4. PICK s \in Seq(Diagrams) : s = map.res
  BY <1>3
<1>5. Matches(Holding, refs) /\ Alive
  BY <1>3 DEF Sound
<1>6. PICK p, n : Placed(p, s, n, MapHolds)
  BY <1>1, <1>4, MapAt
<1>7. MapHolds' = {}
  BY <1>1 DEF MapHolds
<1>8. MapFits'
  BY <1>1, IdleFits
<1>9. LoadFits'
  BY <1>1, <1>2 DEF LoadFits, Running, Declared
<1>10. temps' \in Seq(Diagrams)
  BY <1>1, <1>2 DEF NamesDiagrams
<1>11. MapHolds \subseteq Holding
  BY DEF Holding
<1>12. CASE refs' = GiveAll(map.res, refs) /\ UNCHANGED vector
  <2>1. Holding' = Holding \ MapHolds
    BY <1>1, <1>7, <1>12, KeptHold, Tags DEF Holding
  <2>2. Matches(Holding \ MapHolds, GiveAll(s, refs))
    BY <1>3, <1>5, <1>6, <1>11, GivePlaces
  <2>3. NamesDiagrams'
    <3>1. IsVectors'
      BY <1>2, <1>12 DEF IsVectors, NamesDiagrams, Bits
    <3> QED
      BY <1>1, <1>2, <1>10, <3>1, VectorsKept
  <2>4. Alive'
    BY <1>1, <1>5, <2>1, AliveStep
  <2>5. Matches(Holding', refs')
    BY <1>4, <1>12, <2>1, <2>2
  <2> QED
    BY <1>8, <1>9, <2>3, <2>4, <2>5, SoundStep
<1>13. CASE (\E v \in Vectors \ Built : vector' = [vector EXCEPT ![v] = Roots(map.res)]) /\ UNCHANGED refs
  <2>1. PICK v \in Vectors \ Built : vector' = [vector EXCEPT ![v] = Roots(s)]
    BY <1>4, <1>13
  <2>2. VectorsHold' = VectorsHold \cup BitPlaces(v, s) /\ IsVectors' /\ \A h \in BitPlaces(v, s) : h \notin Holding
    <3>1. BuiltHold(v, s, OldPlaces(v))
      BY <1>2, <2>1, VectorBuilt
    <3>2. OldPlaces(v) = {}
      BY DEF OldPlaces
    <3> QED
      BY <3>1, <3>2 DEF BuiltHold
  <2>3. NamesDiagrams'
    BY <1>1, <1>2, <1>10, <2>2, VectorsKept
  <2>4. PICK q, l : Placed(q, s, l, BitPlaces(v, s))
    BY BitsAt
  <2>5. \A h \in BitPlaces(v, s) : h[1] = "vector"
    BY DEF BitPlaces
  <2>6. Holding' = (Holding \ MapHolds) \cup BitPlaces(v, s)
    BY <1>1, <1>7, <2>2, <2>5, KeptHold, Tags DEF Holding
  <2>7. Matches((Holding \ MapHolds) \cup BitPlaces(v, s), refs)
    <3>1. /\ n \in Nat /\ n = Len(s) /\ AreAt(p, s, n) /\ At(p, n) = MapHolds
          /\ \A i \in 1..n : p[i] \in Holding
      BY <1>6, <1>11 DEF Placed
    <3>2. l = n /\ AreAt(q, s, n) /\ At(q, n) = BitPlaces(v, s) /\ \A i \in 1..n : q[i] \notin Holding
      BY <2>2, <2>4, <3>1 DEF Placed
    <3>3. Matches((Holding \ At(p, n)) \cup At(q, n), refs)
      BY <1>5, <3>1, <3>2, RenamedAllMatches
    <3> QED
      BY <3>1, <3>2, <3>3
  <2>8. \A h \in BitPlaces(v, s) : h[3] \in Held
    <3>1. ASSUME NEW i \in DOMAIN s PROVE s[i] \in Held
      <4>1. <<"map", i, s[i]>> \in Holding
        BY <1>1, <1>4 DEF MapHolds, Holding
      <4> QED
        BY <4>1 DEF Held
    <3> QED
      BY <3>1, BitPlacesHold
  <2>9. Alive'
    BY <1>1, <1>5, <2>6, <2>8, AliveStep
  <2>10. Matches(Holding', refs')
    BY <1>13, <2>6, <2>7
  <2> QED
    BY <1>8, <1>9, <2>3, <2>9, <2>10, SoundStep
<1> QED
  BY <1>1, <1>12, <1>13

-----------------------------------------------------------------------------
(* Steps of saving and loading.                                            *)

(* What a file has in its first line is a number, complete or not.         *)
LEMMA FilesCounted ==
  ASSUME NEW root, NEW stride, NEW whole, whole = Saved(order, root, stride),
         NEW written \in {whole} \cup Damaged(whole)
  PROVE  written.nodenum \in Nat
<1>1. PICK entries, varnum, top :
        whole = [header |-> 3, nodenum |-> Cardinality(Below(order, root)), varnum |-> varnum, root |-> top,
                 entries |-> entries, cut |-> FALSE, of |-> root]
  BY DEF Saved
<1>2. PICK n : n = Cardinality(Below(order, root))
  OBVIOUS
<1>3. n \in Nat
  BY <1>2, BelowFacts, FS_CardinalityType
<1>4. whole = [header |-> 3, nodenum |-> n, varnum |-> varnum, root |-> top, entries |-> entries,
               cut |-> FALSE, of |-> root]
  BY <1>1, <1>2
<1> DEFINE first(k) == [whole EXCEPT !.entries = SubSeq(@, 1, k)]
<1>5. ASSUME NEW k PROVE first(k).nodenum = n /\ "nodenum" \in DOMAIN first(k)
  BY <1>4
<1>6. CASE written = whole
  BY <1>3, <1>4, <1>6
<1>9. CASE written \in {[first(0) EXCEPT !.header = k] : k \in 1..2}
  <2>1. PICK k : written = [first(0) EXCEPT !.header = k]
    BY <1>9
  <2>2. written.nodenum = first(0).nodenum
    <3> HIDE DEF first
    <3> QED
      BY <2>1
  <2> HIDE DEF first
  <2> QED
    BY <1>3, <1>5, <2>2
<1>7. CASE written \in {first(k) : k \in 1..(whole.nodenum - 1)}
  <2>1. PICK k : written = first(k)
    BY <1>7
  <2> HIDE DEF first
  <2> QED
    BY <1>3, <1>5, <2>1
<1>8. CASE written \in {[first(k) EXCEPT !.entries[k].high = @ \div 10, !.cut = TRUE] :
                          k \in {k \in 1..whole.nodenum : whole.entries[k].high >= 10}}
  <2>1. PICK k : written = [first(k) EXCEPT !.entries[k].high = @ \div 10, !.cut = TRUE]
    BY <1>8
  <2>2. written.nodenum = first(k).nodenum
    <3> HIDE DEF first
    <3> QED
      BY <2>1
  <2> HIDE DEF first
  <2> QED
    BY <1>3, <1>5, <2>2
<1> QED
  BY <1>6, <1>7, <1>8, <1>9 DEF Damaged

(* bdd_fnsave.                                                             *)
LEMMA SaveSound == ASSUME Sound, Save PROVE Sound'
<1>1. /\ Quiet /\ Running
      /\ UNCHANGED <<program, phase, table, refs, object, temps, vector, map, load>>
      /\ \E o \in Declared, stride \in program.strides :
           LET whole == Saved(order, object[o], stride)
           IN  file' \in {whole} \cup (IF program.faults THEN Damaged(whole) ELSE {})
  BY DEF Save, Asks, Step, tableVars, handles
<1>2. NamesDiagrams
  BY DEF Sound
<1>3. file'.nodenum \in Nat
  <2>1. PICK root, stride : LET whole == Saved(order, root, stride)
                            IN  file' \in {whole} \cup (IF program.faults THEN Damaged(whole) ELSE {})
    BY <1>1
  <2>2. PICK whole : whole = Saved(order, root, stride)
    OBVIOUS
  <2>3. file' \in {whole} \cup Damaged(whole)
    BY <2>1, <2>2
  <2>4. PICK written : written = file'
    OBVIOUS
  <2>5. written \in {whole} \cup Damaged(whole)
    BY <2>3, <2>4
  <2>6. written.nodenum \in Nat
    BY <2>2, <2>5, FilesCounted
  <2> QED
    BY <2>4, <2>6
<1>4. NamesDiagrams'
  BY <1>1, <1>2, <1>3 DEF NamesDiagrams, Bits, Running
<1>5. MapFits' /\ LoadFits'
  BY <1>1, IdleFits DEF Quiet
<1>6. Matches(Holding', refs') /\ Alive'
  <2>1. Matches(Holding, refs) /\ Alive
    BY <1>1 DEF Sound
  <2>2. Holding' = Holding
    BY <1>1, KeptHold DEF Holding
  <2>3. Alive'
    BY <1>1, <2>1, <2>2, AliveStep
  <2> QED
    BY <1>1, <2>1, <2>2, <2>3
<1> QED
  BY <1>4, <1>5, <1>6, SoundStep

(* r = bdd(lr), when m has a reference for each of the places.             *)
LEMMA RootAssigned ==
  ASSUME NamesDiagrams, Running, NEW o \in Declared, NEW f \in Diagrams, NEW m, AssignRoot(o, f, m),
         NEW places, Matches(places, m), ObjectsHold \subseteq places, places \subseteq Holding
  PROVE  /\ object' \in [Objects -> Diagrams \cup {Undeclared}] /\ Declared' = Declared
         /\ \E p, q : /\ AssignedHold(p, q) /\ p[1] = "object" /\ q[1] = "object" /\ q[3] = f
                      /\ Matches((places \ {p}) \cup {q}, refs')
<1>1. object' = [object EXCEPT ![o] = f] /\ refs' = Give(f, Assigned(object[o], f, Take(f, m)))
  BY DEF AssignRoot
<1>2. PICK p, q, t : p = <<"object", o, object[o]>> /\ q = <<"object", o, f>> /\ t = <<"root", o, f>>
  OBVIOUS
<1>3. AssignedHold(<<"object", o, object[o]>>, <<"object", o, f>>)
      /\ object' \in [Objects -> Diagrams \cup {Undeclared}] /\ Declared' = Declared
  BY <1>1, ObjectAssigned
<1>4. AssignedHold(p, q)
  BY <1>2, <1>3
<1>5. p \in places /\ q \notin places \ {p} /\ (p[3] = q[3] => p = q)
  BY <1>4 DEF AssignedHold
<1>6. p[1] = "object" /\ q[1] = "object" /\ p[3] = object[o] /\ q[3] = f /\ t[1] = "root" /\ t[3] = q[3]
  BY <1>2
<1>7. t \notin places /\ t # q
  <2>1. \A h \in Holding : h[1] # "root"
    BY Tags DEF Holding
  <2> QED
    BY <1>6, <2>1
<1>8. Matches((places \ {p}) \cup {q}, Give(q[3], Assigned(p[3], q[3], Take(q[3], m))))
  BY <1>5, <1>6, <1>7, RootMatches
<1>9. Matches((places \ {p}) \cup {q}, refs')
  BY <1>1, <1>6, <1>8
<1> QED
  BY <1>3, <1>4, <1>6, <1>9

(* A variable gets the root of a file, and nothing else happens.           *)
LEMMA RootSound ==
  ASSUME Sound, Quiet, Running, NEW o \in Declared, NEW f \in Diagrams, f \in table \/ Pinned(f),
         AssignRoot(o, f, refs), UNCHANGED <<program, phase, table, temps, vector, map, load, file>>
  PROVE  Sound'
<1>1. NamesDiagrams /\ Matches(Holding, refs) /\ Alive
  BY DEF Sound
<1>2. /\ object' \in [Objects -> Diagrams \cup {Undeclared}]
      /\ \E p, q : /\ AssignedHold(p, q) /\ p[1] = "object" /\ q[1] = "object" /\ q[3] = f
                   /\ Matches((Holding \ {p}) \cup {q}, refs')
  <2>1. ObjectsHold \subseteq Holding
    BY DEF Holding
  <2> QED
    BY <1>1, <2>1, RootAssigned
<1>3. PICK p, q : /\ AssignedHold(p, q) /\ p[1] = "object" /\ q[1] = "object" /\ q[3] = f
                  /\ Matches((Holding \ {p}) \cup {q}, refs')
  BY <1>2
<1>4. NamesDiagrams'
  <2>1. temps' \in Seq(Diagrams) /\ table' \subseteq Diagrams
    BY <1>1 DEF NamesDiagrams
  <2> QED
    BY <1>1, <1>2, <2>1, NamesKept
<1>5. MapFits' /\ LoadFits'
  BY IdleFits DEF Quiet
<1>6. Holding' = (Holding \ {p}) \cup {q}
  BY <1>3, KeptHold, Tags DEF Holding, AssignedHold
<1>7. Alive'
  BY <1>1, <1>3, <1>6, AliveStep
<1> QED
  BY <1>3, <1>4, <1>5, <1>6, <1>7, SoundStep

(* A file that cannot be opened.                                           *)
LEMMA LoadMissingSound == ASSUME Sound, LoadMissing PROVE Sound'
<1>1. /\ Quiet /\ Running /\ UNCHANGED <<program, phase, table, temps, vector, map, load, file>>
      /\ \E o \in Declared, lr \in Uninitialised : AssignRoot(o, lr, refs)
  BY DEF LoadMissing, LoadCalled, Asks, Step, tableVars, io
<1>2. PICK o \in Declared, f \in Uninitialised : AssignRoot(o, f, refs)
  BY <1>1
<1>3. f \in Diagrams /\ (f \in table \/ Pinned(f))
  BY DiagramFacts DEF Uninitialised, Sound, NamesDiagrams
<1> QED
  BY <1>1, <1>2, <1>3, RootSound

(* A file without its two first numbers.                                   *)
LEMMA LoadNoHeaderSound == ASSUME Sound, LoadNoHeader PROVE Sound'
<1>1. /\ Quiet /\ Running /\ UNCHANGED <<program, phase, table, temps, vector, map, load, file>>
      /\ \E o \in Declared, lr \in Uninitialised : AssignRoot(o, lr, refs)
  BY DEF LoadNoHeader, LoadCalled, Asks, Step, tableVars
<1>2. PICK o \in Declared, f \in Uninitialised : AssignRoot(o, f, refs)
  BY <1>1
<1>3. f \in Diagrams /\ (f \in table \/ Pinned(f))
  BY DiagramFacts DEF Uninitialised, Sound, NamesDiagrams
<1> QED
  BY <1>1, <1>2, <1>3, RootSound

(* A file of a constant.                                                   *)
LEMMA LoadConstSound == ASSUME Sound, LoadConst PROVE Sound'
<1>1. /\ Quiet /\ Running /\ UNCHANGED <<program, phase, table, temps, vector, map, load, file>>
      /\ \E o \in Declared : \E lr \in Uninitialised \cup {Zero, One} : AssignRoot(o, lr, refs)
  BY DEF LoadConst, LoadCalled, Asks, Step, tableVars
<1>2. PICK o \in Declared : \E lr \in Uninitialised \cup {Zero, One} : AssignRoot(o, lr, refs)
  BY <1>1
<1>3. PICK f \in Uninitialised \cup {Zero, One} : AssignRoot(o, f, refs)
  BY <1>2
<1>4. f \in Diagrams /\ (f \in table \/ Pinned(f))
  BY DiagramFacts DEF Uninitialised, Sound, NamesDiagrams
<1> QED
  BY <1>1, <1>3, <1>4, RootSound

(* The header of a file.                                                   *)
LEMMA LoadBeginSound == ASSUME Sound, LoadBegin PROVE Sound'
<1>1. /\ Quiet /\ Running /\ file # NoFile
      /\ UNCHANGED <<program, phase, table, refs, object, temps, vector, map, file>>
      /\ \E o \in Declared : \E erred :
           load' = [of |-> "load", into |-> o, hash |-> EmptyHash(file.nodenum), n |-> 0,
                    root |-> Zero, erred |-> erred]
  BY DEF LoadBegin, LoadCalled, Asks, Step, handles
<1>2. NamesDiagrams
  BY DEF Sound
<1>3. PICK size \in Nat : size = file.nodenum
  BY <1>1, <1>2 DEF NamesDiagrams
<1>4. PICK o \in Declared : \E erred :
        load' = [of |-> "load", into |-> o, hash |-> EmptyHash(file.nodenum), n |-> 0,
                 root |-> Zero, erred |-> erred]
  BY <1>1
<1>5. PICK erred :
        load' = [of |-> "load", into |-> o, hash |-> EmptyHash(file.nodenum), n |-> 0,
                 root |-> Zero, erred |-> erred]
  BY <1>4
<1>6. PICK h : h = EmptyHash(size)
  OBVIOUS
<1>7. load' = [of |-> "load", into |-> o, hash |-> h, n |-> 0, root |-> Zero, erred |-> erred]
  BY <1>3, <1>5, <1>6
<1>8. h.slot = [i \in 0..(size - 1) |-> [key |-> 0, data |-> Unwritten, first |-> -1,
                                         next |-> IF i = size - 1 THEN -1 ELSE i + 1]]
      /\ h.freepos = 0 /\ h = [slot |-> h.slot, freepos |-> h.freepos]
  BY <1>6 DEF EmptyHash
<1>9. HashFits(h, 0, size)
  <2>1. PICK slot : slot = h.slot
    OBVIOUS
  <2>2. slot = [i \in 0..(size - 1) |-> slot[i]] /\ \A i \in 0..(size - 1) :
          slot[i] = [key |-> 0, data |-> Unwritten, first |-> -1, next |-> IF i = size - 1 THEN -1 ELSE i + 1]
    BY <1>8, <2>1
  <2>3. \A i \in 0..(size - 1) : ~ (i < 0)
    OBVIOUS
  <2>4. \A i \in 0..(size - 1) :
          /\ slot[i] = [key |-> slot[i].key, data |-> slot[i].data, first |-> slot[i].first, next |-> slot[i].next]
          /\ slot[i].data = Unwritten /\ slot[i].next = IF i = size - 1 THEN -1 ELSE i + 1
    BY <2>2
  <2> QED
    BY <1>8, <2>1, <2>2, <2>3, <2>4 DEF HashFits
<1>10. /\ load'.into = o /\ load'.hash = h /\ load'.n = 0 /\ load'.root = Zero /\ load'.erred = erred
       /\ load'.of = "load"
       /\ load' = [of |-> "load", into |-> load'.into, hash |-> load'.hash, n |-> load'.n,
                   root |-> load'.root, erred |-> load'.erred]
  BY <1>7
<1>11. load' # Nothing
  <2>1. Nothing.of = "nothing"
    BY DEF Nothing
  <2> QED
    BY <1>10, <2>1
<1>12. LoadFits'
  <2>1. Running' /\ Declared' = Declared /\ file' = file
    BY <1>1 DEF Running, Declared
  <2>2. 0 \in 0..size
    OBVIOUS
  <2> QED
    BY <1>1, <1>3, <1>9, <1>10, <2>1, <2>2 DEF LoadFits
<1>13. NamesDiagrams'
  BY <1>1, <1>2 DEF NamesDiagrams, Bits, Running
<1>14. MapFits'
  BY <1>1, IdleFits DEF Quiet
<1>15. LoadHolds' = {}
  <2>1. LoadedBy(h) = {}
    BY <1>8 DEF LoadedBy
  <2> QED
    BY <1>10, <1>11, <2>1 DEF LoadHolds
<1>16. Matches(Holding', refs') /\ Alive'
  <2>1. Matches(Holding, refs) /\ Alive
    BY <1>1 DEF Sound
  <2>2. LoadHolds = {}
    BY <1>1 DEF LoadHolds, Quiet
  <2>3. Holding' = Holding
    BY <1>1, <1>15, <2>2, KeptHold DEF Holding
  <2>4. Alive'
    BY <1>1, <2>1, <2>3, AliveStep
  <2> QED
    BY <1>1, <2>1, <2>3, <2>4
<1> QED
  BY <1>12, <1>13, <1>14, <1>16, SoundStep

(* The slots that have been filled.                                        *)
LEMMA HashLoaded ==
  ASSUME NEW size \in Nat, NEW n \in 0..size, NEW h, HashFits(h, n, size)
  PROVE  LoadedBy(h) = 0..(n - 1)
<1>1. DOMAIN h.slot = 0..(size - 1)
  BY DEF HashFits
<1>2. \A i \in 0..(size - 1) : /\ i < n => h.slot[i].data \in Diagrams
                               /\ ~ (i < n) => h.slot[i].data = Unwritten
  BY DEF HashFits
<1>3. \A i \in 0..(n - 1) : i \in 0..(size - 1) /\ i < n
  OBVIOUS
<1>4. \A i \in 0..(size - 1) : i < n => i \in 0..(n - 1)
  OBVIOUS
<1> QED
  BY <1>1, <1>2, <1>3, <1>4, DiagramFacts DEF LoadedBy

(* loadhash_add fills the next slot.                                       *)
LEMMA HashAdded ==
  ASSUME NEW size \in Nat, NEW n \in 0..size, NEW h, HashFits(h, n, size), n < size,
         NEW number, NEW f \in Diagrams, NEW g, g = LoadHashAdd(h, number, f)
  PROVE  /\ HashFits(g, n + 1, size) /\ g.slot[n].data = f
         /\ \A i \in 0..(n - 1) : g.slot[i].data = h.slot[i].data
<1>1. PICK s, hash, x : s = h.slot /\ hash = number % HashSize(h) /\ x = h.slot[number % HashSize(h)].first
  OBVIOUS
<1>2. /\ s = [i \in 0..(size - 1) |-> s[i]]
      /\ \A i \in 0..(size - 1) :
           /\ s[i] = [key |-> s[i].key, data |-> s[i].data, first |-> s[i].first, next |-> s[i].next]
           /\ i < n => s[i].data \in Diagrams
           /\ ~ (i < n) => s[i].data = Unwritten /\ s[i].next = IF i = size - 1 THEN -1 ELSE i + 1
      /\ h.freepos = n
  BY <1>1 DEF HashFits
<1>3. n \in 0..(size - 1)
  OBVIOUS
<1>4. PICK a : a = [s EXCEPT ![n] = [s[n] EXCEPT !.next = x]]
  OBVIOUS
<1>5. PICK b : b = [a EXCEPT ![n] = [a[n] EXCEPT !.key = number]]
  OBVIOUS
<1>6. PICK c : c = [b EXCEPT ![n] = [b[n] EXCEPT !.data = f]]
  OBVIOUS
<1>7. PICK d : d = [c EXCEPT ![hash] = [c[hash] EXCEPT !.first = n]]
  OBVIOUS
<1>8. g = [slot |-> d, freepos |-> s[n].next]
  <2>1. c = [h.slot EXCEPT ![n].next = x, ![n].key = number, ![n].data = f]
    BY <1>1, <1>4, <1>5, <1>6
  <2> QED
    BY <1>1, <1>2, <1>7, <2>1 DEF LoadHashAdd
<1>9. s[n] = [key |-> s[n].key, data |-> s[n].data, first |-> s[n].first, next |-> s[n].next]
  BY <1>2, <1>3
<1>10. /\ a = [i \in 0..(size - 1) |-> a[i]] /\ \A i \in 0..(size - 1) : i # n => a[i] = s[i]
       /\ a[n] = [key |-> s[n].key, data |-> s[n].data, first |-> s[n].first, next |-> x]
  BY <1>2, <1>3, <1>4, <1>9
<1>11. /\ b = [i \in 0..(size - 1) |-> b[i]] /\ \A i \in 0..(size - 1) : i # n => b[i] = s[i]
       /\ b[n] = [key |-> number, data |-> s[n].data, first |-> s[n].first, next |-> x]
  <2>1. PICK r : r = a[n]
    OBVIOUS
  <2>2. [r EXCEPT !.key = number] = [key |-> number, data |-> s[n].data, first |-> s[n].first, next |-> x]
    BY <1>10, <2>1
  <2>3. b = [a EXCEPT ![n] = [key |-> number, data |-> s[n].data, first |-> s[n].first, next |-> x]]
    BY <1>5, <2>1, <2>2
  <2> QED
    BY <1>3, <1>10, <2>3
<1>12. /\ c = [i \in 0..(size - 1) |-> c[i]] /\ \A i \in 0..(size - 1) : i # n => c[i] = s[i]
       /\ c[n] = [key |-> number, data |-> f, first |-> s[n].first, next |-> x]
  <2>1. PICK r : r = b[n]
    OBVIOUS
  <2>2. [r EXCEPT !.data = f] = [key |-> number, data |-> f, first |-> s[n].first, next |-> x]
    BY <1>11, <2>1
  <2>3. c = [b EXCEPT ![n] = [key |-> number, data |-> f, first |-> s[n].first, next |-> x]]
    BY <1>6, <2>1, <2>2
  <2> QED
    BY <1>3, <1>11, <2>3
<1>13. \A i \in 0..(size - 1) :
         c[i] = [key |-> c[i].key, data |-> c[i].data, first |-> c[i].first, next |-> c[i].next]
  BY <1>2, <1>12
<1>14. d = [i \in 0..(size - 1) |-> d[i]]
  BY <1>7, <1>12
<1>15. ASSUME NEW i \in 0..(size - 1)
       PROVE  /\ d[i] = [key |-> d[i].key, data |-> d[i].data, first |-> d[i].first, next |-> d[i].next]
              /\ d[i].data = c[i].data /\ d[i].next = c[i].next
  <2>1. CASE i = hash
    <3>1. d[i] = [c[i] EXCEPT !.first = n]
      BY <1>7, <1>12, <2>1
    <3>2. c[i] = [key |-> c[i].key, data |-> c[i].data, first |-> c[i].first, next |-> c[i].next]
      BY <1>13
    <3>3. d[i] = [key |-> c[i].key, data |-> c[i].data, first |-> n, next |-> c[i].next]
      BY <3>1, <3>2
    <3> QED
      BY <3>3
  <2>2. CASE i # hash
    <3>1. d[i] = c[i]
      BY <1>7, <1>12, <2>2
    <3> QED
      BY <1>13, <3>1
  <2> QED
    BY <2>1, <2>2
<1>16. c[n].data = f /\ \A i \in 0..(size - 1) : i # n => c[i].data = s[i].data /\ c[i].next = s[i].next
  BY <1>12
<1>17. ASSUME NEW i \in 0..(size - 1)
       PROVE  /\ i < n + 1 => d[i].data \in Diagrams
              /\ ~ (i < n + 1) => /\ d[i].data = Unwritten
                                  /\ d[i].next = IF i = size - 1 THEN -1 ELSE i + 1
  <2>1. CASE i = n
    <3>1. i < n + 1
      BY <2>1
    <3>2. d[i].data = f
      BY <1>15, <1>16, <2>1
    <3> QED
      BY <3>1, <3>2
  <2>2. CASE i # n
    <3>1. (i < n + 1) <=> (i < n)
      BY <2>2
    <3>2. d[i].data = s[i].data /\ d[i].next = s[i].next
      BY <1>15, <1>16, <2>2
    <3> QED
      BY <1>2, <3>1, <3>2
  <2> QED
    BY <2>1, <2>2
<1>18. n + 1 < size => s[n].next = n + 1
  <2>1. ~ (n < n) /\ (n + 1 < size => n # size - 1)
    OBVIOUS
  <2> QED
    BY <1>2, <1>3, <2>1
<1>19. g.slot = d /\ g.freepos = s[n].next /\ g = [slot |-> g.slot, freepos |-> g.freepos]
  BY <1>8
<1>20. HashFits(g, n + 1, size)
  BY <1>14, <1>15, <1>17, <1>18, <1>19 DEF HashFits
<1>21. g.slot[n].data = f
  BY <1>3, <1>15, <1>16, <1>19
<1>22. \A i \in 0..(n - 1) : i \in 0..(size - 1) /\ i # n
  OBVIOUS
<1>23. \A i \in 0..(n - 1) : g.slot[i].data = h.slot[i].data
  BY <1>1, <1>15, <1>16, <1>19, <1>22
<1> QED
  BY <1>20, <1>21, <1>23

(* One entry of a file.                                                    *)
LEMMA LoadEntrySound == ASSUME Sound, LoadEntry PROVE Sound'
<1>1. /\ load # Nothing /\ load.n < file.nodenum
      /\ UNCHANGED <<program, phase, object, temps, vector, map, file>>
  BY DEF LoadEntry, MoreToDo, handles
<1>2. NamesDiagrams /\ MapFits /\ LoadFits
  BY DEF Sound
<1>3. PICK h, n, size : h = load.hash /\ n = load.n /\ size = file.nodenum
  OBVIOUS
<1>4. /\ Running /\ file # NoFile /\ load.into \in Declared
      /\ load = [of |-> "load", into |-> load.into, hash |-> h, n |-> n, root |-> load.root, erred |-> load.erred]
      /\ n \in 0..size /\ size \in Nat /\ HashFits(h, n, size) /\ n < size
  BY <1>1, <1>2, <1>3 DEF LoadFits, NamesDiagrams
<1>5. PICK f \in Diagrams :
        /\ Made(f) /\ refs' = LoadedRef(f, refs)
        /\ \E erred, number :
             load' = [load EXCEPT !.n = @ + 1, !.root = f, !.erred = erred, !.hash = LoadHashAdd(@, number, f)]
  <2>1. PICK room \in BOOLEAN :
          LET known == Entry.var \in VarsOf(order)
              var   == IF known THEN Ithvar(Entry.var) ELSE Zero
              f     == IF room THEN Ite(var, Operand(load.hash, Entry.high), Operand(load.hash, Entry.low))
                       ELSE Zero
          IN  /\ Made(f)
              /\ refs' = LoadedRef(f, refs)
              /\ load' = [load EXCEPT !.n = @ + 1, !.root = f, !.erred = @ \/ ~ known \/ ~ room,
                                      !.hash = LoadHashAdd(@, Entry.key, f)]
    BY DEF LoadEntry
  <2>2. PICK known, var, g, low, high, number :
          /\ known = (Entry.var \in VarsOf(order)) /\ var = (IF known THEN Ithvar(Entry.var) ELSE Zero)
          /\ high = Operand(load.hash, Entry.high) /\ low = Operand(load.hash, Entry.low)
          /\ g = (IF room THEN Ite(var, high, low) ELSE Zero) /\ number = Entry.key
    OBVIOUS
  <2>3. PICK erred : erred = (load.erred \/ ~ known \/ ~ room)
    OBVIOUS
  <2>4. /\ Made(g) /\ refs' = LoadedRef(g, refs)
        /\ load' = [load EXCEPT !.n = @ + 1, !.root = g, !.erred = erred, !.hash = LoadHashAdd(@, number, g)]
    BY <2>1, <2>2, <2>3, Zenon
  <2>5. var \in Diagrams
    BY <2>2, DiagramFacts
  <2>6. Ite(var, high, low) \in Diagrams
    BY <2>5 DEF Ite, Not, Diagrams
  <2>7. g \in Diagrams
    BY <2>2, <2>6, DiagramFacts
  <2> QED
    BY <2>4, <2>7
<1>6. PICK erred, number :
        load' = [load EXCEPT !.n = @ + 1, !.root = f, !.erred = erred, !.hash = LoadHashAdd(@, number, f)]
  BY <1>5
<1>7. PICK g : g = LoadHashAdd(h, number, f)
  OBVIOUS
<1>8. /\ HashFits(g, n + 1, size) /\ g.slot[n].data = f
      /\ \A i \in 0..(n - 1) : g.slot[i].data = h.slot[i].data
  BY <1>4, <1>7, HashAdded
<1>9. load' = [of |-> "load", into |-> load.into, hash |-> g, n |-> n + 1, root |-> f, erred |-> erred]
  <2>1. PICK into, root, old : into = load.into /\ root = load.root /\ old = load.erred
    OBVIOUS
  <2>2. PICK l : l = load
    OBVIOUS
  <2>3. l = [of |-> "load", into |-> into, hash |-> h, n |-> n, root |-> root, erred |-> old]
    BY <1>4, <2>1, <2>2
  <2>4. PICK a : a = [l EXCEPT !.n = n + 1]
    OBVIOUS
  <2>5. a = [of |-> "load", into |-> into, hash |-> h, n |-> n + 1, root |-> root, erred |-> old]
    BY <2>3, <2>4
  <2>6. PICK b : b = [a EXCEPT !.root = f]
    OBVIOUS
  <2>7. b = [of |-> "load", into |-> into, hash |-> h, n |-> n + 1, root |-> f, erred |-> old]
    BY <2>5, <2>6
  <2>8. PICK c : c = [b EXCEPT !.erred = erred]
    OBVIOUS
  <2>9. c = [of |-> "load", into |-> into, hash |-> h, n |-> n + 1, root |-> f, erred |-> erred]
    BY <2>7, <2>8
  <2>10. [c EXCEPT !.hash = g]
           = [of |-> "load", into |-> into, hash |-> g, n |-> n + 1, root |-> f, erred |-> erred]
    BY <2>9
  <2>11. l.n = n /\ l.hash = h
    BY <2>3
  <2>12. [l EXCEPT !.n = @ + 1, !.root = f, !.erred = erred, !.hash = LoadHashAdd(@, number, f)]
           = [c EXCEPT !.hash = g]
    BY <1>7, <2>3, <2>4, <2>5, <2>6, <2>7, <2>8, <2>9, <2>11
  <2> QED
    BY <1>6, <2>1, <2>2, <2>10, <2>12
<1>10. /\ load'.into = load.into /\ load'.hash = g /\ load'.n = n + 1 /\ load'.root = f /\ load'.erred = erred
       /\ load'.of = "load"
       /\ load' = [of |-> "load", into |-> load'.into, hash |-> load'.hash, n |-> load'.n,
                   root |-> load'.root, erred |-> load'.erred]
  BY <1>9
<1>11. load' # Nothing
  <2>1. Nothing.of = "nothing"
    BY DEF Nothing
  <2> QED
    BY <1>10, <2>1
<1>12. LoadFits'
  <2>1. Running' /\ Declared' = Declared /\ file' = file
    BY <1>1, <1>4 DEF Running, Declared
  <2>2. n + 1 \in 0..size /\ n \in 0..((n + 1) - 1)
    BY <1>4
  <2> QED
    BY <1>3, <1>4, <1>8, <1>10, <2>1, <2>2 DEF LoadFits
<1>13. PICK p : p = <<"load", n, f>>
  OBVIOUS
<1>14. LoadHolds' = LoadHolds \cup {p} /\ p \notin Holding
  <2>1. LoadHolds = {<<"load", i, h.slot[i].data>> : i \in 0..(n - 1)}
    BY <1>1, <1>2, <1>3, LoadedPlaces
  <2>2. LoadedBy(g) = 0..n
    <3>1. n + 1 \in 0..size /\ 0..((n + 1) - 1) = 0..n
      BY <1>4
    <3>2. LoadedBy(g) = 0..((n + 1) - 1)
      BY <1>4, <1>8, <3>1, HashLoaded
    <3> QED
      BY <3>1, <3>2
  <2>3. LoadHolds' = {<<"load", i, g.slot[i].data>> : i \in 0..n}
    BY <1>10, <1>11, <2>2 DEF LoadHolds
  <2>4. /\ \A i \in 0..n : i \in 0..(n - 1) \/ i = n
        /\ \A i \in 0..(n - 1) : i \in 0..n /\ i # n
        /\ n \in 0..n
    BY <1>4
  <2>5. \A x : x \in LoadHolds' <=> \E i \in 0..n : x = <<"load", i, g.slot[i].data>>
    BY <2>3
  <2>6. \A x : x \in LoadHolds <=> \E i \in 0..(n - 1) : x = <<"load", i, h.slot[i].data>>
    BY <2>1
  <2>7. LoadHolds' = LoadHolds \cup {p}
    BY <1>8, <1>13, <2>4, <2>5, <2>6
  <2>8. p \notin LoadHolds
    BY <1>13, <2>4, <2>6
  <2>9. \A x \in Holding : x[1] = "load" => x \in LoadHolds
    BY Tags DEF Holding
  <2> QED
    BY <1>13, <2>7, <2>8, <2>9
<1>15. table' = table \cup Below(order, f) /\ (IsConst(f) \/ f \in table') /\ table' \subseteq Diagrams
  BY <1>2, <1>5, BelowFacts DEF Made, NamesDiagrams
<1>16. NamesDiagrams'
  <2>1. object' \in [Objects -> Diagrams \cup {Undeclared}] /\ temps' \in Seq(Diagrams)
    BY <1>1, <1>2 DEF NamesDiagrams
  <2> QED
    BY <1>1, <1>2, <1>4, <1>15, <2>1, NamesKept
<1>17. Built' = Built /\ (\A v : Bits(v)' = Bits(v)) /\ Running' /\ map' = map
  BY <1>1, <1>4 DEF Built, Bits, Running
<1>18. MapFits'
  BY <1>2, <1>17 DEF MapFits, Bits, Built
<1>19. Matches(Holding', refs') /\ Alive'
  <2>1. Matches(Holding, refs) /\ Alive
    BY <1>4 DEF Sound
  <2>2. Holding' = Holding \cup {p}
    BY <1>1, <1>14, KeptHold DEF Holding
  <2>3. p[3] = f
    BY <1>13
  <2>4. refs' = Take(f, refs)
    BY <1>5 DEF LoadedRef
  <2>5. Matches(Holding \cup {p}, refs')
    BY <1>4, <1>14, <2>1, <2>3, <2>4, TakeMatches
  <2>6. Pinned(f) \/ f \in table'
    BY <1>15 DEF Pinned
  <2>7. Alive'
    BY <1>15, <2>1, <2>2, <2>3, <2>6, AliveStep
  <2> QED
    BY <2>2, <2>5, <2>7
<1> QED
  BY <1>12, <1>16, <1>18, <1>19, SoundStep

(* bdd_load gives back all that is in lh_table.                            *)
LEMMA ReleasedMatches ==
  ASSUME Sound, load # Nothing
  PROVE  Matches(Holding \ LoadHolds, ReleaseAll(refs))
<1>1. NamesDiagrams /\ LoadFits /\ Running /\ Matches(Holding, refs)
  BY DEF Sound, LoadFits
<1>2. PICK n, h : n = load.n /\ h = load.hash
  OBVIOUS
<1>3. n \in Nat /\ LoadHolds = {<<"load", i, h.slot[i].data>> : i \in 0..(n - 1)}
  BY <1>1, <1>2, LoadedPlaces DEF LoadFits, NamesDiagrams
<1>4. PICK s : s = [i \in 1..n |-> h.slot[i - 1].data]
  OBVIOUS
<1>5. n = Len(s) /\ ReleaseAll(refs) = GiveAll(s, refs)
  BY <1>2, <1>3, <1>4 DEF ReleaseAll
<1>6. PICK q : q = [i \in 1..n |-> <<"load", i - 1, h.slot[i - 1].data>>]
  OBVIOUS
<1>7. AreAt(q, s, n)
  BY <1>3, <1>4, <1>6 DEF AreAt
<1>8. At(q, n) = LoadHolds
  <2>1. \A x : x \in At(q, n) <=> \E i \in 1..n : x = <<"load", i - 1, h.slot[i - 1].data>>
    BY <1>6 DEF At
  <2>2. (\A i \in 1..n : i - 1 \in 0..(n - 1)) /\ \A i \in 0..(n - 1) : i + 1 \in 1..n /\ (i + 1) - 1 = i
    BY <1>3
  <2>3. \A x : x \in LoadHolds <=> \E i \in 0..(n - 1) : x = <<"load", i, h.slot[i].data>>
    BY <1>3
  <2> QED
    BY <2>1, <2>2, <2>3
<1>9. \A i \in 1..n : q[i] \in LoadHolds
  BY <1>8 DEF At
<1>10. Placed(q, s, n, LoadHolds) /\ LoadHolds \subseteq Holding
  BY <1>3, <1>5, <1>7, <1>8, <1>9 DEF Placed, Holding
<1> QED
  BY <1>1, <1>5, <1>10, GivePlaces

(* Then the program gets the root.                                         *)
LEMMA LoadOver ==
  ASSUME Sound, load # Nothing, NEW f \in Diagrams, f \in Held \/ Pinned(f),
         AssignRoot(load.into, f, ReleaseAll(refs)), load' = Nothing,
         UNCHANGED <<program, phase, table, temps, vector, map, file>>
  PROVE  Sound'
<1>1. NamesDiagrams /\ MapFits /\ LoadFits /\ Running /\ Alive
  BY DEF Sound, LoadFits
<1>2. PICK o \in Declared : o = load.into
  BY <1>1 DEF LoadFits
<1>3. PICK m : m = ReleaseAll(refs)
  OBVIOUS
<1>4. PICK places : places = Holding \ LoadHolds
  OBVIOUS
<1>5. Matches(places, m)
  BY <1>3, <1>4, ReleasedMatches
<1>6. /\ ObjectsHold \subseteq places /\ places \subseteq Holding
      /\ places = ObjectsHold \cup TempsHold \cup VectorsHold \cup MapHolds
  BY <1>4, Tags DEF Holding
<1>7. AssignRoot(o, f, m)
  BY <1>2, <1>3
<1>8. /\ object' \in [Objects -> Diagrams \cup {Undeclared}] /\ Declared' = Declared
      /\ \E p, q : /\ AssignedHold(p, q) /\ p[1] = "object" /\ q[1] = "object" /\ q[3] = f
                   /\ Matches((places \ {p}) \cup {q}, refs')
  BY <1>1, <1>5, <1>6, <1>7, RootAssigned
<1>9. PICK p, q : /\ AssignedHold(p, q) /\ p[1] = "object" /\ q[1] = "object" /\ q[3] = f
                  /\ Matches((places \ {p}) \cup {q}, refs')
  BY <1>8
<1>10. NamesDiagrams'
  <2>1. temps' \in Seq(Diagrams) /\ table' \subseteq Diagrams
    BY <1>1 DEF NamesDiagrams
  <2> QED
    BY <1>1, <1>8, <2>1, NamesKept
<1>11. MapFits'
  <2>1. Built' = Built /\ (\A v : Bits(v)' = Bits(v)) /\ Running' /\ map' = map
    BY <1>1 DEF Built, Bits, Running
  <2> QED
    BY <1>1, <2>1 DEF MapFits, Bits, Built
<1>12. LoadFits'
  BY IdleFits
<1>13. Holding' = (places \ {p}) \cup {q}
  <2>1. LoadHolds' = {}
    BY DEF LoadHolds
  <2>2. Holding' = ObjectsHold' \cup TempsHold \cup VectorsHold \cup MapHolds
    BY <2>1, KeptHold DEF Holding
  <2>3. p \notin TempsHold /\ p \notin VectorsHold /\ p \notin MapHolds
    BY <1>9, Tags
  <2> QED
    BY <1>6, <1>9, <2>2, <2>3 DEF AssignedHold
<1>14. Alive'
  BY <1>1, <1>6, <1>9, <1>13, AliveStep
<1> QED
  BY <1>9, <1>10, <1>11, <1>12, <1>13, <1>14, SoundStep

(* The end of a file.                                                      *)
LEMMA LoadEndSound == ASSUME Sound, LoadEnd PROVE Sound'
<1>1. /\ load # Nothing /\ load' = Nothing /\ AssignRoot(load.into, load.root, ReleaseAll(refs))
      /\ UNCHANGED <<program, phase, table, temps, vector, map, file>>
  BY DEF LoadEnd, tableVars
<1>2. NamesDiagrams /\ LoadFits
  BY DEF Sound
<1>3. PICK f : f = load.root
  OBVIOUS
<1>4. f \in Diagrams /\ (f \in Held \/ Pinned(f))
  <2>1. CASE f = Zero
    BY <2>1, DiagramFacts
  <2>2. CASE f # Zero
    <3>1. PICK i \in 0..(load.n - 1) : f = load.hash.slot[i].data
      BY <1>1, <1>2, <1>3, <2>2 DEF LoadFits
    <3>2. f \in Diagrams /\ <<"load", i, f>> \in LoadHolds
      BY <1>1, <1>2, <3>1, LoadedPlaces
    <3>3. <<"load", i, f>>[3] = f
      OBVIOUS
    <3> QED
      BY <3>2, <3>3 DEF Held, Holding
  <2> QED
    BY <2>1, <2>2
<1> QED
  BY <1>1, <1>3, <1>4, LoadOver

(* A file that cannot be read to its end; the slots not reached have lost  *)
(* no reference of anybody.                                                *)
LEMMA LoadFailsSound == ASSUME Sound, LoadFails, ~ spoiled' PROVE Sound'
<1>1. /\ load # Nothing /\ load' = Nothing
      /\ UNCHANGED <<program, phase, table, temps, vector, map, file>>
      /\ \E junk \in Uninitialised :
           /\ AssignRoot(load.into, Zero, Give(junk, ReleaseAll(refs)))
           /\ spoiled' = (spoiled \/ ~ Pinned(junk))
  BY DEF LoadFails, MoreToDo, tableVars
<1>2. PICK junk : /\ AssignRoot(load.into, Zero, Give(junk, ReleaseAll(refs)))
                  /\ spoiled' = (spoiled \/ ~ Pinned(junk))
  BY <1>1
<1>3. Pinned(junk)
  BY <1>2
<1>4. Give(junk, ReleaseAll(refs)) = ReleaseAll(refs)
  BY <1>3 DEF Give, DelRef
<1>5. AssignRoot(load.into, Zero, ReleaseAll(refs))
  BY <1>2, <1>4
<1> QED
  BY <1>1, <1>5, LoadOver, DiagramFacts

-----------------------------------------------------------------------------
(* Steps of the package.                                                   *)

(* The next state as well has finitely many places, for diagrams.          *)
LEMMA NextHolding == (NamesDiagrams /\ MapFits /\ LoadFits => IsFiniteSet(Holding))'
  BY HoldingFinite, PTL

(* bdd_init, and what the program begins with.                             *)
LEMMA BddInitSound == ASSUME Sound, BddInit PROVE Sound'
<1>1. /\ Quiet /\ temps = << >> /\ phase' = "running" /\ UNCHANGED <<program, temps, map, load, file>>
      /\ object' = [o \in Objects |-> IF o \in DOMAIN program.start THEN program.start[o] ELSE object[o]]
      /\ vector' = [v \in Vectors |-> IF v \in DOMAIN program.bits THEN Roots(program.bits[v]) ELSE vector[v]]
      /\ refs' = Counted(Holding') /\ table' = UNION {Below(order', f) : f \in Held'}
  BY DEF BddInit, io
<1>2. NamesDiagrams
  BY DEF Sound
<1>3. PICK p : p = program
  OBVIOUS
<1>4. (\A o \in DOMAIN p.start : p.start[o] \in Diagrams) /\ \A v \in DOMAIN p.bits : p.bits[v] \in Seq(Diagrams)
  BY <1>2, <1>3, HandlesPrograms DEF NamesDiagrams, IsProgram, Diagrams
<1>5. object' \in [Objects -> Diagrams \cup {Undeclared}]
  <2>1. \A o \in Objects : object[o] \in Diagrams \cup {Undeclared}
    BY <1>2 DEF NamesDiagrams
  <2> QED
    BY <1>1, <1>3, <1>4, <2>1
<1>6. /\ vector' = [v \in Vectors |-> vector'[v]]
      /\ \A v \in Vectors : vector'[v] = NoVector \/ (vector'[v] = Roots(vector'[v].bits)
                                                      /\ vector'[v].bits \in Seq(Diagrams))
  <2>1. ASSUME NEW v \in Vectors
        PROVE  vector'[v] = NoVector \/ (vector'[v] = Roots(vector'[v].bits) /\ vector'[v].bits \in Seq(Diagrams))
    <3>1. CASE v \in DOMAIN p.bits
      <4>1. PICK s \in Seq(Diagrams) : s = p.bits[v]
        BY <1>4, <3>1
      <4>2. vector'[v] = [bits |-> s]
        BY <1>1, <1>3, <3>1, <4>1 DEF Roots
      <4> QED
        BY <4>2 DEF Roots
    <3>2. CASE v \notin DOMAIN p.bits
      <4>1. vector'[v] = vector[v]
        BY <1>1, <1>3, <3>2
      <4> QED
        BY <1>2, <4>1 DEF NamesDiagrams, Bits
    <3> QED
      BY <3>1, <3>2
  <2>2. vector' = [v \in Vectors |-> vector'[v]]
    BY <1>1
  <2> QED
    BY <2>1, <2>2
<1>7. MapFits' /\ LoadFits'
  BY <1>1, IdleFits DEF Quiet
<1>8. \A f \in Held' : f \in Diagrams
  <2> SUFFICES ASSUME NEW h \in Holding' PROVE h[3] \in Diagrams
    BY DEF Held
  <2>1. TempsHold' = {} /\ MapHolds' = {} /\ LoadHolds' = {}
    <3>1. DOMAIN temps' = {} /\ map' = Nothing /\ load' = Nothing
      BY <1>1 DEF Quiet
    <3> QED
      BY <3>1 DEF TempsHold, MapHolds, LoadHolds
  <2>2. CASE h \in ObjectsHold'
    <3>1. PICK o \in Objects : object'[o] # Undeclared /\ h = <<"object", o, object'[o]>>
      BY <2>2 DEF ObjectsHold, Declared
    <3> QED
      BY <1>5, <3>1
  <2>3. CASE h \in VectorsHold'
    <3>1. PICK v \in Vectors : /\ vector'[v] # NoVector
                               /\ \E i \in DOMAIN vector'[v].bits : h = <<"vector", <<v, i>>, vector'[v].bits[i]>>
      BY <2>3 DEF VectorsHold, Built, Bits
    <3>2. PICK s \in Seq(Diagrams) : s = vector'[v].bits
      BY <1>6, <3>1
    <3>3. PICK i \in DOMAIN s : h = <<"vector", <<v, i>>, s[i]>>
      BY <3>1, <3>2
    <3>4. s[i] \in Diagrams
      OBVIOUS
    <3> QED
      BY <3>3, <3>4
  <2> QED
    BY <2>1, <2>2, <2>3 DEF Holding
<1>9. table' \subseteq Diagrams
  BY <1>1, <1>8, BelowFacts
<1>10. NamesDiagrams'
  <2>1. program' \in Programs /\ temps' \in Seq(Diagrams) /\ (file' = NoFile \/ file'.nodenum \in Nat) /\ Running'
    BY <1>1, <1>2 DEF NamesDiagrams, Running
  <2> QED
    BY <1>5, <1>6, <1>9, <2>1 DEF NamesDiagrams, Bits
<1>11. Matches(Holding', refs')
  <2>1. IsFiniteSet(Holding')
    BY <1>7, <1>10, NextHolding
  <2>2. PICK places : places = Holding'
    OBVIOUS
  <2>3. Matches(places, Counted(places))
    BY <2>1, <2>2, CountedMatches
  <2> QED
    BY <1>1, <2>2, <2>3
<1>12. Alive'
  <2> SUFFICES ASSUME NEW f \in Held' PROVE Pinned(f) \/ f \in table'
    BY DEF Alive
  <2>1. IsConst(f) \/ f \in Below(order', f)
    BY BelowFacts
  <2> QED
    BY <1>1, <2>1 DEF Pinned
<1> QED
  BY <1>7, <1>10, <1>11, <1>12, SoundStep

(* bdd_done.                                                               *)
LEMMA BddDoneSound == ASSUME Sound, BddDone PROVE Sound'
<1>1. /\ Quiet /\ phase' = "after" /\ table' = {}
      /\ UNCHANGED <<program, object, temps, vector, map, load, file>>
  BY DEF BddDone, Asks, Step, handles, io
<1>2. ~ Running'
  BY <1>1 DEF Running
<1>3. NamesDiagrams'
  BY <1>1, <1>2 DEF Sound, NamesDiagrams, Bits
<1>4. MapFits' /\ LoadFits'
  BY <1>1, IdleFits DEF Quiet
<1> QED
  BY <1>2, <1>3, <1>4, SoundStep

(* What is held and what is counted is the same, but for what is pinned.   *)
LEMMA HeldCounted ==
  ASSUME Sound, Running, NEW f, ~ Pinned(f)
  PROVE  /\ (f \in Held) = (f \in BagToSet(refs.count))
         /\ f \in Held => f \in Diagrams
<1>1. NamesDiagrams /\ MapFits /\ LoadFits /\ Matches(Holding, refs)
  BY DEF Sound
<1>2. IsFiniteSet(Holding) /\ IsLedger(refs) /\ Count(f, refs) = HoldersIn(Holding, f)
  BY <1>1 DEF Matches
<1> DEFINE of == {h \in Holding : h[3] = f}
<1>3. (f \in Held) = (of # {})
  BY DEF Held
<1>4. Cardinality(of) = HoldersIn(Holding, f) /\ IsFiniteSet(of)
  BY <1>2, FS_Subset DEF HoldersIn
<1> HIDE DEF of
<1>5. (Cardinality(of) = 0) = (of = {})
  BY <1>4, FS_EmptySet
<1>6. (Count(f, refs) # 0) = (f \in DOMAIN refs.count)
  BY <1>2, CountIs
<1>7. BagToSet(refs.count) = DOMAIN refs.count
  BY DEF BagToSet
<1>8. (f \in Held) = (f \in BagToSet(refs.count))
  BY <1>2, <1>3, <1>4, <1>5, <1>6, <1>7
<1> QED
  BY <1>1, <1>8, HeldDiagrams

(* The nodes that references lead to are all a program can name.           *)
LEMMA SweptSound ==
  ASSUME Sound, Running, NEW levels, table' = UNION {Below(levels, f) : f \in BagToSet(refs.count)},
         UNCHANGED <<program, phase, refs, object, temps, vector, map, load, file>>
  PROVE  Sound'
<1>1. NamesDiagrams /\ MapFits /\ LoadFits /\ Matches(Holding, refs)
  BY DEF Sound
<1>2. table' \subseteq Diagrams
  <2> SUFFICES ASSUME NEW f \in BagToSet(refs.count) PROVE Below(levels, f) \subseteq Diagrams
    OBVIOUS
  <2>1. CASE Pinned(f)
    <3>1. \A v : Nithvar(v) \in Diagrams
      BY DEF Nithvar, Diagrams
    <3>2. f \in Diagrams
      BY <2>1, <3>1, DiagramFacts DEF Pinned, IsConst
    <3> QED
      BY <3>2, BelowFacts
  <2>2. CASE ~ Pinned(f)
    <3>1. f \in Diagrams
      BY <2>2, HeldCounted
    <3> QED
      BY <3>1, BelowFacts
  <2> QED
    BY <2>1, <2>2
<1>3. NamesDiagrams'
  <2>1. object' \in [Objects -> Diagrams \cup {Undeclared}] /\ temps' \in Seq(Diagrams)
    BY <1>1 DEF NamesDiagrams
  <2> QED
    BY <1>1, <1>2, <2>1, NamesKept
<1>4. Built' = Built /\ Declared' = Declared /\ (\A v : Bits(v)' = Bits(v)) /\ Running'
  BY DEF Built, Bits, Declared, Running
<1>5. MapFits'
  BY <1>1, <1>4 DEF MapFits, Bits, Built
<1>6. LoadFits'
  BY <1>1, <1>4 DEF LoadFits
<1>7. Holding' = Holding
  BY KeptHold DEF Holding
<1>8. Alive'
  <2> SUFFICES ASSUME NEW f \in Held, ~ Pinned(f) PROVE f \in table'
    BY <1>7 DEF Alive, Held
  <2>1. f \in BagToSet(refs.count)
    BY HeldCounted
  <2>2. f \in Below(levels, f)
    BY BelowFacts DEF Pinned
  <2> QED
    BY <2>1, <2>2
<1> QED
  BY <1>1, <1>3, <1>5, <1>6, <1>7, <1>8, SoundStep

(* bdd_gbc.                                                                *)
LEMMA CollectSound == ASSUME Sound, Collect PROVE Sound'
<1>1. /\ Running /\ table' = Referenced(refs)
      /\ UNCHANGED <<program, phase, refs, object, temps, vector, map, load, file>>
  BY DEF Collect, handles, io
<1>2. table' = UNION {Below(order, f) : f \in BagToSet(refs.count)}
  BY <1>1 DEF Referenced
<1> QED
  BY <1>1, <1>2, SweptSound

(* An exchange of two levels.                                              *)
LEMMA ReorderSound == ASSUME Sound, Reorder PROVE Sound'
<1>1. /\ Running /\ table' = UNION {Below(order', f) : f \in BagToSet(refs.count)}
      /\ UNCHANGED <<program, phase, refs, object, temps, vector, map, load, file>>
  BY DEF Reorder, handles, io
<1> QED
  BY <1>1, SweptSound

-----------------------------------------------------------------------------
(* The theorems.                                                           *)

(* Before bdd_init nothing is held.                                        *)
LEMMA InitSound == Init => HandlesInv
<1> SUFFICES ASSUME Init PROVE Sound
  BY DEF HandlesInv
<1>1. /\ program \in Programs /\ phase = "before" /\ table = {} /\ file \in program.files /\ temps = << >>
      /\ object = [o \in Objects |-> Undeclared] /\ vector = [v \in Vectors |-> NoVector]
      /\ map = Nothing /\ load = Nothing
  BY DEF Init
<1>2. ~ Running
  BY <1>1 DEF Running
<1>3. file = NoFile \/ file.nodenum \in Nat
  BY <1>1, HandlesPrograms DEF IsProgram
<1>4. NamesDiagrams
  BY <1>1, <1>3 DEF NamesDiagrams
<1> QED
  BY <1>1, <1>2, <1>4 DEF Sound, MapFits, LoadFits

(* Nothing changes.                                                        *)
LEMMA StutterSound == ASSUME Sound, UNCHANGED vars PROVE Sound'
<1>1. UNCHANGED <<program, phase, order, table, refs, object, temps, vector, map, load, file>>
  BY DEF vars, tableVars, handles, io
<1>2. Built' = Built /\ Declared' = Declared /\ (\A v : Bits(v)' = Bits(v)) /\ Running' = Running
  BY <1>1 DEF Built, Bits, Declared, Running
<1>3. NamesDiagrams' /\ MapFits' /\ LoadFits'
  <2>1. NamesDiagrams'
    BY <1>1, <1>2 DEF Sound, NamesDiagrams, Bits
  <2>2. MapFits'
    BY <1>1, <1>2 DEF Sound, MapFits, Bits, Built
  <2>3. LoadFits'
    BY <1>1, <1>2 DEF Sound, LoadFits
  <2> QED
    BY <2>1, <2>2, <2>3
<1>4. Holding' = Holding
  BY <1>1, KeptHold DEF Holding
<1>5. Alive' = Alive
  BY <1>1, <1>4 DEF Alive, Held
<1> QED
  BY <1>1, <1>2, <1>3, <1>4, <1>5 DEF Sound

(* Only a load that fails spoils the counts, and nothing mends them.       *)
LEMMA StaysSpoiled == ASSUME [Next]_vars, spoiled PROVE spoiled'
<1>1. ASSUME UNCHANGED io PROVE spoiled'
  BY <1>1 DEF io
<1>2. CASE LoadFails
  BY <1>2 DEF LoadFails
<1>3. CASE UNCHANGED vars
  BY <1>3 DEF vars, io
<1>4. CASE Declare \/ CopyConstruct \/ Destroy \/ Assign \/ Evaluate \/ EndStatement
  BY <1>1, <1>4 DEF Declare, CopyConstruct, Destroy, Assign, Evaluate, EndStatement
<1>5. CASE VecFalse \/ VecCopy \/ VecDestroy \/ VecAssign \/ SetBit \/ BitAt
  BY <1>1, <1>5 DEF VecFalse, VecCopy, VecDestroy, VecAssign, SetBit, BitAt
<1>6. CASE MapBegin \/ MapBit \/ MapEnd
  BY <1>1, <1>6 DEF MapBegin, MapBit, MapEnd
<1>7. CASE Save \/ LoadMissing \/ LoadNoHeader \/ LoadConst \/ LoadBegin \/ LoadEntry \/ LoadEnd
  BY <1>7 DEF Save, LoadMissing, LoadNoHeader, LoadConst, LoadBegin, LoadEntry, LoadEnd, io
<1>8. CASE BddInit \/ BddDone \/ Collect \/ Reorder
  BY <1>1, <1>8 DEF BddInit, BddDone, Collect, Reorder
<1> QED
  BY <1>2, <1>3, <1>4, <1>5, <1>6, <1>7, <1>8 DEF Next

(* The invariant is inductive: one step for each action.                   *)
LEMMA NextSound == HandlesInv /\ [Next]_vars => HandlesInv'
<1> SUFFICES ASSUME HandlesInv, [Next]_vars, ~ spoiled' PROVE Sound'
  BY DEF HandlesInv
<1>1. Sound
  BY StaysSpoiled DEF HandlesInv
<1>2. CASE Declare
  BY <1>1, <1>2, DeclareSound
<1>3. CASE CopyConstruct
  BY <1>1, <1>3, CopyConstructSound
<1>4. CASE Destroy
  BY <1>1, <1>4, DestroySound
<1>5. CASE Assign
  BY <1>1, <1>5, AssignSound
<1>6. CASE Evaluate
  BY <1>1, <1>6, EvaluateSound
<1>7. CASE EndStatement
  BY <1>1, <1>7, EndStatementSound
<1>8. CASE VecFalse
  BY <1>1, <1>8, VecFalseSound
<1>9. CASE VecCopy
  BY <1>1, <1>9, VecCopySound
<1>10. CASE VecDestroy
  BY <1>1, <1>10, VecDestroySound
<1>11. CASE VecAssign
  BY <1>1, <1>11, VecAssignSound
<1>12. CASE SetBit
  BY <1>1, <1>12, SetBitSound
<1>13. CASE BitAt
  BY <1>1, <1>13, BitAtSound
<1>14. CASE MapBegin
  BY <1>1, <1>14, MapBeginSound
<1>15. CASE MapBit
  BY <1>1, <1>15, MapBitSound
<1>16. CASE MapEnd
  BY <1>1, <1>16, MapEndSound
<1>17. CASE Save
  BY <1>1, <1>17, SaveSound
<1>18. CASE LoadMissing
  BY <1>1, <1>18, LoadMissingSound
<1>19. CASE LoadConst
  BY <1>1, <1>19, LoadConstSound
<1>20. CASE LoadBegin
  BY <1>1, <1>20, LoadBeginSound
<1>21. CASE LoadEntry
  BY <1>1, <1>21, LoadEntrySound
<1>22. CASE LoadEnd
  BY <1>1, <1>22, LoadEndSound
<1>23. CASE LoadFails
  BY <1>1, <1>23, LoadFailsSound
<1>24. CASE BddInit
  BY <1>1, <1>24, BddInitSound
<1>25. CASE BddDone
  BY <1>1, <1>25, BddDoneSound
<1>26. CASE Collect
  BY <1>1, <1>26, CollectSound
<1>27. CASE Reorder
  BY <1>1, <1>27, ReorderSound
<1>28. CASE LoadNoHeader
  BY <1>1, <1>28, LoadNoHeaderSound
<1>29. CASE UNCHANGED vars
  BY <1>1, <1>29, StutterSound
<1> QED
  BY <1>2, <1>3, <1>4, <1>5, <1>6, <1>7, <1>8, <1>9, <1>10, <1>11, <1>12, <1>13, <1>14, <1>15, <1>16,
     <1>17, <1>18, <1>19, <1>20, <1>21, <1>22, <1>23, <1>24, <1>25, <1>26, <1>27, <1>28, <1>29 DEF Next

(* The inductive invariant holds: what the program and a call that runs    *)
(* name are diagrams, lh_table has been filled from its first slot on, and *)
(* the counts are those of the places that name a node.                    *)
THEOREM HandlesInvHolds == Spec => []HandlesInv
<1>1. Init => HandlesInv
  BY InitSound
<1>2. HandlesInv /\ [Next]_vars => HandlesInv'
  BY NextSound
<1> QED
  BY <1>1, <1>2, PTL DEF Spec

(* No collection and no reordering takes a node that a program or a call   *)
(* that runs names, in whatever order the constructors, assignments,       *)
(* operations and loads of any program come, also when some of them fail.  *)
THEOREM HeldAliveHolds == Spec => []HeldAlive
<1>1. HandlesInv => HeldAlive
  BY DEF HandlesInv, Sound, Alive, HeldAlive
<1> QED
  BY <1>1, HandlesInvHolds, PTL

(* A node has one reference for each place that names it and no more: what *)
(* the last place lets go can be collected, and no destructor gives back   *)
(* a reference that nobody has.                                            *)
THEOREM CountsAreHoldersHolds == Spec => []CountsAreHolders
<1>1. HandlesInv => CountsAreHolders
  BY DEF HandlesInv, Sound, Matches, IsLedger, CountsAreHolders
<1> QED
  BY <1>1, HandlesInvHolds, PTL

=============================================================================
