----------------------------- MODULE Induction -----------------------------
(***************************************************************************)
(* Induction and recursion for functions: what the modules with proofs     *)
(* need to know of a recursive function, without a property or a           *)
(* definition as a parameter. A least counterexample takes the place of    *)
(* induction (LeastExists, LeastRank); a recursion that goes down in some  *)
(* structure has a solution since it is a fixed point (FixedPoint); a      *)
(* while loop has one whether it ends or not (LoopExists), and ends where  *)
(* its invariant and a measure that falls say (LoopEnds).                  *)
(***************************************************************************)
EXTENDS Integers, TLAPS, WellFoundedInduction

(* A set of numbers that is not empty has a least one.                     *)
LEMMA LeastExists ==
  ASSUME NEW S \in SUBSET Nat, S # {}
  PROVE  \E x \in S : \A y \in S : ~ (y < x)
<1>1. PICK x \in S : \A y \in S : ~ (<<y, x>> \in OpToRel(<, Nat))
  BY WFMin, NatLessThanWellFounded
<1>2. \A y \in S : ~ (y < x)
  <2> TAKE y \in S
  <2>1. <<y, x>> \in Nat \X Nat
    OBVIOUS
  <2> QED
    BY <1>1, <2>1 DEF OpToRel
<1> QED
  BY <1>2

(* Where a rank is least in a set.                                         *)
LEMMA LeastRank ==
  ASSUME NEW D, NEW rank \in [D -> Nat], NEW S \in SUBSET D, S # {}
  PROVE  \E n \in S : \A m \in S : ~ (rank[m] < rank[n])
<1> DEFINE R == {rank[n] : n \in S}
<1>1. R \in SUBSET Nat /\ R # {}
  OBVIOUS
<1>2. PICK r \in R : \A y \in R : ~ (y < r)
  BY <1>1, LeastExists
<1>3. PICK n \in S : r = rank[n]
  OBVIOUS
<1> QED
  BY <1>2, <1>3

(* A map of functions to sets of U that gives more for more.               *)
Monotone(F, S, U) ==
  /\ F \in [[S -> SUBSET U] -> [S -> SUBSET U]]
  /\ \A f, g \in [S -> SUBSET U] : (\A x \in S : f[x] \subseteq g[x]) =>
                                     \A x \in S : F[f][x] \subseteq F[g][x]

HasFixedPoint(F, S, U) == \E f \in [S -> SUBSET U] : f = F[f]

(* Such a map has a fixed point.                                           *)
LEMMA FixedPoint ==
  ASSUME NEW S, NEW U, NEW F, Monotone(F, S, U)
  PROVE  HasFixedPoint(F, S, U)
<1>0. /\ F \in [[S -> SUBSET U] -> [S -> SUBSET U]]
      /\ \A f, g \in [S -> SUBSET U] : (\A x \in S : f[x] \subseteq g[x]) =>
                                         \A x \in S : F[f][x] \subseteq F[g][x]
  BY DEF Monotone
<1> DEFINE Pre == {f \in [S -> SUBSET U] : \A y \in S : F[f][y] \subseteq f[y]}
           L == [x \in S |-> {u \in U : \A f \in Pre : u \in f[x]}]
<1>1. L \in [S -> SUBSET U]
  OBVIOUS
<1>2. F[L] \in [S -> SUBSET U] /\ F[F[L]] \in [S -> SUBSET U]
  BY <1>0, <1>1
<1>3. \A f \in Pre : \A x \in S : L[x] \subseteq f[x]
  OBVIOUS
<1>4. \A x \in S : \A u \in U : (\A f \in Pre : u \in f[x]) => u \in L[x]
  OBVIOUS
<1> HIDE DEF L
<1>5. \A x \in S : F[L][x] \subseteq L[x]
  <2> SUFFICES ASSUME NEW x \in S, NEW u \in F[L][x] PROVE u \in L[x]
    OBVIOUS
  <2>1. u \in U
    BY <1>2
  <2>2. ASSUME NEW f \in Pre PROVE u \in f[x]
    <3>1. F[L][x] \subseteq F[f][x]
      BY <1>0, <1>1, <1>3
    <3>2. F[f][x] \subseteq f[x]
      OBVIOUS
    <3> QED
      BY <3>1, <3>2
  <2> QED
    BY <1>4, <2>1, <2>2
<1>6. F[L] \in Pre
  BY <1>0, <1>1, <1>2, <1>5
<1>7. \A x \in S : F[L][x] = L[x]
  BY <1>3, <1>5, <1>6
<1>8. F[L] = L
  BY <1>1, <1>2, <1>7
<1> QED
  BY <1>1, <1>8 DEF HasFixedPoint

-----------------------------------------------------------------------------
(* Loops.                                                                  *)

(* The function that a loop computes on states S: at a state of T it ends, *)
(* with what out makes of it, and at any other it goes on from next.       *)
IsLoop(f, S, T, out, next) == f = [x \in S |-> IF x \in T THEN out[x] ELSE f[next[x]]]

(* There is such a function, also when the loop does not end everywhere.   *)
LEMMA LoopExists ==
  ASSUME NEW S, NEW T, NEW U, NEW out \in [S -> U], NEW next \in [S -> S]
  PROVE  \E f : IsLoop(f, S, T, out, next)
<1> DEFINE Body(r) == [x \in S |-> IF x \in T THEN {out[x]} ELSE r[next[x]]]
           F == [r \in [S -> SUBSET U] |-> Body(r)]
<1>1. ASSUME NEW r \in [S -> SUBSET U]
      PROVE  Body(r) \in [S -> SUBSET U]
  OBVIOUS
<1>2. F \in [[S -> SUBSET U] -> [S -> SUBSET U]]
  BY <1>1
<1>3. ASSUME NEW f \in [S -> SUBSET U], NEW g \in [S -> SUBSET U],
             \A x \in S : f[x] \subseteq g[x], NEW x \in S
      PROVE  F[f][x] \subseteq F[g][x]
  <2>1. F[f] = Body(f) /\ F[g] = Body(g)
    OBVIOUS
  <2> HIDE DEF F
  <2> QED
    BY <1>3, <2>1
<1>4. Monotone(F, S, U)
  BY <1>2, <1>3 DEF Monotone
<1>5. PICK r \in [S -> SUBSET U] : r = F[r]
  <2> HIDE DEF F
  <2> QED
    BY <1>4, FixedPoint DEF HasFixedPoint
<1>6. r = Body(r)
  BY <1>5
<1> DEFINE f == [x \in S |-> CHOOSE v : v \in r[x]]
<1>7. ASSUME NEW x \in S
      PROVE  f[x] = IF x \in T THEN out[x] ELSE f[next[x]]
  <2>1. CASE x \in T
    BY <1>6, <2>1
  <2>2. CASE x \notin T
    <3>1. r[x] = r[next[x]] /\ next[x] \in S
      BY <1>6, <2>2
    <3> QED
      BY <2>2, <3>1
  <2> QED
    BY <2>1, <2>2
<1>8. f = [x \in S |-> IF x \in T THEN out[x] ELSE f[next[x]]]
  BY <1>7
<1> QED
  BY <1>8 DEF IsLoop

(* The loop does not leave I before it ends; the measure high never grows, *)
(* and where it stays the same the measure low falls.                      *)
GoesOn(I, T, next, high, low) ==
  \A x \in I \ T : /\ next[x] \in I
                   /\ \/ high[next[x]] < high[x]
                      \/ high[next[x]] = high[x] /\ low[next[x]] < low[x]

(* Then from a state of I it ends at a state of I.                         *)
LEMMA LoopEnds ==
  ASSUME NEW S, NEW T, NEW out, NEW next, NEW f, IsLoop(f, S, T, out, next),
         NEW I \in SUBSET S, NEW high \in [I -> Nat], NEW low \in [I -> Nat],
         GoesOn(I, T, next, high, low), NEW x0 \in I
  PROVE  \E x \in I \cap T : f[x0] = out[x]
<1>0. \A x \in I \ T : /\ next[x] \in I
                       /\ \/ high[next[x]] < high[x]
                          \/ high[next[x]] = high[x] /\ low[next[x]] < low[x]
  BY DEF GoesOn
<1> DEFINE Bad == {x \in I : ~ \E y \in I \cap T : f[x] = out[y]}
<1> SUFFICES ASSUME Bad # {} PROVE FALSE
  OBVIOUS
<1>1. PICK h \in Bad : \A y \in Bad : ~ (high[y] < high[h])
  <2> HIDE DEF Bad
  <2>1. Bad \in SUBSET I
    BY DEF Bad
  <2> QED
    BY <2>1, LeastRank
<1> DEFINE Same == {x \in Bad : high[x] = high[h]}
<1>2. PICK x \in Same : \A y \in Same : ~ (low[y] < low[x])
  <2>1. Same \in SUBSET I /\ Same # {}
    OBVIOUS
  <2> HIDE DEF Same
  <2> QED
    BY <2>1, LeastRank
<1>3. x \in I /\ high[x] = high[h] /\ x \in Bad
  OBVIOUS
<1>4. x \notin T
  <2> SUFFICES ASSUME x \in T PROVE FALSE
    OBVIOUS
  <2>1. f[x] = out[x]
    BY <1>3 DEF IsLoop
  <2> QED
    BY <1>3, <2>1
<1>5. f[x] = f[next[x]] /\ next[x] \in I
  BY <1>0, <1>3, <1>4 DEF IsLoop
<1>6. next[x] \in Bad
  BY <1>3, <1>5
<1>7. next[x] \notin Same
  <2> SUFFICES ASSUME next[x] \in Same PROVE FALSE
    OBVIOUS
  <2>1. ~ (low[next[x]] < low[x]) /\ high[next[x]] = high[x]
    BY <1>2, <1>3
  <2>2. high[x] \in Nat
    BY <1>3
  <2> QED
    BY <1>0, <1>3, <1>4, <2>1, <2>2
<1>8. high[next[x]] # high[h]
  BY <1>6, <1>7
<1>9. high[next[x]] < high[x]
  BY <1>0, <1>3, <1>4, <1>8
<1> QED
  BY <1>1, <1>3, <1>6, <1>9

(* Induction over a range of numbers, for a set of them.                   *)
LEMMA UpTo ==
  ASSUME NEW n \in Nat, NEW P \in SUBSET (0..n), 0 \in P,
         \A k \in 0..(n - 1) : k \in P => k + 1 \in P
  PROVE  P = 0..n
<1> DEFINE Bad == {k \in 0..n : k \notin P}
<1> SUFFICES ASSUME Bad # {} PROVE FALSE
  OBVIOUS
<1>1. PICK k \in Bad : \A y \in Bad : ~ (y < k)
  <2>1. Bad \in SUBSET Nat
    OBVIOUS
  <2> HIDE DEF Bad
  <2> QED
    BY <2>1, LeastExists
<1>2. k \in 1..n
  OBVIOUS
<1>3. k - 1 \in P
  BY <1>1, <1>2
<1> QED
  BY <1>2, <1>3
=============================================================================
