---------------------------- MODULE VectorProofs ----------------------------
(***************************************************************************)
(* Proofs about the finite domain blocks of fdd.c and the vectors of       *)
(* bvec.c: whatever blocks a program defines, overlaps and clears, in      *)
(* whatever order reordering puts the variables, each block has variables  *)
(* of its own (BlocksApart); and whatever vectors it computes and frees,   *)
(* every node has one reference for each of its places (CountsMatch).      *)
(*                                                                         *)
(* The table of blocks hands out variables by a number of its own; where   *)
(* a bit of a new block goes is the number of bits that come before it.    *)
(* That this is a numbering of the new bits, with no number used twice and *)
(* none left out, is the heart of the first proof. That of the second is   *)
(* what each loop of bvec.c keeps while it references and releases the     *)
(* intermediate results.                                                   *)
(***************************************************************************)
EXTENDS VectorSession, Induction, TLAPS, FiniteSetTheorems, FunctionTheorems, SequenceTheorems

-----------------------------------------------------------------------------
(* How many bits a block has.                                              *)

(* n bits tell more than n numbers apart: there is a set for each one.     *)
LEMMA EnoughBits == ASSUME NEW n \in Nat PROVE 2 ^ n \in Nat /\ n <= 2 ^ n
<1> DEFINE S == 1..n
           f == [x \in S |-> {x}]
<1>1. IsFiniteSet(S) /\ Cardinality(S) = n
  BY FS_Interval
<1>2. IsFiniteSet(SUBSET S) /\ Cardinality(SUBSET S) = 2 ^ n
  BY <1>1, FS_SUBSET
<1>3. f \in Injection(S, SUBSET S)
  BY DEF Injection, IsInjective
<1>4. Cardinality(S) <= Cardinality(SUBSET S)
  BY <1>2, <1>3, FS_Injection
<1>5. Cardinality(SUBSET S) \in Nat
  BY <1>2, FS_CardinalityType
<1> QED
  BY <1>1, <1>2, <1>4, <1>5

(* The least number of a set that is not empty.                            *)
LEMMA MinOf == ASSUME NEW S \in SUBSET Nat, S # {} PROVE Min(S) \in S
<1>1. PICK x \in S : \A y \in S : ~ (y < x)
  BY LeastExists
<1>2. \A y \in S : x =< y
  <2> TAKE y \in S
  <2>1. x \in Nat /\ y \in Nat
    OBVIOUS
  <2> QED
    BY <1>1, <2>1
<1> QED
  BY <1>1, <1>2 DEF Min

(* The greater of two numbers.                                             *)
LEMMA MaxOfTwo ==
  ASSUME NEW a \in Nat, NEW b \in Nat
  PROVE  Max({a, b}) \in {a, b} /\ a <= Max({a, b}) /\ b <= Max({a, b})
<1>1. \E x \in {a, b} : \A y \in {a, b} : x >= y
  OBVIOUS
<1>2. Max({a, b}) \in {a, b} /\ \A y \in {a, b} : Max({a, b}) >= y
  BY <1>1 DEF Max
<1> QED
  BY <1>2

(* A block has a bit at least.                                             *)
LEMMA BinSizeType == ASSUME NEW range \in Nat \ {0} PROVE BinSize(range) \in Nat \ {0}
<1> DEFINE S == {b \in 1..range : 2 ^ b >= range}
<1>1. range \in S
  BY EnoughBits
<1>2. S \in SUBSET Nat /\ S # {}
  BY <1>1
<1>3. Min(S) \in S
  BY <1>2, MinOf
<1> QED
  BY <1>3 DEF BinSize

-----------------------------------------------------------------------------
(* The numbering of new bits.                                              *)

Sizes == Seq(Nat \ {0})

(* A bit comes before another: it is lower, or as low and of an earlier    *)
(* block.                                                                  *)
Earlier(p, q) == p[1] < q[1] \/ (p[1] = q[1] /\ p[2] < q[2])

(* What is a bit of the new blocks.                                        *)
LEMMA NewBitsAre ==
  ASSUME NEW dom \in Sizes, NEW p
  PROVE  p \in NewBits(dom) <=> /\ p = <<p[1], p[2]>> /\ p[2] \in DOMAIN dom
                                /\ p[1] \in 0..(BinSize(dom[p[2]]) - 1)
  BY DEF NewBits

(* The numbers a bit is made of.                                           *)
LEMMA NewBitType ==
  ASSUME NEW dom \in Sizes, NEW p \in NewBits(dom)
  PROVE  p = <<p[1], p[2]>> /\ p[1] \in Nat /\ p[2] \in Nat
<1>1. /\ p = <<p[1], p[2]>> /\ p[2] \in DOMAIN dom
      /\ p[1] \in 0..(BinSize(dom[p[2]]) - 1)
  BY NewBitsAre
<1>2. dom[p[2]] \in Nat \ {0} /\ p[2] \in Nat
  BY <1>1 DEF Sizes
<1> QED
  BY <1>1, <1>2, BinSizeType

(* There are finitely many.                                                *)
LEMMA NewBitsFinite == ASSUME NEW dom \in Sizes PROVE IsFiniteSet(NewBits(dom))
<1> DEFINE bits == [n \in DOMAIN dom |-> (0..(BinSize(dom[n]) - 1)) \X {n}]
           T == {bits[n] : n \in DOMAIN dom}
<1>1. IsFiniteSet(DOMAIN dom)
  <2>1. DOMAIN dom = 1..Len(dom) /\ Len(dom) \in Nat
    BY DEF Sizes
  <2> QED
    BY <2>1, FS_Interval
<1>2. bits \in Surjection(DOMAIN dom, T)
  BY DEF Surjection
<1>3. IsFiniteSet(T)
  BY <1>1, <1>2, FS_Surjection
<1>4. \A b \in T : IsFiniteSet(b)
  <2> SUFFICES ASSUME NEW n \in DOMAIN dom PROVE IsFiniteSet(bits[n])
    OBVIOUS
  <2>1. dom[n] \in Nat \ {0}
    BY DEF Sizes
  <2>2. BinSize(dom[n]) - 1 \in Int
    BY <2>1, BinSizeType
  <2>3. IsFiniteSet(0..(BinSize(dom[n]) - 1))
    BY <2>2, FS_Interval
  <2>4. IsFiniteSet({n})
    BY FS_Singleton
  <2> QED
    BY <2>3, <2>4, FS_Product
<1>5. NewBits(dom) = UNION T
  BY DEF NewBits
<1> QED
  BY <1>3, <1>4, <1>5, FS_UNION

(* Where a bit goes.                                                       *)
Place(dom, p) == Cardinality(BitsBefore(dom, p[1], p[2]))

(* The bits before another are fewer than all, and it is not one of them.  *)
LEMMA BitsBeforeAre ==
  ASSUME NEW dom \in Sizes, NEW p \in NewBits(dom)
  PROVE  /\ BitsBefore(dom, p[1], p[2]) = {q \in NewBits(dom) : Earlier(q, p)}
         /\ p \notin BitsBefore(dom, p[1], p[2])
<1>1. p[1] \in Nat /\ p[2] \in Nat
  BY NewBitType
<1> QED
  BY <1>1 DEF BitsBefore, Earlier

(* A part that leaves something out is smaller.                            *)
LEMMA ProperPart ==
  ASSUME NEW S, IsFiniteSet(S), NEW T \in SUBSET S, NEW x \in S, x \notin T
  PROVE  /\ IsFiniteSet(T) /\ Cardinality(T) \in Nat /\ Cardinality(S) \in Nat
         /\ Cardinality(T) < Cardinality(S)
<1>1. /\ IsFiniteSet(T) /\ Cardinality(T) <= Cardinality(S)
      /\ Cardinality(S) # Cardinality(T)
  BY FS_Subset
<1>2. Cardinality(T) \in Nat /\ Cardinality(S) \in Nat
  BY <1>1, FS_CardinalityType
<1> QED
  BY <1>1, <1>2

(* Every bit has a place below the number of bits.                         *)
LEMMA PlaceType ==
  ASSUME NEW dom \in Sizes, NEW p \in NewBits(dom)
  PROVE  Place(dom, p) \in 0..(ExtraVars(dom) - 1) /\ ExtraVars(dom) \in Nat
<1> DEFINE T == BitsBefore(dom, p[1], p[2])
<1>1. IsFiniteSet(NewBits(dom)) /\ T \in SUBSET NewBits(dom) /\ p \notin T
  BY NewBitsFinite, BitsBeforeAre
<1>2. Cardinality(T) \in Nat /\ Cardinality(NewBits(dom)) \in Nat /\ Cardinality(T) < Cardinality(NewBits(dom))
  BY <1>1, ProperPart
<1> QED
  BY <1>2 DEF Place, ExtraVars

(* An earlier bit has an earlier place.                                    *)
LEMMA PlaceGrows ==
  ASSUME NEW dom \in Sizes, NEW p \in NewBits(dom), NEW q \in NewBits(dom), Earlier(p, q)
  PROVE  Place(dom, p) < Place(dom, q)
<1> DEFINE S == BitsBefore(dom, q[1], q[2])
           T == BitsBefore(dom, p[1], p[2])
<1>1. p \in S /\ p \notin T
  BY BitsBeforeAre
<1>2. T \subseteq S
  <2> SUFFICES ASSUME NEW r \in T PROVE r \in S
    OBVIOUS
  <2>1. r \in NewBits(dom) /\ Earlier(r, p)
    BY BitsBeforeAre
  <2>2. /\ r[1] \in Nat /\ r[2] \in Nat /\ p[1] \in Nat /\ p[2] \in Nat
        /\ q[1] \in Nat /\ q[2] \in Nat
    BY <2>1, NewBitType
  <2>3. Earlier(r, q)
    BY <2>1, <2>2 DEF Earlier
  <2> QED
    BY <2>1, <2>3, BitsBeforeAre
<1>3. IsFiniteSet(S)
  <2>1. IsFiniteSet(NewBits(dom)) /\ S \in SUBSET NewBits(dom)
    BY NewBitsFinite, BitsBeforeAre
  <2> QED
    BY <2>1, FS_Subset
<1>4. Cardinality(T) < Cardinality(S)
  BY <1>1, <1>2, <1>3, ProperPart
<1> QED
  BY <1>4 DEF Place

(* No two bits have the same place.                                        *)
LEMMA PlacesDiffer ==
  ASSUME NEW dom \in Sizes, NEW p \in NewBits(dom), NEW q \in NewBits(dom), p # q
  PROVE  Place(dom, p) # Place(dom, q)
<1>1. /\ p = <<p[1], p[2]>> /\ p[1] \in Nat /\ p[2] \in Nat
      /\ q = <<q[1], q[2]>> /\ q[1] \in Nat /\ q[2] \in Nat
  BY NewBitType
<1>2. p[1] # q[1] \/ p[2] # q[2]
  BY <1>1
<1>3. Earlier(p, q) \/ Earlier(q, p)
  BY <1>1, <1>2 DEF Earlier
<1>4. Place(dom, p) < Place(dom, q) \/ Place(dom, q) < Place(dom, p)
  BY <1>3, PlaceGrows
<1>5. Place(dom, p) \in Nat /\ Place(dom, q) \in Nat
  <2>1. /\ Place(dom, p) \in 0..(ExtraVars(dom) - 1) /\ Place(dom, q) \in 0..(ExtraVars(dom) - 1)
        /\ ExtraVars(dom) \in Nat
    BY PlaceType
  <2> QED
    BY <2>1
<1> QED
  BY <1>4, <1>5

(* No place is left out.                                                   *)
LEMMA PlacesTaken ==
  ASSUME NEW dom \in Sizes, NEW x \in 0..(ExtraVars(dom) - 1)
  PROVE  \E p \in NewBits(dom) : Place(dom, p) = x
<1> DEFINE B == NewBits(dom)
           f == [p \in B |-> Place(dom, p)]
<1>1. IsFiniteSet(B) /\ Cardinality(B) \in Nat
  BY NewBitsFinite, FS_CardinalityType
<1>2. PICK n \in Nat : n = ExtraVars(dom) /\ n = Cardinality(B)
  BY <1>1 DEF ExtraVars
<1>3. IsFiniteSet(0..(n - 1)) /\ Cardinality(0..(n - 1)) = n
  <2>1. 0 \in Int /\ n - 1 \in Int
    OBVIOUS
  <2> QED
    BY <2>1, FS_Interval
<1>4. f \in [B -> 0..(n - 1)]
  BY <1>2, PlaceType
<1>5. \A p, q \in B : f[p] = f[q] => p = q
  BY PlacesDiffer
<1>6. f \in Injection(B, 0..(n - 1))
  BY <1>4, <1>5 DEF Injection, IsInjective
<1>7. f \in Surjection(B, 0..(n - 1))
  BY <1>2, <1>3, <1>6, FS_Injection
<1> QED
  BY <1>2, <1>7 DEF Surjection

-----------------------------------------------------------------------------
(* The inductive invariant: BlocksApart, and what the table and the order  *)
(* are made of.                                                            *)

BlockRecords ==
  [realsize : Nat, ivar : Seq(Nat), var : SUBSET Assignments, parts : SUBSET Nat, call : Nat]

OrderFits == bddvarnum \in Nat /\ DOMAIN order = 0..(bddvarnum - 1)

(* A block is made of blocks there are, itself or others; its call began   *)
(* with it or before it.                                                   *)
TableFits ==
  /\ domain \in Seq(BlockRecords) /\ firstbddvar \in Nat
  /\ \A n \in Blocks : /\ domain[n].parts # {} /\ domain[n].parts \subseteq Blocks
                       /\ domain[n].call \in Blocks

(* The parts of BlocksApart.                                               *)
VarsAt(n) == ToSet(domain[n].ivar)

Apart ==
  \A n, k \in Blocks : domain[n].parts \cap domain[k].parts = {} => VarsAt(n) \cap VarsAt(k) = {}

Handed == UNION {VarsAt(n) : n \in Blocks} = 0..(firstbddvar - 1)

Woven ==
  \A n, k \in Blocks : domain[n].call = domain[k].call =>
    \A i \in DOMAIN domain[n].ivar, j \in DOMAIN domain[k].ivar :
      (i < j \/ (i = j /\ n < k)) /\ domain[n].parts = {n} => domain[n].ivar[i] < domain[k].ivar[j]

BlocksInv == OrderFits /\ TableFits /\ Apart /\ Handed /\ firstbddvar <= bddvarnum /\ Woven

(* The invariant says BlocksApart.                                         *)
LEMMA BlocksInvApart == BlocksInv => BlocksApart
  BY DEF BlocksInv, BlocksApart, Apart, Handed, Woven, VarsAt

(* The records of the table.                                               *)
LEMMA TableType ==
  ASSUME TableFits
  PROVE  /\ Len(domain) \in Nat /\ Blocks = 1..Len(domain)
         /\ \A n \in Blocks : domain[n] \in BlockRecords
  BY DEF TableFits, Blocks

(* The set of a cube.                                                      *)
LEMMA CubeType == ASSUME NEW ivar PROVE Cube(ivar) \in SUBSET Assignments
  BY DEF Cube

(* The variables of an order of the levels 0..n-1.                         *)
LEMMA LevelsOf ==
  ASSUME NEW o, NEW n \in Nat, DOMAIN o = 0..(n - 1)
  PROVE  Cardinality(DOMAIN o) = n
<1>1. Cardinality(0..(n - 1)) = n
  <2>1. 0 \in Int /\ n - 1 \in Int
    OBVIOUS
  <2> QED
    BY <2>1, FS_Interval
<1> QED
  BY <1>1

(* The invariant holds when the program starts.                            *)
LEMMA BlocksInvInit == Init => BlocksInv
<1> SUFFICES ASSUME Init PROVE BlocksInv
  OBVIOUS
<1>1. /\ program \in Programs /\ order = [l \in 0..(program.vars - 1) |-> l]
      /\ domain = << >> /\ firstbddvar = 0
  BY DEF Init
<1>2. PICK n \in Nat : n = program.vars
  <2>1. program.vars \in 1..MaxVars /\ MaxVars \in Nat \ {0}
    BY <1>1, ProgramsAssumption, MaxVarsAssumption DEF IsProgram
  <2> QED
    BY <2>1
<1>3. bddvarnum = n /\ DOMAIN order = 0..(n - 1)
  BY <1>1, <1>2, LevelsOf DEF bddvarnum
<1>4. Blocks = {}
  BY <1>1 DEF Blocks
<1>5. TableFits
  BY <1>1, <1>4 DEF TableFits
<1>6. Apart /\ Woven
  BY <1>4 DEF Apart, Woven
<1>7. Handed
  BY <1>1, <1>4 DEF Handed
<1> QED
  BY <1>1, <1>3, <1>5, <1>6, <1>7 DEF BlocksInv, OrderFits

(* A step that leaves the table alone and no variable out.                 *)
LEMMA TableKept ==
  ASSUME BlocksInv, UNCHANGED <<domain, firstbddvar>>, DOMAIN order' = DOMAIN order
  PROVE  BlocksInv'
<1>1. bddvarnum' = bddvarnum
  BY DEF bddvarnum
<1>2. OrderFits'
  BY <1>1 DEF BlocksInv, OrderFits
<1>3. Blocks' = Blocks
  BY DEF Blocks
<1>4. TableFits'
  BY <1>3 DEF BlocksInv, TableFits
<1>5. Apart'
  BY <1>3 DEF BlocksInv, Apart, VarsAt
<1>6. Handed'
  BY <1>3 DEF BlocksInv, Handed, VarsAt
<1>7. Woven'
  BY <1>3 DEF BlocksInv, Woven
<1> QED
  BY <1>1, <1>2, <1>4, <1>5, <1>6, <1>7 DEF BlocksInv

(* fdd_clearall.                                                           *)
LEMMA ClearKeeps == ASSUME BlocksInv, ClearAll PROVE BlocksInv'
<1>1. domain' = << >> /\ firstbddvar' = 0 /\ order' = order
  BY DEF ClearAll
<1>2. Blocks' = {}
  BY <1>1 DEF Blocks
<1>3. OrderFits' /\ firstbddvar' <= bddvarnum'
  BY <1>1 DEF BlocksInv, OrderFits, bddvarnum
<1>4. TableFits'
  BY <1>1, <1>2 DEF TableFits
<1>5. Apart' /\ Woven'
  BY <1>2 DEF Apart, Woven
<1>6. Handed'
  BY <1>1, <1>2 DEF Handed
<1> QED
  BY <1>3, <1>4, <1>5, <1>6 DEF BlocksInv

(* What is in a row of two rows.                                           *)
LEMMA InBoth ==
  ASSUME NEW s \in Seq(Nat), NEW t \in Seq(Nat)
  PROVE  s \o t \in Seq(Nat) /\ ToSet(s \o t) = ToSet(s) \cup ToSet(t)
<1>1. /\ s \o t \in Seq(Nat) /\ Len(s) \in Nat /\ Len(t) \in Nat
      /\ DOMAIN s = 1..Len(s) /\ DOMAIN t = 1..Len(t) /\ DOMAIN (s \o t) = 1..(Len(s) + Len(t))
      /\ \A i \in 1..(Len(s) + Len(t)) : (s \o t)[i] = IF i <= Len(s) THEN s[i] ELSE t[i - Len(s)]
  OBVIOUS
<1>2. PICK u : u = s \o t
  OBVIOUS
<1>3. ToSet(u) \subseteq ToSet(s) \cup ToSet(t)
  <2> SUFFICES ASSUME NEW i \in 1..(Len(s) + Len(t)) PROVE u[i] \in ToSet(s) \cup ToSet(t)
    BY <1>1, <1>2 DEF ToSet
  <2>1. i <= Len(s) => i \in DOMAIN s
    BY <1>1
  <2>2. ~ (i <= Len(s)) => i - Len(s) \in DOMAIN t
    BY <1>1
  <2>3. u[i] = IF i <= Len(s) THEN s[i] ELSE t[i - Len(s)]
    BY <1>1, <1>2
  <2> QED
    BY <2>1, <2>2, <2>3 DEF ToSet
<1>4. ToSet(s) \subseteq ToSet(u)
  <2> SUFFICES ASSUME NEW i \in 1..Len(s) PROVE s[i] \in ToSet(u)
    BY <1>1 DEF ToSet
  <2>1. i \in DOMAIN u /\ u[i] = s[i]
    BY <1>1, <1>2
  <2> QED
    BY <2>1 DEF ToSet
<1>5. ToSet(t) \subseteq ToSet(u)
  <2> SUFFICES ASSUME NEW i \in 1..Len(t) PROVE t[i] \in ToSet(u)
    BY <1>1 DEF ToSet
  <2>1. i + Len(s) \in 1..(Len(s) + Len(t)) /\ ~ (i + Len(s) <= Len(s)) /\ (i + Len(s)) - Len(s) = i
    BY <1>1
  <2>2. i + Len(s) \in DOMAIN u /\ u[i + Len(s)] = t[i]
    BY <1>1, <1>2, <2>1
  <2> QED
    BY <2>2 DEF ToSet
<1> QED
  BY <1>1, <1>2, <1>3, <1>4, <1>5

(* fdd_overlapdomain: the new block is made of what the two are made of,   *)
(* and has their variables.                                                *)
LEMMA OverlapKeeps ==
  ASSUME BlocksInv, NEW v1 \in Blocks, NEW v2 \in Blocks, OverlapDomain(v1, v2)
  PROVE  BlocksInv'
<1>1. OrderFits /\ TableFits /\ Apart /\ Handed /\ firstbddvar <= bddvarnum /\ Woven
  BY DEF BlocksInv
<1>2. PICK m \in Nat : m = Len(domain)
  BY <1>1, TableType
<1>3. Blocks = 1..m /\ \A n \in Blocks : domain[n] \in BlockRecords
  BY <1>1, <1>2, TableType
<1>4. PICK new : /\ new = Block(domain[v1].realsize * domain[v2].realsize,
                                domain[v1].ivar \o domain[v2].ivar,
                                domain[v1].parts \cup domain[v2].parts, m + 1)
                 /\ domain' = Append(domain, new)
  BY <1>2 DEF OverlapDomain
<1>5. order' = order /\ firstbddvar' = firstbddvar
  BY DEF OverlapDomain
<1>6. /\ new \in BlockRecords /\ new.call = m + 1
      /\ new.parts = domain[v1].parts \cup domain[v2].parts
      /\ ToSet(new.ivar) = VarsAt(v1) \cup VarsAt(v2)
  <2>1. domain[v1] \in BlockRecords /\ domain[v2] \in BlockRecords
    BY <1>3
  <2>2. /\ domain[v1].realsize \in Nat /\ domain[v2].realsize \in Nat
        /\ domain[v1].ivar \in Seq(Nat) /\ domain[v2].ivar \in Seq(Nat)
        /\ domain[v1].parts \subseteq Nat /\ domain[v2].parts \subseteq Nat
    BY <2>1 DEF BlockRecords
  <2>3. PICK size \in Nat : size = domain[v1].realsize * domain[v2].realsize
    BY <2>2
  <2>4. PICK ivar \in Seq(Nat) : /\ ivar = domain[v1].ivar \o domain[v2].ivar
                                 /\ ToSet(ivar) = VarsAt(v1) \cup VarsAt(v2)
    BY <2>2, InBoth DEF VarsAt
  <2>5. new = [realsize |-> size, ivar |-> ivar, var |-> Cube(ivar),
               parts |-> domain[v1].parts \cup domain[v2].parts, call |-> m + 1]
    BY <1>4, <2>3, <2>4 DEF Block
  <2> QED
    BY <2>2, <2>4, <2>5, CubeType DEF BlockRecords
<1>7. /\ domain' \in Seq(BlockRecords) /\ Blocks' = 1..(m + 1) /\ domain'[m + 1] = new
      /\ \A n \in Blocks : n \in Blocks' /\ n # m + 1 /\ domain'[n] = domain[n]
      /\ \A n \in Blocks' : n = m + 1 \/ n \in Blocks
  BY <1>1, <1>2, <1>3, <1>4, <1>6 DEF TableFits, Blocks
<1>8. new.parts # {} /\ new.parts \subseteq Blocks
  BY <1>1, <1>6 DEF TableFits
<1>9. TableFits'
  <2>1. ASSUME NEW n \in Blocks'
        PROVE  domain'[n].parts # {} /\ domain'[n].parts \subseteq Blocks' /\ domain'[n].call \in Blocks'
    <3>1. CASE n \in Blocks
      BY <1>1, <1>7, <3>1 DEF TableFits
    <3>2. CASE n = m + 1
      BY <1>6, <1>7, <1>8, <3>2
    <3> QED
      BY <1>7, <3>1, <3>2
  <2> QED
    BY <1>1, <1>5, <1>7, <2>1 DEF TableFits
<1>10. VarsAt(m + 1)' = VarsAt(v1) \cup VarsAt(v2) /\ \A n \in Blocks : VarsAt(n)' = VarsAt(n)
  BY <1>6, <1>7 DEF VarsAt
<1>11. Apart'
  <2>1. ASSUME NEW n \in Blocks, new.parts \cap domain[n].parts = {}
        PROVE  (VarsAt(v1) \cup VarsAt(v2)) \cap VarsAt(n) = {}
    <3>1. domain[v1].parts \cap domain[n].parts = {} /\ domain[v2].parts \cap domain[n].parts = {}
      BY <1>6, <2>1
    <3> QED
      BY <1>1, <3>1 DEF Apart
  <2>2. ASSUME NEW n \in Blocks', NEW k \in Blocks', domain'[n].parts \cap domain'[k].parts = {}
        PROVE  VarsAt(n)' \cap VarsAt(k)' = {}
    <3>1. CASE n \in Blocks /\ k \in Blocks
      BY <1>1, <1>7, <1>10, <2>2, <3>1 DEF Apart
    <3>2. CASE n = m + 1 /\ k \in Blocks
      BY <1>7, <1>10, <2>1, <2>2, <3>2
    <3>3. CASE n \in Blocks /\ k = m + 1
      <4>1. new.parts \cap domain[n].parts = {}
        BY <1>7, <2>2, <3>3
      <4>2. (VarsAt(v1) \cup VarsAt(v2)) \cap VarsAt(n) = {}
        BY <2>1, <3>3, <4>1
      <4> QED
        BY <1>10, <3>3, <4>2
    <3>4. ~ (n = m + 1 /\ k = m + 1)
      BY <1>7, <1>8, <2>2
    <3> QED
      BY <1>7, <3>1, <3>2, <3>3, <3>4
  <2> QED
    BY <2>2 DEF Apart
<1>12. Handed'
  <2>1. UNION {VarsAt(n)' : n \in Blocks'} = UNION {VarsAt(n) : n \in Blocks}
    BY <1>7, <1>10
  <2> QED
    BY <1>1, <1>5, <2>1 DEF Handed
<1>13. Woven'
  <2>1. ASSUME NEW n \in Blocks', NEW k \in Blocks', domain'[n].call = domain'[k].call,
               domain'[n].parts = {n}
        PROVE  n \in Blocks /\ k \in Blocks
    <3>1. n # m + 1
      BY <1>3, <1>7, <1>8, <2>1
    <3>2. n \in Blocks /\ domain'[n].call \in 1..m
      BY <1>1, <1>3, <1>7, <3>1 DEF TableFits
    <3>3. k # m + 1
      BY <1>6, <1>7, <2>1, <3>2
    <3> QED
      BY <1>7, <3>2, <3>3
  <2>2. ASSUME NEW n \in Blocks', NEW k \in Blocks', domain'[n].call = domain'[k].call,
               NEW i \in DOMAIN domain'[n].ivar, NEW j \in DOMAIN domain'[k].ivar,
               i < j \/ (i = j /\ n < k), domain'[n].parts = {n}
        PROVE  domain'[n].ivar[i] < domain'[k].ivar[j]
    <3>1. n \in Blocks /\ k \in Blocks
      BY <2>1, <2>2
    <3>2. domain'[n] = domain[n] /\ domain'[k] = domain[k]
      BY <1>7, <3>1
    <3> QED
      BY <1>1, <2>2, <3>1, <3>2 DEF Woven
  <2> QED
    BY <2>2 DEF Woven
<1>14. OrderFits' /\ (firstbddvar <= bddvarnum)'
  BY <1>1, <1>5 DEF OrderFits, bddvarnum
<1> QED
  BY <1>9, <1>11, <1>12, <1>13, <1>14 DEF BlocksInv

(* The variables of the n-th new block, and of all of them.                *)
LEMMA NewVariables ==
  ASSUME NEW dom \in Sizes, NEW n \in DOMAIN dom, firstbddvar \in Nat
  PROVE  /\ Interleaved(dom, n) \in Seq(Nat)
         /\ DOMAIN Interleaved(dom, n) = 1..BinSize(dom[n])
         /\ \A i \in 1..BinSize(dom[n]) :
              /\ <<i - 1, n>> \in NewBits(dom)
              /\ Interleaved(dom, n)[i] = firstbddvar + Place(dom, <<i - 1, n>>)
<1>1. dom[n] \in Nat \ {0}
  BY DEF Sizes
<1>2. PICK b \in Nat : b = BinSize(dom[n])
  BY <1>1, BinSizeType
<1>3. PICK v : v = Interleaved(dom, n)
  OBVIOUS
<1>4. v = [i \in 1..b |-> firstbddvar + Cardinality(BitsBefore(dom, i - 1, n))]
  BY <1>2, <1>3 DEF Interleaved
<1>5. ASSUME NEW i \in 1..b
      PROVE  /\ <<i - 1, n>> \in NewBits(dom) /\ v[i] \in Nat
             /\ v[i] = firstbddvar + Place(dom, <<i - 1, n>>)
  <2>1. i - 1 \in 0..(b - 1)
    BY <1>2
  <2>2. <<i - 1, n>> \in NewBits(dom)
    BY <1>2, <2>1 DEF NewBits
  <2>3. v[i] = firstbddvar + Place(dom, <<i - 1, n>>)
    BY <1>4 DEF Place
  <2>4. Place(dom, <<i - 1, n>>) \in 0..(ExtraVars(dom) - 1) /\ ExtraVars(dom) \in Nat
    BY <2>2, PlaceType
  <2> QED
    BY <2>2, <2>3, <2>4
<1>6. v \in Seq(Nat) /\ DOMAIN v = 1..b
  <2>1. v = [i \in 1..b |-> v[i]] /\ \A i \in 1..b : v[i] \in Nat
    BY <1>4, <1>5
  <2> QED
    BY <2>1
<1> QED
  BY <1>2, <1>3, <1>5, <1>6

(* What one new block has of the others: nothing.                          *)
LEMMA NewApart ==
  ASSUME NEW dom \in Sizes, NEW n \in DOMAIN dom, NEW k \in DOMAIN dom, firstbddvar \in Nat, n # k
  PROVE  ToSet(Interleaved(dom, n)) \cap ToSet(Interleaved(dom, k)) = {}
<1> SUFFICES ASSUME NEW i \in 1..BinSize(dom[n]), NEW j \in 1..BinSize(dom[k]),
                    Interleaved(dom, n)[i] = Interleaved(dom, k)[j]
             PROVE  FALSE
  BY NewVariables DEF ToSet
<1>1. PICK p : p = <<i - 1, n>>
  OBVIOUS
<1>2. PICK q : q = <<j - 1, k>>
  OBVIOUS
<1>3. p \in NewBits(dom) /\ Interleaved(dom, n)[i] = firstbddvar + Place(dom, p)
  BY <1>1, NewVariables
<1>4. q \in NewBits(dom) /\ Interleaved(dom, k)[j] = firstbddvar + Place(dom, q)
  BY <1>2, NewVariables
<1>5. p # q
  BY <1>1, <1>2
<1>6. /\ Place(dom, p) \in 0..(ExtraVars(dom) - 1) /\ Place(dom, q) \in 0..(ExtraVars(dom) - 1)
      /\ ExtraVars(dom) \in Nat /\ Place(dom, p) # Place(dom, q)
  BY <1>3, <1>4, <1>5, PlaceType, PlacesDiffer
<1>7. PICK a, b : a = Place(dom, p) /\ b = Place(dom, q)
  OBVIOUS
<1>8. a \in Int /\ b \in Int /\ a # b
  BY <1>6, <1>7
<1>9. firstbddvar + a = firstbddvar + b
  <2>1. Interleaved(dom, n)[i] = firstbddvar + a
    BY <1>3, <1>7
  <2>2. Interleaved(dom, k)[j] = firstbddvar + b
    BY <1>4, <1>7
  <2> QED
    BY <2>1, <2>2
<1> QED
  BY <1>8, <1>9

(* What all new blocks have: the next numbers.                             *)
LEMMA NewHanded ==
  ASSUME NEW dom \in Sizes, NEW f \in Nat, f = firstbddvar
  PROVE  UNION {ToSet(Interleaved(dom, n)) : n \in DOMAIN dom} = f..(f + ExtraVars(dom) - 1)
<1> DEFINE U == UNION {ToSet(Interleaved(dom, n)) : n \in DOMAIN dom}
<1>1. PICK e : e = ExtraVars(dom)
  OBVIOUS
<1>2. e \in Nat
  <2>1. IsFiniteSet(NewBits(dom))
    BY NewBitsFinite
  <2> QED
    BY <1>1, <2>1, FS_CardinalityType DEF ExtraVars
<1>3. ASSUME NEW x \in U PROVE x \in f..(f + e - 1)
  <2>1. PICK n \in DOMAIN dom : x \in ToSet(Interleaved(dom, n))
    OBVIOUS
  <2>2. PICK i \in 1..BinSize(dom[n]) : x = f + Place(dom, <<i - 1, n>>) /\ <<i - 1, n>> \in NewBits(dom)
    BY <2>1, NewVariables DEF ToSet
  <2>3. Place(dom, <<i - 1, n>>) \in 0..(e - 1)
    BY <1>1, <2>2, PlaceType
  <2> QED
    BY <1>2, <2>2, <2>3
<1>4. ASSUME NEW x \in f..(f + e - 1) PROVE x \in U
  <2>1. x - f \in 0..(e - 1)
    BY <1>2
  <2>2. PICK p \in NewBits(dom) : Place(dom, p) = x - f
    BY <1>1, <2>1, PlacesTaken
  <2>3. /\ p = <<p[1], p[2]>> /\ p[2] \in DOMAIN dom
        /\ p[1] \in 0..(BinSize(dom[p[2]]) - 1)
    BY NewBitsAre
  <2>4. PICK n \in DOMAIN dom : n = p[2]
    BY <2>3
  <2>5. BinSize(dom[n]) \in Nat
    <3>1. dom[n] \in Nat \ {0}
      BY DEF Sizes
    <3> QED
      BY <3>1, BinSizeType
  <2>6. PICK i \in 1..BinSize(dom[n]) : i - 1 = p[1]
    <3>1. p[1] + 1 \in 1..BinSize(dom[n]) /\ (p[1] + 1) - 1 = p[1]
      BY <2>3, <2>4, <2>5
    <3> QED
      BY <3>1
  <2>7. p = <<i - 1, n>>
    BY <2>3, <2>4, <2>6
  <2>8. i \in DOMAIN Interleaved(dom, n) /\ Interleaved(dom, n)[i] = f + Place(dom, p)
    BY <2>7, NewVariables
  <2>9. f + (x - f) = x
    BY <1>2
  <2>10. x = Interleaved(dom, n)[i]
    BY <2>2, <2>8, <2>9
  <2> QED
    BY <2>8, <2>10 DEF ToSet
<1> QED
  BY <1>1, <1>3, <1>4

(* The lower bits of all blocks come first.                                *)
LEMMA NewWoven ==
  ASSUME NEW dom \in Sizes, NEW n \in DOMAIN dom, NEW k \in DOMAIN dom, firstbddvar \in Nat,
         NEW i \in 1..BinSize(dom[n]), NEW j \in 1..BinSize(dom[k]), i < j \/ (i = j /\ n < k)
  PROVE  Interleaved(dom, n)[i] < Interleaved(dom, k)[j]
<1>1. PICK p : p = <<i - 1, n>>
  OBVIOUS
<1>2. PICK q : q = <<j - 1, k>>
  OBVIOUS
<1>3. p \in NewBits(dom) /\ Interleaved(dom, n)[i] = firstbddvar + Place(dom, p)
  BY <1>1, NewVariables
<1>4. q \in NewBits(dom) /\ Interleaved(dom, k)[j] = firstbddvar + Place(dom, q)
  BY <1>2, NewVariables
<1>5. p[1] = i - 1 /\ p[2] = n /\ q[1] = j - 1 /\ q[2] = k
  BY <1>1, <1>2
<1>6. i \in Int /\ j \in Int
  <2>1. BinSize(dom[n]) \in Nat /\ BinSize(dom[k]) \in Nat
    <3>1. dom[n] \in Nat \ {0} /\ dom[k] \in Nat \ {0}
      BY DEF Sizes
    <3> QED
      BY <3>1, BinSizeType
  <2> QED
    BY <2>1
<1>7. Earlier(p, q)
  BY <1>5, <1>6 DEF Earlier
<1>8. Place(dom, p) < Place(dom, q)
  BY <1>3, <1>4, <1>7, PlaceGrows
<1>9. /\ Place(dom, p) \in 0..(ExtraVars(dom) - 1) /\ Place(dom, q) \in 0..(ExtraVars(dom) - 1)
      /\ ExtraVars(dom) \in Nat
  BY <1>3, <1>4, PlaceType
<1> QED
  BY <1>3, <1>4, <1>8, <1>9

(* bdd_setvarnum leaves as many levels as are asked for, or as there were. *)
LEMMA OrderGrows ==
  ASSUME OrderFits, NEW n \in Nat, order' = GrownTo(n)
  PROVE  OrderFits' /\ n <= bddvarnum' /\ bddvarnum' \in Nat
<1>1. PICK b \in Nat : b = bddvarnum
  BY DEF OrderFits
<1>2. PICK top \in Nat : top = Max({n, b}) /\ n <= top
  BY MaxOfTwo
<1>3. order' = [l \in 0..(top - 1) |-> IF l \in DOMAIN order THEN order[l] ELSE l]
  BY <1>1, <1>2 DEF GrownTo
<1>4. DOMAIN order' = 0..(top - 1)
  BY <1>3
<1>5. bddvarnum' = top
  BY <1>4, LevelsOf DEF bddvarnum
<1> QED
  BY <1>2, <1>4, <1>5 DEF OrderFits

(* fdd_extdomain: the new blocks have the next variables.                  *)
LEMMA ExtDomainKeeps ==
  ASSUME BlocksInv, NEW dom \in Sizes, ExtDomain(dom)
  PROVE  BlocksInv'
<1>1. OrderFits /\ TableFits /\ Apart /\ Handed /\ firstbddvar <= bddvarnum /\ Woven
  BY DEF BlocksInv
<1>2. PICK m \in Nat : m = Len(domain)
  BY <1>1, TableType
<1>3. Blocks = 1..m /\ \A n \in Blocks : domain[n] \in BlockRecords
  BY <1>1, <1>2, TableType
<1>4. PICK f \in Nat : f = firstbddvar
  BY <1>1 DEF TableFits
<1>5. PICK e \in Nat : e = ExtraVars(dom)
  <2>1. IsFiniteSet(NewBits(dom))
    BY NewBitsFinite
  <2> QED
    BY <2>1, FS_CardinalityType DEF ExtraVars
<1>6. PICK l \in Nat : l = Len(dom) /\ DOMAIN dom = 1..l
  BY DEF Sizes
<1>7. PICK new : /\ new = [n \in DOMAIN dom |-> Block(dom[n], Interleaved(dom, n), {m + n}, m + 1)]
                 /\ domain' = domain \o new
  BY <1>2 DEF ExtDomain
<1>8. order' = GrownTo(f + e) /\ firstbddvar' = f + e
  BY <1>4, <1>5 DEF ExtDomain
<1>9. OrderFits' /\ (firstbddvar <= bddvarnum)'
  BY <1>1, <1>8, OrderGrows
<1>10. ASSUME NEW n \in 1..l
       PROVE  /\ new[n] \in BlockRecords /\ new[n].ivar = Interleaved(dom, n)
              /\ new[n].parts = {m + n} /\ new[n].call = m + 1
  <2>1. dom[n] \in Nat \ {0}
    BY <1>6 DEF Sizes
  <2>2. PICK ivar \in Seq(Nat) : ivar = Interleaved(dom, n)
    BY <1>1, <1>6, NewVariables DEF TableFits
  <2>3. new[n] = [realsize |-> dom[n], ivar |-> ivar, var |-> Cube(ivar), parts |-> {m + n},
                  call |-> m + 1]
    BY <1>6, <1>7, <2>2 DEF Block
  <2> QED
    BY <2>1, <2>2, <2>3, CubeType DEF BlockRecords
<1>11. new \in Seq(BlockRecords) /\ Len(new) = l
  <2>1. new = [n \in 1..l |-> new[n]] /\ \A n \in 1..l : new[n] \in BlockRecords
    BY <1>6, <1>7, <1>10
  <2> QED
    BY <2>1
<1>12. /\ domain' \in Seq(BlockRecords) /\ Blocks' = 1..(m + l)
       /\ \A n \in Blocks : n \in Blocks' /\ domain'[n] = domain[n]
       /\ \A n \in 1..l : m + n \in Blocks' /\ domain'[m + n] = new[n]
  BY <1>1, <1>2, <1>3, <1>7, <1>11 DEF TableFits, Blocks
<1>13. \A n \in Blocks' : n \in Blocks \/ \E k \in 1..l : n = m + k
  <2> SUFFICES ASSUME NEW n \in Blocks', n \notin Blocks PROVE \E k \in 1..l : n = m + k
    OBVIOUS
  <2>1. n - m \in 1..l /\ n = m + (n - m)
    BY <1>3, <1>12
  <2> QED
    BY <2>1
<1>14. TableFits'
  <2>1. ASSUME NEW n \in Blocks'
        PROVE  domain'[n].parts # {} /\ domain'[n].parts \subseteq Blocks' /\ domain'[n].call \in Blocks'
    <3>1. CASE n \in Blocks
      BY <1>1, <1>12, <3>1 DEF TableFits
    <3>2. ASSUME NEW k \in 1..l, n = m + k
          PROVE  domain'[n].parts # {} /\ domain'[n].parts \subseteq Blocks' /\ domain'[n].call \in Blocks'
      <4>1. m + 1 \in Blocks' /\ m + k \in Blocks'
        BY <1>12
      <4> QED
        BY <1>10, <1>12, <3>2, <4>1
    <3> QED
      BY <1>13, <3>1, <3>2
  <2>2. firstbddvar' \in Nat
    BY <1>8
  <2> QED
    BY <1>12, <2>1, <2>2 DEF TableFits
<1>15. /\ \A n \in Blocks : VarsAt(n)' = VarsAt(n)
       /\ \A n \in 1..l : VarsAt(m + n)' = ToSet(Interleaved(dom, n))
  <2>1. ASSUME NEW n \in Blocks PROVE VarsAt(n)' = VarsAt(n)
    BY <1>12 DEF VarsAt
  <2>2. ASSUME NEW n \in 1..l PROVE VarsAt(m + n)' = ToSet(Interleaved(dom, n))
    BY <1>10, <1>12 DEF VarsAt
  <2> QED
    BY <2>1, <2>2
<1>16. UNION {ToSet(Interleaved(dom, n)) : n \in 1..l} = f..(f + e - 1)
  BY <1>4, <1>5, <1>6, NewHanded
<1>17. ASSUME NEW n \in Blocks, NEW k \in 1..l
       PROVE  VarsAt(n) \cap ToSet(Interleaved(dom, k)) = {}
  <2>1. VarsAt(n) \subseteq 0..(f - 1)
    BY <1>1, <1>4 DEF Handed
  <2>2. ToSet(Interleaved(dom, k)) \subseteq f..(f + e - 1)
    BY <1>16
  <2>3. (0..(f - 1)) \cap (f..(f + e - 1)) = {}
    OBVIOUS
  <2> QED
    BY <2>1, <2>2, <2>3

<1>18. Apart'
  <2>1. ASSUME NEW n \in Blocks', NEW k \in Blocks', domain'[n].parts \cap domain'[k].parts = {}
        PROVE  VarsAt(n)' \cap VarsAt(k)' = {}
    <3>1. CASE n \in Blocks /\ k \in Blocks
      BY <1>1, <1>12, <1>15, <2>1, <3>1 DEF Apart
    <3>2. ASSUME n \in Blocks, NEW b \in 1..l, k = m + b PROVE VarsAt(n)' \cap VarsAt(k)' = {}
      BY <1>15, <1>17, <3>2
    <3>3. ASSUME k \in Blocks, NEW a \in 1..l, n = m + a PROVE VarsAt(n)' \cap VarsAt(k)' = {}
      <4>1. VarsAt(k) \cap ToSet(Interleaved(dom, a)) = {}
        BY <1>17, <3>3
      <4> QED
        BY <1>15, <3>3, <4>1
    <3>4. ASSUME NEW a \in 1..l, NEW b \in 1..l, n = m + a, k = m + b PROVE VarsAt(n)' \cap VarsAt(k)' = {}
      <4>1. domain'[n].parts = {n} /\ domain'[k].parts = {k}
        BY <1>10, <1>12, <3>4
      <4>2. a # b
        BY <2>1, <3>4, <4>1
      <4>3. ToSet(Interleaved(dom, a)) \cap ToSet(Interleaved(dom, b)) = {}
        BY <1>4, <1>6, <4>2, NewApart
      <4> QED
        BY <1>15, <3>4, <4>3
    <3> QED
      BY <1>13, <3>1, <3>2, <3>3, <3>4
  <2> QED
    BY <2>1 DEF Apart
<1>19. Handed'
  <2>1. UNION {VarsAt(n)' : n \in Blocks'} = (0..(f - 1)) \cup (f..(f + e - 1))
    <3>1. UNION {VarsAt(n) : n \in Blocks} = 0..(f - 1)
      BY <1>1, <1>4 DEF Handed
    <3>2. \A x : (\E n \in Blocks' : x \in VarsAt(n)') <=>
                   (\E n \in Blocks : x \in VarsAt(n)) \/ (\E n \in 1..l : x \in ToSet(Interleaved(dom, n)))
      BY <1>12, <1>13, <1>15
    <3> QED
      BY <1>16, <3>1, <3>2
  <2>2. (0..(f - 1)) \cup (f..(f + e - 1)) = 0..(f + e - 1)
    OBVIOUS
  <2> QED
    BY <1>8, <2>1, <2>2 DEF Handed
<1>20. Woven'
  <2>1. ASSUME NEW n \in Blocks', NEW k \in Blocks', domain'[n].call = domain'[k].call,
               NEW i \in DOMAIN domain'[n].ivar, NEW j \in DOMAIN domain'[k].ivar,
               i < j \/ (i = j /\ n < k), domain'[n].parts = {n}
        PROVE  domain'[n].ivar[i] < domain'[k].ivar[j]
    <3>1. \A x \in Blocks : domain'[x].call \in 1..m
      BY <1>1, <1>3, <1>12 DEF TableFits
    <3>2. \A x \in 1..l : domain'[m + x].call = m + 1
      BY <1>10, <1>12
    <3>3. CASE n \in Blocks /\ k \in Blocks
      <4>1. domain'[n] = domain[n] /\ domain'[k] = domain[k]
        BY <1>12, <3>3
      <4> QED
        BY <1>1, <2>1, <3>3, <4>1 DEF Woven
    <3>4. ASSUME NEW a \in 1..l, NEW b \in 1..l, n = m + a, k = m + b
          PROVE  domain'[n].ivar[i] < domain'[k].ivar[j]
      <4>1. domain'[n].ivar = Interleaved(dom, a) /\ domain'[k].ivar = Interleaved(dom, b)
        BY <1>10, <1>12, <3>4
      <4>2. i \in 1..BinSize(dom[a]) /\ j \in 1..BinSize(dom[b])
        BY <1>4, <1>6, <2>1, <4>1, NewVariables
      <4>3. i < j \/ (i = j /\ a < b)
        BY <2>1, <3>4
      <4>4. Interleaved(dom, a)[i] < Interleaved(dom, b)[j]
        BY <1>4, <1>6, <4>2, <4>3, NewWoven
      <4> QED
        BY <4>1, <4>4
    <3>5. ~ (n \in Blocks /\ \E b \in 1..l : k = m + b) /\ ~ (k \in Blocks /\ \E a \in 1..l : n = m + a)
      <4>1. m + 1 \notin 1..m
        OBVIOUS
      <4> QED
        BY <2>1, <3>1, <3>2, <4>1
    <3> QED
      BY <1>13, <3>3, <3>4, <3>5
  <2> QED
    BY <2>1 DEF Woven
<1> QED
  BY <1>9, <1>14, <1>18, <1>19, <1>20 DEF BlocksInv

-----------------------------------------------------------------------------
(* The invariant, with the program that runs.                              *)
VectorsInv == program \in Programs /\ BlocksInv

(* It holds when the program starts.                                       *)
LEMMA VectorsInvInit == Init => VectorsInv
  BY BlocksInvInit DEF Init, VectorsInv

(* Every step keeps it.                                                    *)
LEMMA VectorsInvStep == VectorsInv /\ [Next]_vars => VectorsInv'
<1>0. ASSUME [Next]_vars PROVE program' = program
  BY <1>0 DEF Next, Call, CallComparison, Free, DefineBlocks, Overlap, Clear, VarFdd, AskDomain, AddVarBlock,
              Exchange, Step, vars
<1> SUFFICES ASSUME program \in Programs, BlocksInv, [Next]_vars PROVE BlocksInv'
  BY <1>0 DEF VectorsInv
<1> DEFINE Kept == UNCHANGED <<order, domain, firstbddvar>>
<1>1. ASSUME Kept PROVE BlocksInv'
  BY <1>1, TableKept
<1>2. CASE \E op \in program.ops : Call(op)
  BY <1>1, <1>2 DEF Call
<1>3. CASE \E op \in program.ops : CallComparison(op)
  BY <1>1, <1>3 DEF CallComparison, fddVars
<1>4. CASE Free
  BY <1>1, <1>4 DEF Free
<1>5. CASE DefineBlocks
  <2>1. PICK dom \in program.doms : ExtDomain(dom)
    BY <1>5 DEF DefineBlocks
  <2>2. dom \in Sizes
    BY ProgramsAssumption DEF IsProgram, Sizes
  <2> QED
    BY <2>1, <2>2, ExtDomainKeeps
<1>6. CASE Overlap
  BY <1>6, OverlapKeeps DEF Overlap
<1>7. CASE Clear
  BY <1>7, ClearKeeps DEF Clear
<1>8. CASE VarFdd
  BY <1>1, <1>8 DEF VarFdd, fddVars
<1>9. CASE AskDomain
  BY <1>1, <1>9 DEF AskDomain
<1>10. CASE AddVarBlock
  BY <1>1, <1>10 DEF AddVarBlock
<1>11. CASE Exchange
  <2>1. /\ UNCHANGED <<domain, firstbddvar>>
        /\ \E l \in DOMAIN order : order' = [order EXCEPT ![l] = order[l + 1], ![l + 1] = order[l]]
    BY <1>11 DEF Exchange
  <2>2. DOMAIN order' = DOMAIN order
    BY <2>1
  <2> QED
    BY <2>1, <2>2, TableKept
<1>12. CASE UNCHANGED vars
  BY <1>1, <1>12 DEF vars, fddVars
<1> QED
  BY <1>2, <1>3, <1>4, <1>5, <1>6, <1>7, <1>8, <1>9, <1>10, <1>11, <1>12 DEF Next

(* Blocks that were defined apart share no variable, the table knows how   *)
(* many variables it has handed out, and the blocks of one call of         *)
(* fdd_extdomain are interleaved, lowest bits first: for every number of   *)
(* blocks, every size and every sequence of calls, with reordering between *)
(* them.                                                                   *)
THEOREM BlocksApartHolds == Spec => []BlocksApart
<1>1. VectorsInv => BlocksApart
  BY BlocksInvApart DEF VectorsInv
<1> QED
  BY <1>1, VectorsInvInit, VectorsInvStep, PTL DEF Spec


-----------------------------------------------------------------------------
(* Loops. The folds of the model go through a sequence from its first      *)
(* element to its last; what each turn makes of what was there before is   *)
(* Turn.                                                                   *)

MulTurn(s, bit) == MulAdded(s, Add(s.vec, s.shift, s.m), bit)

Turn(kind, a, b, k, x) ==
  CASE kind = "take" -> AddRef(a[k], x)
    [] kind = "give" -> DelRef(a[k], x)
    [] kind = "add" -> Rippled(x, Xor(Xor(b[1][a[k]], b[2][a[k]]), x.carry), AddCarry(b[1][a[k]], b[2][a[k]], x.carry))
    [] kind = "sub" -> Rippled(x, Xor(Xor(b[1][a[k]], b[2][a[k]]), x.carry), SubCarry(b[1][a[k]], b[2][a[k]], x.carry))
    [] kind = "mul" -> MulTurn(x, a[k])
    [] kind = "start" -> AddRefs(a[k], x)

(* The value of a fold over a set of places is that of its last turn.      *)
AtSet(kind, a, b, base, it, s) ==
  it[s] = IF s = {} THEN base ELSE Turn(kind, a, b, Max(s), it[s \ {Max(s)}])

Folding(kind, a, b, base) ==
  (CHOOSE it : it = [s \in SUBSET DOMAIN a |->
                       IF s = {} THEN base ELSE Turn(kind, a, b, Max(s), it[s \ {Max(s)}])])[DOMAIN a]

(* t[k] is what there is after k turns.                                    *)
InTurn(kind, a, b, base, t, n) ==
  t[0] = base /\ \A k \in 1..n : t[k] = Turn(kind, a, b, k, t[k - 1])

(* The greatest number of a set that has n + 1 and none above.             *)
LEMMA MaxIs == ASSUME NEW n \in Nat, NEW s \in SUBSET (1..n), n \in s PROVE Max(s) = n
<1>1. \A y \in s : n >= y
  OBVIOUS
<1>2. \E x \in s : \A y \in s : x >= y
  BY <1>1
<1>3. Max(s) \in s /\ \A y \in s : Max(s) >= y
  BY <1>2 DEF Max
<1>4. Max(s) \in 1..n /\ Max(s) >= n
  BY <1>3
<1> QED
  BY <1>4

(* A loop is what its turns make.                                          *)
LEMMA Unrolled ==
  ASSUME NEW kind, NEW a, NEW b, NEW base, NEW n \in Nat, DOMAIN a = 1..n
  PROVE  \E t : InTurn(kind, a, b, base, t, n) /\ Folding(kind, a, b, base) = t[n]
<1> DEFINE Solves(it, h) == \A s \in SUBSET (1..h) : AtSet(kind, a, b, base, it, s)
           P == {h \in 0..n : \E it : Solves(it, h)}
           Eq(it) == it = [s \in SUBSET DOMAIN a |->
                       IF s = {} THEN base ELSE Turn(kind, a, b, Max(s), it[s \ {Max(s)}])]
           g == CHOOSE it : Eq(it)
<1>1. 0 \in P
  <2>1. PICK f : f = [s \in {{}} |-> base]
    OBVIOUS
  <2>2. \A s \in SUBSET (1..0) : s = {}
    OBVIOUS
  <2>3. Solves(f, 0)
    BY <2>1, <2>2 DEF AtSet
  <2>4. 0 \in 0..n
    OBVIOUS
  <2> QED
    BY <2>3, <2>4
<1>2. ASSUME NEW h \in 0..(n - 1), h \in P PROVE h + 1 \in P
  <2>1. PICK f : Solves(f, h)
    BY <1>2
  <2>2. PICK k \in Nat : k = h + 1
    OBVIOUS
  <2> DEFINE e == [s \in SUBSET (1..k) |-> IF k \in s THEN Turn(kind, a, b, k, f[s \ {k}]) ELSE f[s]]
  <2>3. \A s \in SUBSET (1..k) : e[s] = IF k \in s THEN Turn(kind, a, b, k, f[s \ {k}]) ELSE f[s]
    OBVIOUS
  <2> HIDE DEF e
  <2>4. ASSUME NEW s \in SUBSET (1..k), k \notin s PROVE s \in SUBSET (1..h)
    <3>1. \A y \in 1..k : y = k \/ y \in 1..h
      BY <2>2
    <3> QED
      BY <2>4, <3>1
  <2>5. ASSUME NEW s \in SUBSET (1..k) PROVE AtSet(kind, a, b, base, e, s)
    <3>1. CASE k \in s
      <4>1. Max(s) = k
        BY <3>1, MaxIs
      <4>2. s \ {k} \in SUBSET (1..k) /\ k \notin s \ {k} /\ s # {}
        BY <3>1
      <4>3. e[s] = Turn(kind, a, b, k, f[s \ {k}]) /\ e[s \ {k}] = f[s \ {k}]
        BY <2>3, <3>1, <4>2
      <4> QED
        BY <4>1, <4>2, <4>3 DEF AtSet
    <3>2. CASE k \notin s
      <4>1. s \in SUBSET (1..h)
        BY <2>4, <3>2
      <4>2. AtSet(kind, a, b, base, f, s) /\ e[s] = f[s]
        BY <2>1, <2>3, <3>2, <4>1
      <4>3. e[s \ {Max(s)}] = f[s \ {Max(s)}]
        BY <2>3, <3>2
      <4> QED
        BY <4>2, <4>3 DEF AtSet
    <3> QED
      BY <3>1, <3>2
  <2>6. Solves(e, k)
    BY <2>5
  <2>7. k \in 0..n
    BY <2>2
  <2> QED
    BY <2>2, <2>6, <2>7
<1>3. n \in P
  <2>1. P \in SUBSET (0..n)
    OBVIOUS
  <2>2. P = 0..n
    <3> HIDE DEF P
    <3> QED
      BY <1>1, <1>2, <2>1, UpTo
  <2>3. n \in 0..n
    OBVIOUS
  <2> HIDE DEF P
  <2> QED
    BY <2>2, <2>3
<1>4. \E it : Eq(it)
  <2>1. PICK f : Solves(f, n)
    BY <1>3
  <2> DEFINE e == [s \in SUBSET DOMAIN a |-> f[s]]
  <2>2. \A s \in SUBSET DOMAIN a : e[s] = f[s] /\ e[s \ {Max(s)}] = f[s \ {Max(s)}]
    OBVIOUS
  <2>3. \A s \in SUBSET DOMAIN a : e[s] = IF s = {} THEN base ELSE Turn(kind, a, b, Max(s), e[s \ {Max(s)}])
    <3> HIDE DEF e
    <3> QED
      BY <2>1, <2>2 DEF AtSet
  <2>4. Eq(e)
    BY <2>3
  <2> QED
    BY <2>4
<1>5. Eq(g)
  <2> HIDE DEF Eq
  <2> QED
    BY <1>4
<1>6. Folding(kind, a, b, base) = g[DOMAIN a]
  BY DEF Folding
<1> HIDE DEF g
<1>7. \A s \in SUBSET (1..n) : g[s] = IF s = {} THEN base ELSE Turn(kind, a, b, Max(s), g[s \ {Max(s)}])
  BY <1>5
<1> DEFINE t == [k \in 0..n |-> g[1..k]]
<1>8. t[0] = base
  <2>1. t[0] = g[1..0] /\ 1..0 = {}
    OBVIOUS
  <2> QED
    BY <1>7, <2>1
<1>9. ASSUME NEW k \in 1..n PROVE t[k] = Turn(kind, a, b, k, t[k - 1])
  <2>1. k \in 1..k /\ 1..k \in SUBSET (1..n) /\ (1..k) \ {k} = 1..(k - 1) /\ 1..k # {}
    OBVIOUS
  <2>2. Max(1..k) = k
    <3>1. k \in Nat /\ 1..k \in SUBSET (1..k)
      OBVIOUS
    <3> QED
      BY <2>1, <3>1, MaxIs
  <2>3. t[k] = g[1..k] /\ t[k - 1] = g[1..(k - 1)]
    OBVIOUS
  <2> HIDE DEF t
  <2> QED
    BY <1>7, <2>1, <2>2, <2>3
<1>10. t[n] = g[DOMAIN a]
  OBVIOUS
<1> QED
  BY <1>6, <1>8, <1>9, <1>10 DEF InTurn

-----------------------------------------------------------------------------
(* The ledger.                                                             *)

(* A ledger has no node without a reference, and nothing was given back    *)
(* that nobody had.                                                        *)
IsLedger(m) ==
  /\ m = [count |-> m.count, broken |-> m.broken] /\ ~ m.broken
  /\ m.count = [f \in DOMAIN m.count |-> m.count[f]]
  /\ \A f \in DOMAIN m.count : m.count[f] \in Nat /\ m.count[f] # 0

(* A node has a count if it is in the bag.                                 *)
LEMMA CountIs ==
  ASSUME NEW m, IsLedger(m), NEW f
  PROVE  /\ Count(f, m) = IF f \in DOMAIN m.count THEN m.count[f] ELSE 0
         /\ Count(f, m) \in Nat
         /\ (Count(f, m) # 0) = (f \in DOMAIN m.count)
  BY DEF IsLedger, Count

(* bdd_addref adds one to the count of its node.                           *)
LEMMA AddRefCounts ==
  ASSUME NEW m, IsLedger(m), NEW f, ~ Pinned(f)
  PROVE  LET a == AddRef(f, m) IN
         /\ IsLedger(a) /\ Count(f, a) = Count(f, m) + 1
         /\ \A g : g # f => Count(g, a) = Count(g, m)
<1> DEFINE a == AddRef(f, m)
<1>1. PICK c : c = m.count
  OBVIOUS
<1>2. c = [g \in DOMAIN c |-> c[g]] /\ \A g \in DOMAIN c : c[g] \in Nat /\ c[g] # 0
  BY <1>1 DEF IsLedger
<1>3. a = [count |-> BagAdd(c, f), broken |-> m.broken]
  BY <1>1 DEF AddRef, IsLedger
<1>4. /\ DOMAIN BagAdd(c, f) = DOMAIN c \cup {f}
      /\ BagAdd(c, f)[f] = IF f \in DOMAIN c THEN c[f] + 1 ELSE 1
      /\ \A g \in DOMAIN c : g # f => BagAdd(c, f)[g] = c[g]
      /\ BagAdd(c, f) = [g \in DOMAIN BagAdd(c, f) |-> BagAdd(c, f)[g]]
  <2>1. CASE f \in DOMAIN c
    BY <2>1 DEF BagAdd
  <2>2. CASE f \notin DOMAIN c
    BY <2>2 DEF BagAdd
  <2> QED
    BY <2>1, <2>2
<1>5. PICK d : d = BagAdd(c, f)
  OBVIOUS
<1>6. IsLedger(a)
  BY <1>2, <1>3, <1>4, <1>5 DEF IsLedger
<1>7. a.count = d
  BY <1>3, <1>5
<1> HIDE DEF a
<1>8. /\ Count(f, a) = (IF f \in DOMAIN d THEN d[f] ELSE 0)
      /\ Count(f, m) = IF f \in DOMAIN c THEN c[f] ELSE 0
  BY <1>1, <1>6, <1>7, CountIs
<1>9. Count(f, a) = Count(f, m) + 1
  BY <1>2, <1>4, <1>5, <1>8
<1>10. ASSUME NEW g, g # f PROVE Count(g, a) = Count(g, m)
  <2>1. /\ Count(g, a) = (IF g \in DOMAIN d THEN d[g] ELSE 0)
        /\ Count(g, m) = IF g \in DOMAIN c THEN c[g] ELSE 0
    BY <1>1, <1>6, <1>7, CountIs
  <2> QED
    BY <1>4, <1>5, <1>10, <2>1
<1> QED
  BY <1>6, <1>9, <1>10 DEF a

(* bdd_delref takes one from the count of a node that has one.             *)
LEMMA DelRefCounts ==
  ASSUME NEW m, IsLedger(m), NEW f, ~ Pinned(f), Count(f, m) # 0
  PROVE  LET d == DelRef(f, m) IN
         /\ IsLedger(d) /\ Count(f, d) = Count(f, m) - 1
         /\ \A g : g # f => Count(g, d) = Count(g, m)
<1> DEFINE a == DelRef(f, m)
<1>1. PICK c : c = m.count
  OBVIOUS
<1>2. c = [g \in DOMAIN c |-> c[g]] /\ \A g \in DOMAIN c : c[g] \in Nat /\ c[g] # 0
  BY <1>1 DEF IsLedger
<1>0. f \in DOMAIN c
  BY <1>1, CountIs
<1>3. a = [count |-> BagRemove(c, f), broken |-> FALSE]
  <2>1. ~ m.broken /\ ~ (Count(f, m) = 0)
    BY DEF IsLedger
  <2>2. (m.broken \/ Count(f, m) = 0) = FALSE
    BY <2>1
  <2> QED
    BY <1>1, <2>2 DEF DelRef
<1>4. /\ DOMAIN BagRemove(c, f) = IF c[f] = 1 THEN DOMAIN c \ {f} ELSE DOMAIN c
      /\ c[f] # 1 => BagRemove(c, f)[f] = c[f] - 1
      /\ \A g \in DOMAIN c : g # f => BagRemove(c, f)[g] = c[g]
      /\ BagRemove(c, f) = [g \in DOMAIN BagRemove(c, f) |-> BagRemove(c, f)[g]]
  <2>1. CASE c[f] = 1
    BY <1>0, <2>1 DEF BagRemove
  <2>2. CASE c[f] # 1
    BY <1>0, <2>2 DEF BagRemove
  <2> QED
    BY <2>1, <2>2
<1>5. PICK d : d = BagRemove(c, f)
  OBVIOUS
<1>6. IsLedger(a)
  BY <1>0, <1>2, <1>3, <1>4, <1>5 DEF IsLedger
<1>7. a.count = d
  BY <1>3, <1>5
<1> HIDE DEF a
<1>8. /\ Count(f, a) = (IF f \in DOMAIN d THEN d[f] ELSE 0)
      /\ Count(f, m) = IF f \in DOMAIN c THEN c[f] ELSE 0
  BY <1>1, <1>6, <1>7, CountIs
<1>9. Count(f, a) = Count(f, m) - 1
  BY <1>0, <1>2, <1>4, <1>5, <1>8
<1>10. ASSUME NEW g, g # f PROVE Count(g, a) = Count(g, m)
  <2>1. /\ Count(g, a) = (IF g \in DOMAIN d THEN d[g] ELSE 0)
        /\ Count(g, m) = IF g \in DOMAIN c THEN c[g] ELSE 0
    BY <1>1, <1>6, <1>7, CountIs
  <2> QED
    BY <1>0, <1>4, <1>5, <1>10, <2>1
<1> QED
  BY <1>6, <1>9, <1>10 DEF a

(* Whether two nodes are the same one, as a number.                        *)
Is(f, g) == IF f = g THEN 1 ELSE 0

(* bdd_addref, for all nodes.                                              *)
LEMMA AddRefMoves ==
  ASSUME NEW m, IsLedger(m), NEW f
  PROVE  LET a == AddRef(f, m) IN
         IsLedger(a) /\ \A g : Pinned(g) \/ Count(g, a) = Count(g, m) + Is(f, g)
<1>1. CASE Pinned(f)
  <2>1. AddRef(f, m) = m
    BY <1>1 DEF AddRef
  <2>2. \A g : Pinned(g) \/ Count(g, m) = Count(g, m) + Is(f, g)
    <3> SUFFICES ASSUME NEW g, ~ Pinned(g) PROVE Count(g, m) = Count(g, m) + Is(f, g)
      OBVIOUS
    <3>1. Is(f, g) = 0
      BY <1>1 DEF Is
    <3> QED
      BY <3>1, CountIs
  <2> QED
    BY <2>1, <2>2
<1>2. CASE ~ Pinned(f)
  <2>1. PICK a : a = AddRef(f, m)
    OBVIOUS
  <2>2. /\ IsLedger(a) /\ Count(f, a) = Count(f, m) + 1
        /\ \A g : g # f => Count(g, a) = Count(g, m)
    BY <1>2, <2>1, AddRefCounts
  <2>3. ASSUME NEW g PROVE Count(g, a) = Count(g, m) + Is(f, g)
    <3>1. CASE g = f
      BY <2>2, <3>1 DEF Is
    <3>2. CASE g # f
      <4>1. Is(f, g) = 0 /\ Count(g, m) \in Nat
        BY <3>2, CountIs DEF Is
      <4> QED
        BY <2>2, <3>2, <4>1
    <3> QED
      BY <3>1, <3>2
  <2> QED
    BY <2>1, <2>2, <2>3
<1> QED
  BY <1>1, <1>2

(* bdd_delref of a node that has a reference, for all nodes.               *)
LEMMA DelRefMoves ==
  ASSUME NEW m, IsLedger(m), NEW f, Pinned(f) \/ Count(f, m) # 0
  PROVE  LET a == DelRef(f, m) IN
         IsLedger(a) /\ \A g : Pinned(g) \/ Count(g, a) = Count(g, m) - Is(f, g)
<1>1. CASE Pinned(f)
  <2>1. DelRef(f, m) = m
    BY <1>1 DEF DelRef
  <2>2. \A g : Pinned(g) \/ Count(g, m) = Count(g, m) - Is(f, g)
    <3> SUFFICES ASSUME NEW g, ~ Pinned(g) PROVE Count(g, m) = Count(g, m) - Is(f, g)
      OBVIOUS
    <3>1. Is(f, g) = 0
      BY <1>1 DEF Is
    <3> QED
      BY <3>1, CountIs
  <2> QED
    BY <2>1, <2>2
<1>2. CASE ~ Pinned(f)
  <2>1. PICK a : a = DelRef(f, m)
    OBVIOUS
  <2>2. /\ IsLedger(a) /\ Count(f, a) = Count(f, m) - 1
        /\ \A g : g # f => Count(g, a) = Count(g, m)
    BY <1>2, <2>1, DelRefCounts
  <2>3. ASSUME NEW g PROVE Count(g, a) = Count(g, m) - Is(f, g)
    <3>1. CASE g = f
      BY <2>2, <3>1 DEF Is
    <3>2. CASE g # f
      <4>1. Is(f, g) = 0 /\ Count(g, m) \in Nat
        BY <3>2, CountIs DEF Is
      <4> QED
        BY <2>2, <3>2, <4>1
    <3> QED
      BY <3>1, <3>2
  <2> QED
    BY <2>1, <2>2, <2>3
<1> QED
  BY <1>1, <1>2

-----------------------------------------------------------------------------
(* How often a node is in a vector.                                        *)

Occ(v, g) == Cardinality({i \in DOMAIN v : v[i] = g})

OccUpTo(v, g, k) == Cardinality({i \in 1..k : v[i] = g})

(* Among the first places it is once more if it is at the next.            *)
LEMMA OccTurns ==
  ASSUME NEW v, NEW g
  PROVE  /\ OccUpTo(v, g, 0) = 0
         /\ \A k \in Nat : OccUpTo(v, g, k) \in Nat /\ IsFiniteSet({i \in 1..k : v[i] = g})
         /\ \A k \in Nat : k # 0 => OccUpTo(v, g, k) = OccUpTo(v, g, k - 1) + Is(v[k], g)
<1> DEFINE S(k) == {i \in 1..k : v[i] = g}
<1>1. \A k \in Nat : IsFiniteSet(S(k))
  <2> SUFFICES ASSUME NEW k \in Nat PROVE IsFiniteSet(S(k))
    OBVIOUS
  <2>1. IsFiniteSet(1..k)
    BY FS_Interval
  <2> QED
    BY <2>1, FS_Subset
<1>2. \A k \in Nat : Cardinality(S(k)) \in Nat
  <2> HIDE DEF S
  <2> QED
    BY <1>1, FS_CardinalityType
<1>3. S(0) = {}
  OBVIOUS
<1>4. Cardinality(S(0)) = 0
  <2> HIDE DEF S
  <2> QED
    BY <1>3, FS_EmptySet
<1>5. ASSUME NEW k \in Nat, k # 0 PROVE Cardinality(S(k)) = Cardinality(S(k - 1)) + Is(v[k], g)
  <2>1. k - 1 \in Nat /\ 1..k = (1..(k - 1)) \cup {k} /\ k \notin 1..(k - 1)
    BY <1>5
  <2>2. CASE v[k] = g
    <3>1. S(k) = S(k - 1) \cup {k} /\ k \notin S(k - 1)
      BY <2>1, <2>2
    <3>2. Cardinality(S(k)) = Cardinality(S(k - 1)) + 1
      <4> HIDE DEF S
      <4> QED
        BY <1>1, <2>1, <3>1, FS_AddElement
    <3> QED
      BY <2>2, <3>2 DEF Is
  <2>3. CASE v[k] # g
    <3>1. S(k) = S(k - 1)
      BY <2>1, <2>3
    <3>2. Is(v[k], g) = 0 /\ Cardinality(S(k - 1)) \in Nat
      BY <1>2, <2>1, <2>3 DEF Is
    <3> HIDE DEF S
    <3> QED
      BY <3>1, <3>2
  <2> QED
    BY <2>2, <2>3
<1> QED
  BY <1>1, <1>2, <1>4, <1>5 DEF OccUpTo

(* One turn.                                                               *)
LEMMA OccTurn ==
  ASSUME NEW v, NEW g, NEW h \in Nat, NEW k \in Nat, k = h + 1
  PROVE  /\ OccUpTo(v, g, h) \in Nat /\ OccUpTo(v, g, k) \in Nat
         /\ OccUpTo(v, g, k) = OccUpTo(v, g, h) + Is(v[k], g)
<1>1. k # 0 /\ k - 1 = h
  OBVIOUS
<1>2. OccUpTo(v, g, k) = OccUpTo(v, g, k - 1) + Is(v[k], g) /\ OccUpTo(v, g, k) \in Nat /\ OccUpTo(v, g, h) \in Nat
  BY <1>1, OccTurns
<1> QED
  BY <1>1, <1>2

(* The places are finitely many.                                           *)
LEMMA OccFinite ==
  ASSUME NEW v, NEW g, NEW k \in Nat
  PROVE  IsFiniteSet({i \in 1..k : v[i] = g}) /\ OccUpTo(v, g, k) \in Nat
  BY OccTurns

(* Among all places.                                                       *)
LEMMA OccAll ==
  ASSUME NEW v, NEW n \in Nat, DOMAIN v = 1..n, NEW g
  PROVE  /\ Occ(v, g) = OccUpTo(v, g, n) /\ Occ(v, g) \in Nat
         /\ IsFiniteSet({i \in DOMAIN v : v[i] = g})
<1> DEFINE S == {i \in DOMAIN v : v[i] = g}
           T == {i \in 1..n : v[i] = g}
<1>1. S = T
  OBVIOUS
<1>2. OccUpTo(v, g, n) \in Nat /\ IsFiniteSet(T)
  BY OccFinite
<1>5. OccUpTo(v, g, n) = Cardinality(T)
  BY DEF OccUpTo
<1>3. Occ(v, g) = Cardinality(S)
  BY DEF Occ
<1> HIDE DEF S, T
<1>4. Occ(v, g) = OccUpTo(v, g, n) /\ Occ(v, g) \in Nat /\ IsFiniteSet(S)
  BY <1>1, <1>2, <1>3, <1>5
<1> QED
  BY <1>4 DEF S

(* Fewer places, no more of it.                                            *)
LEMMA OccLess ==
  ASSUME NEW v, NEW n \in Nat, NEW k \in 0..n, NEW g
  PROVE  OccUpTo(v, g, k) <= OccUpTo(v, g, n)
<1> DEFINE S == {i \in 1..k : v[i] = g}
           T == {i \in 1..n : v[i] = g}
<1>1. S \subseteq T
  OBVIOUS
<1>2. IsFiniteSet(T)
  BY OccFinite
<1>3. Cardinality(S) <= Cardinality(T)
  <2> HIDE DEF S, T
  <2> QED
    BY <1>1, <1>2, FS_Subset
<1> QED
  BY <1>3 DEF OccUpTo

-----------------------------------------------------------------------------
(* The loops of bvec_addref and bvec_delref.                               *)

(* What a loop makes of the ledger.                                        *)
LEMMA AddRefsFold == ASSUME NEW v, NEW m PROVE AddRefs(v, m) = Folding("take", v, v, m)
  BY DEF AddRefs, Folding, Turn, FoldLeft, MapThenFoldSet

LEMMA DelRefsFold == ASSUME NEW v, NEW m PROVE DelRefs(v, m) = Folding("give", v, v, m)
  BY DEF DelRefs, Folding, Turn, FoldLeft, MapThenFoldSet

(* The turns of them.                                                      *)
LEMMA RefTurns ==
  ASSUME NEW a, NEW b, NEW k, NEW x
  PROVE  /\ Turn("take", a, b, k, x) = AddRef(a[k], x)
         /\ Turn("give", a, b, k, x) = DelRef(a[k], x)
         /\ Turn("start", a, b, k, x) = AddRefs(a[k], x)
         /\ Turn("mul", a, b, k, x) = MulTurn(x, a[k])
  BY DEF Turn

(* A reference more for each place in the vector.                          *)
LEMMA AddRefsCount ==
  ASSUME NEW m, IsLedger(m), NEW v, NEW n \in Nat, DOMAIN v = 1..n
  PROVE  IsLedger(AddRefs(v, m)) /\ \A g : Pinned(g) \/ Count(g, AddRefs(v, m)) = Count(g, m) + Occ(v, g)
<1>1. PICK t : InTurn("take", v, v, m, t, n) /\ AddRefs(v, m) = t[n]
  BY AddRefsFold, Unrolled
<1>2. t[0] = m /\ \A k \in 1..n : t[k] = AddRef(v[k], t[k - 1])
  BY <1>1, RefTurns DEF InTurn
<1> DEFINE Good(k) == IsLedger(t[k]) /\ \A g : Pinned(g) \/ Count(g, t[k]) = Count(g, m) + OccUpTo(v, g, k)
           P == {k \in 0..n : Good(k)}
<1>3. 0 \in P
  <2>1. \A g : Count(g, m) = Count(g, m) + OccUpTo(v, g, 0)
    <3> SUFFICES ASSUME NEW g PROVE Count(g, m) = Count(g, m) + OccUpTo(v, g, 0)
      OBVIOUS
    <3>1. Count(g, m) \in Nat /\ OccUpTo(v, g, 0) = 0
      BY CountIs, OccTurns
    <3> QED
      BY <3>1
  <2>2. 0 \in 0..n
    OBVIOUS
  <2> QED
    BY <1>2, <2>1, <2>2
<1>4. ASSUME NEW h \in 0..(n - 1), h \in P PROVE h + 1 \in P
  <2>1. PICK k \in Nat : k = h + 1 /\ h \in Nat /\ k \in 1..n /\ k \in 0..n /\ k - 1 = h /\ k # 0
    OBVIOUS
  <2>2. t[k] = AddRef(v[k], t[h]) /\ Good(h)
    BY <1>2, <1>4, <2>1
  <2>3. PICK x : x = t[h]
    OBVIOUS
  <2>4. PICK y : y = AddRef(v[k], x)
    OBVIOUS
  <2>5. IsLedger(y) /\ \A g : Pinned(g) \/ Count(g, y) = Count(g, x) + Is(v[k], g)
    BY <2>2, <2>3, <2>4, AddRefMoves
  <2>6. ASSUME NEW g, ~ Pinned(g) PROVE Count(g, y) = Count(g, m) + OccUpTo(v, g, k)
    <3>1. Count(g, y) = Count(g, x) + Is(v[k], g) /\ Count(g, x) = Count(g, m) + OccUpTo(v, g, h)
      BY <2>2, <2>3, <2>5, <2>6
    <3>2. OccUpTo(v, g, k) = OccUpTo(v, g, h) + Is(v[k], g) /\ OccUpTo(v, g, h) \in Nat
      BY <2>1, OccTurn
    <3>3. Count(g, m) \in Nat /\ Is(v[k], g) \in Nat
      BY CountIs DEF Is
    <3> QED
      BY <3>1, <3>2, <3>3
  <2>7. Good(k)
    BY <2>2, <2>3, <2>4, <2>5, <2>6
  <2> QED
    BY <2>1, <2>7
<1>5. n \in P
  <2>1. P \in SUBSET (0..n)
    OBVIOUS
  <2>2. P = 0..n
    <3> HIDE DEF P
    <3> QED
      BY <1>3, <1>4, <2>1, UpTo
  <2>3. n \in 0..n
    OBVIOUS
  <2> HIDE DEF P
  <2> QED
    BY <2>2, <2>3
<1>6. \A g : OccUpTo(v, g, n) = Occ(v, g)
  BY OccAll
<1> QED
  BY <1>1, <1>5, <1>6

(* A reference less for each place in the vector, if there are as many.    *)
LEMMA DelRefsCount ==
  ASSUME NEW m, IsLedger(m), NEW v, NEW n \in Nat, DOMAIN v = 1..n,
         \A g : Pinned(g) \/ Occ(v, g) <= Count(g, m)
  PROVE  IsLedger(DelRefs(v, m)) /\ \A g : Pinned(g) \/ Count(g, DelRefs(v, m)) = Count(g, m) - Occ(v, g)
<1>1. PICK t : InTurn("give", v, v, m, t, n) /\ DelRefs(v, m) = t[n]
  BY DelRefsFold, Unrolled
<1>2. t[0] = m /\ \A k \in 1..n : t[k] = DelRef(v[k], t[k - 1])
  BY <1>1, RefTurns DEF InTurn
<1> DEFINE Good(k) == IsLedger(t[k]) /\ \A g : Pinned(g) \/ Count(g, t[k]) = Count(g, m) - OccUpTo(v, g, k)
           P == {k \in 0..n : Good(k)}
<1>3. 0 \in P
  <2>1. \A g : Count(g, m) = Count(g, m) - OccUpTo(v, g, 0)
    <3> SUFFICES ASSUME NEW g PROVE Count(g, m) = Count(g, m) - OccUpTo(v, g, 0)
      OBVIOUS
    <3>1. Count(g, m) \in Nat /\ OccUpTo(v, g, 0) = 0
      BY CountIs, OccTurns
    <3> QED
      BY <3>1
  <2>2. 0 \in 0..n
    OBVIOUS
  <2> QED
    BY <1>2, <2>1, <2>2
<1>4. ASSUME NEW h \in 0..(n - 1), h \in P PROVE h + 1 \in P
  <2>1. PICK k \in Nat : k = h + 1 /\ h \in Nat /\ k \in 1..n /\ k \in 0..n /\ k - 1 = h /\ k # 0
    OBVIOUS
  <2>2. t[k] = DelRef(v[k], t[h]) /\ Good(h)
    BY <1>2, <1>4, <2>1
  <2>3. PICK x : x = t[h]
    OBVIOUS
  <2>4. PICK y : y = DelRef(v[k], x)
    OBVIOUS
  <2>8. Pinned(v[k]) \/ Count(v[k], x) # 0
    <3> SUFFICES ASSUME ~ Pinned(v[k]) PROVE Count(v[k], x) # 0
      OBVIOUS
    <3>1. PICK f : f = v[k]
      OBVIOUS
    <3>2. Count(f, x) = Count(f, m) - OccUpTo(v, f, h) /\ Occ(v, f) <= Count(f, m)
      BY <2>2, <2>3, <3>1
    <3>3. OccUpTo(v, f, k) = OccUpTo(v, f, h) + 1 /\ OccUpTo(v, f, h) \in Nat /\ OccUpTo(v, f, k) \in Nat
      <4>1. OccUpTo(v, f, k) = OccUpTo(v, f, h) + Is(v[k], f) /\ OccUpTo(v, f, h) \in Nat
        BY <2>1, OccTurn
      <4> QED
        BY <3>1, <4>1 DEF Is
    <3>4. OccUpTo(v, f, k) <= OccUpTo(v, f, n) /\ OccUpTo(v, f, n) = Occ(v, f) /\ Occ(v, f) \in Nat
      BY <2>1, OccLess, OccAll
    <3>5. Count(f, m) \in Nat
      BY CountIs
    <3>6. Count(f, x) # 0
      BY <3>2, <3>3, <3>4, <3>5
    <3> QED
      BY <3>1, <3>6
  <2>5. IsLedger(y) /\ \A g : Pinned(g) \/ Count(g, y) = Count(g, x) - Is(v[k], g)
    BY <2>2, <2>3, <2>4, <2>8, DelRefMoves
  <2>6. ASSUME NEW g, ~ Pinned(g) PROVE Count(g, y) = Count(g, m) - OccUpTo(v, g, k)
    <3>1. Count(g, y) = Count(g, x) - Is(v[k], g) /\ Count(g, x) = Count(g, m) - OccUpTo(v, g, h)
      BY <2>2, <2>3, <2>5, <2>6
    <3>2. OccUpTo(v, g, k) = OccUpTo(v, g, h) + Is(v[k], g) /\ OccUpTo(v, g, h) \in Nat
      BY <2>1, OccTurn
    <3>3. Count(g, m) \in Nat /\ Is(v[k], g) \in Nat
      BY CountIs DEF Is
    <3> QED
      BY <3>1, <3>2, <3>3
  <2>7. Good(k)
    BY <2>2, <2>3, <2>4, <2>5, <2>6
  <2> QED
    BY <2>1, <2>7
<1>5. n \in P
  <2>1. P \in SUBSET (0..n)
    OBVIOUS
  <2>2. P = 0..n
    <3> HIDE DEF P
    <3> QED
      BY <1>3, <1>4, <2>1, UpTo
  <2>3. n \in 0..n
    OBVIOUS
  <2> HIDE DEF P
  <2> QED
    BY <2>2, <2>3
<1>6. \A g : OccUpTo(v, g, n) = Occ(v, g)
  BY OccAll
<1> QED
  BY <1>1, <1>5, <1>6

-----------------------------------------------------------------------------
(* Vectors.                                                                *)

Diagrams == SUBSET Assignments
Vecs     == Seq(Diagrams)

(* The places of a vector.                                                 *)
LEMMA VecType ==
  ASSUME NEW v \in Vecs
  PROVE  Len(v) \in Nat /\ DOMAIN v = 1..Len(v) /\ \A i \in 1..Len(v) : v[i] \in Diagrams
  BY DEF Vecs

LEMMA VecOf ==
  ASSUME NEW v, NEW n \in Nat, v = [i \in 1..n |-> v[i]], \A i \in 1..n : v[i] \in Diagrams
  PROVE  v \in Vecs /\ Len(v) = n
<1>1. v \in [1..n -> Diagrams]
  OBVIOUS
<1>2. v \in Seq(Diagrams)
  BY <1>1
<1>3. DOMAIN v = 1..n /\ DOMAIN v = 1..Len(v) /\ Len(v) \in Nat
  BY <1>1, <1>2
<1> QED
  BY <1>2, <1>3 DEF Vecs

(* How often a node is in a vector is a number.                            *)
LEMMA OccType == ASSUME NEW v \in Vecs, NEW g PROVE Occ(v, g) \in Nat
<1>1. Len(v) \in Nat /\ DOMAIN v = 1..Len(v)
  BY VecType
<1> QED
  BY <1>1, OccAll

(* It depends on the elements only.                                        *)
LEMMA OccSame ==
  ASSUME NEW v, NEW w, NEW n \in Nat, \A i \in 1..n : v[i] = w[i], NEW g
  PROVE  OccUpTo(v, g, n) = OccUpTo(w, g, n)
<1>1. {i \in 1..n : v[i] = g} = {i \in 1..n : w[i] = g}
  OBVIOUS
<1> QED
  BY <1>1 DEF OccUpTo

(* A vector of constants has no other node.                                *)
LEMMA OccNone ==
  ASSUME NEW v, NEW n \in Nat, DOMAIN v = 1..n, NEW g, \A i \in 1..n : v[i] # g
  PROVE  Occ(v, g) = 0
<1> DEFINE S == {i \in DOMAIN v : v[i] = g}
<1>1. S = {}
  OBVIOUS
<1>2. Cardinality(S) = 0
  <2> HIDE DEF S
  <2> QED
    BY <1>1, FS_EmptySet
<1> QED
  BY <1>2 DEF Occ

(* One more element.                                                       *)
LEMMA OccAppend ==
  ASSUME NEW v \in Vecs, NEW e \in Diagrams, NEW g
  PROVE  /\ Append(v, e) \in Vecs /\ Len(Append(v, e)) = Len(v) + 1
         /\ Occ(Append(v, e), g) = Occ(v, g) + Is(e, g)
<1>1. PICK w : w = Append(v, e)
  OBVIOUS
<1>2. PICK n \in Nat : n = Len(v) /\ DOMAIN v = 1..n
  BY VecType
<1>3. PICK k \in Nat : k = n + 1
  OBVIOUS
<1>4. w \in Vecs /\ Len(w) = k
  BY <1>1, <1>2, <1>3 DEF Vecs
<1>5. DOMAIN w = 1..k /\ w[k] = e /\ \A i \in 1..n : w[i] = v[i]
  BY <1>1, <1>2, <1>3 DEF Vecs
<1>6. OccUpTo(w, g, k) = OccUpTo(w, g, n) + Is(w[k], g)
  BY <1>3, OccTurn
<1>7. OccUpTo(w, g, n) = OccUpTo(v, g, n)
  BY <1>5, OccSame
<1>8. Occ(w, g) = OccUpTo(w, g, k) /\ Occ(v, g) = OccUpTo(v, g, n)
  BY <1>2, <1>5, OccAll
<1>9. Occ(w, g) = Occ(v, g) + Is(e, g)
  BY <1>5, <1>6, <1>7, <1>8
<1> QED
  BY <1>1, <1>2, <1>3, <1>4, <1>9

(* A shift by one drops the last element and puts another before the       *)
(* first.                                                                  *)
LEMMA OccLeft ==
  ASSUME NEW v \in Vecs, Len(v) # 0, NEW c \in Diagrams, NEW g
  PROVE  /\ Left(v, 1, c) \in Vecs /\ Len(Left(v, 1, c)) = Len(v)
         /\ Occ(Left(v, 1, c), g) + Is(v[Len(v)], g) = Occ(v, g) + Is(c, g)
<1>1. PICK w : w = Left(v, 1, c)
  OBVIOUS
<1>2. PICK n \in Nat : n = Len(v) /\ DOMAIN v = 1..n /\ \A i \in 1..n : v[i] \in Diagrams
  BY VecType
<1>3. w = [i \in 1..n |-> w[i]] /\ DOMAIN w = 1..n /\ w[1] = c /\ \A i \in 2..n : w[i] = v[i - 1]
  BY <1>1, <1>2 DEF Left
<1>4. \A i \in 1..n : w[i] \in Diagrams
  <2>1. \A i \in 1..n : i = 1 \/ (i \in 2..n /\ i - 1 \in 1..n)
    OBVIOUS
  <2> QED
    BY <1>2, <1>3, <2>1
<1>5. w \in Vecs /\ Len(w) = n
  BY <1>3, <1>4, VecOf
<1>6. PICK last1 \in 0..n : last1 + 1 = n /\ last1 \in Nat
  <2>1. n - 1 \in 0..n /\ (n - 1) + 1 = n /\ n - 1 \in Nat
    BY <1>2
  <2> QED
    BY <2>1
<1> DEFINE P == {k \in 0..last1 : OccUpTo(w, g, k + 1) = OccUpTo(v, g, k) + Is(c, g)}
<1>7. 0 \in P
  <2>1. OccUpTo(w, g, 1) = OccUpTo(w, g, 0) + Is(w[1], g)
    BY OccTurn
  <2>2. OccUpTo(w, g, 0) = 0 /\ OccUpTo(v, g, 0) = 0
    BY OccTurns
  <2>3. OccUpTo(w, g, 0 + 1) = OccUpTo(v, g, 0) + Is(c, g)
    BY <1>3, <2>1, <2>2
  <2>4. 0 \in 0..last1
    BY <1>6
  <2> QED
    BY <2>3, <2>4
<1>8. ASSUME NEW k \in 0..(last1 - 1), k \in P PROVE k + 1 \in P
  <2>1. PICK i \in Nat : i = k + 1 /\ i \in 0..last1 /\ k \in Nat
    BY <1>6
  <2>2. PICK j \in Nat : j = i + 1 /\ j \in 2..n /\ j - 1 = i
    BY <1>6, <2>1
  <2>3. OccUpTo(w, g, i) = OccUpTo(v, g, k) + Is(c, g)
    BY <1>8, <2>1
  <2>4. OccUpTo(w, g, j) = OccUpTo(w, g, i) + Is(w[j], g)
    BY <2>2, OccTurn
  <2>5. OccUpTo(v, g, i) = OccUpTo(v, g, k) + Is(v[i], g) /\ OccUpTo(v, g, k) \in Nat
    BY <2>1, OccTurn
  <2>6. w[j] = v[i]
    BY <1>3, <2>2
  <2>7. Is(c, g) \in Nat /\ Is(v[i], g) \in Nat
    BY DEF Is
  <2>8. OccUpTo(w, g, j) = OccUpTo(v, g, i) + Is(c, g)
    BY <2>3, <2>4, <2>5, <2>6, <2>7
  <2> QED
    BY <2>1, <2>2, <2>8
<1>9. last1 \in P
  <2>1. P \in SUBSET (0..last1)
    OBVIOUS
  <2>2. P = 0..last1
    <3> HIDE DEF P
    <3> QED
      BY <1>6, <1>7, <1>8, <2>1, UpTo
  <2>3. last1 \in 0..last1
    BY <1>6
  <2> HIDE DEF P
  <2> QED
    BY <2>2, <2>3
<1>10. OccUpTo(w, g, n) = OccUpTo(v, g, last1) + Is(c, g)
  BY <1>6, <1>9
<1>11. OccUpTo(v, g, n) = OccUpTo(v, g, last1) + Is(v[n], g) /\ OccUpTo(v, g, last1) \in Nat
  BY <1>6, OccTurn
<1>12. Occ(w, g) = OccUpTo(w, g, n) /\ Occ(v, g) = OccUpTo(v, g, n)
  BY <1>2, <1>3, OccAll
<1>13. Is(c, g) \in Nat /\ Is(v[n], g) \in Nat
  BY DEF Is
<1>14. Occ(w, g) + Is(v[n], g) = Occ(v, g) + Is(c, g)
  BY <1>10, <1>11, <1>12, <1>13
<1> QED
  BY <1>1, <1>2, <1>5, <1>14

-----------------------------------------------------------------------------
(* Operations that return a vector with a reference for each of its places *)
(* and leave all other counts as they were.                                *)

Balanced(a, m) ==
  /\ a.vec \in Vecs /\ IsLedger(a.m)
  /\ \A g : Pinned(g) \/ Count(g, a.m) = Count(g, m) + Occ(a.vec, g)

(* A vector that is referenced at the end.                                 *)
LEMMA ReferencedBalanced ==
  ASSUME NEW m, IsLedger(m), NEW v \in Vecs
  PROVE  Balanced(Referenced(v, m), m) /\ Referenced(v, m).vec = v
<1>1. Len(v) \in Nat /\ DOMAIN v = 1..Len(v)
  BY VecType
<1>2. PICK a : a = AddRefs(v, m)
  OBVIOUS
<1>3. IsLedger(a) /\ \A g : Pinned(g) \/ Count(g, a) = Count(g, m) + Occ(v, g)
  BY <1>1, <1>2, AddRefsCount
<1>4. Referenced(v, m) = [vec |-> v, m |-> a]
  BY <1>2 DEF Referenced
<1> QED
  BY <1>3, <1>4 DEF Balanced

(* The empty vector, and the constants.                                    *)
LEMMA ZerosAre ==
  ASSUME NEW n \in Nat
  PROVE  Zeros(n) \in Vecs /\ Len(Zeros(n)) = n /\ \A g : Pinned(g) \/ Occ(Zeros(n), g) = 0
<1>1. Zero \in Diagrams /\ Pinned(Zero)
  BY DEF Diagrams, Zero, Pinned, IsConst
<1>2. PICK v : v = Zeros(n)
  OBVIOUS
<1>3. v = [i \in 1..n |-> v[i]] /\ DOMAIN v = 1..n /\ \A i \in 1..n : v[i] = Zero
  BY <1>2 DEF Zeros
<1>4. v \in Vecs /\ Len(v) = n
  BY <1>1, <1>3, VecOf
<1>5. ASSUME NEW g, ~ Pinned(g) PROVE Occ(v, g) = 0
  <2>1. \A i \in 1..n : v[i] # g
    BY <1>1, <1>3, <1>5
  <2> QED
    BY <1>3, <2>1, OccNone
<1> QED
  BY <1>2, <1>4, <1>5

LEMMA EmptyIs == << >> \in Vecs /\ \A g : Occ(<< >>, g) = 0
<1>1. << >> \in Vecs
  BY DEF Vecs
<1>2. DOMAIN << >> = 1..0
  OBVIOUS
<1>3. \A g : Occ(<< >>, g) = OccUpTo(<< >>, g, 0)
  BY <1>2, OccAll
<1>4. \A g : OccUpTo(<< >>, g, 0) = 0
  BY OccTurns
<1> QED
  BY <1>1, <1>3, <1>4

LEMMA DefaultBalanced == ASSUME NEW m, IsLedger(m) PROVE Balanced(Default(m), m)
<1>1. Default(m).vec = << >> /\ Default(m).m = m
  BY DEF Default
<1>2. \A g : Count(g, m) = Count(g, m) + Occ(<< >>, g)
  BY EmptyIs, CountIs
<1> QED
  BY <1>1, <1>2, EmptyIs DEF Balanced

(* What the functions of diagrams return.                                  *)
LEMMA DiagramOps ==
  ASSUME NEW f \in Diagrams, NEW g \in Diagrams, NEW h \in Diagrams
  PROVE  /\ Zero \in Diagrams /\ One \in Diagrams /\ Not(f) \in Diagrams
         /\ And(f, g) \in Diagrams /\ Or(f, g) \in Diagrams /\ Xor(f, g) \in Diagrams
         /\ Ite(f, g, h) \in Diagrams
  BY DEF Diagrams, Zero, One, Not, And, Or, Xor, Ite

(* bvec_copy and bvec_coerce.                                              *)
LEMMA CopyBalanced ==
  ASSUME NEW m, IsLedger(m), NEW v \in Vecs
  PROVE  Balanced(Copy(v, m), m) /\ Copy(v, m).vec = v
  BY ReferencedBalanced DEF Copy

LEMMA CoerceBalanced ==
  ASSUME NEW m, IsLedger(m), NEW v \in Vecs, NEW n \in Nat
  PROVE  Balanced(Coerce(n, v, m), m) /\ Len(Coerce(n, v, m).vec) = n
<1>1. Len(v) \in Nat /\ \A i \in 1..Len(v) : v[i] \in Diagrams
  BY VecType
<1>2. PICK w : w = Coerced(n, v)
  OBVIOUS
<1>3. /\ w = [i \in 1..n |-> w[i]]
      /\ \A i \in 1..n : w[i] = IF i <= Len(v) THEN v[i] ELSE Zero
  BY <1>2 DEF Coerced
<1>4. Zero \in Diagrams
  BY DEF Diagrams, Zero
<1>5. \A i \in 1..n : w[i] \in Diagrams
  <2> SUFFICES ASSUME NEW i \in 1..n PROVE w[i] \in Diagrams
    OBVIOUS
  <2>1. CASE i <= Len(v)
    BY <1>1, <1>3, <2>1
  <2>2. CASE ~ (i <= Len(v))
    BY <1>3, <1>4, <2>2
  <2> QED
    BY <2>1, <2>2
<1>6. w \in Vecs /\ Len(w) = n
  BY <1>3, <1>5, VecOf
<1> QED
  BY <1>2, <1>6, ReferencedBalanced DEF Coerce

(* bvec_shlfixed and bvec_shrfixed.                                        *)
LEMMA ShiftsBalanced ==
  ASSUME NEW m, IsLedger(m), NEW v \in Vecs, NEW pos \in Nat, NEW c \in Diagrams
  PROVE  Balanced(ShlFixed(v, pos, c, m), m) /\ Balanced(ShrFixed(v, pos, c, m), m)
<1>1. PICK n \in Nat : n = Len(v) /\ DOMAIN v = 1..n /\ \A i \in 1..n : v[i] \in Diagrams
  BY VecType
<1>2. PICK l : l = Left(v, pos, c)
  OBVIOUS
<1>3. PICK r : r = Right(v, pos, c)
  OBVIOUS
<1>4. l \in Vecs
  <2>1. l = [i \in 1..n |-> l[i]] /\ \A i \in 1..n : l[i] = IF i <= pos THEN c ELSE v[i - pos]
    BY <1>1, <1>2 DEF Left
  <2>2. \A i \in 1..n : i <= pos \/ i - pos \in 1..n
    OBVIOUS
  <2>3. \A i \in 1..n : l[i] \in Diagrams
    BY <1>1, <2>1, <2>2
  <2> QED
    BY <2>1, <2>3, VecOf
<1>5. r \in Vecs
  <2>1. r = [i \in 1..n |-> r[i]] /\ \A i \in 1..n : r[i] = IF i + pos <= n THEN v[i + pos] ELSE c
    BY <1>1, <1>3 DEF Right
  <2>2. \A i \in 1..n : i + pos <= n => i + pos \in 1..n
    OBVIOUS
  <2>3. \A i \in 1..n : r[i] \in Diagrams
    BY <1>1, <2>1, <2>2
  <2> QED
    BY <2>1, <2>3, VecOf
<1>6. Balanced(Referenced(l, m), m) /\ Balanced(Referenced(r, m), m)
  BY <1>4, <1>5, ReferencedBalanced
<1> QED
  BY <1>2, <1>3, <1>6 DEF ShlFixed, ShrFixed

(* bvec_ite, and bvec_map1 to bvec_map3.                                   *)
LEMMA IteBalanced ==
  ASSUME NEW m, IsLedger(m), NEW l \in Vecs, NEW r \in Vecs, NEW c \in Diagrams
  PROVE  Balanced(VecIte(c, l, r, m), m)
<1>1. CASE Len(l) # Len(r)
  <2>1. VecIte(c, l, r, m) = Default(m)
    BY <1>1 DEF VecIte
  <2> QED
    BY <2>1, DefaultBalanced
<1>2. CASE Len(l) = Len(r)
  <2>1. PICK n \in Nat : /\ n = Len(l) /\ DOMAIN l = 1..n /\ DOMAIN r = 1..n
                         /\ \A i \in 1..n : l[i] \in Diagrams /\ r[i] \in Diagrams
    BY <1>2, VecType
  <2>2. PICK v : v = [i \in DOMAIN l |-> Ite(c, l[i], r[i])]
    OBVIOUS
  <2>3. \A i \in 1..n : Ite(c, l[i], r[i]) \in Diagrams
    BY <2>1, DiagramOps
  <2>4. v = [i \in 1..n |-> v[i]] /\ \A i \in 1..n : v[i] \in Diagrams
    BY <2>1, <2>2, <2>3
  <2>5. v \in Vecs
    BY <2>4, VecOf
  <2>6. VecIte(c, l, r, m) = Referenced(v, m)
    BY <1>2, <2>2 DEF VecIte
  <2> QED
    BY <2>5, <2>6, ReferencedBalanced
<1> QED
  BY <1>1, <1>2

LEMMA NotBalanced ==
  ASSUME NEW m, IsLedger(m), NEW l \in Vecs
  PROVE  Balanced(Map1Not(l, m), m)
<1>1. PICK n \in Nat : n = Len(l) /\ DOMAIN l = 1..n /\ \A i \in 1..n : l[i] \in Diagrams
  BY VecType
<1>2. PICK v : v = [i \in DOMAIN l |-> Not(l[i])]
  OBVIOUS
<1>3. \A i \in 1..n : Not(l[i]) \in Diagrams
  BY <1>1, DiagramOps
<1>4. v = [i \in 1..n |-> v[i]] /\ \A i \in 1..n : v[i] \in Diagrams
  BY <1>1, <1>2, <1>3
<1>5. v \in Vecs
  BY <1>4, VecOf
<1>6. Map1Not(l, m) = Referenced(v, m)
  <2>1. ToSet(<<l>>) = {l}
    BY DEF ToSet
  <2> QED
    BY <1>2, <2>1 DEF Map1Not, Mapped
<1> QED
  BY <1>5, <1>6, ReferencedBalanced

LEMMA XorBalanced ==
  ASSUME NEW m, IsLedger(m), NEW l \in Vecs, NEW r \in Vecs
  PROVE  Balanced(Map2Xor(l, r, m), m)
<1>0. ToSet(<<l, r>>) = {l, r}
  BY DEF ToSet
<1>1. CASE Len(l) # Len(r)
  <2>1. Map2Xor(l, r, m) = Default(m)
    BY <1>0, <1>1 DEF Map2Xor, Mapped
  <2> QED
    BY <2>1, DefaultBalanced
<1>2. CASE Len(l) = Len(r)
  <2>1. PICK n \in Nat : /\ n = Len(l) /\ DOMAIN l = 1..n /\ DOMAIN r = 1..n
                         /\ \A i \in 1..n : l[i] \in Diagrams /\ r[i] \in Diagrams
    BY <1>2, VecType
  <2>2. PICK v : v = [i \in DOMAIN l |-> Xor(l[i], r[i])]
    OBVIOUS
  <2>3. \A i \in 1..n : Xor(l[i], r[i]) \in Diagrams
    BY <2>1, DiagramOps
  <2>4. v = [i \in 1..n |-> v[i]] /\ \A i \in 1..n : v[i] \in Diagrams
    BY <2>1, <2>2, <2>3
  <2>5. v \in Vecs
    BY <2>4, VecOf
  <2>6. Map2Xor(l, r, m) = Referenced(v, m)
    <3>1. <<l, r>>[1] = l /\ \A i : /\ [k \in DOMAIN <<l, r>> |-> <<l, r>>[k][i]][1] = l[i]
                                  /\ [k \in DOMAIN <<l, r>> |-> <<l, r>>[k][i]][2] = r[i]
      OBVIOUS
    <3>2. ~ \E x, y \in ToSet(<<l, r>>) : Len(x) # Len(y)
      BY <1>0, <1>2
    <3> QED
      BY <2>2, <3>1, <3>2 DEF Map2Xor, Mapped
  <2> QED
    BY <2>5, <2>6, ReferencedBalanced
<1> QED
  BY <1>1, <1>2

LEMMA MapIteBalanced ==
  ASSUME NEW m, IsLedger(m), NEW a \in Vecs, NEW b \in Vecs
  PROVE  Balanced(Map3Ite(a, b, a, m), m)
<1>0. ToSet(<<a, b, a>>) = {a, b}
  <2>1. DOMAIN <<a, b, a>> = 1..3 /\ 1 \in 1..3 /\ 2 \in 1..3
    OBVIOUS
  <2>2. \A i \in 1..3 : i = 1 \/ i = 2 \/ i = 3
    OBVIOUS
  <2> QED
    BY <2>1, <2>2 DEF ToSet
<1>1. CASE Len(a) # Len(b)
  <2>1. Map3Ite(a, b, a, m) = Default(m)
    BY <1>0, <1>1 DEF Map3Ite, Mapped
  <2> QED
    BY <2>1, DefaultBalanced
<1>2. CASE Len(a) = Len(b)
  <2>1. PICK n \in Nat : /\ n = Len(a) /\ DOMAIN a = 1..n /\ DOMAIN b = 1..n
                         /\ \A i \in 1..n : a[i] \in Diagrams /\ b[i] \in Diagrams
    BY <1>2, VecType
  <2>2. PICK v : v = [i \in DOMAIN a |-> Ite(a[i], b[i], a[i])]
    OBVIOUS
  <2>3. \A i \in 1..n : Ite(a[i], b[i], a[i]) \in Diagrams
    BY <2>1, DiagramOps
  <2>4. v = [i \in 1..n |-> v[i]] /\ \A i \in 1..n : v[i] \in Diagrams
    BY <2>1, <2>2, <2>3
  <2>5. v \in Vecs
    BY <2>4, VecOf
  <2>6. Map3Ite(a, b, a, m) = Referenced(v, m)
    BY <1>0, <1>2, <2>2 DEF Map3Ite, Mapped
  <2> QED
    BY <2>5, <2>6, ReferencedBalanced
<1> QED
  BY <1>1, <1>2

-----------------------------------------------------------------------------
(* bvec_add and bvec_sub. Between two bits the sum so far has its          *)
(* references, and so has the carry.                                       *)

Rippling(s, m, k) ==
  /\ s.vec \in Vecs /\ Len(s.vec) = k /\ s.carry \in Diagrams /\ IsLedger(s.m)
  /\ \A g : Pinned(g) \/ Count(g, s.m) = Count(g, m) + Occ(s.vec, g) + Is(s.carry, g)

LEMMA RippledRight ==
  ASSUME NEW m, IsLedger(m), NEW k \in Nat, NEW s, Rippling(s, m, k),
         NEW bit \in Diagrams, NEW carry \in Diagrams
  PROVE  Rippling(Rippled(s, bit, carry), m, k + 1)
<1>1. PICK r : r = Rippled(s, bit, carry)
  OBVIOUS
<1>2. PICK a : a = AddRef(bit, s.m)
  OBVIOUS
<1>3. PICK b : b = AddRef(carry, a)
  OBVIOUS
<1>4. PICK d : d = DelRef(s.carry, b)
  OBVIOUS
<1>5. PICK v : v = Append(s.vec, bit)
  OBVIOUS
<1>6. PICK old : old = s.carry
  OBVIOUS
<1>7. r.vec = v /\ r.carry = carry /\ r.m = d
  BY <1>1, <1>2, <1>3, <1>4, <1>5 DEF Rippled
<1>8. IsLedger(s.m) /\ s.vec \in Vecs /\ Len(s.vec) = k
  BY DEF Rippling
<1>9. IsLedger(a) /\ \A g : Pinned(g) \/ Count(g, a) = Count(g, s.m) + Is(bit, g)
  BY <1>2, <1>8, AddRefMoves
<1>10. IsLedger(b) /\ \A g : Pinned(g) \/ Count(g, b) = Count(g, a) + Is(carry, g)
  BY <1>3, <1>9, AddRefMoves
<1>11. ASSUME NEW g, ~ Pinned(g)
       PROVE  /\ Count(g, b) = Count(g, m) + Occ(s.vec, g) + Is(old, g) + Is(bit, g) + Is(carry, g)
              /\ Count(g, m) \in Nat /\ Occ(s.vec, g) \in Nat
              /\ Is(old, g) \in Nat /\ Is(bit, g) \in Nat /\ Is(carry, g) \in Nat
  <2>1. Count(g, s.m) = Count(g, m) + Occ(s.vec, g) + Is(old, g)
    BY <1>6, <1>11 DEF Rippling
  <2>2. Count(g, m) \in Nat /\ Occ(s.vec, g) \in Nat
    BY <1>8, CountIs, OccType
  <2>3. Is(old, g) \in Nat /\ Is(bit, g) \in Nat /\ Is(carry, g) \in Nat
    BY DEF Is
  <2>4. Count(g, a) = Count(g, s.m) + Is(bit, g) /\ Count(g, b) = Count(g, a) + Is(carry, g)
    BY <1>9, <1>10, <1>11
  <2> QED
    BY <2>1, <2>2, <2>3, <2>4
<1>12. Pinned(old) \/ Count(old, b) # 0
  <2> SUFFICES ASSUME ~ Pinned(old) PROVE Count(old, b) # 0
    OBVIOUS
  <2>1. Is(old, old) = 1
    BY DEF Is
  <2> QED
    BY <1>11, <2>1
<1>13. IsLedger(d) /\ \A g : Pinned(g) \/ Count(g, d) = Count(g, b) - Is(old, g)
  BY <1>4, <1>6, <1>10, <1>12, DelRefMoves
<1>14. v \in Vecs /\ Len(v) = k + 1 /\ \A g : Occ(v, g) = Occ(s.vec, g) + Is(bit, g)
  BY <1>5, <1>8, OccAppend
<1>15. ASSUME NEW g, ~ Pinned(g) PROVE Count(g, d) = Count(g, m) + Occ(v, g) + Is(carry, g)
  <2>1. Count(g, d) = Count(g, b) - Is(old, g) /\ Occ(v, g) = Occ(s.vec, g) + Is(bit, g)
    BY <1>13, <1>14, <1>15
  <2> QED
    BY <1>11, <1>15, <2>1
<1>16. Rippling(r, m, k + 1)
  BY <1>7, <1>13, <1>14, <1>15 DEF Rippling
<1> QED
  BY <1>1, <1>16

(* From the first bit to the last.                                         *)
LEMMA RippleBalanced ==
  ASSUME NEW m, IsLedger(m), NEW n \in Nat, NEW t, t[0] = NoCarry(m),
         \A k \in 1..n : \E bit, carry \in Diagrams :
           t[k - 1].carry \in Diagrams => t[k] = Rippled(t[k - 1], bit, carry)
  PROVE  Balanced(RippleEnd(t[n]), m) /\ Len(RippleEnd(t[n]).vec) = n
<1> DEFINE P == {k \in 0..n : Rippling(t[k], m, k)}
<1>1. 0 \in P
  <2>1. t[0].vec = << >> /\ t[0].carry = Zero /\ t[0].m = m
    BY DEF NoCarry
  <2>2. Zero \in Diagrams /\ Pinned(Zero)
    BY DEF Diagrams, Zero, Pinned, IsConst
  <2>3. ASSUME NEW g, ~ Pinned(g) PROVE Count(g, m) = Count(g, m) + Occ(<< >>, g) + Is(Zero, g)
    <3>1. Is(Zero, g) = 0 /\ Occ(<< >>, g) = 0 /\ Count(g, m) \in Nat
      BY <2>2, <2>3, EmptyIs, CountIs DEF Is
    <3> QED
      BY <3>1
  <2>4. Rippling(t[0], m, 0)
    BY <2>1, <2>2, <2>3, EmptyIs DEF Rippling
  <2>5. 0 \in 0..n
    OBVIOUS
  <2> QED
    BY <2>4, <2>5
<1>2. ASSUME NEW h \in 0..(n - 1), h \in P PROVE h + 1 \in P
  <2>1. PICK k \in Nat : k = h + 1 /\ h \in Nat /\ k \in 1..n /\ k \in 0..n /\ k - 1 = h
    OBVIOUS
  <2>2. Rippling(t[h], m, h)
    BY <1>2
  <2>3. PICK bit \in Diagrams, carry \in Diagrams : t[k] = Rippled(t[h], bit, carry)
    BY <2>1, <2>2 DEF Rippling
  <2>4. Rippling(t[k], m, h + 1)
    BY <2>1, <2>2, <2>3, RippledRight
  <2> QED
    BY <2>1, <2>4
<1>3. n \in P
  <2>1. P \in SUBSET (0..n)
    OBVIOUS
  <2>2. P = 0..n
    <3> HIDE DEF P
    <3> QED
      BY <1>1, <1>2, <2>1, UpTo
  <2>3. n \in 0..n
    OBVIOUS
  <2> HIDE DEF P
  <2> QED
    BY <2>2, <2>3
<1>4. PICK s : s = t[n]
  OBVIOUS
<1>5. Rippling(s, m, n)
  BY <1>3, <1>4
<1>6. PICK old : old = s.carry
  OBVIOUS
<1>7. PICK b : b = s.m
  OBVIOUS
<1>8. PICK d : d = DelRef(old, b)
  OBVIOUS
<1>9. IsLedger(b) /\ s.vec \in Vecs /\ Len(s.vec) = n
  BY <1>5, <1>7 DEF Rippling
<1>10. ASSUME NEW g, ~ Pinned(g)
       PROVE  /\ Count(g, b) = Count(g, m) + Occ(s.vec, g) + Is(old, g)
              /\ Count(g, m) \in Nat /\ Occ(s.vec, g) \in Nat /\ Is(old, g) \in Nat
  <2>1. Count(g, b) = Count(g, m) + Occ(s.vec, g) + Is(old, g)
    BY <1>5, <1>6, <1>7, <1>10 DEF Rippling
  <2>2. Count(g, m) \in Nat /\ Occ(s.vec, g) \in Nat
    BY <1>9, CountIs, OccType
  <2>3. Is(old, g) \in Nat
    BY DEF Is
  <2> QED
    BY <2>1, <2>2, <2>3
<1>11. Pinned(old) \/ Count(old, b) # 0
  <2> SUFFICES ASSUME ~ Pinned(old) PROVE Count(old, b) # 0
    OBVIOUS
  <2>1. Is(old, old) = 1
    BY DEF Is
  <2> QED
    BY <1>10, <2>1
<1>12. IsLedger(d) /\ \A g : Pinned(g) \/ Count(g, d) = Count(g, b) - Is(old, g)
  BY <1>8, <1>9, <1>11, DelRefMoves
<1>13. ASSUME NEW g, ~ Pinned(g) PROVE Count(g, d) = Count(g, m) + Occ(s.vec, g)
  <2>1. Count(g, d) = Count(g, b) - Is(old, g)
    BY <1>12, <1>13
  <2> QED
    BY <1>10, <1>13, <2>1
<1>14. PICK e : e = RippleEnd(s)
  OBVIOUS
<1>15. e.vec = s.vec /\ e.m = d
  BY <1>6, <1>7, <1>8, <1>14 DEF RippleEnd
<1>16. Balanced(e, m) /\ Len(e.vec) = n
  BY <1>9, <1>12, <1>13, <1>15 DEF Balanced
<1> QED
  BY <1>4, <1>14, <1>16

(* The loops of bvec_add and bvec_sub.                                     *)
LEMMA AddFold ==
  ASSUME NEW l, NEW r, NEW m, ~ Mismatch(l, r)
  PROVE  Add(l, r, m) = RippleEnd(Folding("add", [i \in DOMAIN l |-> i], <<l, r>>, NoCarry(m)))
<1>1. PICK b : b = <<l, r>>
  OBVIOUS
<1>2. b[1] = l /\ b[2] = r
  BY <1>1
<1> QED
  BY <1>1, <1>2 DEF Add, Folding, Turn, FoldLeftDomain, FoldLeft, MapThenFoldSet

LEMMA SubFold ==
  ASSUME NEW l, NEW r, NEW m, ~ Mismatch(l, r)
  PROVE  Sub(l, r, m) = RippleEnd(Folding("sub", [i \in DOMAIN l |-> i], <<l, r>>, NoCarry(m)))
<1>1. PICK b : b = <<l, r>>
  OBVIOUS
<1>2. b[1] = l /\ b[2] = r
  BY <1>1
<1> QED
  BY <1>1, <1>2 DEF Sub, Folding, Turn, FoldLeftDomain, FoldLeft, MapThenFoldSet

LEMMA RippleTurns ==
  ASSUME NEW a, NEW l, NEW r, NEW k, NEW x
  PROVE  /\ Turn("add", a, <<l, r>>, k, x) =
              Rippled(x, Xor(Xor(l[a[k]], r[a[k]]), x.carry), AddCarry(l[a[k]], r[a[k]], x.carry))
         /\ Turn("sub", a, <<l, r>>, k, x) =
              Rippled(x, Xor(Xor(l[a[k]], r[a[k]]), x.carry), SubCarry(l[a[k]], r[a[k]], x.carry))
<1>1. PICK b : b = <<l, r>>
  OBVIOUS
<1>2. b[1] = l /\ b[2] = r
  BY <1>1
<1> QED
  BY <1>1, <1>2 DEF Turn

LEMMA Carries ==
  ASSUME NEW f \in Diagrams, NEW g \in Diagrams, NEW h \in Diagrams
  PROVE  AddCarry(f, g, h) \in Diagrams /\ SubCarry(f, g, h) \in Diagrams
  BY DEF Diagrams, AddCarry, SubCarry, And, Or, Not

LEMMA AddBalanced ==
  ASSUME NEW m, IsLedger(m), NEW l \in Vecs, NEW r \in Vecs
  PROVE  Balanced(Add(l, r, m), m) /\ (~ Mismatch(l, r) => Len(Add(l, r, m).vec) = Len(l))
<1>1. CASE Mismatch(l, r)
  <2>1. Add(l, r, m) = Default(m)
    BY <1>1 DEF Add
  <2> QED
    BY <1>1, <2>1, DefaultBalanced
<1>2. CASE ~ Mismatch(l, r)
  <2>0. Len(l) = Len(r)
    BY <1>2 DEF Mismatch
  <2>1. PICK n \in Nat : /\ n = Len(l) /\ DOMAIN l = 1..n
                         /\ \A i \in 1..n : l[i] \in Diagrams /\ r[i] \in Diagrams
    BY <2>0, VecType
  <2>2. PICK a : a = [i \in DOMAIN l |-> i]
    OBVIOUS
  <2>3. DOMAIN a = 1..n /\ \A k \in 1..n : a[k] = k
    BY <2>1, <2>2
  <2>4. PICK t : /\ InTurn("add", a, <<l, r>>, NoCarry(m), t, n)
                 /\ Folding("add", a, <<l, r>>, NoCarry(m)) = t[n]
    BY <2>3, Unrolled
  <2>5. ASSUME NEW k \in 1..n
        PROVE  \E bit, carry \in Diagrams : t[k - 1].carry \in Diagrams => t[k] = Rippled(t[k - 1], bit, carry)
    <3>1. PICK x : x = t[k - 1]
      OBVIOUS
    <3>2. t[k] = Rippled(x, Xor(Xor(l[k], r[k]), x.carry), AddCarry(l[k], r[k], x.carry))
      <4>1. t[k] = Turn("add", a, <<l, r>>, k, x)
        BY <2>4, <3>1 DEF InTurn
      <4>2. a[k] = k
        BY <2>3
      <4> QED
        BY <4>1, <4>2, RippleTurns
    <3>3. CASE x.carry \in Diagrams
      <4>1. Xor(Xor(l[k], r[k]), x.carry) \in Diagrams
        BY <2>1, <3>3, DiagramOps
      <4>2. AddCarry(l[k], r[k], x.carry) \in Diagrams
        BY <2>1, <3>3, Carries
      <4> QED
        BY <3>1, <3>2, <4>1, <4>2
    <3>4. CASE x.carry \notin Diagrams
      <4>1. Zero \in Diagrams
        BY DEF Diagrams, Zero
      <4> QED
        BY <3>1, <3>4, <4>1
    <3> QED
      BY <3>3, <3>4
  <2>6. t[0] = NoCarry(m)
    BY <2>4 DEF InTurn
  <2>7. Balanced(RippleEnd(t[n]), m) /\ Len(RippleEnd(t[n]).vec) = n
    BY <2>5, <2>6, RippleBalanced
  <2>8. Add(l, r, m) = RippleEnd(t[n])
    BY <1>2, <2>2, <2>4, AddFold
  <2> QED
    BY <2>1, <2>7, <2>8
<1> QED
  BY <1>1, <1>2

LEMMA SubBalanced ==
  ASSUME NEW m, IsLedger(m), NEW l \in Vecs, NEW r \in Vecs
  PROVE  Balanced(Sub(l, r, m), m)
<1>1. CASE Mismatch(l, r)
  <2>1. Sub(l, r, m) = Default(m)
    BY <1>1 DEF Sub
  <2> QED
    BY <1>1, <2>1, DefaultBalanced
<1>2. CASE ~ Mismatch(l, r)
  <2>0. Len(l) = Len(r)
    BY <1>2 DEF Mismatch
  <2>1. PICK n \in Nat : /\ n = Len(l) /\ DOMAIN l = 1..n
                         /\ \A i \in 1..n : l[i] \in Diagrams /\ r[i] \in Diagrams
    BY <2>0, VecType
  <2>2. PICK a : a = [i \in DOMAIN l |-> i]
    OBVIOUS
  <2>3. DOMAIN a = 1..n /\ \A k \in 1..n : a[k] = k
    BY <2>1, <2>2
  <2>4. PICK t : /\ InTurn("sub", a, <<l, r>>, NoCarry(m), t, n)
                 /\ Folding("sub", a, <<l, r>>, NoCarry(m)) = t[n]
    BY <2>3, Unrolled
  <2>5. ASSUME NEW k \in 1..n
        PROVE  \E bit, carry \in Diagrams : t[k - 1].carry \in Diagrams => t[k] = Rippled(t[k - 1], bit, carry)
    <3>1. PICK x : x = t[k - 1]
      OBVIOUS
    <3>2. t[k] = Rippled(x, Xor(Xor(l[k], r[k]), x.carry), SubCarry(l[k], r[k], x.carry))
      <4>1. t[k] = Turn("sub", a, <<l, r>>, k, x)
        BY <2>4, <3>1 DEF InTurn
      <4>2. a[k] = k
        BY <2>3
      <4> QED
        BY <4>1, <4>2, RippleTurns
    <3>3. CASE x.carry \in Diagrams
      <4>1. Xor(Xor(l[k], r[k]), x.carry) \in Diagrams
        BY <2>1, <3>3, DiagramOps
      <4>2. SubCarry(l[k], r[k], x.carry) \in Diagrams
        BY <2>1, <3>3, Carries
      <4> QED
        BY <3>1, <3>2, <4>1, <4>2
    <3>4. CASE x.carry \notin Diagrams
      <4>1. Zero \in Diagrams
        BY DEF Diagrams, Zero
      <4> QED
        BY <3>1, <3>4, <4>1
    <3> QED
      BY <3>3, <3>4
  <2>6. t[0] = NoCarry(m)
    BY <2>4 DEF InTurn
  <2>7. Balanced(RippleEnd(t[n]), m)
    BY <2>5, <2>6, RippleBalanced
  <2>8. Sub(l, r, m) = RippleEnd(t[n])
    BY <1>2, <2>2, <2>4, SubFold
  <2> QED
    BY <2>7, <2>8
<1> QED
  BY <1>1, <1>2

-----------------------------------------------------------------------------
(* bvec_mul. Between two bits the product so far and the shifted factor    *)
(* have their references.                                                  *)

Multiplying(s, m, len) ==
  /\ s.vec \in Vecs /\ Len(s.vec) = len /\ s.shift \in Vecs /\ Len(s.shift) = len /\ IsLedger(s.m)
  /\ \A g : Pinned(g) \/ Count(g, s.m) = Count(g, m) + Occ(s.vec, g) + Occ(s.shift, g)

(* A round.                                                                *)
LEMMA MulTurnRight ==
  ASSUME NEW m, IsLedger(m), NEW len \in Nat, len # 0, NEW s, Multiplying(s, m, len), NEW bit \in Diagrams
  PROVE  Multiplying(MulTurn(s, bit), m, len)
<1>1. PICK vec \in Vecs : vec = s.vec /\ Len(vec) = len
  BY DEF Multiplying
<1>2. PICK shift \in Vecs : shift = s.shift /\ Len(shift) = len
  BY DEF Multiplying
<1>3. PICK c0 : c0 = s.m
  OBVIOUS
<1>4. PICK added : added = Add(vec, shift, c0)
  OBVIOUS
<1>5. PICK sum : sum = added.vec
  OBVIOUS
<1>6. PICK c1 : c1 = added.m
  OBVIOUS
<1>7. PICK new : new = [i \in DOMAIN vec |-> Ite(bit, sum[i], vec[i])]
  OBVIOUS
<1>8. PICK c2 : c2 = AddRefs(new, c1)
  OBVIOUS
<1>9. PICK c3 : c3 = DelRefs(vec, c2)
  OBVIOUS
<1>10. PICK top : top = shift[len]
  OBVIOUS
<1>11. PICK c4 : c4 = DelRef(top, c3)
  OBVIOUS
<1>12. PICK c5 : c5 = DelRefs(sum, c4)
  OBVIOUS
<1>13. PICK up : up = Left(shift, 1, Zero)
  OBVIOUS
<1>14. MulTurn(s, bit) = [vec |-> new, shift |-> up, m |-> c5]
  <2>1. MulTurn(s, bit) = MulShifted(MulKept(s, added, bit), added, shift)
    BY <1>1, <1>2, <1>3, <1>4 DEF MulTurn, MulAdded
  <2>2. MulKept(s, added, bit) = [vec |-> new, m |-> c3]
    BY <1>1, <1>5, <1>6, <1>7, <1>8, <1>9 DEF MulKept, Replaced
  <2>3. Last(shift) = top
    BY <1>2, <1>10 DEF Last
  <2>4. PICK kept : kept = MulKept(s, added, bit)
    OBVIOUS
  <2>5. kept.vec = new /\ kept.m = c3
    BY <2>2, <2>4
  <2>6. MulShifted(kept, added, shift) = [vec |-> new, shift |-> up, m |-> c5]
    BY <1>5, <1>11, <1>12, <1>13, <2>3, <2>5 DEF MulShifted
  <2> QED
    BY <2>1, <2>4, <2>6
<1>15. IsLedger(c0) /\ \A g : Pinned(g) \/ Count(g, c0) = Count(g, m) + Occ(vec, g) + Occ(shift, g)
  BY <1>1, <1>2, <1>3 DEF Multiplying
<1>16. sum \in Vecs /\ IsLedger(c1) /\ Len(sum) = len
       /\ \A g : Pinned(g) \/ Count(g, c1) = Count(g, c0) + Occ(sum, g)
  <2>1. ~ Mismatch(vec, shift)
    BY <1>1, <1>2 DEF Mismatch
  <2>2. Balanced(added, c0) /\ Len(added.vec) = len
    BY <1>1, <1>4, <1>15, <2>1, AddBalanced
  <2> QED
    BY <1>5, <1>6, <2>2 DEF Balanced
<1>17. /\ DOMAIN vec = 1..len /\ \A i \in 1..len : vec[i] \in Diagrams
       /\ DOMAIN sum = 1..len /\ \A i \in 1..len : sum[i] \in Diagrams
       /\ top \in Diagrams
  <2>1. DOMAIN vec = 1..len /\ \A i \in 1..len : vec[i] \in Diagrams
    BY <1>1, VecType
  <2>2. DOMAIN sum = 1..len /\ \A i \in 1..len : sum[i] \in Diagrams
    BY <1>16, VecType
  <2>3. len \in 1..len /\ \A i \in 1..len : shift[i] \in Diagrams
    BY <1>2, VecType
  <2> QED
    BY <1>10, <2>1, <2>2, <2>3
<1>18. new \in Vecs /\ Len(new) = len /\ DOMAIN new = 1..len
  <2>1. \A i \in 1..len : Ite(bit, sum[i], vec[i]) \in Diagrams
    BY <1>17, DiagramOps
  <2>2. new = [i \in 1..len |-> new[i]] /\ \A i \in 1..len : new[i] \in Diagrams
    BY <1>7, <1>17, <2>1
  <2>3. DOMAIN new = 1..len
    BY <1>7, <1>17
  <2> QED
    BY <2>2, <2>3, VecOf
<1>19. IsLedger(c2) /\ \A g : Pinned(g) \/ Count(g, c2) = Count(g, c1) + Occ(new, g)
  BY <1>8, <1>16, <1>18, AddRefsCount
<1>20. /\ up \in Vecs /\ Len(up) = len
       /\ \A g : Pinned(g) \/ Occ(up, g) + Is(top, g) = Occ(shift, g)
  <2>1. Zero \in Diagrams /\ Pinned(Zero)
    BY DEF Diagrams, Zero, Pinned, IsConst
  <2>2. up \in Vecs /\ Len(up) = len /\ \A g : Occ(up, g) + Is(top, g) = Occ(shift, g) + Is(Zero, g)
    BY <1>2, <1>10, <1>13, <2>1, OccLeft
  <2>3. ASSUME NEW g, ~ Pinned(g) PROVE Occ(up, g) + Is(top, g) = Occ(shift, g)
    <3>1. Is(Zero, g) = 0
      BY <2>1, <2>3 DEF Is
    <3>2. Occ(shift, g) \in Nat /\ Occ(up, g) + Is(top, g) = Occ(shift, g) + Is(Zero, g)
      BY <2>2, OccType
    <3> QED
      BY <3>1, <3>2
  <2> QED
    BY <2>2, <2>3
<1>21. ASSUME NEW g, ~ Pinned(g)
       PROVE  /\ Count(g, c2) = Count(g, m) + Occ(vec, g) + Occ(up, g) + Is(top, g) + Occ(sum, g) + Occ(new, g)
              /\ Count(g, m) \in Nat /\ Occ(vec, g) \in Nat /\ Occ(up, g) \in Nat
              /\ Is(top, g) \in Nat /\ Occ(sum, g) \in Nat /\ Occ(new, g) \in Nat
  <2>1. /\ Count(g, c0) = Count(g, m) + Occ(vec, g) + Occ(shift, g)
        /\ Count(g, c1) = Count(g, c0) + Occ(sum, g)
        /\ Count(g, c2) = Count(g, c1) + Occ(new, g)
        /\ Occ(up, g) + Is(top, g) = Occ(shift, g)
    BY <1>15, <1>16, <1>19, <1>20, <1>21
  <2>2. /\ Count(g, m) \in Nat /\ Occ(vec, g) \in Nat /\ Occ(up, g) \in Nat
        /\ Occ(sum, g) \in Nat /\ Occ(new, g) \in Nat
    BY <1>16, <1>18, <1>20, CountIs, OccType
  <2>3. Is(top, g) \in Nat
    BY DEF Is
  <2> QED
    BY <2>1, <2>2, <2>3
<1>22. IsLedger(c3) /\ \A g : Pinned(g) \/ Count(g, c3) = Count(g, c2) - Occ(vec, g)
  <2>1. ASSUME NEW g, ~ Pinned(g) PROVE Occ(vec, g) <= Count(g, c2)
    BY <1>21, <2>1
  <2> QED
    BY <1>9, <1>17, <1>19, <2>1, DelRefsCount
<1>23. ASSUME NEW g, ~ Pinned(g)
       PROVE  Count(g, c3) = Count(g, m) + Occ(up, g) + Is(top, g) + Occ(sum, g) + Occ(new, g)
  <2>1. Count(g, c3) = Count(g, c2) - Occ(vec, g)
    BY <1>22, <1>23
  <2> QED
    BY <1>21, <1>23, <2>1
<1>24. Pinned(top) \/ Count(top, c3) # 0
  <2> SUFFICES ASSUME ~ Pinned(top) PROVE Count(top, c3) # 0
    OBVIOUS
  <2>1. Is(top, top) = 1
    BY DEF Is
  <2>2. Count(top, c3) = Count(top, m) + Occ(up, top) + Is(top, top) + Occ(sum, top) + Occ(new, top)
    BY <1>23
  <2> QED
    BY <1>21, <2>1, <2>2
<1>25. IsLedger(c4) /\ \A g : Pinned(g) \/ Count(g, c4) = Count(g, c3) - Is(top, g)
  BY <1>11, <1>22, <1>24, DelRefMoves
<1>26. ASSUME NEW g, ~ Pinned(g)
       PROVE  Count(g, c4) = Count(g, m) + Occ(up, g) + Occ(sum, g) + Occ(new, g)
  <2>1. Count(g, c4) = Count(g, c3) - Is(top, g)
    BY <1>25, <1>26
  <2> QED
    BY <1>21, <1>23, <1>26, <2>1
<1>27. IsLedger(c5) /\ \A g : Pinned(g) \/ Count(g, c5) = Count(g, c4) - Occ(sum, g)
  <2>1. ASSUME NEW g, ~ Pinned(g) PROVE Occ(sum, g) <= Count(g, c4)
    BY <1>21, <1>26, <2>1
  <2> QED
    BY <1>12, <1>17, <1>25, <2>1, DelRefsCount
<1>28. ASSUME NEW g, ~ Pinned(g)
       PROVE  Count(g, c5) = Count(g, m) + Occ(new, g) + Occ(up, g)
  <2>1. Count(g, c5) = Count(g, c4) - Occ(sum, g)
    BY <1>27, <1>28
  <2> QED
    BY <1>21, <1>26, <1>28, <2>1
<1>29. PICK z : z = MulTurn(s, bit)
  OBVIOUS
<1>30. z.vec = new /\ z.shift = up /\ z.m = c5
  BY <1>14, <1>29
<1>31. Multiplying(z, m, len)
  BY <1>18, <1>20, <1>27, <1>28, <1>30 DEF Multiplying
<1> QED
  BY <1>29, <1>31

(* The loop.                                                               *)
LEMMA MulFold ==
  ASSUME NEW copied, NEW coerced, NEW l, NEW r
  PROVE  MulFrom(copied, coerced, l, r) =
           MulEnd(Folding("mul", r, r, [vec |-> Zeros(Len(l) + Len(r)), shift |-> coerced.vec,
                                        m |-> DelRefs(copied.vec, coerced.m)]))
  BY DEF MulFrom, Folding, Turn, FoldLeft, MapThenFoldSet, MulTurn

LEMMA MulBalanced ==
  ASSUME NEW m, IsLedger(m), NEW l \in Vecs, NEW r \in Vecs
  PROVE  Balanced(Mul(l, r, m), m)
<1>1. CASE Len(l) = 0 \/ Len(r) = 0
  <2>1. Mul(l, r, m) = Default(m)
    BY <1>1 DEF Mul
  <2> QED
    BY <2>1, DefaultBalanced
<1>2. CASE ~ (Len(l) = 0 \/ Len(r) = 0)
  <2>1. PICK n \in Nat : n = Len(r) /\ DOMAIN r = 1..n /\ \A i \in 1..n : r[i] \in Diagrams
    BY VecType
  <2>2. PICK len \in Nat : len = Len(l) + Len(r) /\ len # 0
    <3>1. Len(l) \in Nat /\ Len(r) \in Nat
      BY VecType
    <3> QED
      BY <1>2, <3>1
  <2>3. PICK copied : copied = Copy(l, m)
    OBVIOUS
  <2>4. PICK c0 : c0 = copied.m
    OBVIOUS
  <2>5. copied.vec = l /\ IsLedger(c0) /\ \A g : Pinned(g) \/ Count(g, c0) = Count(g, m) + Occ(l, g)
    BY <2>3, <2>4, CopyBalanced DEF Balanced
  <2>6. PICK coerced : coerced = Coerce(len, l, c0)
    OBVIOUS
  <2>7. PICK shift : shift = coerced.vec
    OBVIOUS
  <2>8. PICK c1 : c1 = coerced.m
    OBVIOUS
  <2>9. /\ shift \in Vecs /\ Len(shift) = len /\ IsLedger(c1)
        /\ \A g : Pinned(g) \/ Count(g, c1) = Count(g, c0) + Occ(shift, g)
    BY <2>5, <2>6, <2>7, <2>8, CoerceBalanced DEF Balanced
  <2>10. PICK c2 : c2 = DelRefs(l, c1)
    OBVIOUS
  <2>11. ASSUME NEW g, ~ Pinned(g)
         PROVE  /\ Count(g, c1) = Count(g, m) + Occ(l, g) + Occ(shift, g)
                /\ Count(g, m) \in Nat /\ Occ(l, g) \in Nat /\ Occ(shift, g) \in Nat
    <3>1. Count(g, c1) = Count(g, c0) + Occ(shift, g) /\ Count(g, c0) = Count(g, m) + Occ(l, g)
      BY <2>5, <2>9, <2>11
    <3>2. Count(g, m) \in Nat /\ Occ(l, g) \in Nat /\ Occ(shift, g) \in Nat
      BY <2>9, CountIs, OccType
    <3> QED
      BY <3>1, <3>2
  <2>12. IsLedger(c2) /\ \A g : Pinned(g) \/ Count(g, c2) = Count(g, c1) - Occ(l, g)
    <3>1. ASSUME NEW g, ~ Pinned(g) PROVE Occ(l, g) <= Count(g, c1)
      BY <2>11, <3>1
    <3>2. Len(l) \in Nat /\ DOMAIN l = 1..Len(l)
      BY VecType
    <3> QED
      BY <2>9, <2>10, <3>1, <3>2, DelRefsCount
  <2>13. PICK zeros : zeros = Zeros(len)
    OBVIOUS
  <2>14. zeros \in Vecs /\ Len(zeros) = len /\ \A g : Pinned(g) \/ Occ(zeros, g) = 0
    BY <2>13, ZerosAre
  <2>15. PICK base : base = [vec |-> zeros, shift |-> shift, m |-> c2]
    OBVIOUS
  <2>16. base.vec = zeros /\ base.shift = shift /\ base.m = c2
    BY <2>15
  <2>17. Multiplying(base, m, len)
    <3>1. ASSUME NEW g, ~ Pinned(g) PROVE Count(g, c2) = Count(g, m) + Occ(zeros, g) + Occ(shift, g)
      <4>1. Count(g, c2) = Count(g, c1) - Occ(l, g) /\ Occ(zeros, g) = 0
        BY <2>12, <2>14, <3>1
      <4> QED
        BY <2>11, <3>1, <4>1
    <3> QED
      BY <2>9, <2>12, <2>14, <2>16, <3>1 DEF Multiplying
  <2>18. Mul(l, r, m) = MulEnd(Folding("mul", r, r, base))
    <3>1. Mul(l, r, m) = MulFrom(copied, coerced, l, r)
      BY <1>2, <2>2, <2>3, <2>4, <2>5, <2>6 DEF Mul, MulCopied
    <3>2. base = [vec |-> Zeros(Len(l) + Len(r)), shift |-> coerced.vec, m |-> DelRefs(copied.vec, coerced.m)]
      BY <2>2, <2>5, <2>7, <2>8, <2>10, <2>13, <2>15
    <3> QED
      BY <3>1, <3>2, MulFold
  <2>19. PICK t : InTurn("mul", r, r, base, t, n) /\ Folding("mul", r, r, base) = t[n]
    BY <2>1, Unrolled
  <2>20. t[0] = base /\ \A k \in 1..n : t[k] = MulTurn(t[k - 1], r[k])
    BY <2>19, RefTurns DEF InTurn
  <2> DEFINE P == {k \in 0..n : Multiplying(t[k], m, len)}
  <2>21. 0 \in P
    <3>1. 0 \in 0..n
      OBVIOUS
    <3> QED
      BY <2>17, <2>20, <3>1
  <2>22. ASSUME NEW h \in 0..(n - 1), h \in P PROVE h + 1 \in P
    <3>1. PICK k \in Nat : k = h + 1 /\ k \in 1..n /\ k \in 0..n /\ k - 1 = h
      OBVIOUS
    <3>2. t[k] = MulTurn(t[h], r[k]) /\ r[k] \in Diagrams /\ Multiplying(t[h], m, len)
      BY <2>1, <2>20, <2>22, <3>1
    <3>3. Multiplying(t[k], m, len)
      BY <2>2, <3>2, MulTurnRight
    <3> QED
      BY <3>1, <3>3
  <2>23. n \in P
    <3>1. P \in SUBSET (0..n)
      OBVIOUS
    <3>2. P = 0..n
      <4> HIDE DEF P
      <4> QED
        BY <2>21, <2>22, <3>1, UpTo
    <3>3. n \in 0..n
      OBVIOUS
    <3> HIDE DEF P
    <3> QED
      BY <3>2, <3>3
  <2>24. PICK s : s = t[n]
    OBVIOUS
  <2>25. PICK vec \in Vecs : vec = s.vec
    BY <2>23, <2>24 DEF Multiplying
  <2>26. PICK left \in Vecs : left = s.shift
    BY <2>23, <2>24 DEF Multiplying
  <2>27. PICK c3 : c3 = s.m
    OBVIOUS
  <2>28. IsLedger(c3) /\ \A g : Pinned(g) \/ Count(g, c3) = Count(g, m) + Occ(vec, g) + Occ(left, g)
    BY <2>23, <2>24, <2>25, <2>26, <2>27 DEF Multiplying
  <2>29. PICK c4 : c4 = DelRefs(left, c3)
    OBVIOUS
  <2>30. ASSUME NEW g, ~ Pinned(g)
         PROVE  /\ Count(g, c3) = Count(g, m) + Occ(vec, g) + Occ(left, g)
                /\ Count(g, m) \in Nat /\ Occ(vec, g) \in Nat /\ Occ(left, g) \in Nat
    BY <2>28, <2>30, CountIs, OccType
  <2>31. IsLedger(c4) /\ \A g : Pinned(g) \/ Count(g, c4) = Count(g, c3) - Occ(left, g)
    <3>1. ASSUME NEW g, ~ Pinned(g) PROVE Occ(left, g) <= Count(g, c3)
      BY <2>30, <3>1
    <3>2. Len(left) \in Nat /\ DOMAIN left = 1..Len(left)
      BY VecType
    <3> QED
      BY <2>28, <2>29, <3>1, <3>2, DelRefsCount
  <2>32. ASSUME NEW g, ~ Pinned(g) PROVE Count(g, c4) = Count(g, m) + Occ(vec, g)
    <3>1. Count(g, c4) = Count(g, c3) - Occ(left, g)
      BY <2>31, <2>32
    <3> QED
      BY <2>30, <2>32, <3>1
  <2>33. PICK e : e = MulEnd(s)
    OBVIOUS
  <2>34. e.vec = vec /\ e.m = c4
    BY <2>25, <2>26, <2>27, <2>29, <2>33 DEF MulEnd
  <2>35. Balanced(e, m)
    BY <2>31, <2>32, <2>34 DEF Balanced
  <2> QED
    BY <2>18, <2>19, <2>24, <2>33, <2>35
<1> QED
  BY <1>1, <1>2

-----------------------------------------------------------------------------
(* The vectors of the program.                                             *)

(* A set of two parts has as many elements as they have.                   *)
Split(S, A, B, f, h) ==
  /\ f \in [A -> S] /\ h \in [B -> S]
  /\ \A x, y \in A : f[x] = f[y] => x = y
  /\ \A x, y \in B : h[x] = h[y] => x = y
  /\ \A x \in A, y \in B : f[x] # h[y]
  /\ \A z \in S : (\E x \in A : f[x] = z) \/ (\E y \in B : h[y] = z)

LEMMA CountSplit ==
  ASSUME NEW S, NEW A, NEW B, IsFiniteSet(A), IsFiniteSet(B), NEW f, NEW h, Split(S, A, B, f, h)
  PROVE  IsFiniteSet(S) /\ Cardinality(S) = Cardinality(A) + Cardinality(B)
<1> DEFINE T == {f[x] : x \in A}
           U == {h[y] : y \in B}
<1>1. ExistsBijection(A, T)
  <2>1. f \in Bijection(A, T)
    BY DEF Split, Bijection, Injection, Surjection, IsInjective
  <2> QED
    BY <2>1 DEF ExistsBijection
<1>2. ExistsBijection(B, U)
  <2>1. h \in Bijection(B, U)
    BY DEF Split, Bijection, Injection, Surjection, IsInjective
  <2> QED
    BY <2>1 DEF ExistsBijection
<1>3. S = T \cup U /\ T \cap U = {}
  BY DEF Split
<1> HIDE DEF T, U
<1>4. IsFiniteSet(T) /\ Cardinality(T) = Cardinality(A)
  BY <1>1, FS_Bijection
<1>5. IsFiniteSet(U) /\ Cardinality(U) = Cardinality(B)
  BY <1>2, FS_Bijection
<1>6. /\ IsFiniteSet(T \cup U)
      /\ Cardinality(T \cup U) = Cardinality(T) + Cardinality(U) - Cardinality(T \cap U)
  BY <1>4, <1>5, FS_Union
<1>7. Cardinality({}) = 0
  BY FS_EmptySet
<1>8. Cardinality(T) \in Nat /\ Cardinality(U) \in Nat
  BY <1>4, <1>5, FS_CardinalityType
<1>9. Cardinality(T \cap U) = 0
  BY <1>3, <1>7
<1>10. Cardinality(T \cup U) = Cardinality(T) + Cardinality(U)
  BY <1>6, <1>8, <1>9
<1>11. Cardinality(S) = Cardinality(T) + Cardinality(U) /\ IsFiniteSet(S)
  BY <1>3, <1>6, <1>10
<1> QED
  BY <1>4, <1>5, <1>11

(* What a place in vectors is.                                             *)
LEMMA PlacesAre ==
  ASSUME NEW vs, NEW g, NEW p
  PROVE  p \in PlacesIn(vs, g) <=> /\ p = <<p[1], p[2]>> /\ p[1] \in DOMAIN vs
                                   /\ p[2] \in DOMAIN vs[p[1]] /\ vs[p[1]][p[2]] = g
  BY DEF PlacesIn

(* There are finitely many.                                                *)
LEMMA PlacesFinite ==
  ASSUME NEW vs \in Seq(Vecs), NEW g
  PROVE  IsFiniteSet(PlacesIn(vs, g)) /\ Cardinality(PlacesIn(vs, g)) \in Nat
<1> DEFINE row == [i \in DOMAIN vs |-> {i} \X DOMAIN vs[i]]
           T == {row[i] : i \in DOMAIN vs}
<1>1. IsFiniteSet(DOMAIN vs)
  <2>1. DOMAIN vs = 1..Len(vs) /\ Len(vs) \in Nat
    OBVIOUS
  <2> QED
    BY <2>1, FS_Interval
<1>2. row \in Surjection(DOMAIN vs, T)
  BY DEF Surjection
<1>3. IsFiniteSet(T)
  BY <1>1, <1>2, FS_Surjection
<1>4. \A b \in T : IsFiniteSet(b)
  <2> SUFFICES ASSUME NEW i \in DOMAIN vs PROVE IsFiniteSet(row[i])
    OBVIOUS
  <2>1. vs[i] \in Vecs
    OBVIOUS
  <2>2. DOMAIN vs[i] = 1..Len(vs[i]) /\ Len(vs[i]) \in Nat
    BY <2>1, VecType
  <2>3. IsFiniteSet(DOMAIN vs[i])
    BY <2>2, FS_Interval
  <2>4. IsFiniteSet({i})
    BY FS_Singleton
  <2> QED
    BY <2>3, <2>4, FS_Product
<1>5. IsFiniteSet(UNION T)
  BY <1>3, <1>4, FS_UNION
<1>6. PlacesIn(vs, g) \subseteq UNION T
  BY DEF PlacesIn
<1>7. IsFiniteSet(PlacesIn(vs, g))
  BY <1>5, <1>6, FS_Subset
<1> QED
  BY <1>7, FS_CardinalityType

(* A vector more.                                                          *)
LEMMA PlacesAppend ==
  ASSUME NEW vs \in Seq(Vecs), NEW v \in Vecs, NEW g
  PROVE  Cardinality(PlacesIn(Append(vs, v), g)) = Cardinality(PlacesIn(vs, g)) + Occ(v, g)
<1>1. PICK w : w = Append(vs, v)
  OBVIOUS
<1>2. PICK n \in Nat : n = Len(vs) /\ DOMAIN vs = 1..n
  OBVIOUS
<1>3. PICK k \in Nat : k = n + 1
  OBVIOUS
<1>4. DOMAIN w = 1..k /\ w[k] = v /\ \A i \in 1..n : w[i] = vs[i]
  BY <1>1, <1>2, <1>3
<1>5. (\A i \in 1..n : i \in 1..k /\ i # k) /\ k \in 1..k /\ \A i \in 1..k : i = k \/ i \in 1..n
  BY <1>3
<1> DEFINE A == PlacesIn(vs, g)
           B == {j \in DOMAIN v : v[j] = g}
           S == PlacesIn(w, g)
           f == [p \in A |-> p]
           h == [j \in B |-> <<k, j>>]
<1>6. ASSUME NEW p \in A PROVE p \in S /\ p[1] # k
  <2>1. p = <<p[1], p[2]>> /\ p[1] \in 1..n /\ p[2] \in DOMAIN vs[p[1]] /\ vs[p[1]][p[2]] = g
    BY <1>2, PlacesAre
  <2> QED
    BY <1>4, <1>5, <2>1, PlacesAre
<1>7. ASSUME NEW j \in B PROVE <<k, j>> \in S
  <2>1. PICK p : p = <<k, j>>
    OBVIOUS
  <2>2. p[1] = k /\ p[2] = j /\ p = <<p[1], p[2]>>
    BY <2>1
  <2>3. p \in S
    BY <1>4, <1>5, <2>2, PlacesAre
  <2> QED
    BY <2>1, <2>3
<1>8. ASSUME NEW z \in S PROVE z \in A \/ \E j \in B : <<k, j>> = z
  <2>1. z = <<z[1], z[2]>> /\ z[1] \in 1..k /\ z[2] \in DOMAIN w[z[1]] /\ w[z[1]][z[2]] = g
    BY <1>4, PlacesAre
  <2>2. CASE z[1] = k
    BY <1>4, <2>1, <2>2
  <2>3. CASE z[1] \in 1..n
    BY <1>2, <1>4, <2>1, <2>3, PlacesAre
  <2> QED
    BY <1>5, <2>1, <2>2, <2>3
<1>9. IsFiniteSet(A) /\ IsFiniteSet(B) /\ Occ(v, g) = Cardinality(B)
  <2>1. DOMAIN v = 1..Len(v) /\ Len(v) \in Nat
    BY VecType
  <2>2. IsFiniteSet(B)
    BY <2>1, OccAll
  <2> QED
    BY <2>2, PlacesFinite DEF Occ
<1> HIDE DEF A, B, S
<1>10. f \in [A -> S] /\ h \in [B -> S]
  BY <1>6, <1>7
<1>11. /\ \A x, y \in A : f[x] = f[y] => x = y
       /\ \A x, y \in B : h[x] = h[y] => x = y
       /\ \A x \in A, y \in B : f[x] # h[y]
  BY <1>6
<1>12. \A z \in S : (\E x \in A : f[x] = z) \/ (\E y \in B : h[y] = z)
  BY <1>8
<1> HIDE DEF f, h
<1>14. Split(S, A, B, f, h)
  BY <1>10, <1>11, <1>12 DEF Split
<1>13. Cardinality(S) = Cardinality(A) + Cardinality(B)
  BY <1>9, <1>14, CountSplit
<1> QED
  BY <1>1, <1>9, <1>13 DEF A, S

(* RemoveAt.                                                               *)
LEMMA RemovedAt ==
  ASSUME NEW X, NEW s \in Seq(X), NEW i \in DOMAIN s
  PROVE  LET w == RemoveAt(s, i) IN
         /\ w \in Seq(X) /\ Len(w) = Len(s) - 1
         /\ \A j \in 1..(Len(s) - 1) : w[j] = IF j < i THEN s[j] ELSE s[j + 1]
<1>1. PICK n \in Nat : n = Len(s) /\ DOMAIN s = 1..n /\ i \in 1..n
  OBVIOUS
<1>2. PICK a : a = SubSeq(s, 1, i - 1)
  OBVIOUS
<1>3. PICK b : b = SubSeq(s, i + 1, n)
  OBVIOUS
<1>4. a \in Seq(X) /\ Len(a) = i - 1 /\ \A j \in 1..(i - 1) : a[j] = s[j]
  BY <1>1, <1>2
<1>5. b \in Seq(X) /\ Len(b) = n - i /\ \A j \in 1..(n - i) : b[j] = s[i + j]
  BY <1>1, <1>3
<1>6. PICK w : w = a \o b
  OBVIOUS
<1>7. w \in Seq(X) /\ Len(w) = n - 1
  BY <1>1, <1>4, <1>5, <1>6
<1>8. ASSUME NEW j \in 1..(n - 1) PROVE w[j] = IF j < i THEN s[j] ELSE s[j + 1]
  <2>1. CASE j < i
    <3>1. j \in 1..(i - 1) /\ j \in 1..Len(a)
      BY <1>1, <1>4, <2>1
    <3>2. w[j] = a[j]
      BY <1>4, <1>5, <1>6, <3>1
    <3> QED
      BY <1>4, <2>1, <3>1, <3>2
  <2>2. CASE ~ (j < i)
    <3>1. PICK k \in Nat : k = j - (i - 1) /\ k \in 1..(n - i) /\ i + k = j + 1
      BY <1>1, <2>2
    <3>2. w[j] = b[k]
      <4>1. j \in 1..(Len(a) + Len(b)) /\ ~ (j <= Len(a)) /\ j - Len(a) = k
        BY <1>1, <1>4, <1>5, <2>2, <3>1
      <4>2. \A x \in 1..(Len(a) + Len(b)) : (a \o b)[x] = IF x <= Len(a) THEN a[x] ELSE b[x - Len(a)]
        BY <1>4, <1>5, ConcatProperties
      <4> QED
        BY <1>6, <4>1, <4>2
    <3> QED
      BY <1>5, <2>2, <3>1, <3>2
  <2> QED
    BY <2>1, <2>2
<1>9. RemoveAt(s, i) = w
  BY <1>1, <1>2, <1>3, <1>6 DEF RemoveAt
<1> QED
  BY <1>1, <1>7, <1>8, <1>9

(* A vector less.                                                          *)
LEMMA PlacesRemove ==
  ASSUME NEW vs \in Seq(Vecs), NEW i \in DOMAIN vs, NEW g
  PROVE  /\ RemoveAt(vs, i) \in Seq(Vecs)
         /\ Cardinality(PlacesIn(vs, g)) = Cardinality(PlacesIn(RemoveAt(vs, i), g)) + Occ(vs[i], g)
<1>1. PICK w : w = RemoveAt(vs, i)
  OBVIOUS
<1>2. PICK n \in Nat : n = Len(vs) /\ DOMAIN vs = 1..n /\ i \in 1..n
  OBVIOUS
<1>3. PICK k \in Nat : k = n - 1
  BY <1>2
<1>4. w \in Seq(Vecs) /\ DOMAIN w = 1..k /\ \A j \in 1..k : w[j] = IF j < i THEN vs[j] ELSE vs[j + 1]
  <2>1. /\ w \in Seq(Vecs) /\ Len(w) = Len(vs) - 1
        /\ \A j \in 1..(Len(vs) - 1) : w[j] = IF j < i THEN vs[j] ELSE vs[j + 1]
    BY <1>1, RemovedAt
  <2>2. Len(vs) - 1 = k
    BY <1>2, <1>3
  <2>3. DOMAIN w = 1..Len(w)
    BY <2>1
  <2> QED
    BY <2>1, <2>2, <2>3
<1>5. PICK v : v = vs[i]
  OBVIOUS
<1>6. v \in Vecs
  BY <1>5
<1> DEFINE up(j) == IF j < i THEN j ELSE j + 1
           A == PlacesIn(w, g)
           B == {j \in DOMAIN v : v[j] = g}
           S == PlacesIn(vs, g)
           f == [p \in A |-> <<up(p[1]), p[2]>>]
           h == [j \in B |-> <<i, j>>]
<1>7. ASSUME NEW j \in 1..k PROVE up(j) \in 1..n /\ up(j) # i /\ w[j] = vs[up(j)] /\ j \in Nat
  BY <1>2, <1>3, <1>4
<1>8. ASSUME NEW j \in 1..n, j # i PROVE \E x \in 1..k : up(x) = j
  <2>1. CASE j < i
    BY <1>2, <1>3, <2>1
  <2>2. CASE i < j
    <3>1. j - 1 \in 1..k /\ ~ (j - 1 < i) /\ (j - 1) + 1 = j
      BY <1>2, <1>3, <2>2
    <3> QED
      BY <3>1
  <2> QED
    BY <1>2, <1>8, <2>1, <2>2
<1>9. \A x, y \in 1..k : up(x) = up(y) => x = y
  OBVIOUS
<1> HIDE DEF up
<1>10. ASSUME NEW p \in A PROVE <<up(p[1]), p[2]>> \in S /\ up(p[1]) # i /\ p[1] \in 1..k /\ p = <<p[1], p[2]>>
  <2>1. p = <<p[1], p[2]>> /\ p[1] \in 1..k /\ p[2] \in DOMAIN w[p[1]] /\ w[p[1]][p[2]] = g
    BY <1>4, PlacesAre
  <2>2. up(p[1]) \in 1..n /\ up(p[1]) # i /\ w[p[1]] = vs[up(p[1])]
    BY <1>7, <2>1
  <2>3. PICK q : q = <<up(p[1]), p[2]>>
    OBVIOUS
  <2>4. q[1] = up(p[1]) /\ q[2] = p[2] /\ q = <<q[1], q[2]>>
    BY <2>3
  <2>5. q \in S
    BY <1>2, <2>1, <2>2, <2>4, PlacesAre
  <2> QED
    BY <2>1, <2>2, <2>3, <2>5
<1>11. ASSUME NEW j \in B PROVE <<i, j>> \in S
  <2>1. PICK p : p = <<i, j>>
    OBVIOUS
  <2>2. p[1] = i /\ p[2] = j /\ p = <<p[1], p[2]>>
    BY <2>1
  <2>3. p \in S
    BY <1>5, <2>2, PlacesAre
  <2> QED
    BY <2>1, <2>3
<1>12. ASSUME NEW z \in S PROVE (\E p \in A : <<up(p[1]), p[2]>> = z) \/ \E j \in B : <<i, j>> = z
  <2>1. z = <<z[1], z[2]>> /\ z[1] \in 1..n /\ z[2] \in DOMAIN vs[z[1]] /\ vs[z[1]][z[2]] = g
    BY <1>2, PlacesAre
  <2>2. CASE z[1] = i
    BY <1>5, <2>1, <2>2
  <2>3. CASE z[1] # i
    <3>1. PICK x \in 1..k : up(x) = z[1]
      BY <1>8, <2>1, <2>3
    <3>2. PICK p : p = <<x, z[2]>>
      OBVIOUS
    <3>3. p[1] = x /\ p[2] = z[2] /\ p = <<p[1], p[2]>>
      BY <3>2
    <3>4. w[x] = vs[z[1]]
      BY <1>7, <3>1
    <3>5. p \in A
      BY <1>4, <2>1, <3>1, <3>3, <3>4, PlacesAre
    <3> QED
      BY <2>1, <3>1, <3>3, <3>5
  <2> QED
    BY <2>2, <2>3
<1>13. IsFiniteSet(A) /\ IsFiniteSet(B) /\ Occ(v, g) = Cardinality(B)
  <2>1. DOMAIN v = 1..Len(v) /\ Len(v) \in Nat
    BY <1>6, VecType
  <2>2. IsFiniteSet(B)
    BY <2>1, OccAll
  <2> QED
    BY <1>4, <2>2, PlacesFinite DEF Occ
<1> HIDE DEF A, B, S
<1>14. f \in [A -> S] /\ h \in [B -> S]
  BY <1>10, <1>11
<1>15. \A x, y \in A : f[x] = f[y] => x = y
  <2> SUFFICES ASSUME NEW x \in A, NEW y \in A, f[x] = f[y] PROVE x = y
    OBVIOUS
  <2>1. up(x[1]) = up(y[1]) /\ x[2] = y[2]
    OBVIOUS
  <2>2. x[1] = y[1]
    BY <1>9, <1>10, <2>1
  <2> QED
    BY <1>10, <2>1, <2>2
<1>16. /\ \A x, y \in B : h[x] = h[y] => x = y
       /\ \A x \in A, y \in B : f[x] # h[y]
  BY <1>10
<1>17. \A z \in S : (\E x \in A : f[x] = z) \/ (\E y \in B : h[y] = z)
  BY <1>12
<1> HIDE DEF f, h
<1>19. Split(S, A, B, f, h)
  BY <1>14, <1>15, <1>16, <1>17 DEF Split
<1>18. Cardinality(S) = Cardinality(A) + Cardinality(B)
  BY <1>13, <1>19, CountSplit
<1> QED
  BY <1>1, <1>4, <1>5, <1>13, <1>18 DEF A, S

(* Two vectors in a row.                                                   *)
LEMMA OccConcat ==
  ASSUME NEW v \in Vecs, NEW w \in Vecs, NEW g
  PROVE  v \o w \in Vecs /\ Occ(v \o w, g) = Occ(v, g) + Occ(w, g)
<1>1. PICK n \in Nat : n = Len(v) /\ DOMAIN v = 1..n
  BY VecType
<1>2. PICK k \in Nat : k = Len(w) /\ DOMAIN w = 1..k
  BY VecType
<1>3. PICK z : z = v \o w
  OBVIOUS
<1>4. z \in Vecs /\ DOMAIN z = 1..(n + k) /\ \A i \in 1..(n + k) : z[i] = IF i <= n THEN v[i] ELSE w[i - n]
  <2>1. /\ z \in Seq(Diagrams) /\ Len(z) = n + k
        /\ \A i \in 1..(n + k) : z[i] = IF i <= n THEN v[i] ELSE w[i - n]
    BY <1>1, <1>2, <1>3, ConcatProperties DEF Vecs
  <2>2. DOMAIN z = 1..Len(z)
    BY <2>1
  <2> QED
    BY <2>1, <2>2 DEF Vecs
<1> DEFINE A == {i \in DOMAIN v : v[i] = g}
           B == {i \in DOMAIN w : w[i] = g}
           S == {i \in DOMAIN z : z[i] = g}
           f == [i \in A |-> i]
           h == [i \in B |-> n + i]
<1>5. \A i \in A : i \in S /\ i <= n
  BY <1>1, <1>4
<1>6. \A i \in B : n + i \in S /\ ~ (n + i <= n) /\ i \in Nat
  BY <1>2, <1>4
<1>7. ASSUME NEW i \in S PROVE i \in A \/ \E j \in B : n + j = i
  <2>1. CASE i <= n
    BY <1>1, <1>4, <2>1
  <2>2. CASE ~ (i <= n)
    <3>1. i - n \in 1..k /\ n + (i - n) = i
      BY <1>4, <2>2
    <3>2. i - n \in B
      BY <1>2, <1>4, <2>2, <3>1
    <3> QED
      BY <3>1, <3>2
  <2> QED
    BY <2>1, <2>2
<1>8. IsFiniteSet(A) /\ IsFiniteSet(B)
  BY <1>1, <1>2, OccAll
<1> HIDE DEF A, B, S
<1>9. f \in [A -> S] /\ h \in [B -> S]
  BY <1>5, <1>6
<1>10. \A x, y \in A : f[x] = f[y] => x = y
  OBVIOUS
<1>11. \A x, y \in B : h[x] = h[y] => x = y
  BY <1>6
<1>12. \A x \in A, y \in B : f[x] # h[y]
  BY <1>5, <1>6
<1>13. \A i \in S : (\E x \in A : f[x] = i) \/ (\E y \in B : h[y] = i)
  BY <1>7
<1> HIDE DEF f, h
<1>14. Split(S, A, B, f, h)
  BY <1>9, <1>10, <1>11, <1>12, <1>13 DEF Split
<1>15. Cardinality(S) = Cardinality(A) + Cardinality(B)
  BY <1>8, <1>14, CountSplit
<1> QED
  BY <1>3, <1>4, <1>15 DEF A, B, S, Occ

-----------------------------------------------------------------------------
(* The invariant: as long as the program has called nothing that does not  *)
(* balance, the count of a node is the number of its places.               *)

BlockVars(d) == [n \in DOMAIN d |-> d[n].var]

Owns(vs, d, f) == Cardinality(PlacesIn(vs, f)) + Occ(BlockVars(d), f)

Matches(vs, d, m) ==
  /\ vs \in Seq(Vecs) /\ IsLedger(m)
  /\ \A f : Pinned(f) \/ Count(f, m) = Owns(vs, d, f)

Counted == Matches(vecs, domain, ledger)

(* The diagrams of the blocks.                                             *)
LEMMA BlockVarsAre ==
  ASSUME NEW d \in Seq(BlockRecords)
  PROVE  BlockVars(d) \in Vecs /\ Len(BlockVars(d)) = Len(d) /\ DOMAIN BlockVars(d) = 1..Len(d)
<1>1. PICK n \in Nat : n = Len(d) /\ DOMAIN d = 1..n
  OBVIOUS
<1>2. \A i \in 1..n : d[i].var \in Diagrams
  <2> SUFFICES ASSUME NEW i \in 1..n PROVE d[i].var \in Diagrams
    OBVIOUS
  <2>1. d[i] \in BlockRecords
    BY <1>1
  <2> QED
    BY <2>1 DEF BlockRecords, Diagrams
<1>3. PICK v : v = BlockVars(d)
  OBVIOUS
<1>4. v = [i \in 1..n |-> v[i]] /\ DOMAIN v = 1..n /\ \A i \in 1..n : v[i] \in Diagrams
  BY <1>1, <1>2, <1>3 DEF BlockVars
<1>5. v \in Vecs /\ Len(v) = n
  BY <1>4, VecOf
<1> QED
  BY <1>1, <1>3, <1>4, <1>5

(* What is owned.                                                          *)
LEMMA OwnsAre ==
  ASSUME NEW vs \in Seq(Vecs), NEW d \in Seq(BlockRecords), NEW g
  PROVE  /\ Cardinality(PlacesIn(vs, g)) \in Nat /\ Occ(BlockVars(d), g) \in Nat
         /\ Owns(vs, d, g) = Cardinality(PlacesIn(vs, g)) + Occ(BlockVars(d), g)
         /\ Owns(vs, d, g) \in Nat
<1>1. Cardinality(PlacesIn(vs, g)) \in Nat
  BY PlacesFinite
<1>2. Occ(BlockVars(d), g) \in Nat
  BY BlockVarsAre, OccType
<1>3. Owns(vs, d, g) = Cardinality(PlacesIn(vs, g)) + Occ(BlockVars(d), g)
  BY DEF Owns
<1> QED
  BY <1>1, <1>2, <1>3

(* CountsMatch is what the invariant says.                                 *)
LEMMA CountedMatches == ASSUME Counted PROVE CountsMatch
<1>1. \A f : Owned(f) = Owns(vecs, domain, f)
  <2> SUFFICES ASSUME NEW f PROVE Owned(f) = Owns(vecs, domain, f)
    OBVIOUS
  <2>1. {n \in Blocks : domain[n].var = f} = {n \in DOMAIN BlockVars(domain) : BlockVars(domain)[n] = f}
    BY DEF Blocks, BlockVars
  <2> QED
    BY <2>1 DEF Owned, Owns, Occ
<1>2. ~ ledger.broken
  BY DEF Counted, Matches, IsLedger
<1>3. \A f : Pinned(f) \/ Count(f, ledger) = Owned(f)
  BY <1>1 DEF Counted, Matches
<1> QED
  BY <1>2, <1>3, Zenon DEF CountsMatch

(* A vector that comes with its references.                                *)
LEMMA GetsVector ==
  ASSUME NEW vs, NEW d \in Seq(BlockRecords), NEW m, Matches(vs, d, m),
         NEW v \in Vecs, NEW e, IsLedger(e),
         \A g : Pinned(g) \/ Count(g, e) = Count(g, m) + Occ(v, g)
  PROVE  Matches(Append(vs, v), d, e)
<1>1. vs \in Seq(Vecs) /\ \A g : Pinned(g) \/ Count(g, m) = Owns(vs, d, g)
  BY DEF Matches
<1>2. Append(vs, v) \in Seq(Vecs)
  BY <1>1
<1>3. ASSUME NEW g, ~ Pinned(g) PROVE Count(g, e) = Owns(Append(vs, v), d, g)
  <2>1. Count(g, e) = Owns(vs, d, g) + Occ(v, g)
    BY <1>1, <1>3
  <2>2. Cardinality(PlacesIn(Append(vs, v), g)) = Cardinality(PlacesIn(vs, g)) + Occ(v, g)
    BY <1>1, PlacesAppend
  <2>3. /\ Cardinality(PlacesIn(vs, g)) \in Nat /\ Occ(BlockVars(d), g) \in Nat
        /\ Owns(vs, d, g) = Cardinality(PlacesIn(vs, g)) + Occ(BlockVars(d), g)
    BY <1>1, OwnsAre
  <2>4. Owns(Append(vs, v), d, g) = Cardinality(PlacesIn(Append(vs, v), g)) + Occ(BlockVars(d), g)
    BY <1>2, OwnsAre
  <2>5. Occ(v, g) \in Nat
    BY OccType
  <2> QED
    BY <2>1, <2>2, <2>3, <2>4, <2>5
<1> QED
  BY <1>2, <1>3 DEF Matches

(* bvec_free.                                                              *)
LEMMA FreesVector ==
  ASSUME NEW vs, NEW d \in Seq(BlockRecords), NEW m, Matches(vs, d, m), NEW i \in DOMAIN vs
  PROVE  Matches(RemoveAt(vs, i), d, DelRefs(vs[i], m))
<1>1. vs \in Seq(Vecs) /\ IsLedger(m) /\ \A g : Pinned(g) \/ Count(g, m) = Owns(vs, d, g)
  BY DEF Matches
<1>2. PICK w : w = RemoveAt(vs, i)
  OBVIOUS
<1>3. PICK v \in Vecs : v = vs[i]
  BY <1>1
<1>4. /\ w \in Seq(Vecs)
      /\ \A g : Cardinality(PlacesIn(vs, g)) = Cardinality(PlacesIn(w, g)) + Occ(v, g)
  BY <1>1, <1>2, <1>3, PlacesRemove
<1>5. ASSUME NEW g, ~ Pinned(g)
      PROVE  Count(g, m) = Owns(w, d, g) + Occ(v, g) /\ Owns(w, d, g) \in Nat /\ Occ(v, g) \in Nat
  <2>1. /\ Cardinality(PlacesIn(w, g)) \in Nat /\ Occ(BlockVars(d), g) \in Nat
        /\ Owns(w, d, g) = Cardinality(PlacesIn(w, g)) + Occ(BlockVars(d), g)
    BY <1>4, OwnsAre
  <2>2. Owns(vs, d, g) = Cardinality(PlacesIn(vs, g)) + Occ(BlockVars(d), g)
    BY <1>1, OwnsAre
  <2>3. Occ(v, g) \in Nat
    BY OccType
  <2>4. Count(g, m) = Owns(vs, d, g) /\ Cardinality(PlacesIn(vs, g)) = Cardinality(PlacesIn(w, g)) + Occ(v, g)
    BY <1>1, <1>4, <1>5
  <2> QED
    BY <2>1, <2>2, <2>3, <2>4
<1>6. PICK e : e = DelRefs(v, m)
  OBVIOUS
<1>7. IsLedger(e) /\ \A g : Pinned(g) \/ Count(g, e) = Count(g, m) - Occ(v, g)
  <2>1. ASSUME NEW g, ~ Pinned(g) PROVE Occ(v, g) <= Count(g, m)
    BY <1>5, <2>1
  <2>2. Len(v) \in Nat /\ DOMAIN v = 1..Len(v)
    BY VecType
  <2> QED
    BY <1>1, <1>6, <2>1, <2>2, DelRefsCount
<1>8. ASSUME NEW g, ~ Pinned(g) PROVE Count(g, e) = Owns(w, d, g)
  <2>1. Count(g, e) = Count(g, m) - Occ(v, g)
    BY <1>7, <1>8
  <2> QED
    BY <1>5, <1>8, <2>1
<1>9. Matches(w, d, e)
  BY <1>4, <1>7, <1>8 DEF Matches
<1> QED
  BY <1>2, <1>3, <1>6, <1>9

(* Blocks more, with a reference for each one.                             *)
LEMMA GetsBlocks ==
  ASSUME NEW vs, NEW d \in Seq(BlockRecords), NEW m, Matches(vs, d, m), NEW new \in Seq(BlockRecords)
  PROVE  Matches(vs, d \o new, AddRefs(BlockVars(new), m))
<1>1. vs \in Seq(Vecs) /\ IsLedger(m) /\ \A g : Pinned(g) \/ Count(g, m) = Owns(vs, d, g)
  BY DEF Matches
<1>2. PICK w \in Vecs : w = BlockVars(new) /\ DOMAIN w = 1..Len(new)
  BY BlockVarsAre
<1>3. PICK v \in Vecs : v = BlockVars(d)
  BY BlockVarsAre
<1>4. PICK both : both = d \o new
  OBVIOUS
<1>5. both \in Seq(BlockRecords)
  BY <1>4
<1>6. BlockVars(both) = v \o w
  <2>1. PICK n \in Nat : n = Len(d) /\ DOMAIN d = 1..n
    OBVIOUS
  <2>2. PICK k \in Nat : k = Len(new) /\ DOMAIN new = 1..k
    OBVIOUS
  <2>3. Len(v) = n /\ Len(w) = k /\ v \in Seq(Diagrams) /\ w \in Seq(Diagrams)
    BY <1>2, <1>3, <2>1, <2>2, BlockVarsAre DEF Vecs
  <2>4. /\ v \o w \in Seq(Diagrams) /\ Len(v \o w) = n + k
        /\ \A i \in 1..(n + k) : (v \o w)[i] = IF i <= n THEN v[i] ELSE w[i - n]
    BY <2>3, ConcatProperties
  <2>5. Len(both) = n + k /\ \A i \in 1..(n + k) : both[i] = IF i <= n THEN d[i] ELSE new[i - n]
    BY <1>4, <2>1, <2>2, ConcatProperties
  <2>6. PICK b \in Vecs : b = BlockVars(both) /\ Len(b) = n + k
    BY <1>5, <2>5, BlockVarsAre
  <2>7. ASSUME NEW i \in 1..(n + k) PROVE b[i] = (v \o w)[i]
    <3>1. b[i] = both[i].var
      <4>1. DOMAIN both = 1..(n + k)
        BY <1>5, <2>5
      <4> QED
        BY <2>6, <4>1 DEF BlockVars
    <3>2. CASE i <= n
      <4>1. i \in 1..n
        BY <3>2
      <4>2. v[i] = d[i].var
        BY <1>3, <2>1, <4>1 DEF BlockVars
      <4> QED
        BY <2>4, <2>5, <3>1, <3>2, <4>2
    <3>3. CASE ~ (i <= n)
      <4>1. i - n \in 1..k
        BY <3>3
      <4>2. w[i - n] = new[i - n].var
        BY <1>2, <2>2, <4>1 DEF BlockVars
      <4> QED
        BY <2>4, <2>5, <3>1, <3>3, <4>2
    <3> QED
      BY <3>2, <3>3
  <2>8. b \in Seq(Diagrams) /\ Len(b) = n + k
    BY <2>6 DEF Vecs
  <2>9. b = v \o w
    BY <2>4, <2>7, <2>8, SeqEqual
  <2> QED
    BY <2>6, <2>9
<1>7. PICK e : e = AddRefs(w, m)
  OBVIOUS
<1>8. IsLedger(e) /\ \A g : Pinned(g) \/ Count(g, e) = Count(g, m) + Occ(w, g)
  <2>1. Len(new) \in Nat
    OBVIOUS
  <2> QED
    BY <1>1, <1>2, <1>7, <2>1, AddRefsCount
<1>9. ASSUME NEW g, ~ Pinned(g) PROVE Count(g, e) = Owns(vs, both, g)
  <2>1. Count(g, e) = Owns(vs, d, g) + Occ(w, g)
    BY <1>1, <1>8, <1>9
  <2>2. Occ(BlockVars(both), g) = Occ(v, g) + Occ(w, g)
    BY <1>6, OccConcat
  <2>3. /\ Cardinality(PlacesIn(vs, g)) \in Nat /\ Occ(v, g) \in Nat
        /\ Owns(vs, d, g) = Cardinality(PlacesIn(vs, g)) + Occ(v, g)
    BY <1>1, <1>3, OwnsAre
  <2>4. Owns(vs, both, g) = Cardinality(PlacesIn(vs, g)) + Occ(BlockVars(both), g)
    BY <1>1, <1>5, OwnsAre
  <2>5. Occ(w, g) \in Nat
    BY OccType
  <2> QED
    BY <2>1, <2>2, <2>3, <2>4, <2>5
<1>10. Matches(vs, both, e)
  BY <1>1, <1>8, <1>9 DEF Matches
<1> QED
  BY <1>2, <1>4, <1>7, <1>10

(* No block any more.                                                      *)
LEMMA ClearsBlocks ==
  ASSUME NEW vs, NEW d \in Seq(BlockRecords), NEW m, Matches(vs, d, m)
  PROVE  Matches(vs, << >>, DelRefs(BlockVars(d), m))
<1>1. vs \in Seq(Vecs) /\ IsLedger(m) /\ \A g : Pinned(g) \/ Count(g, m) = Owns(vs, d, g)
  BY DEF Matches
<1>2. PICK v \in Vecs : v = BlockVars(d) /\ DOMAIN v = 1..Len(d)
  BY BlockVarsAre
<1>3. PICK e : e = DelRefs(v, m)
  OBVIOUS
<1>4. ASSUME NEW g, ~ Pinned(g)
      PROVE  /\ Count(g, m) = Cardinality(PlacesIn(vs, g)) + Occ(v, g)
             /\ Cardinality(PlacesIn(vs, g)) \in Nat /\ Occ(v, g) \in Nat
  <2>1. Count(g, m) = Owns(vs, d, g)
    BY <1>1, <1>4
  <2> QED
    BY <1>1, <1>2, <2>1, OwnsAre
<1>5. IsLedger(e) /\ \A g : Pinned(g) \/ Count(g, e) = Count(g, m) - Occ(v, g)
  <2>1. ASSUME NEW g, ~ Pinned(g) PROVE Occ(v, g) <= Count(g, m)
    BY <1>4, <2>1
  <2>2. Len(d) \in Nat
    OBVIOUS
  <2> QED
    BY <1>1, <1>2, <1>3, <2>1, <2>2, DelRefsCount
<1>6. ASSUME NEW g, ~ Pinned(g) PROVE Count(g, e) = Owns(vs, << >>, g)
  <2>1. Count(g, e) = Count(g, m) - Occ(v, g)
    BY <1>5, <1>6
  <2>2. BlockVars(<< >>) = << >>
    BY DEF BlockVars
  <2>3. Occ(BlockVars(<< >>), g) = 0
    BY <2>2, EmptyIs
  <2>4. Owns(vs, << >>, g) = Cardinality(PlacesIn(vs, g)) + Occ(BlockVars(<< >>), g)
    BY DEF Owns
  <2> QED
    BY <1>4, <1>6, <2>1, <2>3, <2>4
<1>7. Matches(vs, << >>, e)
  BY <1>1, <1>5, <1>6 DEF Matches
<1> QED
  BY <1>2, <1>3, <1>7

-----------------------------------------------------------------------------
(* The start.                                                              *)

(* Before any reference.                                                   *)
LEMMA NoReferencesAre == IsLedger(NoReferences) /\ \A f : Count(f, NoReferences) = 0
<1>1. DOMAIN NoReferences.count = {}
  BY DEF NoReferences, EmptyBag, SetToBag
<1>2. NoReferences.count = [f \in {} |-> NoReferences.count[f]]
  BY DEF NoReferences, EmptyBag, SetToBag
<1>3. NoReferences = [count |-> NoReferences.count, broken |-> NoReferences.broken] /\ ~ NoReferences.broken
  BY DEF NoReferences
<1>4. IsLedger(NoReferences)
  BY <1>1, <1>2, <1>3 DEF IsLedger
<1> QED
  BY <1>1, <1>4 DEF Count

LEMMA StartFold ==
  ASSUME NEW s, NEW base
  PROVE  FoldLeft(LAMBDA m, v : AddRefs(v, m), base, s) = Folding("start", s, s, base)
  BY DEF Folding, Turn, FoldLeft, MapThenFoldSet

(* A program that has nothing yet.                                         *)
LEMMA NothingMatches == Matches(<< >>, << >>, NoReferences)
<1>1. << >> \in Seq(Vecs)
  OBVIOUS
<1>2. << >> \in Seq(BlockRecords)
  OBVIOUS
<1>3. ASSUME NEW g PROVE Owns(<< >>, << >>, g) = 0
  <2>1. PICK S : S = PlacesIn(<< >>, g)
    OBVIOUS
  <2>2. S = {}
    BY <2>1 DEF PlacesIn
  <2>3. Cardinality(S) = 0
    BY <2>2, FS_EmptySet
  <2>4. Occ(BlockVars(<< >>), g) = 0
    <3>1. BlockVars(<< >>) = << >>
      BY DEF BlockVars
    <3> QED
      BY <3>1, EmptyIs
  <2> QED
    BY <2>1, <2>3, <2>4 DEF Owns
<1> QED
  BY <1>1, <1>3, NoReferencesAre DEF Matches

(* The vectors it starts with are referenced one by one.                   *)
LEMMA StartMatches ==
  ASSUME NEW s \in Seq(Vecs)
  PROVE  Matches(s, << >>, FoldLeft(LAMBDA m, v : AddRefs(v, m), NoReferences, s))
<1>1. PICK n \in Nat : n = Len(s) /\ DOMAIN s = 1..n
  OBVIOUS
<1>2. PICK t : InTurn("start", s, s, NoReferences, t, n) /\ Folding("start", s, s, NoReferences) = t[n]
  BY <1>1, Unrolled
<1>3. t[0] = NoReferences /\ \A k \in 1..n : t[k] = AddRefs(s[k], t[k - 1])
  BY <1>2, RefTurns DEF InTurn
<1> DEFINE Good(k) == Matches(SubSeq(s, 1, k), << >>, t[k])
           P == {k \in 0..n : Good(k)}
<1>4. 0 \in P
  <2>1. SubSeq(s, 1, 0) = << >>
    OBVIOUS
  <2>2. Good(0)
    BY <1>3, <2>1, NothingMatches
  <2>3. 0 \in 0..n
    OBVIOUS
  <2> HIDE DEF Good
  <2> QED
    BY <2>2, <2>3
<1>5. ASSUME NEW h \in 0..(n - 1), h \in P PROVE h + 1 \in P
  <2>1. PICK k \in 1..n : k = h + 1 /\ k - 1 = h
    OBVIOUS
  <2>2. PICK v \in Vecs : v = s[k]
    BY <1>1, <2>1
  <2>3. PICK m : m = t[h]
    OBVIOUS
  <2>4. PICK vs : vs = SubSeq(s, 1, h)
    OBVIOUS
  <2>5. SubSeq(s, 1, k) = Append(vs, v)
    BY <1>1, <2>1, <2>2, <2>4
  <2>6. Matches(vs, << >>, m)
    BY <1>5, <2>3, <2>4
  <2>7. t[k] = AddRefs(v, m)
    BY <1>3, <2>1, <2>2, <2>3
  <2>8. Len(v) \in Nat /\ DOMAIN v = 1..Len(v)
    BY VecType
  <2>9. IsLedger(t[k]) /\ \A g : Pinned(g) \/ Count(g, t[k]) = Count(g, m) + Occ(v, g)
    BY <2>6, <2>7, <2>8, AddRefsCount DEF Matches
  <2>10. << >> \in Seq(BlockRecords)
    OBVIOUS
  <2>11. Good(k)
    BY <2>5, <2>6, <2>9, <2>10, GetsVector
  <2>12. k \in 0..n
    OBVIOUS
  <2> HIDE DEF Good
  <2> QED
    BY <2>1, <2>11, <2>12
<1>6. n \in P
  <2>1. P \in SUBSET (0..n)
    OBVIOUS
  <2>2. n \in 0..n
    OBVIOUS
  <2> HIDE DEF P
  <2>3. P = 0..n
    BY <1>4, <1>5, <2>1, UpTo
  <2> QED
    BY <2>2, <2>3
<1>7. SubSeq(s, 1, n) = s
  BY <1>1
<1> QED
  BY <1>2, <1>6, <1>7, StartFold

-----------------------------------------------------------------------------
(* Steps.                                                                  *)

Balancing == {"add", "sub", "not", "xor", "mapite", "mul", "coerce", "shlfixed", "shrfixed", "copy", "ite"}

(* The operations whose references balance.                                *)
LEMMA BalancingAre ==
  ASSUME NEW op \in VectorOperations \ Comparisons, op \notin Unbalanced
  PROVE  op \in Balancing
  BY DEF VectorOperations, Comparisons, WithVector, WithNumber, WithFill, Symbolic, Unbalanced, Balancing

(* What they are called with.                                              *)
LEMMA CallType ==
  ASSUME program \in Programs, vecs \in Seq(Vecs), NEW op \in Balancing, NEW c \in Calls(op)
  PROVE  /\ c.op = op /\ c.l \in Vecs /\ c.k \in Nat /\ c.c \in Diagrams
         /\ op \in WithVector \cup {"ite"} => c.r \in Vecs
<1>1. /\ c.op = op /\ c.l \in ToSet(vecs) /\ c.r \in Paired(op) /\ c.k \in Numbered(op)
      /\ c.c \in Filled(op)
  BY DEF Calls
<1>2. ToSet(vecs) \subseteq Vecs
  BY DEF ToSet
<1>3. program.fills \subseteq Diagrams /\ program.numbers \subseteq Nat
  BY ProgramsAssumption DEF IsProgram, Diagrams
<1>4. Zero \in Diagrams
  BY DEF Zero, Diagrams
<1>5. c.k \in Nat
  BY <1>1, <1>3 DEF Numbered
<1>6. c.c \in Diagrams
  BY <1>1, <1>3, <1>4 DEF Filled
<1>7. op \in WithVector \cup {"ite"} => c.r \in Vecs
  BY <1>1, <1>2 DEF Paired
<1> QED
  BY <1>1, <1>2, <1>5, <1>6, <1>7

(* What they return.                                                       *)
LEMMA AnswerBalanced ==
  ASSUME program \in Programs, vecs \in Seq(Vecs), NEW op \in Balancing, NEW c \in Calls(op),
         NEW m, IsLedger(m)
  PROVE  Balanced(Answer(c, m), m)
<1>1. /\ c.op = op /\ c.l \in Vecs /\ c.k \in Nat /\ c.c \in Diagrams
      /\ op \in WithVector \cup {"ite"} => c.r \in Vecs
  BY CallType
<1>2. CASE op = "add"
  <2>1. Answer(c, m) = Add(c.l, c.r, m) /\ c.r \in Vecs
    BY <1>1, <1>2 DEF Answer, WithVector
  <2> QED
    BY <1>1, <2>1, AddBalanced
<1>3. CASE op = "sub"
  <2>1. Answer(c, m) = Sub(c.l, c.r, m) /\ c.r \in Vecs
    BY <1>1, <1>3 DEF Answer, WithVector
  <2> QED
    BY <1>1, <2>1, SubBalanced
<1>4. CASE op = "not"
  <2>1. Answer(c, m) = Map1Not(c.l, m)
    BY <1>1, <1>4 DEF Answer
  <2> QED
    BY <1>1, <2>1, NotBalanced
<1>5. CASE op = "xor"
  <2>1. Answer(c, m) = Map2Xor(c.l, c.r, m) /\ c.r \in Vecs
    BY <1>1, <1>5 DEF Answer, WithVector
  <2> QED
    BY <1>1, <2>1, XorBalanced
<1>6. CASE op = "mapite"
  <2>1. Answer(c, m) = Map3Ite(c.l, c.r, c.l, m) /\ c.r \in Vecs
    BY <1>1, <1>6 DEF Answer, WithVector
  <2> QED
    BY <1>1, <2>1, MapIteBalanced
<1>7. CASE op = "mul"
  <2>1. Answer(c, m) = Mul(c.l, c.r, m) /\ c.r \in Vecs
    BY <1>1, <1>7 DEF Answer, WithVector
  <2> QED
    BY <1>1, <2>1, MulBalanced
<1>8. CASE op = "coerce"
  <2>1. Answer(c, m) = Coerce(c.k, c.l, m)
    BY <1>1, <1>8 DEF Answer
  <2> QED
    BY <1>1, <2>1, CoerceBalanced
<1>9. CASE op = "shlfixed"
  <2>1. Answer(c, m) = ShlFixed(c.l, c.k, c.c, m)
    BY <1>1, <1>9 DEF Answer
  <2> QED
    BY <1>1, <2>1, ShiftsBalanced
<1>10. CASE op = "shrfixed"
  <2>1. Answer(c, m) = ShrFixed(c.l, c.k, c.c, m)
    BY <1>1, <1>10 DEF Answer
  <2> QED
    BY <1>1, <2>1, ShiftsBalanced
<1>11. CASE op = "copy"
  <2>1. Answer(c, m) = Copy(c.l, m)
    BY <1>1, <1>11 DEF Answer
  <2> QED
    BY <1>1, <2>1, CopyBalanced
<1>12. CASE op = "ite"
  <2>1. Answer(c, m) = VecIte(c.c, c.l, c.r, m) /\ c.r \in Vecs
    BY <1>1, <1>12 DEF Answer
  <2> QED
    BY <1>1, <2>1, IteBalanced
<1> QED
  BY <1>2, <1>3, <1>4, <1>5, <1>6, <1>7, <1>8, <1>9, <1>10, <1>11, <1>12 DEF Balancing

(* The call of one of them.                                                *)
LEMMA CallCounts ==
  ASSUME VectorsInv, Counted, NEW op, op \notin Unbalanced, Call(op)
  PROVE  Counted'
<1>1. program \in Programs /\ domain \in Seq(BlockRecords)
  BY DEF VectorsInv, BlocksInv, TableFits
<1>2. vecs \in Seq(Vecs) /\ IsLedger(ledger) /\ Matches(vecs, domain, ledger)
  BY DEF Counted, Matches
<1>3. op \in Balancing
  BY BalancingAre DEF Call
<1>4. PICK c \in Calls(op) : \E a : a = Answer(c, ledger) /\ vecs' = vecs \o Given(c, a) /\ ledger' = a.m
  BY DEF Call
<1>5. PICK a : a = Answer(c, ledger) /\ vecs' = vecs \o Given(c, a) /\ ledger' = a.m
  BY <1>4
<1>6. Balanced(a, ledger)
  BY <1>1, <1>2, <1>3, <1>5, AnswerBalanced
<1>7. c.op = op
  BY <1>4 DEF Calls
<1>8. Given(c, a) = <<a.vec>>
  BY <1>3, <1>7 DEF Given, Balancing
<1>9. PICK v \in Vecs : v = a.vec
  BY <1>6 DEF Balanced
<1>10. vecs' = Append(vecs, v)
  BY <1>2, <1>5, <1>8, <1>9
<1>11. IsLedger(ledger') /\ \A g : Pinned(g) \/ Count(g, ledger') = Count(g, ledger) + Occ(v, g)
  BY <1>5, <1>6, <1>9 DEF Balanced
<1>12. domain' = domain
  BY DEF Call
<1>13. Matches(vecs', domain', ledger')
  BY <1>1, <1>2, <1>10, <1>11, <1>12, GetsVector
<1> QED
  BY <1>13 DEF Counted

(* bvec_free gives back what the program owned of the vector.              *)
LEMMA FreeCounts == ASSUME VectorsInv, Counted, Free PROVE Counted'
<1>1. domain \in Seq(BlockRecords) /\ Matches(vecs, domain, ledger)
  BY DEF VectorsInv, BlocksInv, TableFits, Counted
<1>2. PICK i \in DOMAIN vecs : ledger' = DelRefs(vecs[i], ledger) /\ vecs' = RemoveAt(vecs, i)
  BY DEF Free
<1>3. domain' = domain
  BY DEF Free
<1>4. Matches(vecs', domain', ledger')
  BY <1>1, <1>2, <1>3, FreesVector
<1> QED
  BY <1>4 DEF Counted

(* The new blocks of fdd_extdomain are blocks.                             *)
LEMMA NewBlocks ==
  ASSUME NEW dom \in Sizes, NEW m \in Nat, firstbddvar \in Nat
  PROVE  [n \in DOMAIN dom |-> Block(dom[n], Interleaved(dom, n), {m + n}, m + 1)] \in Seq(BlockRecords)
<1>1. PICK l \in Nat : l = Len(dom) /\ DOMAIN dom = 1..l
  BY DEF Sizes
<1>2. PICK new : new = [n \in DOMAIN dom |-> Block(dom[n], Interleaved(dom, n), {m + n}, m + 1)]
  OBVIOUS
<1>3. ASSUME NEW n \in 1..l PROVE new[n] \in BlockRecords
  <2>1. dom[n] \in Nat \ {0}
    BY <1>1 DEF Sizes
  <2>2. PICK ivar \in Seq(Nat) : ivar = Interleaved(dom, n)
    BY <1>1, NewVariables
  <2>3. new[n] = [realsize |-> dom[n], ivar |-> ivar, var |-> Cube(ivar), parts |-> {m + n},
                  call |-> m + 1]
    BY <1>1, <1>2, <2>2 DEF Block
  <2> QED
    BY <2>1, <2>2, <2>3, CubeType DEF BlockRecords
<1>4. new = [n \in 1..l |-> new[n]]
  BY <1>1, <1>2
<1>5. new \in Seq(BlockRecords)
  BY <1>3, <1>4
<1> QED
  BY <1>2, <1>5

(* fdd_extdomain references what it defines.                               *)
LEMMA DefineCounts == ASSUME VectorsInv, Counted, DefineBlocks PROVE Counted'
<1>1. /\ program \in Programs /\ domain \in Seq(BlockRecords) /\ firstbddvar \in Nat
      /\ Matches(vecs, domain, ledger)
  BY DEF VectorsInv, BlocksInv, TableFits, Counted
<1>2. PICK dom \in program.doms : ExtDomain(dom)
  BY DEF DefineBlocks
<1>3. dom \in Sizes
  BY <1>1, <1>2, ProgramsAssumption DEF IsProgram, Sizes
<1>4. PICK m \in Nat : m = Len(domain)
  BY <1>1
<1>5. PICK new : /\ new = [n \in DOMAIN dom |-> Block(dom[n], Interleaved(dom, n), {m + n}, m + 1)]
                 /\ domain' = domain \o new
                 /\ ledger' = AddRefs([n \in DOMAIN new |-> new[n].var], ledger)
  BY <1>2, <1>4 DEF ExtDomain
<1>6. new \in Seq(BlockRecords)
  BY <1>1, <1>3, <1>5, NewBlocks
<1>7. ledger' = AddRefs(BlockVars(new), ledger)
  BY <1>5 DEF BlockVars
<1>8. vecs' = vecs
  BY DEF DefineBlocks
<1>9. Matches(vecs', domain', ledger')
  BY <1>1, <1>5, <1>6, <1>7, <1>8, GetsBlocks
<1> QED
  BY <1>9 DEF Counted

(* Sequences of one element.                                               *)
LEMMA OneElement ==
  ASSUME NEW S, NEW d \in Seq(S), NEW b \in S
  PROVE  \E new \in Seq(S) : /\ DOMAIN new = 1..1 /\ Len(new) = 1 /\ new[1] = b
                            /\ Append(d, b) = d \o new
<1>1. PICK new : new = [i \in 1..1 |-> b]
  OBVIOUS
<1>2. new \in Seq(S) /\ DOMAIN new = 1..1 /\ Len(new) = 1 /\ new[1] = b
  BY <1>1
<1>3. PICK n \in Nat : n = Len(d) /\ DOMAIN d = 1..n
  OBVIOUS
<1>4. /\ d \o new \in Seq(S) /\ Len(d \o new) = n + 1
      /\ \A i \in 1..(n + 1) : (d \o new)[i] = IF i <= n THEN d[i] ELSE new[i - n]
  BY <1>2, <1>3, ConcatProperties
<1>5. Append(d, b) \in Seq(S) /\ Len(Append(d, b)) = n + 1
  BY <1>3
<1>6. ASSUME NEW i \in 1..(n + 1) PROVE Append(d, b)[i] = (d \o new)[i]
  <2>1. CASE i <= n
    BY <1>3, <1>4, <2>1
  <2>2. CASE ~ (i <= n)
    <3>1. i = n + 1 /\ i - n = 1
      BY <2>2
    <3> QED
      BY <1>2, <1>3, <1>4, <2>2, <3>1
  <2> QED
    BY <2>1, <2>2
<1>7. Append(d, b) = d \o new
  BY <1>4, <1>5, <1>6, SeqEqual
<1> QED
  BY <1>2, <1>7

(* A vector of one reference.                                              *)
LEMMA AddRefsOne == ASSUME NEW m, NEW v, DOMAIN v = 1..1 PROVE AddRefs(v, m) = AddRef(v[1], m)
<1>1. PICK t : InTurn("take", v, v, m, t, 1) /\ AddRefs(v, m) = t[1]
  <2>1. PICK n \in Nat : n = 1
    OBVIOUS
  <2>2. PICK t : InTurn("take", v, v, m, t, n) /\ Folding("take", v, v, m) = t[n]
    BY <2>1, Unrolled
  <2> QED
    BY <2>1, <2>2, AddRefsFold
<1>2. 1 \in 1..1 /\ 1 - 1 = 0
  OBVIOUS
<1> QED
  BY <1>1, <1>2, RefTurns DEF InTurn

(* So does fdd_overlapdomain.                                              *)
LEMMA OverlapCounts == ASSUME VectorsInv, Counted, Overlap PROVE Counted'
<1>1. domain \in Seq(BlockRecords) /\ Matches(vecs, domain, ledger)
  BY DEF VectorsInv, BlocksInv, TableFits, Counted
<1>2. PICK v1 \in Blocks, v2 \in Blocks : OverlapDomain(v1, v2)
  BY DEF Overlap
<1>3. PICK b : /\ b = Block(domain[v1].realsize * domain[v2].realsize, domain[v1].ivar \o domain[v2].ivar,
                            domain[v1].parts \cup domain[v2].parts, Len(domain) + 1)
               /\ domain' = Append(domain, b)
               /\ ledger' = AddRef(b.var, ledger)
  BY <1>2 DEF OverlapDomain
<1>4. domain' \in Seq(BlockRecords)
  <2>1. BlocksInv'
    BY OverlapKeeps DEF Overlap, VectorsInv
  <2> QED
    BY <2>1 DEF BlocksInv, TableFits
<1>5. b \in BlockRecords
  <2>1. PICK n \in Nat : n = Len(domain')
    BY <1>4
  <2>2. Len(domain) + 1 = n /\ domain'[n] = b /\ n \in 1..Len(domain')
    BY <1>1, <1>3, <2>1
  <2> QED
    BY <1>4, <2>2
<1>6. PICK new \in Seq(BlockRecords) : /\ DOMAIN new = 1..1 /\ Len(new) = 1 /\ new[1] = b
                                       /\ Append(domain, b) = domain \o new
  <2>1. domain \in Seq(BlockRecords)
    BY <1>1
  <2> HIDE <1>1, <1>4
  <2> QED
    BY <1>5, <2>1, OneElement, Zenon
<1>7. domain' = domain \o new
  BY <1>3, <1>6
<1>8. PICK w : w = BlockVars(new)
  OBVIOUS
<1>9. DOMAIN w = 1..1 /\ w[1] = b.var
  BY <1>6, <1>8 DEF BlockVars
<1>10. ledger' = AddRefs(w, ledger)
  BY <1>3, <1>9, AddRefsOne
<1>11. vecs' = vecs
  BY DEF Overlap
<1>12. Matches(vecs', domain', ledger')
  BY <1>1, <1>6, <1>7, <1>8, <1>10, <1>11, GetsBlocks
<1> QED
  BY <1>12 DEF Counted

(* fdd_clearall gives all of them back.                                    *)
LEMMA ClearCounts == ASSUME VectorsInv, Counted, Clear PROVE Counted'
<1>1. domain \in Seq(BlockRecords) /\ Matches(vecs, domain, ledger)
  BY DEF VectorsInv, BlocksInv, TableFits, Counted
<1>2. ledger' = DelRefs([n \in Blocks |-> domain[n].var], ledger) /\ domain' = << >> /\ vecs' = vecs
  BY DEF Clear, ClearAll
<1>3. ledger' = DelRefs(BlockVars(domain), ledger)
  BY <1>2 DEF BlockVars, Blocks
<1>4. Matches(vecs', domain', ledger')
  BY <1>1, <1>2, <1>3, ClearsBlocks
<1> QED
  BY <1>4 DEF Counted

(* The variables of bvec_varfdd have no count.                             *)
LEMMA VarFddCounts == ASSUME VectorsInv, firstbddvar <= MaxVars, Counted, VarFdd PROVE Counted'
<1>1. /\ domain \in Seq(BlockRecords) /\ firstbddvar \in Nat
      /\ Matches(vecs, domain, ledger) /\ Handed
  BY DEF VectorsInv, BlocksInv, TableFits, Counted
<1>2. PICK n \in Blocks : vecs' = Append(vecs, [i \in DOMAIN domain[n].ivar |-> Ithvar(domain[n].ivar[i])])
  BY DEF VarFdd
<1>3. domain' = domain /\ ledger' = ledger
  BY DEF VarFdd, fddVars
<1>4. PICK ivar \in Seq(Nat) : ivar = domain[n].ivar
  <2>1. domain[n] \in BlockRecords
    BY <1>1 DEF Blocks
  <2> QED
    BY <2>1 DEF BlockRecords
<1>5. PICK h \in Nat : h = Len(ivar) /\ DOMAIN ivar = 1..h
  OBVIOUS
<1>6. ASSUME NEW i \in 1..h PROVE ivar[i] \in Vars
  <2>1. ivar[i] \in ToSet(ivar)
    BY <1>5 DEF ToSet
  <2>2. ivar[i] \in 0..(firstbddvar - 1)
    BY <1>1, <1>4, <2>1 DEF Handed, VarsAt
  <2>3. MaxVars \in Nat
    BY MaxVarsAssumption
  <2> QED
    BY <1>1, <2>2, <2>3 DEF Vars
<1>7. PICK v : v = [i \in 1..h |-> Ithvar(ivar[i])]
  OBVIOUS
<1>8. \A i \in 1..h : v[i] \in Diagrams /\ Pinned(v[i])
  <2> SUFFICES ASSUME NEW i \in 1..h PROVE v[i] \in Diagrams /\ Pinned(v[i])
    OBVIOUS
  <2>1. v[i] = Ithvar(ivar[i]) /\ ivar[i] \in Vars
    BY <1>6, <1>7
  <2>2. Ithvar(ivar[i]) \in Diagrams
    BY DEF Ithvar, Diagrams
  <2>3. \E x \in Vars : v[i] \in {Ithvar(x), Nithvar(x)}
    BY <2>1
  <2> QED
    BY <2>1, <2>2, <2>3 DEF Pinned
<1>9. v = [i \in 1..h |-> v[i]] /\ DOMAIN v = 1..h
  BY <1>7
<1>10. v \in Vecs
  BY <1>8, <1>9, VecOf
<1>11. ASSUME NEW g, ~ Pinned(g) PROVE Count(g, ledger') = Count(g, ledger) + Occ(v, g)
  <2>1. \A i \in 1..h : v[i] # g
    BY <1>8, <1>11
  <2>2. Occ(v, g) = 0
    BY <1>9, <2>1, OccNone
  <2>3. Count(g, ledger) \in Nat
    BY <1>1, CountIs DEF Matches
  <2> QED
    BY <1>3, <2>2, <2>3
<1>12. vecs' = Append(vecs, v)
  BY <1>2, <1>4, <1>5, <1>7
<1>13. IsLedger(ledger')
  BY <1>1, <1>3 DEF Matches
<1>14. Matches(vecs', domain', ledger')
  BY <1>1, <1>3, <1>10, <1>11, <1>12, <1>13, GetsVector
<1> QED
  BY <1>14 DEF Counted

(* Nothing happens to what is counted.                                     *)
LEMMA CountsKept == ASSUME Counted, UNCHANGED <<vecs, domain, ledger>> PROVE Counted'
  BY DEF Counted

-----------------------------------------------------------------------------
(* The invariant.                                                          *)
CountsInv == VectorsInv /\ firstbddvar <= MaxVars /\ (loose \/ Counted)

LEMMA CountsInvInit == Init => CountsInv
<1> SUFFICES ASSUME Init PROVE firstbddvar <= MaxVars /\ Counted
  BY VectorsInvInit, Zenon DEF CountsInv
<1>1. firstbddvar <= MaxVars
  <2>1. firstbddvar = 0
    BY DEF Init
  <2> QED
    BY <2>1, MaxVarsAssumption
<1>2. program.start \in Seq(Vecs)
  BY ProgramsAssumption DEF Init, IsProgram, Vecs, Diagrams
<1>3. Matches(program.start, << >>, FoldLeft(LAMBDA m, v : AddRefs(v, m), NoReferences, program.start))
  BY <1>2, StartMatches
<1>4. Matches(vecs, domain, ledger)
  BY <1>3 DEF Init
<1> QED
  BY <1>1, <1>4 DEF Counted

(* The variables the blocks have are variables of the kernel.              *)
LEMMA HandedFit == ASSUME VectorsInv, firstbddvar <= MaxVars, [Next]_vars PROVE firstbddvar' <= MaxVars
<1>1. CASE firstbddvar' = firstbddvar
  BY <1>1
<1>2. CASE DefineBlocks
  BY <1>2 DEF DefineBlocks, ExtDomain
<1>3. CASE Clear
  BY <1>3, MaxVarsAssumption DEF Clear, ClearAll
<1> QED
  BY <1>1, <1>2, <1>3 DEF Next, Call, CallComparison, Free, Overlap, OverlapDomain, VarFdd, AskDomain, AddVarBlock,
                          Exchange, vars, fddVars

(* Every step keeps the counts right, or does not balance.                 *)
LEMMA CountsStep == ASSUME VectorsInv, firstbddvar <= MaxVars, Counted, [Next]_vars PROVE loose' \/ Counted'
<1>1. ASSUME NEW op, Call(op) PROVE loose' \/ Counted'
  <2>1. CASE op \in Unbalanced
    <3>1. loose' = (loose \/ op \in Unbalanced)
      BY <1>1, Zenon DEF Call
    <3> QED
      BY <2>1, <3>1, Zenon
  <2>2. CASE op \notin Unbalanced
    BY <1>1, <2>2, CallCounts
  <2> QED
    BY <2>1, <2>2
<1>2. ASSUME NEW op, CallComparison(op) PROVE Counted'
  BY <1>2, CountsKept DEF CallComparison, fddVars
<1>3. CASE Exchange
  BY <1>3, CountsKept DEF Exchange
<1>4. CASE AskDomain \/ AddVarBlock
  <2>1. loose' = TRUE
    BY <1>4, Zenon DEF AskDomain, AddVarBlock
  <2> QED
    BY <2>1, Zenon
<1>5. CASE UNCHANGED vars
  BY <1>5, CountsKept DEF vars, fddVars
<1>6. (Free => Counted') /\ (DefineBlocks => Counted') /\ (Overlap => Counted')
  BY FreeCounts, DefineCounts, OverlapCounts
<1>7. (Clear => Counted') /\ (VarFdd => Counted')
  BY ClearCounts, VarFddCounts
<1> QED
  BY <1>1, <1>2, <1>3, <1>4, <1>5, <1>6, <1>7, Zenon DEF Next

(* A program that has called what does not balance has called it.          *)
LEMMA LooseStays == ASSUME loose, [Next]_vars PROVE loose'
<1>1. CASE loose' = loose
  BY <1>1, Zenon
<1>2. ASSUME NEW op, Call(op) PROVE loose'
  <2>1. loose' = (loose \/ op \in Unbalanced)
    BY <1>2, Zenon DEF Call
  <2> QED
    BY <2>1, Zenon
<1>3. CASE AskDomain \/ AddVarBlock
  <2>1. loose' = TRUE
    BY <1>3, Zenon DEF AskDomain, AddVarBlock
  <2> QED
    BY <2>1, Zenon
<1>4. ASSUME ~ (\E op \in program.ops : Call(op)), ~ AskDomain, ~ AddVarBlock PROVE loose' = loose
  BY <1>4 DEF Next, CallComparison, Free, DefineBlocks, Overlap, Clear, VarFdd, Exchange, vars, fddVars
<1> QED
  BY <1>1, <1>2, <1>3, <1>4, Zenon

LEMMA CountsInvStep == CountsInv /\ [Next]_vars => CountsInv'
<1> SUFFICES ASSUME CountsInv, [Next]_vars PROVE VectorsInv' /\ firstbddvar' <= MaxVars /\ (loose' \/ Counted')
  BY Zenon DEF CountsInv
<1>1. VectorsInv /\ firstbddvar <= MaxVars /\ (loose \/ Counted)
  BY Zenon DEF CountsInv
<1>2. VectorsInv'
  BY <1>1, VectorsInvStep, Zenon
<1>3. firstbddvar' <= MaxVars
  BY <1>1, HandedFit, Zenon
<1>4. loose' \/ Counted'
  BY <1>1, CountsStep, LooseStays, Zenon
<1> QED
  BY <1>2, <1>3, <1>4, Zenon

(* A node has one reference for every place it has in a vector of the      *)
(* program and every block it belongs to, and nothing is released that     *)
(* nobody holds: for every program that calls only what balances, whatever *)
(* its vectors and blocks and in whatever order it calls.                  *)
THEOREM CountsMatchHolds == Spec => []CountsMatch
<1>1. CountsInv => CountsMatch
  BY CountedMatches, Zenon DEF CountsInv, CountsMatch
<1> QED
  BY <1>1, CountsInvInit, CountsInvStep, PTL DEF Spec
=============================================================================
