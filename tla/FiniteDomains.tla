--------------------------- MODULE FiniteDomains ----------------------------
(***************************************************************************)
(* src/src/fdd.c: blocks of variables that encode the numbers 0..size-1,   *)
(* the least significant bit first. The table of blocks is kept apart from *)
(* the variables of the kernel: it has its own idea of which variable is   *)
(* the next free one.                                                      *)
(***************************************************************************)
EXTENDS References

CONSTANT MaxBlocks   (* bound: the blocks a program defines                 *)

ASSUME MaxBlocksAssumption == MaxBlocks \in Nat

VARIABLES
  order,        (* bddlevel2var                                            *)
  domain,       (* the table of blocks                                     *)
  firstbddvar,
  ledger        (* the reference counts of all nodes                       *)

fddVars == <<order, domain, firstbddvar, ledger>>

Blocks    == DOMAIN domain
bddvarnum == Cardinality(DOMAIN order)

-----------------------------------------------------------------------------
(* Domain_allocate: the bits for a range, one at least.                    *)
BinSize(range) == Min({b \in 1..range : 2 ^ b >= range})

(* bdd_makeset.                                                            *)
Cube(ivar) == {s \in Assignments : ToSet(ivar) \subseteq s}

(* parts and call are history: the blocks it is made of, and the one that  *)
(* its call began with.                                                    *)
Block(size, ivar, parts, call) ==
  [realsize |-> size, ivar |-> ivar, var |-> Cube(ivar), parts |-> parts, call |-> call]

(* The bits of all new blocks, as bit and block, and how many variables    *)
(* that makes.                                                             *)
NewBits(dom)   == UNION {(0..(BinSize(dom[n]) - 1)) \X {n} : n \in DOMAIN dom}
ExtraVars(dom) == Cardinality(NewBits(dom))

BitsUpTo(dom, b, n) ==
  {p \in UNION {(0..BinSize(dom[k])) \X {k} : k \in DOMAIN dom} :
     p[1] < b \/ (p[1] = b /\ p[2] < n)}

(* The bits that get their variable before bit b of the n-th new block.    *)
BitsBefore(dom, b, n) == {p \in NewBits(dom) : p[1] < b \/ (p[1] = b /\ p[2] < n)}

(* Interleaved: the lowest bits of all new blocks come first.              *)
Interleaved(dom, n) ==
  [i \in 1..BinSize(dom[n]) |-> firstbddvar + Cardinality(BitsBefore(dom, i - 1, n))]

(* bdd_setvarnum, for more variables than there are.                       *)
GrownTo(n) == [l \in 0..(Max({n, bddvarnum}) - 1) |-> IF l \in DOMAIN order THEN order[l] ELSE l]

(* fdd_extdomain.                                                          *)
ExtDomain(dom) ==
  /\ Len(domain) + Len(dom) <= MaxBlocks
  /\ firstbddvar + ExtraVars(dom) <= MaxVars
  /\ \E new \in {[n \in DOMAIN dom |-> Block(dom[n], Interleaved(dom, n),
                                                {Len(domain) + n}, Len(domain) + 1)]} :
       /\ domain' = domain \o new
       /\ ledger' = AddRefs([n \in DOMAIN new |-> new[n].var], ledger)
  /\ order' = GrownTo(firstbddvar + ExtraVars(dom))
  /\ firstbddvar' = firstbddvar + ExtraVars(dom)

(* fdd_overlapdomain.                                                      *)
OverlapDomain(v1, v2) ==
  /\ Len(domain) < MaxBlocks
  /\ \E new \in {Block(domain[v1].realsize * domain[v2].realsize,
                       domain[v1].ivar \o domain[v2].ivar,
                       domain[v1].parts \cup domain[v2].parts, Len(domain) + 1)} :
       /\ domain' = Append(domain, new)
       /\ ledger' = AddRef(new.var, ledger)
  /\ UNCHANGED <<order, firstbddvar>>

(* fdd_clearall. The variables stay in the kernel.                         *)
ClearAll ==
  /\ ledger' = DelRefs([n \in Blocks |-> domain[n].var], ledger)
  /\ domain' = << >>
  /\ firstbddvar' = 0
  /\ UNCHANGED order

-----------------------------------------------------------------------------
(* Questions about a block.                                                *)

Bit(val, i) == (val \div 2 ^ (i - 1)) % 2 = 1

(* fdd_ithvar.                                                             *)
FddIthvar(d, val) ==
  FoldLeftDomain(LAMBDA f, i : f \cap (IF Bit(val, i) THEN Ithvar(d.ivar[i]) ELSE Nithvar(d.ivar[i])),
                 One, d.ivar)

FddDomainClosed(d) ==
  FoldLeftDomain(LAMBDA f, i : IF Bit(d.realsize, i) THEN Nithvar(d.ivar[i]) \cup f
                                                     ELSE Nithvar(d.ivar[i]) \cap f,
                 One, d.ivar)

(* fdd_domain: the numbers up to the size, less one.                       *)
FddDomain(d) ==
  FoldLeftDomain(LAMBDA f, i : IF Bit(d.realsize - 1, i) THEN Nithvar(d.ivar[i]) \cup f
                                                         ELSE Nithvar(d.ivar[i]) \cap f,
                 One, d.ivar)

(* fdd_equals, for blocks of the same size; the number of bits is that of  *)
(* the first.                                                              *)
FddEquals(d, e) ==
  FoldLeftDomain(LAMBDA f, i : f \cap Not(Opr("xor", Ithvar(d.ivar[i]), Ithvar(e.ivar[i]))), One, d.ivar)

(* fdd_scanallvar: the path that goes low where it can; a variable it does *)
(* not meet is 0.                                                          *)
TrueOnPath[r \in SUBSET Assignments] ==
  CASE IsConst(r) -> {}
    [] ~IsConst(r) /\ Low(order, r) # Zero -> TrueOnPath[Low(order, r)]
    [] OTHER -> {order[Level(order, r)]} \cup TrueOnPath[High(order, r)]

ScanVar(r, d) ==
  MapThenSumSet(LAMBDA i : IF d.ivar[i] \in TrueOnPath[r] THEN 2 ^ (i - 1) ELSE 0, DOMAIN d.ivar)

(* fdd_makeset and fdd_scanset.                                            *)
MakeSet(ns) == {s \in Assignments : \A n \in ns : s \in domain[n].var}
ScanSet(r)  == {n \in Blocks : \E i \in DOMAIN domain[n].ivar : DependsOn(r, domain[n].ivar[i])}

-----------------------------------------------------------------------------
(* fdd_setpairs, as the bdd_setpair of each bit in turn. It looks at the   *)
(* sizes of two blocks only when it comes to them: earlier pairs stay.     *)

FddSetPair(t, d, e) ==
  IF t.error \/ Len(d.ivar) # Len(e.ivar) THEN [t EXCEPT !.error = TRUE]
  ELSE [t EXCEPT !.result = FoldLeftDomain(LAMBDA f, i : [f EXCEPT ![d.ivar[i]] = Ithvar(e.ivar[i])],
                                           @, d.ivar)]

FddSetPairs(p1, p2) ==
  FoldLeftDomain(LAMBDA t, n : FddSetPair(t, domain[p1[n]], domain[p2[n]]),
                 [result |-> [v \in VarsOf(order) |-> Ithvar(v)], error |-> FALSE], p1)

-----------------------------------------------------------------------------
(* fdd_printset and the << of the C++ interface: for each path to true the *)
(* blocks it tests, each with the numbers that agree with the bits the     *)
(* path has, 0 for one it leaves open, 1 for false and 2 for true.         *)

Dec2Bin(d, val) == [i \in DOMAIN d.ivar |-> IF Bit(val, i) THEN 1 ELSE 0]

Agrees(d, val, set) ==
  \A i \in DOMAIN d.ivar :
    /\ set[d.ivar[i]] = 1 => Dec2Bin(d, val)[i] = 0
    /\ set[d.ivar[i]] = 2 => Dec2Bin(d, val)[i] = 1

Uses(d, set) == \E i \in DOMAIN d.ivar : set[d.ivar[i]] # 0

(* A term: the numbers printed for each block that is printed at all.      *)
FddTerm(set) ==
  [n \in {n \in Blocks : Uses(domain[n], set)} |->
     {val \in 0..(2 ^ Len(domain[n].ivar) - 1) : Agrees(domain[n], val, set)}]

(* The array set: 1 or 2 for a variable the path takes low or high.        *)
PathMarks == [VarsOf(order) -> 0..2]

FddPrintSetRec[r \in SUBSET Assignments, set \in PathMarks] ==
  LET var  == order[Level(order, r)]
      low  == FddPrintSetRec[Low(order, r), [set EXCEPT ![var] = 1]]
      high == FddPrintSetRec[High(order, r), [low.set EXCEPT ![var] = 2]]
  IN  CASE r = Zero -> [set |-> set, terms |-> << >>]
        [] r = One  -> [set |-> set, terms |-> <<FddTerm(set)>>]
        [] OTHER    -> [set |-> [high.set EXCEPT ![var] = 0], terms |-> low.terms \o high.terms]

FddPrintSet(r) == FddPrintSetRec[r, [v \in VarsOf(order) |-> 0]].terms

-----------------------------------------------------------------------------
(* A block that overlaps itself has a variable for two of its bits.        *)
Plain(d) == IsInjective(d.ivar)

(* The number that an assignment gives to a block.                         *)
NumberIn(s, d) == MapThenSumSet(LAMBDA i : IF d.ivar[i] \in s THEN 2 ^ (i - 1) ELSE 0, DOMAIN d.ivar)

(* fdd_ithvar is the number asked for and nothing else, fdd_domain all the *)
(* numbers of the block, and fdd_scanvar finds the number again, whatever  *)
(* the variables are and in whatever order reordering has put them.        *)
(* fdd_equals compares blocks with as many bits.                           *)
NumbersRight ==
  \A n \in Blocks : Plain(domain[n]) =>
    LET d == domain[n]
    IN  /\ FddDomain(d) = {s \in Assignments : NumberIn(s, d) < d.realsize}
        /\ \A val \in 0..(d.realsize - 1) :
             /\ FddIthvar(d, val) = {s \in Assignments : NumberIn(s, d) = val}
             /\ ScanVar(FddIthvar(d, val), d) = val
        /\ \A k \in Blocks :
             d.realsize = domain[k].realsize /\ Len(d.ivar) = Len(domain[k].ivar) =>
               FddEquals(d, domain[k]) = {s \in Assignments : NumberIn(s, d) = NumberIn(s, domain[k])}

(* fdd_scanset finds in the set of fdd_makeset the blocks it was made of,  *)
(* and of the others exactly those that share a variable with them.        *)
SetsRight ==
  \A ns \in SUBSET Blocks :
    ScanSet(MakeSet(ns)) =
      {n \in Blocks : \E k \in ns : ToSet(domain[n].ivar) \cap ToSet(domain[k].ivar) # {}}

(* fdd_setpairs for two blocks and two others renames the numbers of the   *)
(* ones to the others, also when they change places.                       *)
PairsRight ==
  \A n, k \in {n \in Blocks : Plain(domain[n])} :
    LET swap == FddSetPairs(<<n, k>>, <<k, n>>)
    IN  /\ swap.error = (Len(domain[n].ivar) # Len(domain[k].ivar))
        /\ ~swap.error /\ domain[n].parts \cap domain[k].parts = {} =>
             \A val \in 0..(domain[n].realsize - 1) :
               Substitute(FddIthvar(domain[n], val), swap.result)
                 = {s \in Assignments : NumberIn(s, domain[k]) = val}

(* fdd_printset says of every assignment whether it is in the set: the     *)
(* numbers it gives to the blocks are in one term then, and in no other.   *)
Says(term, s) == \A n \in DOMAIN term : NumberIn(s, domain[n]) \in term[n]

PrintsRight ==
  \A n, k \in Blocks :
    LET r     == Opr("xor", FddDomain(domain[n]), FddIthvar(domain[k], 1))
        terms == FddPrintSet(r)
    IN  \A s \in Assignments :
          Cardinality({i \in DOMAIN terms : Says(terms[i], s)}) = (IF s \in r THEN 1 ELSE 0)

(* The numbers, sets, pairs and listings of blocks are right together.     *)
DomainsRight == NumbersRight /\ SetsRight /\ PairsRight /\ PrintsRight

(* Blocks that were defined apart share no variable, the table knows how   *)
(* many variables it has handed out, and blocks of one call are            *)
(* interleaved, lowest bits first.                                         *)
BlocksApart ==
  /\ \A n, k \in Blocks : domain[n].parts \cap domain[k].parts = {} =>
       ToSet(domain[n].ivar) \cap ToSet(domain[k].ivar) = {}
  /\ UNION {ToSet(domain[n].ivar) : n \in Blocks} = 0..(firstbddvar - 1)
  /\ firstbddvar <= bddvarnum
  /\ \A n, k \in Blocks : domain[n].call = domain[k].call =>
       \A i \in DOMAIN domain[n].ivar, j \in DOMAIN domain[k].ivar :
         (i < j \/ (i = j /\ n < k)) /\ domain[n].parts = {n} => domain[n].ivar[i] < domain[k].ivar[j]
=============================================================================
