--------------------------- MODULE VectorSession ----------------------------
(***************************************************************************)
(* A program that defines finite domain blocks (fdd.c) and computes with   *)
(* vectors (bvec.c). Every vector it is given is referenced, and it owns   *)
(* that reference until it calls bvec_free.                                *)
(***************************************************************************)
EXTENDS FiniteDomains, BitVectors

CONSTANTS
  Programs,     (* bound: what a program starts with and may call          *)
  MaxVectors,   (* bound: the vectors it holds                             *)
  MaxBits       (* bound: their length                                     *)

ASSUME MaxVectorsAssumption == MaxVectors \in Nat /\ MaxBits \in Nat

(* A program has variables, and vectors of functions of them; the sizes of *)
(* its blocks are positive: Domain_allocate has no bits for another range. *)
IsProgram(p) ==
  /\ p.vars \in 1..MaxVars
  /\ p.start \in Seq(Seq(SUBSET Assignments))
  /\ p.fills \subseteq SUBSET Assignments
  /\ p.numbers \subseteq Nat
  /\ p.doms \subseteq Seq(Nat \ {0})

ASSUME ProgramsAssumption == \A p \in Programs : IsProgram(p)

VARIABLES
  program,
  vecs,         (* the vectors the program owns                            *)
  last,         (* history: the last call and what it returned             *)
  loose,        (* history: an operation that does not balance its         *)
                (* references was called                                   *)
  steps         (* bound: calls so far                                     *)

vars == <<fddVars, program, vecs, last, loose, steps>>

NoCall == [op |-> "none"]

Asks(op) == steps < program.steps /\ op \in program.ops
Step     == steps' = steps + 1 /\ UNCHANGED program

-----------------------------------------------------------------------------
(* The calls of bvec.c: operands l and r, a number k, a function c.        *)

Comparisons == {"lth", "lte", "gth", "gte", "equ", "neq"}
WithVector  == {"add", "sub", "xor", "mapite", "mul", "div"} \cup Comparisons
WithNumber  == {"mulfixed", "divfixed", "coerce"}
WithFill    == {"shlfixed", "shrfixed"}
Symbolic    == {"shl", "shr"}

VectorOperations == WithVector \cup WithNumber \cup WithFill \cup Symbolic \cup {"copy", "not", "ite"}

(* Those that release what they have not referenced, or the other way      *)
(* round.                                                                  *)
Unbalanced == {"mulfixed", "divfixed", "div", "shl", "shr"}

(* A divisor of zero is an error, and bvec_shr reads three bits of l.      *)
Defined(c) ==
  /\ c.op \in {"mul", "div"} => Len(c.l) + Len(c.r) <= MaxBits
  /\ c.op = "divfixed" => c.k > 0 /\ Len(c.l) > 0
  /\ c.op = "shr" => Len(c.l) > ShrBound

Numbered(op) == IF op \in WithNumber \cup WithFill THEN program.numbers ELSE {0}
Filled(op)   == IF op \in WithFill \cup Symbolic \cup {"ite"} THEN program.fills ELSE {Zero}
Paired(op)   == IF op \in WithVector \cup Symbolic \cup {"ite"} THEN ToSet(vecs) ELSE {<< >>}

Calls(op) ==
  {c \in [op : {op}, l : ToSet(vecs), r : Paired(op), k : Numbered(op), c : Filled(op)] : Defined(c)}

Compare(op, l, r) ==
  CASE op = "lth" -> Lth(l, r)
    [] op = "lte" -> Lte(l, r)
    [] op = "gth" -> Gth(l, r)
    [] op = "gte" -> Gte(l, r)
    [] op = "equ" -> Equ(l, r)
    [] op = "neq" -> Neq(l, r)

Answer(c, m) ==
  CASE c.op = "add"      -> Add(c.l, c.r, m)
    [] c.op = "sub"      -> Sub(c.l, c.r, m)
    [] c.op = "not"      -> Map1Not(c.l, m)
    [] c.op = "xor"      -> Map2Xor(c.l, c.r, m)
    [] c.op = "mapite"   -> Map3Ite(c.l, c.r, c.l, m)
    [] c.op = "mul"      -> Mul(c.l, c.r, m)
    [] c.op = "div"      -> Div(c.l, c.r, m)
    [] c.op = "mulfixed" -> MulFixed(c.l, c.k, m)
    [] c.op = "divfixed" -> DivFixed(c.l, c.k, m)
    [] c.op = "coerce"   -> Coerce(c.k, c.l, m)
    [] c.op = "shlfixed" -> ShlFixed(c.l, c.k, c.c, m)
    [] c.op = "shrfixed" -> ShrFixed(c.l, c.k, c.c, m)
    [] c.op = "shl"      -> Shl(c.l, c.r, c.c, m)
    [] c.op = "shr"      -> Shr(c.l, c.r, c.c, m)
    [] c.op = "copy"     -> Copy(c.l, m)
    [] c.op = "ite"      -> VecIte(c.c, c.l, c.r, m)

(* The vectors a call hands to the program.                                *)
Given(c, a) ==
  CASE c.op = "div" /\ Mismatch(c.l, c.r) -> << >>
    [] c.op = "divfixed" \/ (c.op = "div" /\ ~Mismatch(c.l, c.r)) -> <<a.vec, a.rem>>
    [] OTHER -> <<a.vec>>

Call(op) ==
  /\ Asks(op)
  /\ op \in VectorOperations \ Comparisons
  /\ \E c \in Calls(op) : \E a \in {Answer(c, ledger)} :
       /\ Len(vecs) + Len(Given(c, a)) <= MaxVectors
       /\ vecs' = vecs \o Given(c, a)
       /\ ledger' = a.m
       /\ last' = c @@ [res |-> Given(c, a)]
  /\ loose' = (loose \/ op \in Unbalanced)
  /\ Step
  /\ UNCHANGED <<order, domain, firstbddvar>>

CallComparison(op) ==
  /\ Asks(op)
  /\ op \in Comparisons
  /\ \E c \in Calls(op) : last' = c @@ [res |-> Compare(op, c.l, c.r)]
  /\ Step
  /\ UNCHANGED <<fddVars, vecs, loose>>

(* bvec_free.                                                              *)
Free ==
  /\ Asks("free")
  /\ \E i \in DOMAIN vecs :
       /\ ledger' = DelRefs(vecs[i], ledger)
       /\ vecs' = RemoveAt(vecs, i)
  /\ last' = NoCall
  /\ Step
  /\ UNCHANGED <<order, domain, firstbddvar, loose>>

-----------------------------------------------------------------------------
(* The calls of fdd.c.                                                     *)

DefineBlocks ==
  /\ Asks("extdomain")
  /\ \E dom \in program.doms : ExtDomain(dom)
  /\ last' = NoCall
  /\ Step
  /\ UNCHANGED <<vecs, loose>>

Overlap ==
  /\ Asks("overlapdomain")
  /\ \E v1, v2 \in Blocks : OverlapDomain(v1, v2)
  /\ last' = NoCall
  /\ Step
  /\ UNCHANGED <<vecs, loose>>

Clear ==
  /\ Asks("clearall")
  /\ ClearAll
  /\ last' = NoCall
  /\ Step
  /\ UNCHANGED <<vecs, loose>>

(* bvec_varfdd.                                                            *)
VarFdd ==
  /\ Asks("varfdd")
  /\ Len(vecs) < MaxVectors
  /\ \E n \in Blocks :
       vecs' = Append(vecs, [i \in DOMAIN domain[n].ivar |-> Ithvar(domain[n].ivar[i])])
  /\ last' = NoCall
  /\ Step
  /\ UNCHANGED <<fddVars, loose>>

(* fdd_domain keeps a reference to what it returns, which no one gives     *)
(* back.                                                                   *)
AskDomain ==
  /\ Asks("domain")
  /\ \E n \in Blocks : ledger' = AddRef(FddDomain(domain[n]), ledger)
  /\ loose' = TRUE
  /\ last' = NoCall
  /\ Step
  /\ UNCHANGED <<order, domain, firstbddvar, vecs>>

(* fdd_intaddvarblock: what the blocks' variables cost bdd_addvarblock to  *)
(* name. The reference it gives back at the end is not its own: that of    *)
(* the block, if it is only one.                                           *)
AddVarBlock ==
  /\ Asks("addvarblock")
  /\ \E first, end \in Blocks :
       /\ first <= end
       /\ ledger' = DelRef(MakeSet(first..end), ledger)
  /\ loose' = TRUE
  /\ last' = NoCall
  /\ Step
  /\ UNCHANGED <<order, domain, firstbddvar, vecs>>

(* Reordering, by an exchange of two levels.                               *)
Exchange ==
  /\ Asks("reorder")
  /\ \E l \in DOMAIN order :
       /\ l + 1 \in DOMAIN order
       /\ order' = [order EXCEPT ![l] = order[l + 1], ![l + 1] = order[l]]
  /\ last' = NoCall
  /\ Step
  /\ UNCHANGED <<domain, firstbddvar, ledger, vecs, loose>>

Init ==
  /\ program \in Programs
  /\ order = [l \in 0..(program.vars - 1) |-> l]
  /\ domain = << >>
  /\ firstbddvar = 0
  /\ vecs = program.start
  /\ ledger = FoldLeft(LAMBDA m, v : AddRefs(v, m), NoReferences, program.start)
  /\ last = NoCall
  /\ loose = FALSE
  /\ steps = 0

Next ==
  \/ \E op \in program.ops : Call(op)
  \/ \E op \in program.ops : CallComparison(op)
  \/ Free
  \/ DefineBlocks
  \/ Overlap
  \/ Clear
  \/ VarFdd
  \/ AskDomain
  \/ AddVarBlock
  \/ Exchange

Spec == Init /\ [][Next]_vars

-----------------------------------------------------------------------------
(* The number a vector stands for under an assignment.                     *)
Num(v, s) == MapThenSumSet(LAMBDA i : IF s \in v[i] THEN 2 ^ (i - 1) ELSE 0, DOMAIN v)

Answered(ops) == last.op \in ops
Fits          == Len(last.l) = Len(last.r) /\ Len(last.l) > 0
Range2        == 2 ^ Len(last.l)

ShiftedUp(a, k, filled) ==
  (a * 2 ^ k + (IF filled THEN 2 ^ k - 1 ELSE 0)) % Range2

(* The lowest bits of a, moved down, under copies of the fill.             *)
ShiftedDown(a, bits, k, filled) ==
  (a % 2 ^ bits) \div 2 ^ k + (IF filled THEN Range2 - 2 ^ (IF k < bits THEN bits - k ELSE 0) ELSE 0)

(* What bvec_divfixed divides by: bvec_con cuts the constant to the bits   *)
(* of the vector, and a divisor of zero fits in everywhere.                *)
CutDivisor == last.k % Range2

Quotient(a, k)  == IF k = 0 THEN Range2 - 1 ELSE a \div k
Remainder(a, k) == IF k = 0 THEN a ELSE a % k

(* The last step of bvec_div_rec shifts the top bit of the remainder out   *)
(* (bvec.c:759): 4 / 5 on three bits leaves 0.                             *)
WithoutTopBit(rem) == rem % (Range2 \div 2)

(* What the first result must be for operands a and b.                     *)
Expected(a, b, filled) ==
  CASE last.op = "add"      -> (a + b) % Range2
    [] last.op = "sub"      -> (a - b) % Range2
    [] last.op = "mul"      -> a * b
    [] last.op = "mulfixed" -> (a * last.k) % Range2
    [] last.op = "divfixed" -> Quotient(a, CutDivisor)
    [] last.op = "div"      -> a \div b
    [] last.op = "copy"     -> a
    [] last.op = "not"      -> Range2 - 1 - a
    [] last.op = "coerce"   -> a % 2 ^ last.k
    [] last.op = "ite"      -> IF filled THEN a ELSE b
    [] last.op = "shlfixed" -> ShiftedUp(a, last.k, filled)
    [] last.op = "shl"      -> ShiftedUp(a, b, filled)
    [] last.op = "shrfixed" -> ShiftedDown(a, Len(last.l), last.k, filled)
    [] last.op = "shr"      -> ShiftedDown(a, ShrBound + 1, b, filled)

(* What the second one, the remainder, must be.                            *)
ExpectedRest(a, b) ==
  CASE last.op = "divfixed" -> WithoutTopBit(Remainder(a, CutDivisor))
    [] last.op = "div"      -> a % b

Truth(a, b) ==
  CASE last.op = "lth" -> a < b
    [] last.op = "lte" -> a <= b
    [] last.op = "gth" -> a > b
    [] last.op = "gte" -> a >= b
    [] last.op = "equ" -> a = b
    [] last.op = "neq" -> a # b

(* The operands have lengths that fit, a divisor is not zero, and the bits *)
(* of a distance can tell all distances up to the length apart.            *)
Arithmetic(s) ==
  /\ last.op \in {"add", "sub", "div", "ite"} => Fits
  /\ last.op = "div" => Num(last.r, s) # 0
  /\ last.op \in Symbolic => Len(last.l) < 2 ^ Len(last.r)

(* Vectors are integers: an operation of bvec.c computes, bit by bit, what *)
(* its documentation says of the numbers, modulo the width of the vector,  *)
(* with these exceptions, where it is off by no more than said here:       *)
(* bvec_divfixed (781-784) divides by the low bits of its constant         *)
(* (CutDivisor) and loses the top bit of its remainder (WithoutTopBit);    *)
(* bvec_shr (1102-1105) looks at three bits of any vector (1131, ShrBound).*)
VectorsRight ==
  \A s \in Assignments :
    /\ Answered(VectorOperations \ (Comparisons \cup {"xor", "mapite"})) /\ Arithmetic(s) =>
         Num(last.res[1], s) = Expected(Num(last.l, s), Num(last.r, s), s \in last.c)
    /\ Answered({"div", "divfixed"}) /\ Arithmetic(s) =>
         Num(last.res[2], s) = ExpectedRest(Num(last.l, s), Num(last.r, s))
    /\ Answered(Comparisons) /\ Fits =>
         (s \in last.res) = Truth(Num(last.l, s), Num(last.r, s))
    /\ Answered({"xor", "mapite"}) => \A i \in DOMAIN last.res[1] :
         (s \in last.res[1][i]) = (IF last.op = "xor" THEN (s \in last.l[i]) # (s \in last.r[i])
                                   ELSE s \in last.l[i] /\ s \in last.r[i])
    /\ \A v \in ToSet(vecs) : IsConstant(v) => Val(v) = Num(v, s)

(* The places of a node in vectors, and what the program owns of it.       *)
PlacesIn(vs, f) == {p \in UNION {{i} \X DOMAIN vs[i] : i \in DOMAIN vs} : vs[p[1]][p[2]] = f}

Owned(f) == Cardinality(PlacesIn(vecs, f)) + Cardinality({n \in Blocks : domain[n].var = f})

(* A node has one reference for every vector it is in and every block it   *)
(* belongs to, and nothing is released that nobody holds: what is freed is *)
(* gone, and what is not stays. The operations that do not balance are     *)
(* left out.                                                               *)
CountsMatch ==
  loose \/
  /\ ~ledger.broken
  /\ \A f \in BagToSet(ledger.count) \cup UNION {ToSet(vecs[i]) : i \in DOMAIN vecs} :
       Pinned(f) \/ Count(f, ledger) = Owned(f)
=============================================================================
