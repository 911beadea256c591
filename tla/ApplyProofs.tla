----------------------------- MODULE ApplyProofs -----------------------------
(***************************************************************************)
(* Proofs about Apply, for every value of its constants: bdd_apply,        *)
(* bdd_not and bdd_ite return the function they were asked for.            *)
(*                                                                         *)
(* A table gives each node a function; as long as the nodes below a node   *)
(* stay as they are, so does its function (SameFunctions). A bdd_makenode  *)
(* keeps the nodes that are counted or stacked, so that what waits in the  *)
(* frames, on the reference stack and in the caches means afterwards what  *)
(* it meant before. The inductive invariant ApplyInv says what that is. It *)
(* rests on the invariant IInv of the node table, whose proofs are in      *)
(* NodeTableProofs.                                                        *)
(*                                                                         *)
(* The definitions take the table and its functions as parameters, because *)
(* a step is looked at in the table before and after bdd_makenode:         *)
(*   s, nd     size and nodes                                              *)
(*   num       the number of variables                                     *)
(*   f         the function of each node                                   *)
(*   ok        no error has been raised                                    *)
(***************************************************************************)
EXTENDS Apply, NodeTableProofs

Points(num) == SUBSET (0..(num - 1))

(* f gives the nodes of a table their functions.                           *)
Denotes(f, s, nd, num) ==
  /\ f[FALSEBDD] = {} /\ f[TRUEBDD] = Points(num)
  /\ \A n \in UsedOf(s, nd) :
       f[n] = {x \in f[nd[n].low] : nd[n].level \notin x}
                \cup {x \in f[nd[n].high] : nd[n].level \in x}

(* Every node lies above its children, the terminals below all variables.  *)
Leveled(s, nd, num) ==
  /\ OrderedTable(s, nd)
  /\ \A n \in UsedOf(s, nd) : nd[n].level < num
  /\ \A n \in Terminal : nd[n].level = num

(* The operands of a call: their top level, their cofactors and what they  *)
(* ask for.                                                                *)
LevelsIn(nd, a) == {nd[a[i]].level : i \in 1..Len(a)}
TopIn(nd, a)    == Minimum(LevelsIn(nd, a))

SideOf(nd, a, side) ==
  [i \in 1..Len(a) |-> IF nd[a[i]].level = TopIn(nd, a) THEN nd[a[i]][side] ELSE a[i]]

Row(f, a, x)          == [i \in 1..Len(a) |-> x \in f[a[i]]]
Means(num, f, op, a)  == {x \in Points(num) : Truth(op, Row(f, a, x))}

GoodCall(P, op, a) == op \in Operators /\ a \in [1..Arity(op) -> P]

(* A node that answers a call.                                             *)
Answers(nd, num, f, ok, U, op, a, n) ==
  /\ n \in U
  /\ TopIn(nd, a) <= nd[n].level
  /\ ok => f[n] = Means(num, f, op, a)

-----------------------------------------------------------------------------
(* What the calls of a recursion rely on.                                  *)

Frame == [op : Operators, args : Seq(Nat), step : {"enter", "low", "high", "make"}]

(* A call that waits is answered by the next one for its operands on the   *)
(* side its step names, further down in the order of the variables.        *)
Delegates(nd, num, f, caller, callee) ==
  /\ caller.step \in {"low", "high"}
  /\ TopIn(nd, caller.args) < TopIn(nd, callee.args)
  /\ Means(num, f, callee.op, callee.args)
       = Means(num, f, caller.op, SideOf(nd, caller.args, caller.step))

GoodFrames(nd, num, f, P, fr) ==
  /\ fr \in Seq(Frame)
  /\ \A i \in 1..Len(fr) : GoodCall(P, fr[i].op, fr[i].args)
  /\ \A i \in 1..Len(fr) : fr[i].step # "enter" => TopIn(nd, fr[i].args) < num
  /\ \A i \in 1..(Len(fr) - 1) : Delegates(nd, num, f, fr[i], fr[i + 1])
  /\ fr # << >> => fr[Len(fr)].step \in {"enter", "make"}

(* The outermost call asks for want.                                       *)
AsksFor(num, f, fr, want) == fr # << >> => Means(num, f, fr[1].op, fr[1].args) = want

(* Where the results of each call begin on the reference stack.            *)
Offsets(fr, b) ==
  /\ b \in [1..(Len(fr) + 1) -> Nat]
  /\ b[1] = 0
  /\ \A i \in 1..Len(fr) : b[i + 1] = b[i] + Pushed(fr[i])

Place(side) == IF side = "low" THEN 1 ELSE 2

(* n answers a call on one side of its operands.                           *)
AnswersSide(nd, num, f, ok, r, side, n) ==
  /\ TopIn(nd, r.args) < nd[n].level
  /\ ok => f[n] = Means(num, f, r.op, SideOf(nd, r.args, side))

Results(nd, num, f, ok, fr, b, stack) ==
  /\ Offsets(fr, b)
  /\ Len(stack) = b[Len(fr) + 1]
  /\ \A i \in 1..Len(fr), side \in {"low", "high"} :
       Pushed(fr[i]) >= Place(side) =>
         AnswersSide(nd, num, f, ok, fr[i], side, stack[b[i] + Place(side)])

-----------------------------------------------------------------------------
(* The caches.                                                             *)

GoodEntry(nd, num, f, ok, U, e) ==
  e = NoEntry \/ (GoodCall(U, e.op, e.args) /\ Answers(nd, num, f, ok, U, e.op, e.args, e.res))

CacheIndices == 0..(CacheSize - 1)

GoodCache(nd, num, f, ok, U, ch) ==
  /\ ch = [c \in {"apply", "ite"} |-> [i \in CacheIndices |-> ch[c][i]]]
  /\ \A c \in {"apply", "ite"}, i \in CacheIndices : GoodEntry(nd, num, f, ok, U, ch[c][i])

-----------------------------------------------------------------------------
(* The inductive invariant.                                                *)

(* Nodes in use, and nodes no collection or reordering takes away.         *)
InUse == Terminal \cup Used
Safe  == Terminal \cup Survivors

(* Nobody counts references on the terminals.                              *)
TerminalsPinned == \A n \in Terminal : node[n].refcou = MaxRef /\ held[n] = 0

GoodTerminals ==
  /\ growing = Idle
  /\ Leveled(size, node, varnum)
  /\ TerminalsPinned

(* The operation that runs can start again from its operands.              *)
GoodOperation ==
  /\ GoodCall(Terminal \cup Counted, call.op, call.args)
  /\ Means(varnum, Function, call.op, call.args) = call.want
  /\ first \in {0, 1} /\ (first = 0 => reorder.disabled)

ResultGood == ~ errorcond => result \in InUse /\ Function[result] = call.want

CallTyped == call = [at |-> call.at, op |-> call.op, args |-> call.args, want |-> call.want]

ControlInv ==
  /\ CallTyped
  /\ call.at \in {"idle", "running", "done"}
  /\ call.at = "running" => GoodOperation
  /\ call.at # "running" => frames = << >>
  /\ call.at # "idle" /\ frames = << >> => ResultGood

FramesInv ==
  /\ GoodFrames(node, varnum, Function, Safe, frames)
  /\ AsksFor(varnum, Function, frames, call.want)
  /\ \E b \in [1..(Len(frames) + 1) -> Nat] :
       Results(node, varnum, Function, ~ errorcond, frames, b, refstack)

CachesInv == GoodCache(node, varnum, Function, ~ errorcond, InUse, cache)

ApplyInv ==
  /\ IInv
  /\ GoodTerminals
  /\ ControlInv
  /\ FramesInv
  /\ CachesInv

-----------------------------------------------------------------------------
(* The functions of the nodes exist, although Function is recursive over a *)
(* graph: an assignment makes a node true if the walk it takes from there  *)
(* ends at the terminal TRUE.                                              *)

Taken(n, x) == IF node[n].level \in x THEN node[n].high ELSE node[n].low

IsWalk(p, k, n, x) ==
  /\ p \in [0..k -> 0..(size - 1)]
  /\ p[0] = n /\ p[k] = TRUEBDD
  /\ \A i \in 0..(k - 1) : p[i] \in Used /\ p[i + 1] = Taken(p[i], x)

Reaches(n, x) == \E k \in Nat : \E p : IsWalk(p, k, n, x)

(* The number of a used node or terminal, and of their children.           *)
LEMMA Numbers ==
  ASSUME TableInv
  PROVE  /\ size \in Nat /\ size > 2
         /\ Used = UsedOf(size, node)
         /\ Used \subseteq 2..(size - 1)
         /\ InUse \subseteq 0..(size - 1)
         /\ Used \cap Terminal = {}
         /\ \A n \in Used : node[n].low \in InUse /\ node[n].high \in InUse
<1>1. size \in Nat /\ size > 2 /\ Used = UsedOf(size, node)
  BY TableFacts
<1>2. Used \subseteq 2..(size - 1)
  BY DEF Used, Slots
<1>3. InUse \subseteq 0..(size - 1) /\ Used \cap Terminal = {}
  BY <1>1, <1>2 DEF InUse, Terminal, FALSEBDD, TRUEBDD
<1>4. \A n \in Used : node[n].low \in InUse /\ node[n].high \in InUse
  BY <1>1 DEF TableInv, GoodTable, ClosedTable, InUse
<1> QED
  BY <1>1, <1>2, <1>3, <1>4

(* Every assignment has reached TRUE at TRUE.                              *)
LEMMA ReachesTrue ==
  ASSUME TableInv, NEW x
  PROVE  Reaches(TRUEBDD, x)
<1> DEFINE p == [i \in 0..0 |-> TRUEBDD]
<1>1. TRUEBDD \in 0..(size - 1)
  BY Numbers DEF TRUEBDD
<1>2. p \in [0..0 -> 0..(size - 1)] /\ p[0] = TRUEBDD
  BY <1>1
<1>3. 0..(0 - 1) = {}
  OBVIOUS
<1> HIDE DEF p
<1>4. IsWalk(p, 0, TRUEBDD, x)
  BY <1>2, <1>3 DEF IsWalk
<1> QED
  BY <1>4 DEF Reaches

(* No walk leads on from FALSE or from a free slot.                        *)
LEMMA ReachesNothing ==
  ASSUME TableInv, NEW n, n \notin Used, n # TRUEBDD, NEW x
  PROVE  ~ Reaches(n, x)
<1> SUFFICES ASSUME NEW k \in Nat, NEW p, IsWalk(p, k, n, x)
             PROVE  FALSE
  BY DEF Reaches
<1>1. p[0] = n /\ p[k] = TRUEBDD /\ \A i \in 0..(k - 1) : p[i] \in Used
  BY DEF IsWalk
<1>2. k # 0
  BY <1>1
<1>3. 0 \in 0..(k - 1)
  BY <1>2
<1> QED
  BY <1>1, <1>3

(* From a node with a variable a walk goes on at the child.                *)
LEMMA ReachesChild ==
  ASSUME TableInv, NEW n \in Used, NEW x
  PROVE  Reaches(n, x) <=> Reaches(Taken(n, x), x)
<1>0. n \in 0..(size - 1) /\ n # TRUEBDD /\ Taken(n, x) \in 0..(size - 1)
  BY Numbers DEF Taken, Terminal
<1>1. ASSUME Reaches(n, x) PROVE Reaches(Taken(n, x), x)
  <2>1. PICK k \in Nat : \E p : IsWalk(p, k, n, x)
    BY <1>1 DEF Reaches
  <2>2. PICK p : IsWalk(p, k, n, x)
    BY <2>1
  <2>3. /\ p \in [0..k -> 0..(size - 1)] /\ p[0] = n /\ p[k] = TRUEBDD
        /\ \A i \in 0..(k - 1) : p[i] \in Used /\ p[i + 1] = Taken(p[i], x)
    BY <2>2 DEF IsWalk
  <2>4. k # 0
    BY <2>3, <1>0
  <2> DEFINE q == [i \in 0..(k - 1) |-> p[i + 1]]
  <2>5. k - 1 \in Nat /\ 0 \in 0..(k - 1) /\ k - 1 \in 0..(k - 1) /\ (k - 1) + 1 = k
    BY <2>4
  <2>6. \A i \in 0..(k - 1) : i + 1 \in 0..k /\ q[i] = p[i + 1]
    OBVIOUS
  <2>7. q \in [0..(k - 1) -> 0..(size - 1)]
    BY <2>3, <2>6
  <2> HIDE DEF q
  <2>8. q[0] = Taken(n, x) /\ q[k - 1] = TRUEBDD
    BY <2>3, <2>5, <2>6
  <2>9. \A i \in 0..((k - 1) - 1) : q[i] \in Used /\ q[i + 1] = Taken(q[i], x)
    <3> TAKE i \in 0..((k - 1) - 1)
    <3>1. i \in 0..(k - 1) /\ i + 1 \in 0..(k - 1)
      BY <2>5
    <3> QED
      BY <3>1, <2>3, <2>6
  <2>10. IsWalk(q, k - 1, Taken(n, x), x)
    BY <2>7, <2>8, <2>9 DEF IsWalk
  <2> QED
    BY <2>5, <2>10 DEF Reaches
<1>2. ASSUME Reaches(Taken(n, x), x) PROVE Reaches(n, x)
  <2>1. PICK k \in Nat : \E p : IsWalk(p, k, Taken(n, x), x)
    BY <1>2 DEF Reaches
  <2>2. PICK p : IsWalk(p, k, Taken(n, x), x)
    BY <2>1
  <2>3. /\ p \in [0..k -> 0..(size - 1)] /\ p[0] = Taken(n, x) /\ p[k] = TRUEBDD
        /\ \A i \in 0..(k - 1) : p[i] \in Used /\ p[i + 1] = Taken(p[i], x)
    BY <2>2 DEF IsWalk
  <2> DEFINE q == [i \in 0..(k + 1) |-> IF i = 0 THEN n ELSE p[i - 1]]
  <2>4. q[0] = n /\ \A i \in 0..k : i + 1 \in 0..(k + 1) /\ q[i + 1] = p[i]
    OBVIOUS
  <2>5. q \in [0..(k + 1) -> 0..(size - 1)]
    <3>1. \A i \in 0..(k + 1) : i # 0 => i - 1 \in 0..k
      OBVIOUS
    <3> QED
      BY <3>1, <2>3, <1>0
  <2> HIDE DEF q
  <2>6. q[k + 1] = TRUEBDD
    BY <2>3, <2>4
  <2>7. \A i \in 0..((k + 1) - 1) : q[i] \in Used /\ q[i + 1] = Taken(q[i], x)
    <3> TAKE i \in 0..((k + 1) - 1)
    <3>1. CASE i = 0
      BY <3>1, <2>3, <2>4
    <3>2. CASE i # 0
      <4>1. i - 1 \in 0..(k - 1) /\ i - 1 \in 0..k /\ i \in 0..k /\ (i - 1) + 1 = i
        BY <3>2
      <4> QED
        BY <4>1, <2>3, <2>4
    <3> QED
      BY <3>1, <3>2
  <2>8. IsWalk(q, k + 1, n, x)
    BY <2>4, <2>5, <2>6, <2>7 DEF IsWalk
  <2> QED
    BY <2>8 DEF Reaches
<1> QED
  BY <1>1, <1>2

SatOf(sat) ==
  [n \in 0..(size - 1) |->
     IF n \in Used
     THEN {s \in sat[node[n].low]  : LevelOf(n) \notin s}
            \cup {s \in sat[node[n].high] : LevelOf(n) \in s}
     ELSE IF n = TRUEBDD THEN Assignments ELSE {}]

(* Function is a choice among the solutions of its equation.               *)
LEMMA FunctionChosen == Function = CHOOSE sat : sat = SatOf(sat)
  BY DEF Function, SatOf

(* What the walks say satisfies the recursive equation.                    *)
LEMMA WalksSatisfy ==
  ASSUME TableInv
  PROVE  \E sat : sat = SatOf(sat)
<1> DEFINE sat == [n \in 0..(size - 1) |-> {x \in Assignments : Reaches(n, x)}]
<1> SUFFICES ASSUME NEW n \in 0..(size - 1)
             PROVE  sat[n] = SatOf(sat)[n]
  <2>1. sat = [n \in 0..(size - 1) |-> sat[n]] /\ SatOf(sat) = [n \in 0..(size - 1) |-> SatOf(sat)[n]]
    BY DEF SatOf
  <2> QED
    BY <2>1
<1>1. \A m \in 0..(size - 1) : sat[m] = {x \in Assignments : Reaches(m, x)}
  OBVIOUS
<1> HIDE DEF sat
<1>2. CASE n = TRUEBDD
  <2>1. n \notin Used
    BY <1>2, Numbers DEF Terminal
  <2>2. SatOf(sat)[n] = Assignments
    BY <1>2, <2>1 DEF SatOf
  <2> QED
    BY <2>2, <1>1, <1>2, ReachesTrue
<1>3. CASE n # TRUEBDD /\ n \notin Used
  <2>1. SatOf(sat)[n] = {}
    BY <1>3 DEF SatOf
  <2> QED
    BY <2>1, <1>1, <1>3, ReachesNothing
<1>4. CASE n \in Used
  <2>1. SatOf(sat)[n] = {s \in sat[node[n].low] : LevelOf(n) \notin s}
                          \cup {s \in sat[node[n].high] : LevelOf(n) \in s}
    BY <1>4 DEF SatOf
  <2>2. node[n].low \in 0..(size - 1) /\ node[n].high \in 0..(size - 1)
    BY <1>4, Numbers
  <2>3. \A x : Reaches(n, x) <=> Reaches(Taken(n, x), x)
    BY <1>4, ReachesChild
  <2> QED
    BY <2>1, <2>2, <2>3, <1>1 DEF Taken, LevelOf
<1> QED
  BY <1>2, <1>3, <1>4

(* Function gives every node the function of its children.                 *)
LEMMA FunctionDenotes == TableInv => Denotes(Function, size, node, varnum)
<1> SUFFICES ASSUME TableInv PROVE Denotes(Function, size, node, varnum)
  OBVIOUS
<1>1. Function = SatOf(Function)
  BY WalksSatisfy, FunctionChosen
<1> DEFINE f == Function
<1>2. f = SatOf(f)
  BY <1>1
<1> HIDE DEF f
<1>3. /\ FALSEBDD \in 0..(size - 1) /\ TRUEBDD \in 0..(size - 1)
      /\ FALSEBDD \notin Used /\ TRUEBDD \notin Used /\ FALSEBDD # TRUEBDD
  BY Numbers DEF FALSEBDD, TRUEBDD, Terminal
<1>4. f[FALSEBDD] = {}
  BY <1>2, <1>3 DEF SatOf
<1>5. f[TRUEBDD] = Points(varnum)
  BY <1>2, <1>3 DEF SatOf, Assignments, Points
<1>6. ASSUME NEW n \in UsedOf(size, node)
      PROVE  f[n] = {x \in f[node[n].low] : node[n].level \notin x}
                      \cup {x \in f[node[n].high] : node[n].level \in x}
  <2>1. n \in Used /\ n \notin Terminal /\ n \in 0..(size - 1)
    BY Numbers
  <2> QED
    BY <2>1, <1>2 DEF SatOf, LevelOf, Terminal
<1>7. Denotes(f, size, node, varnum)
  BY <1>4, <1>5, <1>6 DEF Denotes
<1> QED
  BY <1>7 DEF f

-----------------------------------------------------------------------------
(* Tables with the same nodes give them the same functions.                *)

SameNodes(nd, new, K) ==
  \A n \in K : /\ new[n].level = nd[n].level
               /\ new[n].low = nd[n].low /\ new[n].high = nd[n].high

(* A node's level is a number, less than those of its children.            *)
LEMMA LevelFacts ==
  ASSUME NEW s, NEW nd, NEW fr, NEW num \in Nat, GoodTable(s, nd, fr), Leveled(s, nd, num)
  PROVE  /\ \A n \in Terminal \cup UsedOf(s, nd) : nd[n].level \in 0..num
         /\ \A n \in Terminal : nd[n].level = num /\ nd[n].low = n /\ nd[n].high = n
         /\ \A n \in UsedOf(s, nd) :
              /\ nd[n].level < num
              /\ nd[n].level < nd[nd[n].low].level /\ nd[n].level < nd[nd[n].high].level
              /\ nd[n].low \in Terminal \cup UsedOf(s, nd)
              /\ nd[n].high \in Terminal \cup UsedOf(s, nd)
<1>1. s \in Nat /\ s > 2 /\ nd \in [0..(s - 1) -> NodeType] /\ UsedOf(s, nd) \subseteq 0..(s - 1)
  BY DEF GoodTable, TypedTable, UsedOf
<1>2. \A n \in UsedOf(s, nd) : nd[n].level \in Nat
  BY <1>1 DEF NodeType
<1>3. \A n \in Terminal : nd[n].level = num /\ nd[n].low = n /\ nd[n].high = n
  BY DEF Leveled, GoodTable, TypedTable
<1>4. \A n \in UsedOf(s, nd) : nd[n].level < num
  BY DEF Leveled
<1>5. ASSUME NEW n \in UsedOf(s, nd), NEW c \in {nd[n].low, nd[n].high}
      PROVE  nd[n].level < nd[c].level /\ c \in Terminal \cup UsedOf(s, nd)
  <2>1. c \in Terminal \cup UsedOf(s, nd)
    BY DEF GoodTable, ClosedTable
  <2>2. CASE c \in Terminal
    BY <2>2, <1>3, <1>4
  <2>3. CASE c \notin Terminal
    BY <2>1, <2>3 DEF Leveled, OrderedTable
  <2> QED
    BY <2>1, <2>2, <2>3
<1>6. \A n \in Terminal \cup UsedOf(s, nd) : nd[n].level \in 0..num
  BY <1>2, <1>3, <1>4
<1> QED
  BY <1>3, <1>4, <1>5, <1>6

(* Induction from the last level up: what holds of the terminals and of a  *)
(* node whose children it holds of, holds of every node of a closed part.  *)
LEMMA FromBelow ==
  ASSUME NEW s, NEW nd, NEW fr, NEW num \in Nat, GoodTable(s, nd, fr), Leveled(s, nd, num),
         NEW K \in SUBSET UsedOf(s, nd), ClosedPart(nd, K), NEW Good,
         Terminal \subseteq Good,
         \A n \in K : nd[n].low \in Good /\ nd[n].high \in Good => n \in Good
  PROVE  Terminal \cup K \subseteq Good
<1> SUFFICES ASSUME K \ Good # {} PROVE FALSE
  OBVIOUS
<1> DEFINE heights == {num - nd[n].level : n \in K \ Good}
<1>1. \A n \in K : nd[n].level \in 0..num
  BY LevelFacts
<1>2. heights \in SUBSET Nat /\ heights # {}
  BY <1>1
<1>3. PICK h \in heights : \A k \in heights : ~ (k < h)
  BY <1>2, LeastExists
<1>4. PICK n \in K \ Good : h = num - nd[n].level
  OBVIOUS
<1>5. ASSUME NEW c \in {nd[n].low, nd[n].high}
      PROVE  c \in Good
  <2>1. c \in Terminal \cup K
    BY DEF ClosedPart
  <2>2. nd[n].level < nd[c].level
    BY <1>4, LevelFacts
  <2>3. CASE c \in K
    <3>1. num - nd[c].level < h
      BY <2>2, <2>3, <1>1, <1>4
    <3> QED
      BY <3>1, <2>3, <1>3
  <2> QED
    BY <2>1, <2>3
<1> QED
  BY <1>4, <1>5

(* Functions are sets of assignments.                                      *)
LEMMA FunctionsInPoints ==
  ASSUME NEW f, NEW s, NEW nd, NEW fr, NEW num \in Nat,
         GoodTable(s, nd, fr), Leveled(s, nd, num), Denotes(f, s, nd, num)
  PROVE  \A n \in Terminal \cup UsedOf(s, nd) : f[n] \subseteq Points(num)
<1> DEFINE Good == {n \in Terminal \cup UsedOf(s, nd) : f[n] \subseteq Points(num)}
<1>1. Terminal \subseteq Good
  BY DEF Denotes, Terminal
<1>2. ClosedPart(nd, UsedOf(s, nd))
  BY DEF GoodTable, ClosedTable, ClosedPart
<1>3. \A n \in UsedOf(s, nd) : nd[n].low \in Good /\ nd[n].high \in Good => n \in Good
  BY DEF Denotes
<1> HIDE DEF Good
<1>4. Terminal \cup UsedOf(s, nd) \subseteq Good
  BY <1>1, <1>2, <1>3, FromBelow
<1> QED
  BY <1>4 DEF Good

(* Where two tables have the same nodes, closed under children, the nodes  *)
(* have the same functions: what becomes of other slots is of no account.  *)
LEMMA SameFunctions ==
  ASSUME NEW s, NEW nd, NEW fr, NEW f, NEW t, NEW new, NEW g, NEW num \in Nat,
         GoodTable(s, nd, fr), Leveled(s, nd, num),
         Denotes(f, s, nd, num), Denotes(g, t, new, num),
         NEW K \in SUBSET UsedOf(s, nd), K \subseteq UsedOf(t, new), ClosedPart(nd, K),
         SameNodes(nd, new, K)
  PROVE  \A n \in Terminal \cup K : g[n] = f[n]
<1> DEFINE Good == {n \in Terminal \cup K : g[n] = f[n]}
<1>1. Terminal \subseteq Good
  BY DEF Denotes, Terminal
<1>2. ASSUME NEW n \in K, nd[n].low \in Good, nd[n].high \in Good
      PROVE  n \in Good
  <2>1. f[n] = {x \in f[nd[n].low] : nd[n].level \notin x}
                 \cup {x \in f[nd[n].high] : nd[n].level \in x}
    BY DEF Denotes
  <2>2. g[n] = {x \in g[new[n].low] : new[n].level \notin x}
                 \cup {x \in g[new[n].high] : new[n].level \in x}
    BY DEF Denotes
  <2>3. new[n].level = nd[n].level /\ new[n].low = nd[n].low /\ new[n].high = nd[n].high
    BY DEF SameNodes
  <2>4. g[nd[n].low] = f[nd[n].low] /\ g[nd[n].high] = f[nd[n].high]
    BY <1>2
  <2> QED
    BY <2>1, <2>2, <2>3, <2>4
<1> HIDE DEF Good
<1>3. Terminal \cup K \subseteq Good
  BY <1>1, <1>2, FromBelow
<1> QED
  BY <1>3 DEF Good

-----------------------------------------------------------------------------
(* The operands of a call.                                                 *)

(* A closed set of nodes with their levels and functions.                  *)
GoodLevels(nd, num, U) ==
  /\ Terminal \subseteq U
  /\ \A n \in U : nd[n].level \in 0..num /\ nd[n].low \in U /\ nd[n].high \in U
  /\ \A n \in Terminal : nd[n].level = num
  /\ \A n \in U \ Terminal : /\ nd[n].level < num
                             /\ nd[n].level < nd[nd[n].low].level
                             /\ nd[n].level < nd[nd[n].high].level

GoodFunctions(nd, num, f, U) ==
  /\ f[FALSEBDD] = {} /\ f[TRUEBDD] = Points(num)
  /\ \A n \in U : f[n] \subseteq Points(num)
  /\ \A n \in U \ Terminal :
       f[n] = {x \in f[nd[n].low] : nd[n].level \notin x}
                \cup {x \in f[nd[n].high] : nd[n].level \in x}

View(nd, num, f, U) == num \in Nat /\ GoodLevels(nd, num, U) /\ GoodFunctions(nd, num, f, U)

(* A closed part of a good table is such a set.                            *)
LEMMA PartView ==
  ASSUME NEW s, NEW nd, NEW fr, NEW f, NEW num \in Nat, GoodTable(s, nd, fr),
         Leveled(s, nd, num), Denotes(f, s, nd, num),
         NEW K \in SUBSET UsedOf(s, nd), ClosedPart(nd, K)
  PROVE  View(nd, num, f, Terminal \cup K)
<1>1. /\ \A n \in Terminal \cup UsedOf(s, nd) : nd[n].level \in 0..num
      /\ \A n \in Terminal : nd[n].level = num /\ nd[n].low = n /\ nd[n].high = n
      /\ \A n \in UsedOf(s, nd) : /\ nd[n].level < num
                                  /\ nd[n].level < nd[nd[n].low].level
                                  /\ nd[n].level < nd[nd[n].high].level
  BY LevelFacts
<1>2. GoodLevels(nd, num, Terminal \cup K)
  BY <1>1 DEF GoodLevels, ClosedPart
<1>3. \A n \in Terminal \cup K : f[n] \subseteq Points(num)
  BY FunctionsInPoints
<1>4. GoodFunctions(nd, num, f, Terminal \cup K)
  BY <1>3 DEF GoodFunctions, Denotes
<1> QED
  BY <1>2, <1>4 DEF View

(* The numbers of operands.                                                *)
LEMMA Arities ==
  ASSUME NEW op \in Operators
  PROVE  /\ Arity(op) \in 1..3
         /\ op = "not" => Arity(op) = 1
         /\ op \in Binary => Arity(op) = 2
         /\ op = "ite" => Arity(op) = 3
<1>1. op \in Binary \/ op = "not" \/ op = "ite"
  BY DEF Operators
<1>2. "not" \notin Binary /\ "ite" \notin Binary /\ "not" # "ite"
  BY DEF Binary
<1>3. op = "not" => Arity(op) = 1
  BY <1>2 DEF Arity
<1>4. op \in Binary => Arity(op) = 2
  BY <1>2 DEF Arity
<1>5. op = "ite" => Arity(op) = 3
  BY <1>2 DEF Arity
<1> QED
  BY <1>1, <1>3, <1>4, <1>5

(* The top level of a call is the least level of its operands.             *)
LEMMA CallTop ==
  ASSUME NEW nd, NEW num \in Nat, NEW U, GoodLevels(nd, num, U), NEW op, NEW a, GoodCall(U, op, a)
  PROVE  /\ Len(a) = Arity(op) /\ Arity(op) \in 1..3
         /\ \A i \in 1..Len(a) : a[i] \in U
         /\ TopIn(nd, a) \in 0..num
         /\ \A i \in 1..Len(a) : TopIn(nd, a) <= nd[a[i]].level
         /\ \E i \in 1..Len(a) : TopIn(nd, a) = nd[a[i]].level
<1>1. Arity(op) \in 1..3 /\ a \in [1..Arity(op) -> U]
  BY Arities DEF GoodCall
<1>2. Len(a) = Arity(op)
  BY <1>1
<1>3. \A i \in 1..Len(a) : a[i] \in U
  BY <1>1, <1>2
<1>4. \A i \in 1..Len(a) : nd[a[i]].level \in 0..num
  BY <1>3 DEF GoodLevels
<1>5. LevelsIn(nd, a) \in SUBSET Nat
  BY <1>4 DEF LevelsIn
<1>6. 1 \in 1..Len(a)
  BY <1>1, <1>2
<1>7. LevelsIn(nd, a) # {}
  BY <1>6 DEF LevelsIn
<1>8. TopIn(nd, a) \in LevelsIn(nd, a) /\ \A y \in LevelsIn(nd, a) : TopIn(nd, a) <= y
  BY <1>5, <1>7, MinimumIsLeast DEF TopIn
<1>9. \A i \in 1..Len(a) : nd[a[i]].level \in LevelsIn(nd, a)
  BY DEF LevelsIn
<1>10. \E i \in 1..Len(a) : TopIn(nd, a) = nd[a[i]].level
  BY <1>8 DEF LevelsIn
<1> QED
  BY <1>1, <1>2, <1>3, <1>4, <1>8, <1>9, <1>10

(* The cofactors of operands are operands, further down.                   *)
LEMMA CallSide ==
  ASSUME NEW nd, NEW num \in Nat, NEW U, GoodLevels(nd, num, U), NEW op, NEW a, GoodCall(U, op, a),
         TopIn(nd, a) < num, NEW side \in {"low", "high"}
  PROVE  /\ GoodCall(U, op, SideOf(nd, a, side))
         /\ TopIn(nd, a) < TopIn(nd, SideOf(nd, a, side))
<1> DEFINE b == SideOf(nd, a, side)
           t == TopIn(nd, a)
<1>1. /\ Len(a) = Arity(op) /\ Arity(op) \in 1..3 /\ t \in 0..num
      /\ \A i \in 1..Len(a) : a[i] \in U /\ t <= nd[a[i]].level
  BY CallTop
<1>2. \A i \in 1..Len(a) : b[i] = IF nd[a[i]].level = t THEN nd[a[i]][side] ELSE a[i]
  BY DEF SideOf
<1>3. b = [i \in 1..Len(a) |-> b[i]]
  BY DEF SideOf
<1> HIDE DEF b, t
<1>4. ASSUME NEW i \in 1..Len(a)
      PROVE  b[i] \in U /\ t < nd[b[i]].level
  <2>1. a[i] \in U /\ t <= nd[a[i]].level /\ nd[a[i]].level \in 0..num
    BY <1>1 DEF GoodLevels
  <2>2. CASE nd[a[i]].level = t
    <3>1. a[i] \in U \ Terminal
      BY <2>1, <2>2 DEF GoodLevels, t
    <3>2. nd[a[i]][side] \in {nd[a[i]].low, nd[a[i]].high}
      OBVIOUS
    <3> QED
      BY <3>1, <3>2, <2>2, <1>2 DEF GoodLevels
  <2>3. CASE nd[a[i]].level # t
    BY <2>1, <2>3, <1>1, <1>2
  <2> QED
    BY <2>2, <2>3
<1>5. GoodCall(U, op, b)
  BY <1>1, <1>3, <1>4 DEF GoodCall
<1>6. Len(b) = Len(a)
  BY <1>1, <1>3
<1>7. PICK i \in 1..Len(b) : TopIn(nd, b) = nd[b[i]].level
  BY <1>5, CallTop
<1>8. t < TopIn(nd, b)
  BY <1>4, <1>6, <1>7
<1> QED
  BY <1>5, <1>8 DEF b, t

(* Under an assignment the operands have the values of their cofactors on  *)
(* the side of the top variable's value.                                   *)
LEMMA RowSide ==
  ASSUME NEW nd, NEW num, NEW f, NEW U, View(nd, num, f, U), NEW op, NEW a, GoodCall(U, op, a),
         TopIn(nd, a) < num, NEW x, NEW side \in {"low", "high"},
         side = "high" <=> TopIn(nd, a) \in x
  PROVE  Row(f, a, x) = Row(f, SideOf(nd, a, side), x)
<1> DEFINE b == SideOf(nd, a, side)
           t == TopIn(nd, a)
<1>1. /\ Len(a) = Arity(op) /\ Arity(op) \in 1..3
      /\ \A i \in 1..Len(a) : a[i] \in U
  BY CallTop DEF View
<1>2. \A i \in 1..Len(a) : b[i] = IF nd[a[i]].level = t THEN nd[a[i]][side] ELSE a[i]
  BY DEF SideOf
<1>3. Len(b) = Len(a)
  BY <1>1 DEF SideOf
<1>t. t < num /\ (side = "high" <=> t \in x)
  OBVIOUS
<1> HIDE DEF b, t
<1>4. ASSUME NEW i \in 1..Len(a)
      PROVE  x \in f[a[i]] <=> x \in f[b[i]]
  <2>1. CASE nd[a[i]].level = t
    <3>1. a[i] \in U \ Terminal
      BY <2>1, <1>1, <1>t DEF View, GoodLevels
    <3>2. f[a[i]] = {y \in f[nd[a[i]].low] : t \notin y} \cup {y \in f[nd[a[i]].high] : t \in y}
      BY <3>1, <2>1 DEF View, GoodFunctions
    <3>3. CASE side = "low"
      <4>1. b[i] = nd[a[i]].low /\ t \notin x
        BY <3>3, <1>2, <2>1, <1>t
      <4> QED
        BY <4>1, <3>2
    <3>4. CASE side = "high"
      <4>1. b[i] = nd[a[i]].high /\ t \in x
        BY <3>4, <1>2, <2>1, <1>t
      <4> QED
        BY <4>1, <3>2
    <3> QED
      BY <3>3, <3>4
  <2>2. CASE nd[a[i]].level # t
    BY <2>2, <1>2
  <2> QED
    BY <2>1, <2>2
<1>5. Row(f, a, x) = Row(f, b, x)
  <2>1. \A i \in 1..Len(a) : (x \in f[a[i]]) = (x \in f[b[i]])
    BY <1>4
  <2> QED
    BY <2>1, <1>3 DEF Row
<1> QED
  BY <1>5 DEF b

(* Shannon: what a call asks for is put together from what its operands'   *)
(* cofactors ask for.                                                      *)
LEMMA Expansion ==
  ASSUME NEW nd, NEW num, NEW f, NEW U, View(nd, num, f, U), NEW op, NEW a, GoodCall(U, op, a),
         TopIn(nd, a) < num
  PROVE  Means(num, f, op, a) =
           {x \in Means(num, f, op, SideOf(nd, a, "low")) : TopIn(nd, a) \notin x}
             \cup {x \in Means(num, f, op, SideOf(nd, a, "high")) : TopIn(nd, a) \in x}
<1> DEFINE t == TopIn(nd, a)
           lows == SideOf(nd, a, "low")
           highs == SideOf(nd, a, "high")
<1>1. \A x : t \notin x => Row(f, a, x) = Row(f, lows, x)
  BY RowSide
<1>2. \A x : t \in x => Row(f, a, x) = Row(f, highs, x)
  BY RowSide
<1> HIDE DEF t, lows, highs
<1>3. ASSUME NEW x
      PROVE  x \in Means(num, f, op, a) <=>
               \/ x \in Means(num, f, op, lows) /\ t \notin x
               \/ x \in Means(num, f, op, highs) /\ t \in x
  <2>1. CASE t \in x
    BY <2>1, <1>2, Zenon DEF Means
  <2>2. CASE t \notin x
    BY <2>2, <1>1, Zenon DEF Means
  <2> QED
    BY <2>1, <2>2
<1>4. Means(num, f, op, a) = {x \in Means(num, f, op, lows) : t \notin x}
                               \cup {x \in Means(num, f, op, highs) : t \in x}
  BY <1>3
<1> QED
  BY <1>4 DEF t, lows, highs

-----------------------------------------------------------------------------
(* Answers without a recursion.                                            *)

(* The rows of the truth tables.                                           *)
LEMMA TruthTable ==
  ASSUME NEW b
  PROVE  /\ Truth("and", b) = (b[1] /\ b[2])
         /\ Truth("xor", b) = (b[1] # b[2])
         /\ Truth("or", b) = (b[1] \/ b[2])
         /\ Truth("nand", b) = ~ (b[1] /\ b[2])
         /\ Truth("nor", b) = ~ (b[1] \/ b[2])
         /\ Truth("imp", b) = (b[1] => b[2])
         /\ Truth("biimp", b) = (b[1] = b[2])
         /\ Truth("diff", b) = (b[1] /\ ~ b[2])
         /\ Truth("less", b) = (~ b[1] /\ b[2])
         /\ Truth("invimp", b) = (b[2] => b[1])
         /\ Truth("not", b) = ~ b[1]
         /\ Truth("ite", b) = IF b[1] THEN b[2] ELSE b[3]
  BY DEF Truth

(* An entry of a row is the value of an operand.                           *)
LEMMA RowBits ==
  ASSUME NEW f, NEW a, NEW x
  PROVE  /\ Len(a) \in 1..3 => Row(f, a, x)[1] = (x \in f[a[1]])
         /\ Len(a) \in 2..3 => Row(f, a, x)[2] = (x \in f[a[2]])
         /\ Len(a) = 3 => Row(f, a, x)[3] = (x \in f[a[3]])
<1>1. Len(a) \in 1..3 => 1 \in 1..Len(a)
  OBVIOUS
<1>2. Len(a) \in 2..3 => 2 \in 1..Len(a)
  OBVIOUS
<1>3. Len(a) = 3 => 3 \in 1..Len(a)
  OBVIOUS
<1>4. \A i \in 1..Len(a) : Row(f, a, x)[i] = (x \in f[a[i]])
  BY DEF Row
<1>5. Len(a) \in 1..3 => Row(f, a, x)[1] = (x \in f[a[1]])
  BY <1>1, <1>4, Zenon
<1>6. Len(a) \in 2..3 => Row(f, a, x)[2] = (x \in f[a[2]])
  BY <1>2, <1>4, Zenon
<1>7. Len(a) = 3 => Row(f, a, x)[3] = (x \in f[a[3]])
  BY <1>3, <1>4, Zenon
<1> QED
  BY <1>5, <1>6, <1>7, Zenon

(* What the operators ask for, in terms of their operands' functions.      *)
LEMMA MeansBinary ==
  ASSUME NEW num, NEW f, NEW a, Len(a) = 2,
         f[a[1]] \subseteq Points(num), f[a[2]] \subseteq Points(num)
  PROVE  LET l == f[a[1]]
             r == f[a[2]]
         IN  /\ Means(num, f, "and", a) = l \cap r
             /\ Means(num, f, "xor", a) = (l \ r) \cup (r \ l)
             /\ Means(num, f, "or", a) = l \cup r
             /\ Means(num, f, "nand", a) = Points(num) \ (l \cap r)
             /\ Means(num, f, "nor", a) = Points(num) \ (l \cup r)
             /\ Means(num, f, "imp", a) = (Points(num) \ l) \cup r
             /\ Means(num, f, "biimp", a) = Points(num) \ ((l \ r) \cup (r \ l))
             /\ Means(num, f, "diff", a) = l \ r
             /\ Means(num, f, "less", a) = r \ l
             /\ Means(num, f, "invimp", a) = (Points(num) \ r) \cup l
<1> DEFINE l == f[a[1]]
           r == f[a[2]]
<1>0. Len(a) \in 1..3 /\ Len(a) \in 2..3
  OBVIOUS
<1>1. ASSUME NEW x
      PROVE  Row(f, a, x)[1] = (x \in l) /\ Row(f, a, x)[2] = (x \in r)
  BY <1>0, RowBits, Zenon
<1> HIDE DEF l, r
<1>a. \A x : Truth("and", Row(f, a, x)) <=> x \in l /\ x \in r
  BY <1>1, TruthTable, Zenon
<1>b. \A x : Truth("xor", Row(f, a, x)) <=> ~ (x \in l <=> x \in r)
  <2> TAKE x
  <2>1. Truth("xor", Row(f, a, x)) = (Row(f, a, x)[1] # Row(f, a, x)[2])
    BY TruthTable, Zenon
  <2>2. (Row(f, a, x)[1] = Row(f, a, x)[2]) <=> ((x \in l) = (x \in r))
    BY <1>1, Zenon
  <2>3. ((x \in l) = (x \in r)) <=> (x \in l <=> x \in r)
    OBVIOUS
  <2> QED
    BY <2>1, <2>2, <2>3, Zenon
<1>c. \A x : Truth("or", Row(f, a, x)) <=> x \in l \/ x \in r
  BY <1>1, TruthTable, Zenon
<1>d. \A x : Truth("nand", Row(f, a, x)) <=> ~ (x \in l /\ x \in r)
  BY <1>1, TruthTable, Zenon
<1>e. \A x : Truth("nor", Row(f, a, x)) <=> ~ (x \in l \/ x \in r)
  BY <1>1, TruthTable, Zenon
<1>f. \A x : Truth("imp", Row(f, a, x)) <=> (x \in l => x \in r)
  BY <1>1, TruthTable, Zenon
<1>g. \A x : Truth("biimp", Row(f, a, x)) <=> (x \in l <=> x \in r)
  <2> TAKE x
  <2>1. Truth("biimp", Row(f, a, x)) = (Row(f, a, x)[1] = Row(f, a, x)[2])
    BY TruthTable, Zenon
  <2>2. (Row(f, a, x)[1] = Row(f, a, x)[2]) <=> ((x \in l) = (x \in r))
    BY <1>1, Zenon
  <2>3. ((x \in l) = (x \in r)) <=> (x \in l <=> x \in r)
    OBVIOUS
  <2> QED
    BY <2>1, <2>2, <2>3, Zenon
<1>h. \A x : Truth("diff", Row(f, a, x)) <=> x \in l /\ x \notin r
  BY <1>1, TruthTable, Zenon
<1>i. \A x : Truth("less", Row(f, a, x)) <=> x \notin l /\ x \in r
  BY <1>1, TruthTable, Zenon
<1>j. \A x : Truth("invimp", Row(f, a, x)) <=> (x \in r => x \in l)
  BY <1>1, TruthTable, Zenon
<1>3. l \subseteq Points(num) /\ r \subseteq Points(num)
  BY DEF l, r
<1>4. Means(num, f, "and", a) = l \cap r
  BY <1>a, <1>3 DEF Means
<1>5. Means(num, f, "xor", a) = (l \ r) \cup (r \ l)
  BY <1>b, <1>3 DEF Means
<1>6. Means(num, f, "or", a) = l \cup r
  BY <1>c, <1>3 DEF Means
<1>7. Means(num, f, "nand", a) = Points(num) \ (l \cap r)
  BY <1>d, <1>3 DEF Means
<1>8. Means(num, f, "nor", a) = Points(num) \ (l \cup r)
  BY <1>e, <1>3 DEF Means
<1>9. Means(num, f, "imp", a) = (Points(num) \ l) \cup r
  BY <1>f, <1>3 DEF Means
<1>10. Means(num, f, "biimp", a) = Points(num) \ ((l \ r) \cup (r \ l))
  BY <1>g, <1>3 DEF Means
<1>11. Means(num, f, "diff", a) = l \ r
  BY <1>h, <1>3 DEF Means
<1>12. Means(num, f, "less", a) = r \ l
  BY <1>i, <1>3 DEF Means
<1>13. Means(num, f, "invimp", a) = (Points(num) \ r) \cup l
  BY <1>j, <1>3 DEF Means
<1> QED
  BY <1>4, <1>5, <1>6, <1>7, <1>8, <1>9, <1>10, <1>11, <1>12, <1>13 DEF l, r

(* What a negation and an if-then-else ask for.                            *)
LEMMA MeansOthers ==
  ASSUME NEW num, NEW f, NEW a, \A i \in 1..Len(a) : f[a[i]] \subseteq Points(num)
  PROVE  /\ Len(a) = 1 => Means(num, f, "not", a) = Points(num) \ f[a[1]]
         /\ Len(a) = 3 => Means(num, f, "ite", a) =
                            (f[a[1]] \cap f[a[2]]) \cup (f[a[3]] \ f[a[1]])
<1>1. ASSUME Len(a) = 1
      PROVE  Means(num, f, "not", a) = Points(num) \ f[a[1]]
  <2>1. ASSUME NEW x
        PROVE  Truth("not", Row(f, a, x)) <=> x \notin f[a[1]]
    <3>1. Len(a) \in 1..3
      BY <1>1
    <3>2. Row(f, a, x)[1] = (x \in f[a[1]])
      BY <3>1, RowBits, Zenon
    <3> QED
      BY <3>2, TruthTable, Zenon
  <2> QED
    BY <2>1 DEF Means
<1>2. ASSUME Len(a) = 3
      PROVE  Means(num, f, "ite", a) = (f[a[1]] \cap f[a[2]]) \cup (f[a[3]] \ f[a[1]])
  <2>1. ASSUME NEW x
        PROVE  Truth("ite", Row(f, a, x)) <=>
                 (x \in f[a[1]] /\ x \in f[a[2]]) \/ (x \notin f[a[1]] /\ x \in f[a[3]])
    <3>1. Len(a) \in 1..3 /\ Len(a) \in 2..3
      BY <1>2
    <3>2. /\ Row(f, a, x)[1] = (x \in f[a[1]]) /\ Row(f, a, x)[2] = (x \in f[a[2]])
          /\ Row(f, a, x)[3] = (x \in f[a[3]])
      BY <3>1, <1>2, RowBits, Zenon
    <3>3. Truth("ite", Row(f, a, x))
            = IF Row(f, a, x)[1] THEN Row(f, a, x)[2] ELSE Row(f, a, x)[3]
      BY TruthTable, Zenon
    <3> QED
      BY <3>2, <3>3, Zenon
  <2>2. 1 \in 1..Len(a) /\ 2 \in 1..Len(a) /\ 3 \in 1..Len(a)
    BY <1>2
  <2> QED
    BY <2>1, <2>2 DEF Means
<1> QED
  BY <1>1, <1>2


(* The tests at the head of apply_rec, not_rec and ite_rec.                *)
LEMMA ShortcutCases ==
  ASSUME NEW a, NEW n
  PROVE  LET l == a[1]
             r == a[Len(a)]
         IN  /\ n \in Shortcuts("and", a) =>
                  (l = r /\ n = l) \/ (0 \in {l, r} /\ n = 0) \/ (l = 1 /\ n = r) \/ (r = 1 /\ n = l)
             /\ n \in Shortcuts("or", a) =>
                  (l = r /\ n = l) \/ (1 \in {l, r} /\ n = 1) \/ (l = 0 /\ n = r) \/ (r = 0 /\ n = l)
             /\ n \in Shortcuts("xor", a) =>
                  (l = r /\ n = 0) \/ (l = 0 /\ n = r) \/ (r = 0 /\ n = l)
             /\ n \in Shortcuts("nand", a) => 0 \in {l, r} /\ n = 1
             /\ n \in Shortcuts("nor", a) => 1 \in {l, r} /\ n = 0
             /\ n \in Shortcuts("imp", a) =>
                  (l = 0 /\ n = 1) \/ (l = 1 /\ n = r) \/ (r = 1 /\ n = 1)
             /\ n \in Shortcuts("not", a) => l \in Terminal /\ n = 1 - l
             /\ n \in Shortcuts("ite", a) =>
                  \/ l = 1 /\ n = a[2]
                  \/ l = 0 /\ n = r
                  \/ a[2] = r /\ n = r
                  \/ a[2] = 1 /\ r = 0 /\ n = l
             /\ \A op \in {"biimp", "diff", "less", "invimp"} : Shortcuts(op, a) = {}
<1> DEFINE l == a[1]
           r == a[Len(a)]
<1>w. ASSUME NEW condition, NEW m
      PROVE  n \in When(condition, m) => condition /\ n = m
  BY DEF When
<1>1. n \in Shortcuts("and", a) =>
        (l = r /\ n = l) \/ (0 \in {l, r} /\ n = 0) \/ (l = 1 /\ n = r) \/ (r = 1 /\ n = l)
  BY <1>w DEF Shortcuts
<1>2. n \in Shortcuts("or", a) =>
        (l = r /\ n = l) \/ (1 \in {l, r} /\ n = 1) \/ (l = 0 /\ n = r) \/ (r = 0 /\ n = l)
  BY <1>w DEF Shortcuts
<1>3. n \in Shortcuts("xor", a) =>
        (l = r /\ n = 0) \/ (l = 0 /\ n = r) \/ (r = 0 /\ n = l)
  BY <1>w DEF Shortcuts
<1>4. n \in Shortcuts("nand", a) => 0 \in {l, r} /\ n = 1
  BY <1>w DEF Shortcuts
<1>5. n \in Shortcuts("nor", a) => 1 \in {l, r} /\ n = 0
  BY <1>w DEF Shortcuts
<1>6. n \in Shortcuts("imp", a) =>
        (l = 0 /\ n = 1) \/ (l = 1 /\ n = r) \/ (r = 1 /\ n = 1)
  BY <1>w DEF Shortcuts
<1>7. n \in Shortcuts("not", a) => l \in Terminal /\ n = 1 - l
  BY <1>w DEF Shortcuts
<1>8. n \in Shortcuts("ite", a) => \/ l = 1 /\ n = a[2]
                                   \/ l = 0 /\ n = r
                                   \/ a[2] = r /\ n = r
                                   \/ a[2] = 1 /\ r = 0 /\ n = l
  BY <1>w DEF Shortcuts
<1>9. \A op \in {"biimp", "diff", "less", "invimp"} : Shortcuts(op, a) = {}
  BY DEF Shortcuts
<1> QED
  BY <1>1, <1>2, <1>3, <1>4, <1>5, <1>6, <1>7, <1>8, <1>9

(* The rows of oprres.                                                     *)
LEMMA OprRows ==
  /\ OprRes["and"] = <<0, 0, 0, 1>> /\ OprRes["xor"] = <<0, 1, 1, 0>>
  /\ OprRes["or"] = <<0, 1, 1, 1>> /\ OprRes["nand"] = <<1, 1, 1, 0>>
  /\ OprRes["nor"] = <<1, 0, 0, 0>> /\ OprRes["imp"] = <<1, 1, 0, 1>>
  /\ OprRes["biimp"] = <<1, 0, 0, 1>> /\ OprRes["diff"] = <<0, 0, 1, 0>>
  /\ OprRes["less"] = <<0, 1, 0, 0>> /\ OprRes["invimp"] = <<1, 0, 1, 1>>
  BY DEF OprRes


(* An answer of a binary operator is a constant or an operand, with the    *)
(* function the operator asks for.                                         *)
LEMMA BinaryImmediate ==
  ASSUME NEW nd, NEW num, NEW f, NEW U, View(nd, num, f, U), NEW op \in Binary, NEW a,
         GoodCall(U, op, a), NEW n \in Immediate(op, a)
  PROVE  n \in {0, 1, a[1], a[2]} /\ f[n] = Means(num, f, op, a)
<1> DEFINE l == a[1]
           r == a[2]
           P == Points(num)
<1>1. Len(a) = 2 /\ l \in U /\ r \in U
  <2>0. op \in Operators /\ num \in Nat /\ GoodLevels(nd, num, U)
    BY DEF View, Operators
  <2>1. Len(a) = Arity(op) /\ (\A i \in 1..Len(a) : a[i] \in U)
    BY <2>0, CallTop
  <2>2. Arity(op) = 2
    BY <2>0, Arities
  <2>3. 1 \in 1..Len(a) /\ 2 \in 1..Len(a)
    BY <2>1, <2>2
  <2> QED
    BY <2>1, <2>2, <2>3
<1>2. f[l] \subseteq P /\ f[r] \subseteq P /\ f[0] = {} /\ f[1] = P
  BY <1>1 DEF View, GoodFunctions, FALSEBDD, TRUEBDD
<1>3. /\ Means(num, f, "and", a) = f[l] \cap f[r]
      /\ Means(num, f, "xor", a) = (f[l] \ f[r]) \cup (f[r] \ f[l])
      /\ Means(num, f, "or", a) = f[l] \cup f[r]
      /\ Means(num, f, "nand", a) = P \ (f[l] \cap f[r])
      /\ Means(num, f, "nor", a) = P \ (f[l] \cup f[r])
      /\ Means(num, f, "imp", a) = (P \ f[l]) \cup f[r]
      /\ Means(num, f, "biimp", a) = P \ ((f[l] \ f[r]) \cup (f[r] \ f[l]))
      /\ Means(num, f, "diff", a) = f[l] \ f[r]
      /\ Means(num, f, "less", a) = f[r] \ f[l]
      /\ Means(num, f, "invimp", a) = (P \ f[r]) \cup f[l]
  BY <1>1, <1>2, MeansBinary
<1>4. a[Len(a)] = r
  BY <1>1
<1> HIDE DEF l, r, P
<1>5. CASE n \in Shortcuts(op, a)
  <2>1. /\ op = "and" => (l = r /\ n = l) \/ (0 \in {l, r} /\ n = 0) \/ (l = 1 /\ n = r) \/ (r = 1 /\ n = l)
        /\ op = "or" => (l = r /\ n = l) \/ (1 \in {l, r} /\ n = 1) \/ (l = 0 /\ n = r) \/ (r = 0 /\ n = l)
        /\ op = "xor" => (l = r /\ n = 0) \/ (l = 0 /\ n = r) \/ (r = 0 /\ n = l)
        /\ op = "nand" => 0 \in {l, r} /\ n = 1
        /\ op = "nor" => 1 \in {l, r} /\ n = 0
        /\ op = "imp" => (l = 0 /\ n = 1) \/ (l = 1 /\ n = r) \/ (r = 1 /\ n = 1)
    BY <1>4, <1>5, ShortcutCases DEF l
  <2>2. op \notin {"biimp", "diff", "less", "invimp"}
    BY <1>5, ShortcutCases
  <2>3. op \in {"and", "xor", "or", "nand", "nor", "imp"}
    BY <2>2 DEF Binary
  <2>4. n \in {0, 1, l, r}
    BY <2>1, <2>3
  <2>5. op = "and" => f[n] = f[l] \cap f[r]
    BY <2>1, <1>2
  <2>6. op = "or" => f[n] = f[l] \cup f[r]
    BY <2>1, <1>2
  <2>7. op = "xor" => f[n] = (f[l] \ f[r]) \cup (f[r] \ f[l])
    BY <2>1, <1>2
  <2>8. op = "nand" => f[n] = P \ (f[l] \cap f[r])
    BY <2>1, <1>2
  <2>9. op = "nor" => f[n] = P \ (f[l] \cup f[r])
    BY <2>1, <1>2
  <2>10. op = "imp" => f[n] = (P \ f[l]) \cup f[r]
    BY <2>1, <1>2
  <2> QED
    BY <2>3, <2>4, <2>5, <2>6, <2>7, <2>8, <2>9, <2>10, <1>3 DEF l, r
<1>6. CASE n \in Constant(op, a)
  <2>1. l \in {0, 1} /\ r \in {0, 1} /\ n = OprRes[op][2 * l + r + 1]
    BY <1>4, <1>6 DEF Constant, When, Terminal, FALSEBDD, TRUEBDD, l
  <2>2. 2 * l + r + 1 \in 1..4
    BY <2>1
  <2>3. \A x1, x2, x3, x4 :
          <<x1, x2, x3, x4>>[2 * l + r + 1] = IF l = 0 THEN (IF r = 0 THEN x1 ELSE x2)
                                                        ELSE (IF r = 0 THEN x3 ELSE x4)
    BY <2>1
  <2>4. n = CASE op = "and" -> (IF l = 0 THEN (IF r = 0 THEN 0 ELSE 0) ELSE (IF r = 0 THEN 0 ELSE 1))
              [] op = "xor" -> (IF l = 0 THEN (IF r = 0 THEN 0 ELSE 1) ELSE (IF r = 0 THEN 1 ELSE 0))
              [] op = "or" -> (IF l = 0 THEN (IF r = 0 THEN 0 ELSE 1) ELSE (IF r = 0 THEN 1 ELSE 1))
              [] op = "nand" -> (IF l = 0 THEN (IF r = 0 THEN 1 ELSE 1) ELSE (IF r = 0 THEN 1 ELSE 0))
              [] op = "nor" -> (IF l = 0 THEN (IF r = 0 THEN 1 ELSE 0) ELSE (IF r = 0 THEN 0 ELSE 0))
              [] op = "imp" -> (IF l = 0 THEN (IF r = 0 THEN 1 ELSE 1) ELSE (IF r = 0 THEN 0 ELSE 1))
              [] op = "biimp" -> (IF l = 0 THEN (IF r = 0 THEN 1 ELSE 0) ELSE (IF r = 0 THEN 0 ELSE 1))
              [] op = "diff" -> (IF l = 0 THEN (IF r = 0 THEN 0 ELSE 0) ELSE (IF r = 0 THEN 1 ELSE 0))
              [] op = "less" -> (IF l = 0 THEN (IF r = 0 THEN 0 ELSE 1) ELSE (IF r = 0 THEN 0 ELSE 0))
              [] op = "invimp" -> (IF l = 0 THEN (IF r = 0 THEN 1 ELSE 0) ELSE (IF r = 0 THEN 1 ELSE 1))
    BY <2>1, <2>3, OprRows DEF Binary
  <2>5. n \in {0, 1}
    BY <2>4 DEF Binary
  <2>6. f[n] = Means(num, f, op, a)
    <3>1. l = 0 \/ l = 1
      BY <2>1
    <3>2. r = 0 \/ r = 1
      BY <2>1
    <3>a. op = "and" => f[n] = f[l] \cap f[r]
      BY <3>1, <3>2, <2>4, <1>2
    <3>b. op = "xor" => f[n] = (f[l] \ f[r]) \cup (f[r] \ f[l])
      BY <3>1, <3>2, <2>4, <1>2
    <3>c. op = "or" => f[n] = f[l] \cup f[r]
      BY <3>1, <3>2, <2>4, <1>2
    <3>d. op = "nand" => f[n] = P \ (f[l] \cap f[r])
      BY <3>1, <3>2, <2>4, <1>2
    <3>e. op = "nor" => f[n] = P \ (f[l] \cup f[r])
      BY <3>1, <3>2, <2>4, <1>2
    <3>f. op = "imp" => f[n] = (P \ f[l]) \cup f[r]
      BY <3>1, <3>2, <2>4, <1>2
    <3>g. op = "biimp" => f[n] = P \ ((f[l] \ f[r]) \cup (f[r] \ f[l]))
      BY <3>1, <3>2, <2>4, <1>2
    <3>h. op = "diff" => f[n] = f[l] \ f[r]
      BY <3>1, <3>2, <2>4, <1>2
    <3>i. op = "less" => f[n] = f[r] \ f[l]
      BY <3>1, <3>2, <2>4, <1>2
    <3>j. op = "invimp" => f[n] = (P \ f[r]) \cup f[l]
      BY <3>1, <3>2, <2>4, <1>2
    <3> QED
      BY <3>a, <3>b, <3>c, <3>d, <3>e, <3>f, <3>g, <3>h, <3>i, <3>j, <1>3 DEF Binary
  <2> QED
    BY <2>5, <2>6
<1> QED
  BY <1>5, <1>6 DEF Immediate


(* What there is to know of the operands of a call.                        *)
LEMMA Operand ==
  ASSUME NEW nd, NEW num \in Nat, NEW U, GoodLevels(nd, num, U), NEW op, NEW a, GoodCall(U, op, a)
  PROVE  /\ op \in Operators /\ Len(a) \in 1..3
         /\ op \in Binary => Len(a) = 2
         /\ op = "not" => Len(a) = 1
         /\ op = "ite" => Len(a) = 3
         /\ \A i \in 1..Len(a) : a[i] \in U /\ TopIn(nd, a) <= nd[a[i]].level
         /\ TopIn(nd, a) \in 0..num
<1>1. Len(a) = Arity(op) /\ Arity(op) \in 1..3
  BY CallTop
<1>2. \A i \in 1..Len(a) : a[i] \in U
  BY CallTop
<1>3. \A i \in 1..Len(a) : TopIn(nd, a) <= nd[a[i]].level
  BY CallTop
<1>4. TopIn(nd, a) \in 0..num
  BY CallTop
<1>5. op \in Operators
  BY DEF GoodCall
<1> QED
  BY <1>1, <1>2, <1>3, <1>4, <1>5, Arities

(* What a call answers at once answers it rightly.                         *)
LEMMA ImmediateRight ==
  ASSUME NEW nd, NEW num, NEW f, NEW U, View(nd, num, f, U), NEW op, NEW a,
         GoodCall(U, op, a), NEW n \in Immediate(op, a)
  PROVE  Answers(nd, num, f, TRUE, U, op, a, n)
<1>1. num \in Nat /\ GoodLevels(nd, num, U) /\ op \in Operators
  BY DEF View, GoodCall
<1>2. /\ Len(a) \in 1..3
      /\ op \in Binary => Len(a) = 2
      /\ op = "not" => Len(a) = 1
      /\ op = "ite" => Len(a) = 3
      /\ \A i \in 1..Len(a) : a[i] \in U
  BY <1>1, Operand
<1>3. TopIn(nd, a) \in 0..num /\ \A i \in 1..Len(a) : TopIn(nd, a) <= nd[a[i]].level
  BY <1>1, Operand
<1>4. f[0] = {} /\ f[1] = Points(num) /\ \A i \in 1..Len(a) : f[a[i]] \subseteq Points(num)
  BY <1>2 DEF View, GoodFunctions, FALSEBDD, TRUEBDD
<1>5. ASSUME n \in Terminal \/ (\E i \in 1..Len(a) : n = a[i]), f[n] = Means(num, f, op, a)
      PROVE  Answers(nd, num, f, TRUE, U, op, a, n)
  <2>1. CASE n \in Terminal
    <3>1. n \in U /\ nd[n].level = num
      BY <2>1, <1>1 DEF GoodLevels
    <3> QED
      BY <3>1, <1>3, <1>5 DEF Answers
  <2>2. CASE \E i \in 1..Len(a) : n = a[i]
    BY <2>2, <1>2, <1>3, <1>5 DEF Answers
  <2> QED
    BY <1>5, <2>1, <2>2
<1>6. CASE op \in Binary
  <2>1. n \in {0, 1, a[1], a[2]} /\ f[n] = Means(num, f, op, a)
    BY <1>6, BinaryImmediate
  <2>2. Len(a) = 2
    BY <1>2, <1>6
  <2>3. 1 \in 1..Len(a) /\ 2 \in 1..Len(a)
    BY <2>2
  <2> QED
    BY <2>1, <2>3, <1>5 DEF Terminal, FALSEBDD, TRUEBDD
<1>7. CASE op \notin Binary
  <2>1. n \in Shortcuts(op, a)
    BY <1>7 DEF Immediate, Constant, When
  <2>2. CASE op = "not"
    <3>1. Len(a) = 1
      BY <2>2, <1>2
    <3>2. 1 \in 1..Len(a)
      BY <3>1
    <3>3. a[1] \in Terminal /\ n = 1 - a[1]
      BY <2>1, <2>2, ShortcutCases
    <3>4. Means(num, f, op, a) = Points(num) \ f[a[1]]
      BY <3>1, <1>4, <2>2, MeansOthers
    <3>5. n \in Terminal /\ f[n] = Points(num) \ f[a[1]]
      BY <3>3, <1>4 DEF Terminal, FALSEBDD, TRUEBDD
    <3> QED
      BY <3>4, <3>5, <1>5
  <2>3. CASE op = "ite"
    <3>1. Len(a) = 3
      BY <2>3, <1>2
    <3>2. 1 \in 1..Len(a) /\ 2 \in 1..Len(a) /\ 3 \in 1..Len(a)
      BY <3>1
    <3>3. \/ a[1] = 1 /\ n = a[2]
          \/ a[1] = 0 /\ n = a[3]
          \/ a[2] = a[3] /\ n = a[3]
          \/ a[2] = 1 /\ a[3] = 0 /\ n = a[1]
      BY <2>1, <2>3, <3>1, ShortcutCases
    <3>4. Means(num, f, op, a) = (f[a[1]] \cap f[a[2]]) \cup (f[a[3]] \ f[a[1]])
      BY <3>1, <1>4, <2>3, MeansOthers
    <3>5. /\ f[a[1]] \subseteq Points(num) /\ f[a[2]] \subseteq Points(num)
          /\ f[a[3]] \subseteq Points(num)
      BY <3>2, <1>4
    <3>6. f[n] = (f[a[1]] \cap f[a[2]]) \cup (f[a[3]] \ f[a[1]])
      BY <3>3, <3>5, <1>4
    <3>7. \E i \in 1..Len(a) : n = a[i]
      BY <3>2, <3>3
    <3> QED
      BY <3>4, <3>6, <3>7, <1>5
  <2> QED
    BY <2>2, <2>3, <1>7, <1>1 DEF Operators
<1> QED
  BY <1>6, <1>7

(* A call without an immediate answer has an operand with a variable.      *)
LEMMA NotImmediate ==
  ASSUME NEW nd, NEW num, NEW U, num \in Nat, GoodLevels(nd, num, U), NEW op, NEW a,
         GoodCall(U, op, a), Immediate(op, a) = {}
  PROVE  TopIn(nd, a) < num
<1>1. /\ Len(a) \in 1..3 /\ op \in Operators
      /\ \A i \in 1..Len(a) : a[i] \in U /\ TopIn(nd, a) <= nd[a[i]].level
      /\ TopIn(nd, a) \in 0..num
  BY Operand
<1>2. Len(a) \in 1..Len(a) /\ 1 \in 1..Len(a)
  BY <1>1
<1>3. Shortcuts(op, a) = {} /\ Constant(op, a) = {}
  BY DEF Immediate
<1>4. a[1] \notin Terminal \/ a[Len(a)] \notin Terminal
  <2>1. CASE op \in Binary
    BY <2>1, <1>3 DEF Constant, When
  <2>2. CASE op = "not"
    BY <2>2, <1>3 DEF Shortcuts, When
  <2>3. CASE op = "ite"
    BY <2>3, <1>3 DEF Shortcuts, When, Terminal, FALSEBDD, TRUEBDD
  <2> QED
    BY <2>1, <2>2, <2>3, <1>1 DEF Operators
<1> QED
  BY <1>1, <1>2, <1>4 DEF GoodLevels

(* if-then-0-else-1 asks for what not asks for.                            *)
LEMMA NegationMeans ==
  ASSUME NEW nd, NEW num, NEW f, NEW U, View(nd, num, f, U), NEW op, NEW a,
         GoodCall(U, op, a), IsNegation(op, a)
  PROVE  /\ GoodCall(U, "not", <<a[1]>>)
         /\ Means(num, f, "not", <<a[1]>>) = Means(num, f, op, a)
         /\ TopIn(nd, <<a[1]>>) >= TopIn(nd, a)
<1>1. op = "ite" /\ a[2] = 0 /\ a[3] = 1 /\ num \in Nat /\ GoodLevels(nd, num, U)
      /\ "ite" \in Operators /\ "not" \in Operators
  BY DEF IsNegation, View, Operators
<1>2. /\ Len(a) = 3 /\ \A i \in 1..Len(a) : a[i] \in U
      /\ TopIn(nd, a) \in 0..num /\ \A i \in 1..Len(a) : TopIn(nd, a) <= nd[a[i]].level
  BY <1>1, Operand
<1>3. 1 \in 1..Len(a) /\ Arity("not") = 1
  BY <1>1, <1>2, Arities
<1> DEFINE b == <<a[1]>>
<1>4. Len(b) = 1 /\ b[1] = a[1] /\ b \in [1..1 -> U]
  BY <1>2, <1>3
<1> HIDE DEF b
<1>5. GoodCall(U, "not", b)
  BY <1>1, <1>3, <1>4 DEF GoodCall
<1>6. f[0] = {} /\ f[1] = Points(num) /\ \A i \in 1..Len(a) : f[a[i]] \subseteq Points(num)
  BY <1>2 DEF View, GoodFunctions, FALSEBDD, TRUEBDD
<1>7. Means(num, f, "not", b) = Points(num) \ f[a[1]]
  <2>1. \A i \in 1..Len(b) : f[b[i]] \subseteq Points(num)
    BY <1>3, <1>4, <1>6
  <2> QED
    BY <2>1, <1>4, MeansOthers
<1>8. Means(num, f, op, a) = (f[a[1]] \cap f[a[2]]) \cup (f[a[3]] \ f[a[1]])
  BY <1>1, <1>2, <1>6, MeansOthers
<1>9. Means(num, f, op, a) = Points(num) \ f[a[1]]
  BY <1>1, <1>8, <1>6
<1>10. TopIn(nd, b) >= TopIn(nd, a)
  <2>1. PICK i \in 1..Len(b) : TopIn(nd, b) = nd[b[i]].level
    BY <1>1, <1>5, CallTop
  <2> QED
    BY <2>1, <1>2, <1>3, <1>4
<1> QED
  BY <1>5, <1>7, <1>9, <1>10 DEF b


-----------------------------------------------------------------------------
(* What a call means survives where its nodes do.                          *)

(* The nodes of K are the same, with the same functions.                   *)
Carries(num, nd, f, new, g, K) ==
  /\ num \in Nat /\ GoodLevels(nd, num, K)
  /\ SameNodes(nd, new, K)
  /\ \A n \in K : g[n] = f[n]

(* The operands have the levels, the cofactors and the values they had.    *)
LEMMA CarriedCall ==
  ASSUME NEW nd, NEW f, NEW new, NEW g, NEW num, NEW K,
         Carries(num, nd, f, new, g, K), NEW op, NEW a, GoodCall(K, op, a)
  PROVE  /\ TopIn(new, a) = TopIn(nd, a)
         /\ \A side \in {"low", "high"} : SideOf(new, a, side) = SideOf(nd, a, side)
         /\ Means(num, g, op, a) = Means(num, f, op, a)
<1>1. \A i \in 1..Len(a) : a[i] \in K
  BY Operand DEF Carries
<1>2. \A i \in 1..Len(a) : new[a[i]].level = nd[a[i]].level
  BY <1>1 DEF Carries, SameNodes
<1>3. \A i \in 1..Len(a), side \in {"low", "high"} : new[a[i]][side] = nd[a[i]][side]
  <2>1. \A i \in 1..Len(a) : new[a[i]].low = nd[a[i]].low /\ new[a[i]].high = nd[a[i]].high
    BY <1>1 DEF Carries, SameNodes
  <2> QED
    BY <2>1
<1>4. \A i \in 1..Len(a) : g[a[i]] = f[a[i]]
  BY <1>1 DEF Carries
<1>5. LevelsIn(new, a) = LevelsIn(nd, a)
  BY <1>2 DEF LevelsIn
<1>6. TopIn(new, a) = TopIn(nd, a)
  BY <1>5 DEF TopIn
<1>7. ASSUME NEW side \in {"low", "high"}
      PROVE  SideOf(new, a, side) = SideOf(nd, a, side)
  BY <1>2, <1>3, <1>6 DEF SideOf
<1>8. \A x : Row(g, a, x) = Row(f, a, x)
  BY <1>4 DEF Row
<1>9. \A x : x \in Means(num, g, op, a) <=> x \in Means(num, f, op, a)
  BY <1>8, Zenon DEF Means
<1>10. Means(num, g, op, a) = Means(num, f, op, a)
  BY <1>9 DEF Means
<1> QED
  BY <1>6, <1>7, <1>10

(* The cofactors of operands are carried over with them.                   *)
LEMMA CarriedSide ==
  ASSUME NEW nd, NEW f, NEW new, NEW g, NEW num, NEW K,
         Carries(num, nd, f, new, g, K), NEW op, NEW a, GoodCall(K, op, a),
         TopIn(nd, a) < num, NEW side \in {"low", "high"}
  PROVE  /\ GoodCall(K, op, SideOf(nd, a, side))
         /\ Means(num, g, op, SideOf(new, a, side)) = Means(num, f, op, SideOf(nd, a, side))
<1>1. GoodCall(K, op, SideOf(nd, a, side))
  BY CallSide DEF Carries
<1>2. SideOf(new, a, side) = SideOf(nd, a, side)
  BY CarriedCall
<1>3. Means(num, g, op, SideOf(nd, a, side)) = Means(num, f, op, SideOf(nd, a, side))
  BY <1>1, CarriedCall
<1> QED
  BY <1>1, <1>2, <1>3

(* Operands from a larger set of nodes.                                    *)
LEMMA LargerPool ==
  ASSUME NEW P, NEW Q, P \subseteq Q, NEW op, NEW a, GoodCall(P, op, a)
  PROVE  GoodCall(Q, op, a)
  BY DEF GoodCall

(* The frames of a recursion go on as they are.                            *)
LEMMA CarriedFrames ==
  ASSUME NEW nd, NEW f, NEW new, NEW g, NEW num, NEW K,
         Carries(num, nd, f, new, g, K), NEW P, P \subseteq K, NEW Q, P \subseteq Q,
         NEW fr, GoodFrames(nd, num, f, P, fr)
  PROVE  GoodFrames(new, num, g, Q, fr)
<1>1. fr \in Seq(Frame) /\ (fr # << >> => fr[Len(fr)].step \in {"enter", "make"})
  BY DEF GoodFrames
<1>2. \A i \in 1..Len(fr) : GoodCall(P, fr[i].op, fr[i].args)
  BY DEF GoodFrames
<1>3. \A i \in 1..Len(fr) : GoodCall(Q, fr[i].op, fr[i].args) /\ GoodCall(K, fr[i].op, fr[i].args)
  BY <1>2, LargerPool
<1>4. ASSUME NEW i \in 1..Len(fr)
      PROVE  TopIn(new, fr[i].args) = TopIn(nd, fr[i].args)
  <2>1. GoodCall(K, fr[i].op, fr[i].args)
    BY <1>3
  <2> QED
    BY <2>1, CarriedCall
<1>5. \A i \in 1..Len(fr) : fr[i].step # "enter" => TopIn(nd, fr[i].args) < num
  BY DEF GoodFrames
<1>6. ASSUME NEW i \in 1..(Len(fr) - 1)
      PROVE  Delegates(new, num, g, fr[i], fr[i + 1])
  <2>1. Delegates(nd, num, f, fr[i], fr[i + 1])
    BY DEF GoodFrames
  <2>2. Len(fr) \in Nat
    BY <1>1, LenProperties
  <2>3. i \in 1..Len(fr) /\ i + 1 \in 1..Len(fr)
    BY <2>2
  <2>4. fr[i].step \in {"low", "high"} /\ TopIn(nd, fr[i].args) < num
    BY <2>1, <2>3, <1>5 DEF Delegates
  <2>5. Means(num, g, fr[i].op, SideOf(new, fr[i].args, fr[i].step))
          = Means(num, f, fr[i].op, SideOf(nd, fr[i].args, fr[i].step))
    <3>1. GoodCall(K, fr[i].op, fr[i].args) /\ fr[i].step \in {"low", "high"}
      BY <2>3, <2>4, <1>3
    <3> QED
      BY <3>1, <2>4, CarriedSide
  <2>6. Means(num, g, fr[i + 1].op, fr[i + 1].args) = Means(num, f, fr[i + 1].op, fr[i + 1].args)
    BY <2>3, <1>3, CarriedCall
  <2>7. TopIn(new, fr[i].args) < TopIn(new, fr[i + 1].args)
    BY <2>1, <2>3, <1>4 DEF Delegates
  <2>8. Means(num, g, fr[i + 1].op, fr[i + 1].args)
          = Means(num, g, fr[i].op, SideOf(new, fr[i].args, fr[i].step))
    BY <2>1, <2>5, <2>6 DEF Delegates
  <2> QED
    BY <2>4, <2>7, <2>8 DEF Delegates
<1>7. \A i \in 1..Len(fr) : fr[i].step # "enter" => TopIn(new, fr[i].args) < num
  BY <1>4, <1>5
<1> QED
  BY <1>1, <1>3, <1>6, <1>7 DEF GoodFrames

(* Later calls have their results further up the stack.                    *)
LEMMA OffsetsRise ==
  ASSUME NEW fr \in Seq(Frame), NEW b, Offsets(fr, b), NEW last \in 1..(Len(fr) + 1)
  PROVE  \A i \in 1..last : b[i] <= b[last]
<1> DEFINE wrong == {last - i : i \in {j \in 1..last : ~ (b[j] <= b[last])}}
<1> SUFFICES ASSUME wrong # {} PROVE FALSE
  OBVIOUS
<1>1. last \in Nat /\ Len(fr) \in Nat
  BY LenProperties
<1>2. wrong \in SUBSET Nat
  BY <1>1
<1>3. PICK d \in wrong : \A e \in wrong : ~ (e < d)
  BY <1>2, LeastExists
<1>4. PICK i \in 1..last : d = last - i /\ ~ (b[i] <= b[last])
  OBVIOUS
<1>5. b \in [1..(Len(fr) + 1) -> Nat]
  BY DEF Offsets
<1>6. i # last
  BY <1>4, <1>5
<1>7. i \in 1..Len(fr) /\ i + 1 \in 1..last /\ i + 1 \in 1..(Len(fr) + 1) /\ i \in 1..(Len(fr) + 1)
  BY <1>1, <1>4, <1>6
<1>8. b[i + 1] = b[i] + Pushed(fr[i])
  BY <1>7 DEF Offsets
<1>9. Pushed(fr[i]) \in 0..2
  <2>1. fr[i] \in Frame
    BY <1>7
  <2>2. fr[i].step \in {"enter", "low", "high", "make"}
    BY <2>1 DEF Frame
  <2> QED
    BY <2>2 DEF Pushed
<1>10. b[i] \in Nat /\ b[i + 1] \in Nat /\ b[last] \in Nat
  BY <1>5, <1>7, <1>1
<1>11. ~ (b[i + 1] <= b[last])
  BY <1>4, <1>8, <1>9, <1>10
<1>12. last - (i + 1) \in wrong
  BY <1>7, <1>11
<1> HIDE DEF wrong
<1>13. last - (i + 1) < d
  BY <1>1, <1>4, <1>7
<1> QED
  BY <1>12, <1>13, <1>3

(* Where a result lies on the stack.                                       *)
LEMMA ResultPlace ==
  ASSUME NEW fr \in Seq(Frame), NEW b, Offsets(fr, b), NEW i \in 1..Len(fr),
         NEW side \in {"low", "high"}, Pushed(fr[i]) >= Place(side), NEW last \in (i + 1)..(Len(fr) + 1)
  PROVE  /\ b[i] + Place(side) \in 1..b[last]
         /\ fr[i].step \in {"high", "make"} /\ fr[i].step # "enter"
<1>1. Len(fr) \in Nat /\ fr[i] \in Frame /\ i + 1 \in 1..(Len(fr) + 1) /\ i \in 1..(Len(fr) + 1)
  BY LenProperties
<1>2. fr[i].step \in {"enter", "low", "high", "make"}
  BY <1>1 DEF Frame
<1>3. Pushed(fr[i]) \in 0..2 /\ (Pushed(fr[i]) > 0 => fr[i].step \in {"high", "make"})
  BY <1>2 DEF Pushed
<1>4. Place(side) \in 1..2
  BY DEF Place
<1>5. b \in [1..(Len(fr) + 1) -> Nat] /\ b[i + 1] = b[i] + Pushed(fr[i])
  BY DEF Offsets
<1>l. last \in 1..(Len(fr) + 1) /\ i + 1 \in 1..last
  BY <1>1
<1>6. b[i] \in Nat /\ b[i + 1] \in Nat /\ b[last] \in Nat
  BY <1>1, <1>5, <1>l
<1>7. b[i + 1] <= b[last]
  BY <1>l, OffsetsRise
<1>8. fr[i].step \in {"high", "make"}
  BY <1>3, <1>4
<1> QED
  BY <1>3, <1>4, <1>5, <1>6, <1>7, <1>8

(* The results on the stack go on answering their calls.                   *)
LEMMA CarriedResults ==
  ASSUME NEW nd, NEW f, NEW new, NEW g, NEW num, NEW K,
         Carries(num, nd, f, new, g, K), NEW P, P \subseteq K,
         NEW fr, GoodFrames(nd, num, f, P, fr), NEW stack,
         \A i \in 1..Len(stack) : stack[i] \in K,
         NEW ok, NEW still, still => ok, NEW b, Results(nd, num, f, ok, fr, b, stack)
  PROVE  Results(new, num, g, still, fr, b, stack)
<1>1. fr \in Seq(Frame) /\ Offsets(fr, b) /\ Len(stack) = b[Len(fr) + 1]
  BY DEF GoodFrames, Results
<1>2. ASSUME NEW i \in 1..Len(fr), NEW side \in {"low", "high"}, Pushed(fr[i]) >= Place(side)
      PROVE  AnswersSide(new, num, g, still, fr[i], side, stack[b[i] + Place(side)])
  <2> DEFINE n == stack[b[i] + Place(side)]
             r == fr[i]
  <2>1. b[i] + Place(side) \in 1..Len(stack) /\ r.step # "enter"
    <3>1. Len(fr) + 1 \in (i + 1)..(Len(fr) + 1)
      BY <1>1, LenProperties
    <3> QED
      BY <3>1, <1>1, <1>2, ResultPlace
  <2>2. n \in K
    BY <2>1
  <2>3. AnswersSide(nd, num, f, ok, r, side, n)
    BY <1>2 DEF Results
  <2>4. GoodCall(P, r.op, r.args) /\ TopIn(nd, r.args) < num
    BY <2>1 DEF GoodFrames
  <2> HIDE DEF n, r
  <2>5. GoodCall(K, r.op, r.args)
    BY <2>4, LargerPool
  <2>6. TopIn(new, r.args) = TopIn(nd, r.args)
    BY <2>5, CarriedCall
  <2>7. Means(num, g, r.op, SideOf(new, r.args, side)) = Means(num, f, r.op, SideOf(nd, r.args, side))
    BY <2>4, <2>5, CarriedSide
  <2>8. new[n].level = nd[n].level /\ g[n] = f[n]
    BY <2>2 DEF Carries, SameNodes
  <2>9. AnswersSide(new, num, g, still, r, side, n)
    BY <2>3, <2>6, <2>7, <2>8, Zenon DEF AnswersSide
  <2> QED
    BY <2>9 DEF n, r
<1> QED
  BY <1>1, <1>2 DEF Results

(* A cache entry goes on answering its call.                               *)
LEMMA CarriedCache ==
  ASSUME NEW nd, NEW f, NEW new, NEW g, NEW num, NEW U,
         Carries(num, nd, f, new, g, U), NEW V, U \subseteq V, NEW ok, NEW still, still => ok,
         NEW ch, GoodCache(nd, num, f, ok, U, ch)
  PROVE  GoodCache(new, num, g, still, V, ch)
<1>1. ASSUME NEW e, GoodEntry(nd, num, f, ok, U, e), e # NoEntry
      PROVE  GoodEntry(new, num, g, still, V, e)
  <2>1. GoodCall(U, e.op, e.args) /\ Answers(nd, num, f, ok, U, e.op, e.args, e.res)
    BY <1>1 DEF GoodEntry
  <2> DEFINE op == e.op
             a  == e.args
             n  == e.res
  <2>2. GoodCall(U, op, a) /\ Answers(nd, num, f, ok, U, op, a, n)
    BY <2>1
  <2> HIDE DEF op, a, n
  <2>3. GoodCall(V, op, a)
    BY <2>2, LargerPool
  <2>4. TopIn(new, a) = TopIn(nd, a)
    BY <2>2, CarriedCall
  <2>5. Means(num, g, op, a) = Means(num, f, op, a)
    BY <2>2, CarriedCall
  <2>6. n \in U
    BY <2>2 DEF Answers
  <2>7. n \in V /\ new[n].level = nd[n].level /\ g[n] = f[n]
    BY <2>6 DEF Carries, SameNodes
  <2>8. Answers(new, num, g, still, V, op, a, n)
    BY <2>2, <2>4, <2>5, <2>7, Zenon DEF Answers
  <2> QED
    BY <2>3, <2>8 DEF GoodEntry, op, a, n
<1>2. \A e : GoodEntry(nd, num, f, ok, U, e) => GoodEntry(new, num, g, still, V, e)
  BY <1>1 DEF GoodEntry
<1> QED
  BY <1>2 DEF GoodCache


-----------------------------------------------------------------------------
(* How a recursion goes on: below some call nothing changes, that call is  *)
(* replaced by x, and a call of its own may follow.                        *)

Continues(fr, k, x, new) ==
  /\ new \in Seq(Frame)
  /\ k \in Nat /\ k + 1 \in 1..Len(fr) /\ Len(new) \in {k + 1, k + 2}
  /\ \A i \in 1..k : new[i] = fr[i]
  /\ new[k + 1] = x

(* x asks for what the call before it asked for.                           *)
TakesOver(nd, num, f, P, was, x) ==
  /\ GoodCall(P, x.op, x.args)
  /\ Means(num, f, x.op, x.args) = Means(num, f, was.op, was.args)
  /\ TopIn(nd, was.args) <= TopIn(nd, x.args)
  /\ x.step # "enter" => TopIn(nd, x.args) < num

(* The last call of the new frames: x itself, or the one it waits for.     *)
Ends(nd, k, x, new) ==
  /\ Len(new) = k + 1 => x.step \in {"enter", "make"}
  /\ Len(new) = k + 2 => /\ x.step \in {"low", "high"}
                         /\ new[k + 2] = NewFrame(x.op, SideOf(nd, x.args, x.step))

(* The calls after a step of the top one.                                  *)
LEMMA FramesGoOn ==
  ASSUME NEW nd, NEW num \in Nat, NEW f, NEW P, GoodLevels(nd, num, P),
         NEW fr, GoodFrames(nd, num, f, P, fr), NEW k, NEW x, NEW new, Continues(fr, k, x, new),
         TakesOver(nd, num, f, P, fr[k + 1], x), Ends(nd, k, x, new)
  PROVE  /\ GoodFrames(nd, num, f, P, new)
         /\ \A want : AsksFor(num, f, fr, want) => AsksFor(num, f, new, want)
<1>1. /\ new \in Seq(Frame) /\ k \in Nat /\ k + 1 \in 1..Len(fr) /\ Len(new) \in {k + 1, k + 2}
      /\ \A i \in 1..k : new[i] = fr[i]
      /\ new[k + 1] = x /\ fr \in Seq(Frame)
  BY DEF Continues, GoodFrames
<1>2. /\ GoodCall(P, x.op, x.args)
      /\ Means(num, f, x.op, x.args) = Means(num, f, fr[k + 1].op, fr[k + 1].args)
      /\ TopIn(nd, fr[k + 1].args) <= TopIn(nd, x.args)
      /\ x.step # "enter" => TopIn(nd, x.args) < num
  BY DEF TakesOver
<1>3. Len(fr) \in Nat /\ 1..k \subseteq 1..Len(fr)
  BY <1>1, LenProperties
<1>t. ASSUME NEW op, NEW a, GoodCall(P, op, a)
      PROVE  TopIn(nd, a) \in Nat
  <2>1. TopIn(nd, a) \in 0..num
    BY <1>t, Operand
  <2> QED
    BY <2>1
<1> DEFINE y == new[k + 2]
<1>4. ASSUME Len(new) = k + 2
      PROVE  /\ x.step \in {"low", "high"} /\ x.step # "enter"
             /\ y.op = x.op /\ y.args = SideOf(nd, x.args, x.step) /\ y.step = "enter"
             /\ GoodCall(P, y.op, y.args)
             /\ TopIn(nd, x.args) < TopIn(nd, y.args)
  <2>1. x.step \in {"low", "high"} /\ y = NewFrame(x.op, SideOf(nd, x.args, x.step))
    BY <1>4 DEF Ends
  <2>2. y.op = x.op /\ y.args = SideOf(nd, x.args, x.step) /\ y.step = "enter"
    BY <2>1 DEF NewFrame
  <2>3. TopIn(nd, x.args) < num
    BY <2>1, <1>2
  <2> HIDE DEF y
  <2>4. GoodCall(P, x.op, SideOf(nd, x.args, x.step)) /\ TopIn(nd, x.args) < TopIn(nd, SideOf(nd, x.args, x.step))
    BY <2>1, <2>3, <1>2, CallSide
  <2> QED
    BY <2>1, <2>2, <2>4
<1>5. Len(new) = k + 1 => x.step \in {"enter", "make"}
  BY DEF Ends
<1>6. \A i \in 1..Len(new) : i \in 1..k \/ i = k + 1 \/ (i = k + 2 /\ Len(new) = k + 2)
  BY <1>1
<1>7. \A i \in 1..Len(new) : GoodCall(P, new[i].op, new[i].args)
  BY <1>1, <1>2, <1>3, <1>4, <1>6 DEF GoodFrames
<1>8. \A i \in 1..Len(new) : new[i].step # "enter" => TopIn(nd, new[i].args) < num
  BY <1>1, <1>2, <1>3, <1>4, <1>6 DEF GoodFrames
<1>9. ASSUME NEW i \in 1..(Len(new) - 1)
      PROVE  Delegates(nd, num, f, new[i], new[i + 1])
  <2>1. i \in 1..k \/ (i = k + 1 /\ Len(new) = k + 2)
    BY <1>1
  <2>2. CASE i = k + 1 /\ Len(new) = k + 2
    <3>1. new[i] = x /\ new[i + 1] = y
      BY <2>2, <1>1
    <3>2. /\ x.step \in {"low", "high"}
          /\ y.op = x.op /\ y.args = SideOf(nd, x.args, x.step)
          /\ TopIn(nd, x.args) < TopIn(nd, y.args)
      BY <2>2, <1>4
    <3> HIDE DEF y
    <3> QED
      BY <3>1, <3>2 DEF Delegates
  <2>3. CASE i \in 1..k
    <3>1. Delegates(nd, num, f, fr[i], fr[i + 1])
      BY <2>3, <1>1, <1>3 DEF GoodFrames
    <3>2. CASE i # k
      <4>1. i + 1 \in 1..k
        BY <2>3, <3>2, <1>1
      <4> QED
        BY <4>1, <2>3, <3>1, <1>1
    <3>3. CASE i = k
      <4>1. new[i] = fr[i] /\ new[i + 1] = x
        BY <2>3, <3>3, <1>1
      <4>2. /\ fr[i].step \in {"low", "high"} /\ TopIn(nd, fr[i].args) < TopIn(nd, fr[k + 1].args)
            /\ Means(num, f, fr[k + 1].op, fr[k + 1].args)
                 = Means(num, f, fr[i].op, SideOf(nd, fr[i].args, fr[i].step))
        BY <3>1, <3>3 DEF Delegates
      <4>3. GoodCall(P, fr[i].op, fr[i].args) /\ GoodCall(P, fr[k + 1].op, fr[k + 1].args)
        BY <2>3, <1>1, <1>3 DEF GoodFrames
      <4>4. /\ TopIn(nd, fr[i].args) \in Nat /\ TopIn(nd, fr[k + 1].args) \in Nat
            /\ TopIn(nd, x.args) \in Nat
        BY <4>3, <1>2, <1>t
      <4>5. TopIn(nd, fr[i].args) < TopIn(nd, x.args)
        BY <4>2, <4>4, <1>2
      <4> QED
        BY <4>1, <4>2, <4>5, <1>2 DEF Delegates
    <3> QED
      BY <3>2, <3>3
  <2> QED
    BY <2>1, <2>2, <2>3
<1>10. new # << >> => new[Len(new)].step \in {"enter", "make"}
  <2>1. CASE Len(new) = k + 1
    BY <2>1, <1>1, <1>5
  <2>2. CASE Len(new) = k + 2
    BY <2>2, <1>4
  <2> QED
    BY <2>1, <2>2, <1>1
<1>11. GoodFrames(nd, num, f, P, new)
  BY <1>1, <1>7, <1>8, <1>9, <1>10 DEF GoodFrames
<1>12. ASSUME NEW want, AsksFor(num, f, fr, want)
       PROVE  AsksFor(num, f, new, want)
  <2>1. fr # << >>
    BY <1>1
  <2>2. Means(num, f, fr[1].op, fr[1].args) = want
    BY <2>1, <1>12 DEF AsksFor
  <2>3. CASE k = 0
    BY <2>2, <2>3, <1>1, <1>2 DEF AsksFor
  <2>4. CASE k # 0
    <3>1. 1 \in 1..k
      BY <2>4, <1>1
    <3> QED
      BY <2>2, <3>1, <1>1 DEF AsksFor
  <2> QED
    BY <2>3, <2>4
<1> QED
  BY <1>11, <1>12


(* The stack goes on with x: what lies below the results of the call it    *)
(* replaces, then its own results.                                         *)
StackGoesOn(nd, num, f, ok, b, k, x, stack, pile) ==
  /\ Len(pile) = b[k + 1] + Pushed(x)
  /\ \A i \in 1..b[k + 1] : pile[i] = stack[i]
  /\ \A side \in {"low", "high"} :
       Pushed(x) >= Place(side) => AnswersSide(nd, num, f, ok, x, side, pile[b[k + 1] + Place(side)])

(* The stack after a step of the top call.                                 *)
LEMMA ResultsGoOn ==
  ASSUME NEW nd, NEW num, NEW f, NEW ok, NEW fr \in Seq(Frame), NEW b, NEW stack,
         Results(nd, num, f, ok, fr, b, stack), NEW k, NEW x, NEW new, Continues(fr, k, x, new),
         Ends(nd, k, x, new), NEW pile, StackGoesOn(nd, num, f, ok, b, k, x, stack, pile)
  PROVE  \E c \in [1..(Len(new) + 1) -> Nat] : Results(nd, num, f, ok, new, c, pile)
<1>1. /\ new \in Seq(Frame) /\ k \in Nat /\ k + 1 \in 1..Len(fr) /\ Len(new) \in {k + 1, k + 2}
      /\ \A i \in 1..k : new[i] = fr[i]
      /\ new[k + 1] = x
  BY DEF Continues
<1>2. Offsets(fr, b)
  BY DEF Results
<1>3. /\ Len(fr) \in Nat /\ b \in [1..(Len(fr) + 1) -> Nat] /\ b[1] = 0
      /\ \A i \in 1..Len(fr) : b[i + 1] = b[i] + Pushed(fr[i])
  BY <1>2, LenProperties DEF Offsets
<1>4. 1..(k + 1) \subseteq 1..(Len(fr) + 1) /\ 1..k \subseteq 1..Len(fr) /\ k + 1 \in 1..Len(new)
  BY <1>1, <1>3
<1>5. Pushed(x) \in 0..2
  <2>1. x \in Frame
    BY <1>1, <1>4
  <2>2. x.step \in {"enter", "low", "high", "make"}
    BY <2>1 DEF Frame
  <2> QED
    BY <2>2 DEF Pushed
<1>6. Len(new) = k + 2 => Pushed(new[k + 2]) = 0
  <2> SUFFICES ASSUME Len(new) = k + 2 PROVE Pushed(new[k + 2]) = 0
    OBVIOUS
  <2>1. new[k + 2].step = "enter"
    BY DEF Ends, NewFrame
  <2> QED
    BY <2>1 DEF Pushed
<1> DEFINE c == [i \in 1..(Len(new) + 1) |-> IF i <= k + 1 THEN b[i] ELSE b[k + 1] + Pushed(x)]
<1>7. /\ \A i \in 1..(k + 1) : c[i] = b[i]
      /\ c[k + 2] = b[k + 1] + Pushed(x)
      /\ Len(new) = k + 2 => c[k + 3] = b[k + 1] + Pushed(x)
  BY <1>1
<1>8. b[k + 1] \in Nat /\ \A i \in 1..(k + 1) : b[i] \in Nat
  BY <1>1, <1>3, <1>4
<1>9. c \in [1..(Len(new) + 1) -> Nat]
  BY <1>1, <1>5, <1>8
<1> HIDE DEF c
<1>10. \A i \in 1..Len(new) : i \in 1..k \/ i = k + 1 \/ (i = k + 2 /\ Len(new) = k + 2)
  BY <1>1
<1>11. ASSUME NEW i \in 1..Len(new)
       PROVE  c[i + 1] = c[i] + Pushed(new[i])
  <2>1. CASE i \in 1..k
    <3>1. i \in 1..(k + 1) /\ i + 1 \in 1..(k + 1) /\ i \in 1..Len(fr)
      BY <2>1, <1>1, <1>4
    <3> QED
      BY <2>1, <3>1, <1>1, <1>3, <1>7
  <2>2. CASE i = k + 1
    <3>1. k + 1 \in 1..(k + 1) /\ (k + 1) + 1 = k + 2
      BY <1>1
    <3> QED
      BY <2>2, <3>1, <1>1, <1>7
  <2>3. CASE i = k + 2 /\ Len(new) = k + 2
    <3>1. (k + 2) + 1 = k + 3
      BY <1>1
    <3>2. c[k + 3] = c[k + 2] /\ c[k + 2] \in Nat
      BY <2>3, <1>5, <1>7, <1>8
    <3> QED
      BY <2>3, <3>1, <3>2, <1>6
  <2> QED
    BY <2>1, <2>2, <2>3, <1>10
<1>12. c[1] = 0
  BY <1>1, <1>3, <1>7
<1>13. Offsets(new, c)
  BY <1>9, <1>11, <1>12 DEF Offsets
<1>14. Len(pile) = c[Len(new) + 1]
  <2>1. Len(pile) = b[k + 1] + Pushed(x)
    BY DEF StackGoesOn
  <2>2. (k + 1) + 1 = k + 2 /\ (k + 2) + 1 = k + 3
    BY <1>1
  <2> QED
    BY <2>1, <2>2, <1>1, <1>7
<1>15. ASSUME NEW i \in 1..Len(new), NEW side \in {"low", "high"}, Pushed(new[i]) >= Place(side)
       PROVE  AnswersSide(nd, num, f, ok, new[i], side, pile[c[i] + Place(side)])
  <2>0. Place(side) \in 1..2
    BY DEF Place
  <2>1. CASE i \in 1..k
    <3>1. new[i] = fr[i] /\ c[i] = b[i] /\ i \in 1..Len(fr) /\ k + 1 \in (i + 1)..(Len(fr) + 1)
      BY <2>1, <1>1, <1>3, <1>4, <1>7
    <3>2. b[i] + Place(side) \in 1..b[k + 1]
      BY <3>1, <1>2, <1>15, ResultPlace
    <3>3. pile[b[i] + Place(side)] = stack[b[i] + Place(side)]
      BY <3>2 DEF StackGoesOn
    <3>4. AnswersSide(nd, num, f, ok, fr[i], side, stack[b[i] + Place(side)])
      BY <3>1, <1>15 DEF Results
    <3> QED
      BY <3>1, <3>3, <3>4
  <2>2. CASE i = k + 1
    <3>1. new[i] = x /\ c[i] = b[k + 1]
      BY <2>2, <1>1, <1>7
    <3> QED
      BY <3>1, <1>15 DEF StackGoesOn
  <2>3. CASE i = k + 2 /\ Len(new) = k + 2
    BY <2>3, <2>0, <1>6, <1>15
  <2> QED
    BY <2>1, <2>2, <2>3, <1>10
<1>16. Results(nd, num, f, ok, new, c, pile)
  BY <1>13, <1>14, <1>15 DEF Results
<1> QED
  BY <1>9, <1>16


(* A frame is typed if its call is good.                                   *)
LEMMA FrameTyped ==
  ASSUME NEW P \in SUBSET Nat, NEW op, NEW a, GoodCall(P, op, a),
         NEW step \in {"enter", "low", "high", "make"}
  PROVE  [op |-> op, args |-> a, step |-> step] \in Frame
<1>1. op \in Operators /\ a \in [1..Arity(op) -> P] /\ Arity(op) \in 1..3
  BY Arities DEF GoodCall
<1> DEFINE k == Arity(op)
<1>2. a \in [1..k -> P] /\ k \in Nat
  BY <1>1
<1> HIDE DEF k
<1>3. a \in [1..k -> Nat]
  BY <1>2
<1>4. a \in Seq(Nat)
  BY <1>2, <1>3
<1> QED
  BY <1>1, <1>4 DEF Frame

(* The first k frames with one or two in place of the rest.                *)
LEMMA Replaced ==
  ASSUME NEW fr \in Seq(Frame), NEW k \in Nat, k + 1 \in 1..Len(fr), NEW x \in Frame
  PROVE  /\ LET new == SubSeq(fr, 1, k) \o <<x>>
            IN  Continues(fr, k, x, new) /\ Len(new) = k + 1
         /\ \A y \in Frame : LET new == SubSeq(fr, 1, k) \o <<x, y>>
                             IN  Continues(fr, k, x, new) /\ Len(new) = k + 2 /\ new[k + 2] = y
<1> DEFINE front == SubSeq(fr, 1, k)
<1>0. Len(fr) \in Nat /\ \A i \in 1..k : i \in 1..Len(fr)
  BY LenProperties
<1>1. \A i \in 1..k : fr[i] \in Frame
  BY <1>0, ElementOfSeq
<1>2. front \in Seq(Frame) /\ Len(front) = k
  BY <1>1, SubSeqProperties
<1>3. \A i \in 1..k : front[i] = fr[i]
  BY <1>1, SubSeqProperties
<1> HIDE DEF front
<1>4. ASSUME NEW tail \in Seq(Frame), Len(tail) \in {1, 2}, tail[1] = x
      PROVE  /\ Continues(fr, k, x, front \o tail) /\ Len(front \o tail) = k + Len(tail)
             /\ Len(tail) = 2 => (front \o tail)[k + 2] = tail[2]
  <2>1. front \o tail \in Seq(Frame) /\ Len(front \o tail) = k + Len(tail)
    BY <1>2, <1>4, ConcatProperties
  <2>2. \A i \in 1..k : (front \o tail)[i] = fr[i]
    BY <1>2, <1>3, <1>4
  <2>3. (front \o tail)[k + 1] = x
    BY <1>2, <1>4
  <2>4. Len(tail) = 2 => (front \o tail)[k + 2] = tail[2]
    <3>1. Len(tail) = 2 => k + 2 \in 1..(k + Len(tail)) /\ ~ (k + 2 <= k) /\ (k + 2) - k = 2
      OBVIOUS
    <3>2. \A i \in 1..(k + Len(tail)) : (front \o tail)[i] = IF i <= k THEN front[i] ELSE tail[i - k]
      BY <1>2, <1>4, ConcatProperties
    <3> QED
      BY <3>1, <3>2
  <2> QED
    BY <2>1, <2>2, <2>3, <2>4, <1>4 DEF Continues
<1>5. <<x>> \in Seq(Frame) /\ Len(<<x>>) = 1 /\ <<x>>[1] = x
  OBVIOUS
<1>6. \A y \in Frame : <<x, y>> \in Seq(Frame) /\ Len(<<x, y>>) = 2 /\ <<x, y>>[1] = x /\ <<x, y>>[2] = y
  OBVIOUS
<1>7. Continues(fr, k, x, front \o <<x>>) /\ Len(front \o <<x>>) = k + 1
  BY <1>4, <1>5
<1>8. ASSUME NEW y \in Frame
      PROVE  /\ Continues(fr, k, x, front \o <<x, y>>) /\ Len(front \o <<x, y>>) = k + 2
             /\ (front \o <<x, y>>)[k + 2] = y
  <2>1. <<x, y>> \in Seq(Frame) /\ Len(<<x, y>>) = 2 /\ <<x, y>>[1] = x /\ <<x, y>>[2] = y
    BY <1>6
  <2> QED
    BY <1>4, <2>1
<1> QED
  BY <1>7, <1>8 DEF front

(* The place before the last one.                                          *)
LEMMA BeforeLast ==
  ASSUME NEW n \in Nat, n # 0
  PROVE  n - 1 \in Nat /\ (n - 1) + 1 = n /\ (n - 1) + 1 \in 1..n
  OBVIOUS

(* The last frame replaced, and perhaps another one on top.                *)
LEMMA TopReplaced ==
  ASSUME NEW fr \in Seq(Frame), fr # << >>, NEW x \in Frame
  PROVE  LET k   == Len(fr) - 1
             one == [fr EXCEPT ![Len(fr)] = x]
         IN  /\ k \in Nat /\ k + 1 = Len(fr) /\ k + 1 \in 1..Len(fr)
             /\ Continues(fr, k, x, one) /\ Len(one) = k + 1
             /\ \A y \in Frame : LET two == Append(one, y)
                                 IN  Continues(fr, k, x, two) /\ Len(two) = k + 2 /\ two[k + 2] = y
<1> DEFINE k   == Len(fr) - 1
           one == [fr EXCEPT ![Len(fr)] = x]
<1>1. k \in Nat /\ k + 1 = Len(fr) /\ k + 1 \in 1..Len(fr)
  <2>1. Len(fr) \in Nat /\ Len(fr) # 0
    BY LenProperties, EmptySeq
  <2> QED
    BY <2>1, BeforeLast, Zenon
<1>2. one \in Seq(Frame) /\ Len(one) = Len(fr)
  BY <1>1, ExceptSeq
<1>3. one[k + 1] = x /\ \A i \in 1..k : one[i] = fr[i]
  <2>0. Len(fr) \in Nat
    BY LenProperties
  <2>1. \A i \in 1..k : i \in 1..Len(fr) /\ i # Len(fr)
    BY <2>0
  <2>2. DOMAIN fr = 1..Len(fr)
    BY LenProperties
  <2>3. one[k + 1] = x
    BY <2>2, <1>1, Zenon
  <2>4. ASSUME NEW i \in 1..k
        PROVE  one[i] = fr[i]
    BY <2>1, <2>2, <2>4, Zenon
  <2> QED
    BY <2>3, <2>4
<1> HIDE DEF one
<1>4. Continues(fr, k, x, one) /\ Len(one) = k + 1
  BY <1>1, <1>2, <1>3, SMTT(30) DEF Continues
<1>5. ASSUME NEW y \in Frame
      PROVE  /\ Continues(fr, k, x, Append(one, y)) /\ Len(Append(one, y)) = k + 2
             /\ Append(one, y)[k + 2] = y
  <2>1. Append(one, y) \in Seq(Frame) /\ Len(Append(one, y)) = k + 2
    BY <1>1, <1>2
  <2>2. Append(one, y)[k + 2] = y /\ \A i \in 1..(k + 1) : Append(one, y)[i] = one[i]
    BY <1>1, <1>2
  <2>3. 1..k \subseteq 1..(k + 1) /\ k + 1 \in 1..(k + 1)
    BY <1>1
  <2> QED
    BY <2>1, <2>2, <2>3, <1>1, <1>3 DEF Continues
<1> HIDE DEF k
<1> QED
  BY <1>1, <1>4, <1>5 DEF one, k


(* The frames below the top one when it returns.                           *)
ResumedFrom(nd, fr) ==
  LET parent == fr[Len(fr) - 1]
      rest   == SubSeq(fr, 1, Len(fr) - 2)
  IN  IF parent.step = "low"
      THEN rest \o <<[parent EXCEPT !.step = "high"],
                     NewFrame(parent.op, SideOf(nd, parent.args, "high"))>>
      ELSE rest \o <<[parent EXCEPT !.step = "make"]>>

(* n answers the top call, and pile is the stack below its results.        *)
TopAnswered(nd, num, f, ok, fr, b, stack, n, pile) ==
  LET r == fr[Len(fr)]
  IN  /\ TopIn(nd, r.args) <= nd[n].level
      /\ nd[n].level \in Nat
      /\ ok => f[n] = Means(num, f, r.op, r.args)
      /\ pile \in Seq(Int) /\ n \in Int
      /\ Len(pile) = b[Len(fr)]
      /\ \A i \in 1..b[Len(fr)] : pile[i] = stack[i]

(* The caller of the top call gets its answer.                             *)
LEMMA ReturnGoesOn ==
  ASSUME NEW nd, NEW num \in Nat, NEW f, NEW ok, NEW P \in SUBSET Nat, GoodLevels(nd, num, P),
         NEW fr, GoodFrames(nd, num, f, P, fr), Len(fr) \in Nat, Len(fr) > 1,
         NEW b, NEW stack, Results(nd, num, f, ok, fr, b, stack),
         NEW n, NEW pile, TopAnswered(nd, num, f, ok, fr, b, stack, n, pile)
  PROVE  /\ GoodFrames(nd, num, f, P, ResumedFrom(nd, fr))
         /\ \A want : AsksFor(num, f, fr, want) => AsksFor(num, f, ResumedFrom(nd, fr), want)
         /\ \E c \in [1..(Len(ResumedFrom(nd, fr)) + 1) -> Nat] :
              Results(nd, num, f, ok, ResumedFrom(nd, fr), c, Append(pile, n))
         /\ ResumedFrom(nd, fr) # << >>
<1> DEFINE k == Len(fr) - 2
           parent == fr[Len(fr) - 1]
           callee == fr[Len(fr)]
           new == ResumedFrom(nd, fr)
           high == Append(pile, n)
<1>1. /\ fr \in Seq(Frame) /\ k \in Nat /\ k + 1 = Len(fr) - 1 /\ k + 1 \in 1..Len(fr)
      /\ k + 2 = Len(fr) /\ Len(fr) \in 1..Len(fr) /\ k + 1 \in 1..(Len(fr) - 1)
      /\ (k + 1) + 1 = Len(fr)
  BY DEF GoodFrames
<1>2. parent = fr[k + 1] /\ parent \in Frame
  BY <1>1
<1>3. Delegates(nd, num, f, parent, callee)
  <2>1. Delegates(nd, num, f, fr[k + 1], fr[(k + 1) + 1])
    BY <1>1 DEF GoodFrames
  <2> QED
    BY <2>1, <1>1
<1>4. GoodCall(P, parent.op, parent.args) /\ GoodCall(P, callee.op, callee.args)
  BY <1>1 DEF GoodFrames
<1>5. parent.step \in {"low", "high"} /\ TopIn(nd, parent.args) < TopIn(nd, callee.args)
      /\ Means(num, f, callee.op, callee.args) = Means(num, f, parent.op, SideOf(nd, parent.args, parent.step))
  BY <1>3 DEF Delegates
<1>6. TopIn(nd, parent.args) < num
  BY <1>1, <1>2, <1>5 DEF GoodFrames
<1>7. TopIn(nd, parent.args) \in 0..num /\ TopIn(nd, callee.args) \in 0..num
  <2>1. ASSUME NEW op, NEW a, GoodCall(P, op, a) PROVE TopIn(nd, a) \in 0..num
    BY <2>1, Operand
  <2> QED
    BY <2>1, <1>4
<1>8. /\ TopIn(nd, callee.args) <= nd[n].level /\ nd[n].level \in Nat
      /\ ok => f[n] = Means(num, f, callee.op, callee.args)
      /\ pile \in Seq(Int) /\ n \in Int
      /\ Len(pile) = b[Len(fr)] /\ \A i \in 1..b[Len(fr)] : pile[i] = stack[i]
  BY DEF TopAnswered
<1>9. AnswersSide(nd, num, f, ok, parent, parent.step, n)
  <2>1. TopIn(nd, parent.args) < nd[n].level
    BY <1>5, <1>7, <1>8
  <2>2. ok => f[n] = Means(num, f, parent.op, SideOf(nd, parent.args, parent.step))
    BY <1>5, <1>8
  <2> QED
    BY <2>1, <2>2, Zenon DEF AnswersSide
<1>10. Offsets(fr, b) /\ b \in [1..(Len(fr) + 1) -> Nat] /\ b[Len(fr)] = b[k + 1] + Pushed(parent)
       /\ b[k + 1] \in Nat
  <2>1. Offsets(fr, b)
    BY DEF Results
  <2>2. b \in [1..(Len(fr) + 1) -> Nat] /\ b[(k + 1) + 1] = b[k + 1] + Pushed(fr[k + 1])
    BY <2>1, <1>1 DEF Offsets
  <2>3. k + 1 \in 1..(Len(fr) + 1)
    BY <1>1
  <2> QED
    BY <2>1, <2>2, <2>3, <1>1
<1>11. /\ Len(high) = b[Len(fr)] + 1 /\ high[b[Len(fr)] + 1] = n
       /\ \A i \in 1..b[Len(fr)] : high[i] = stack[i]
  <2>1. Len(pile) = b[Len(fr)] /\ pile \in Seq(Int)
    BY <1>8
  <2>2. Len(high) = Len(pile) + 1 /\ high[Len(pile) + 1] = n /\ \A i \in 1..Len(pile) : high[i] = pile[i]
    BY <1>8
  <2> HIDE DEF high
  <2> QED
    BY <2>1, <2>2, <1>8
<1>12. fr[k + 1] = parent
  BY <1>1
<1>13. \A side \in {"low", "high"} :
         Pushed(parent) >= Place(side) =>
           AnswersSide(nd, num, f, ok, parent, side, stack[b[k + 1] + Place(side)])
  BY <1>1, <1>12 DEF Results
<1> HIDE DEF parent, callee, k, high
<1>14. CASE parent.step = "low"
  <2> DEFINE x == [parent EXCEPT !.step = "high"]
             y == NewFrame(parent.op, SideOf(nd, parent.args, "high"))
  <2>1. x.op = parent.op /\ x.args = parent.args /\ x.step = "high" /\ x \in Frame
    BY <1>2 DEF Frame
  <2>2. y \in Frame
    <3>1. GoodCall(P, parent.op, SideOf(nd, parent.args, "high"))
      BY <1>4, <1>6, CallSide
    <3> QED
      BY <3>1, FrameTyped DEF NewFrame
  <2>3. new = SubSeq(fr, 1, k) \o <<x, y>>
    BY <1>14 DEF ResumedFrom, parent, k
  <2> HIDE DEF x, y
  <2>4. Continues(fr, k, x, new) /\ Len(new) = k + 2 /\ new[k + 2] = y
    <3>1. k \in Nat /\ k + 1 \in 1..Len(fr) /\ fr \in Seq(Frame) /\ x \in Frame
      BY <2>1, <1>1
    <3>2. \A z \in Frame : LET two == SubSeq(fr, 1, k) \o <<x, z>>
                            IN  Continues(fr, k, x, two) /\ Len(two) = k + 2 /\ two[k + 2] = z
      BY <3>1, Replaced
    <3> QED
      BY <3>2, <2>2, <2>3
  <2> HIDE DEF new
  <2>5. Ends(nd, k, x, new)
    <3>1. y = NewFrame(x.op, SideOf(nd, x.args, x.step))
      BY <2>1 DEF y
    <3>2. k + 1 # k + 2
      BY <1>1
    <3> QED
      BY <3>1, <3>2, <2>1, <2>4 DEF Ends
  <2>6. TakesOver(nd, num, f, P, fr[k + 1], x)
    BY <2>1, <1>4, <1>6, <1>7, <1>12 DEF TakesOver
  <2>7. GoodFrames(nd, num, f, P, new)
        /\ \A want : AsksFor(num, f, fr, want) => AsksFor(num, f, new, want)
    BY <2>4, <2>5, <2>6, FramesGoOn
  <2>8. Pushed(x) = 1 /\ Pushed(parent) = 0
    BY <2>1, <1>14 DEF Pushed
  <2>9. b[Len(fr)] = b[k + 1]
    BY <2>8, <1>10
  <2>10. StackGoesOn(nd, num, f, ok, b, k, x, stack, high)
    <3>1. ASSUME NEW side \in {"low", "high"}, Pushed(x) >= Place(side)
          PROVE  AnswersSide(nd, num, f, ok, x, side, high[b[k + 1] + Place(side)])
      <4>1. side = "low" /\ Place(side) = 1
        BY <2>8, <3>1 DEF Place
      <4>2. high[b[k + 1] + Place(side)] = n
        BY <4>1, <2>9, <1>11
      <4>3. AnswersSide(nd, num, f, ok, parent, side, n)
        BY <4>1, <1>9, <1>14
      <4>4. AnswersSide(nd, num, f, ok, x, side, n)
        BY <4>3, <2>1, Zenon DEF AnswersSide
      <4> QED
        BY <4>2, <4>4
    <3> QED
      BY <3>1, <2>8, <2>9, <1>11 DEF StackGoesOn
  <2>11. \E c \in [1..(Len(new) + 1) -> Nat] : Results(nd, num, f, ok, new, c, high)
    BY <2>4, <2>5, <2>10, <1>1, ResultsGoOn
  <2>12. new # << >>
    BY <2>4, <1>1
  <2> QED
    BY <2>7, <2>11, <2>12 DEF new, high
<1>15. CASE parent.step = "high"
  <2> DEFINE x == [parent EXCEPT !.step = "make"]
  <2>1. x.op = parent.op /\ x.args = parent.args /\ x.step = "make" /\ x \in Frame
    BY <1>2 DEF Frame
  <2>3. new = SubSeq(fr, 1, k) \o <<x>>
    BY <1>15 DEF ResumedFrom, parent, k
  <2> HIDE DEF x
  <2>4. Continues(fr, k, x, new) /\ Len(new) = k + 1
    BY <2>1, <2>3, <1>1, Replaced
  <2> HIDE DEF new
  <2>5. Ends(nd, k, x, new)
    <3>2. k + 1 # k + 2
      BY <1>1
    <3> QED
      BY <3>2, <2>1, <2>4 DEF Ends
  <2>6. TakesOver(nd, num, f, P, fr[k + 1], x)
    BY <2>1, <1>4, <1>6, <1>7, <1>12 DEF TakesOver
  <2>7. GoodFrames(nd, num, f, P, new)
        /\ \A want : AsksFor(num, f, fr, want) => AsksFor(num, f, new, want)
    BY <2>4, <2>5, <2>6, FramesGoOn
  <2>8. Pushed(x) = 2 /\ Pushed(parent) = 1
    BY <2>1, <1>15 DEF Pushed
  <2>9. b[Len(fr)] = b[k + 1] + 1
    BY <2>8, <1>10
  <2>10. StackGoesOn(nd, num, f, ok, b, k, x, stack, high)
    <3>1. ASSUME NEW side \in {"low", "high"}, Pushed(x) >= Place(side)
          PROVE  AnswersSide(nd, num, f, ok, x, side, high[b[k + 1] + Place(side)])
      <4>1. CASE side = "high"
        <5>1. Place(side) = 2
          BY <4>1 DEF Place
        <5>2. high[b[k + 1] + Place(side)] = n
          BY <5>1, <2>9, <1>10, <1>11
        <5>3. AnswersSide(nd, num, f, ok, parent, side, n)
          BY <4>1, <1>9, <1>15
        <5>4. AnswersSide(nd, num, f, ok, x, side, n)
          BY <5>3, <2>1, Zenon DEF AnswersSide
        <5> QED
          BY <5>2, <5>4
      <4>2. CASE side = "low"
        <5>1. Place(side) = 1
          BY <4>2 DEF Place
        <5>2. b[k + 1] + 1 \in 1..b[Len(fr)]
          BY <2>9, <1>10
        <5>3. high[b[k + 1] + Place(side)] = stack[b[k + 1] + Place(side)]
          BY <5>1, <5>2, <1>11
        <5>4. AnswersSide(nd, num, f, ok, parent, side, stack[b[k + 1] + Place(side)])
          BY <5>1, <2>8, <1>13
        <5>5. AnswersSide(nd, num, f, ok, x, side, stack[b[k + 1] + Place(side)])
          BY <5>4, <2>1, Zenon DEF AnswersSide
        <5> QED
          BY <5>3, <5>5
      <4> QED
        BY <4>1, <4>2
    <3>2. Len(high) = b[k + 1] + Pushed(x)
      BY <2>8, <2>9, <1>10, <1>11
    <3>3. \A i \in 1..b[k + 1] : high[i] = stack[i]
      BY <2>9, <1>10, <1>11
    <3> QED
      BY <3>1, <3>2, <3>3 DEF StackGoesOn
  <2>11. \E c \in [1..(Len(new) + 1) -> Nat] : Results(nd, num, f, ok, new, c, high)
    BY <2>4, <2>5, <2>10, <1>1, ResultsGoOn
  <2>12. new # << >>
    BY <2>4, <1>1
  <2> QED
    BY <2>7, <2>11, <2>12 DEF new, high
<1> QED
  BY <1>5, <1>14, <1>15


-----------------------------------------------------------------------------
(* The table under the recursion.                                          *)

(* The module's operators are these definitions for the present table.     *)
LEMMA Present ==
  /\ \A a : TopLevel(a) = TopIn(node, a)
  /\ \A a, side : Cofactor(a, side) = SideOf(node, a, side)
  /\ \A op, a : Wanted(op, a) = Means(varnum, Function, op, a)
  /\ Resumed = ResumedFrom(node, frames)
<1>1. \A a : TopLevel(a) = TopIn(node, a)
  BY DEF TopLevel, TopIn, LevelsIn, LevelOf
<1>2. \A a, side : Cofactor(a, side) = SideOf(node, a, side)
  BY <1>1 DEF Cofactor, SideOf, LevelOf
<1>3. \A op, a : Wanted(op, a) = Means(varnum, Function, op, a)
  BY DEF Wanted, Means, Row, Assignments, Points
<1>4. Resumed = ResumedFrom(node, frames)
  BY <1>2 DEF Resumed, ResumedFrom
<1> QED
  BY <1>1, <1>2, <1>3, <1>4

(* What survives a reordering, what a collection marks and what is used    *)
(* are closed sets, each within the next.                                  *)
LEMMA Closures ==
  TableInv => /\ Counted \subseteq Survivors /\ Survivors \subseteq Marked /\ Marked \subseteq Used
              /\ OnStack \cap Used \subseteq Marked
              /\ ClosedPart(node, Survivors) /\ ClosedPart(node, Marked) /\ ClosedPart(node, Used)
<1> SUFFICES ASSUME TableInv
             PROVE  /\ Counted \subseteq Survivors /\ Survivors \subseteq Marked /\ Marked \subseteq Used
                    /\ OnStack \cap Used \subseteq Marked
                    /\ ClosedPart(node, Survivors) /\ ClosedPart(node, Marked)
                    /\ ClosedPart(node, Used)
  OBVIOUS
<1>1. GoodTable(size, node, free)
  BY DEF TableInv
<1>2. /\ Counted \subseteq Survivors /\ Survivors \subseteq Used /\ Survivors \subseteq Marked
      /\ ClosedUnderChildren(Survivors)
  BY <1>1, SurvivorsClosed
<1>3. /\ Marked \subseteq Used /\ ClosedUnderChildren(Marked)
      /\ OnStack \cap Used \subseteq Marked
  BY <1>1, GoodHasNoDangling, MarkedClosed
<1>4. ASSUME NEW K \in SUBSET Used, ClosedUnderChildren(K)
      PROVE  ClosedPart(node, K)
  BY <1>4 DEF ClosedUnderChildren, ClosedPart, Children
<1>5. ClosedPart(node, Used)
  BY <1>1, TableFacts DEF TableInv, GoodTable, ClosedTable, ClosedPart
<1> QED
  BY <1>2, <1>3, <1>4, <1>5

(* Marking finds no more than any closed set around its roots.             *)
LEMMA MarkedLeast ==
  ASSUME NEW roots, NEW C \in SUBSET Used, roots \subseteq C, ClosedUnderChildren(C)
  PROVE  MarkedFrom(roots) \subseteq C
<1>1. C \ roots \in SUBSET (Used \ roots) /\ (C \ roots) \cup roots = C
  OBVIOUS
<1>2. ClosedUnderChildren((C \ roots) \cup roots)
  BY <1>1
<1> QED
  BY <1>1, <1>2 DEF MarkedFrom

(* The same in the next state.                                             *)
LEMMA ClosuresNext ==
  TableInv' => /\ Counted' \subseteq Survivors' /\ Survivors' \subseteq Used'
               /\ ClosedPart(node', Survivors') /\ ClosedPart(node', Used')
<1>1. (TableInv => /\ Counted \subseteq Survivors /\ Survivors \subseteq Marked /\ Marked \subseteq Used
                   /\ OnStack \cap Used \subseteq Marked
                   /\ ClosedPart(node, Survivors) /\ ClosedPart(node, Marked)
                   /\ ClosedPart(node, Used))'
  BY Closures, PTL
<1> QED
  BY <1>1

(* Function gives the nodes their functions in the next state, too.        *)
LEMMA FunctionDenotesNext == TableInv' => Denotes(Function', size', node', varnum')
<1>1. (TableInv => Denotes(Function, size, node, varnum))'
  BY FunctionDenotes, PTL
<1> QED
  BY <1>1

(* What survives a reordering goes on surviving one while the nodes stay   *)
(* and none of them loses its last reference.                              *)
LEMMA SurvivorsPersist ==
  ASSUME TableInv, TableInv', SameNodes(node, node', Survivors), Counted \subseteq Counted'
  PROVE  Survivors \subseteq Survivors'
<1> DEFINE C == Survivors \cap Survivors'
<1>1. /\ Counted \subseteq Survivors /\ Survivors \subseteq Used
      /\ ClosedPart(node, Survivors)
  BY Closures
<1>2. /\ Counted' \subseteq Survivors'
      /\ ClosedPart(node', Survivors')
  BY ClosuresNext
<1>3. C \in SUBSET Used /\ Counted \subseteq C
  BY <1>1, <1>2
<1>4. ClosedUnderChildren(C)
  <2>1. ASSUME NEW n \in C, NEW c \in Children(n)
        PROVE  c \in C
    <3>1. node'[n].low = node[n].low /\ node'[n].high = node[n].high
      BY DEF SameNodes
    <3>2. c \in {node[n].low, node[n].high} /\ c \notin Terminal
      BY DEF Children
    <3> QED
      BY <3>1, <3>2, <1>1, <1>2 DEF ClosedPart
  <2> QED
    BY <2>1 DEF ClosedUnderChildren
<1> HIDE DEF C
<1>5. MarkedFrom(Counted) \subseteq C
  BY <1>3, <1>4, MarkedLeast
<1> QED
  BY <1>5 DEF Survivors, C

(* A step that leaves the nodes of a closed set alone leaves their         *)
(* functions alone.                                                        *)
LEMMA StepCarries ==
  ASSUME TableInv, TableInv', varnum \in Nat, varnum' = varnum, Leveled(size, node, varnum),
         NEW K \in SUBSET Used, ClosedPart(node, K), K \subseteq UsedOf(size', node'),
         SameNodes(node, node', Terminal \cup K)
  PROVE  /\ Carries(varnum, node, Function, node', Function', Terminal \cup K)
         /\ View(node, varnum, Function, Terminal \cup K)
<1>1. GoodTable(size, node, free) /\ Used = UsedOf(size, node)
  BY TableFacts DEF TableInv
<1>2. Denotes(Function, size, node, varnum) /\ Denotes(Function', size', node', varnum)
  BY FunctionDenotes, FunctionDenotesNext
<1>3. SameNodes(node, node', K)
  BY DEF SameNodes
<1> DEFINE f == Function
           g == Function'
           nd == node
           new == node'
<1>4. /\ GoodTable(size, nd, free) /\ Leveled(size, nd, varnum)
      /\ Denotes(f, size, nd, varnum) /\ Denotes(g, size', new, varnum)
      /\ K \in SUBSET UsedOf(size, nd) /\ K \subseteq UsedOf(size', new) /\ ClosedPart(nd, K)
      /\ SameNodes(nd, new, K)
  BY <1>1, <1>2, <1>3
<1> HIDE DEF f, g, nd, new
<1>5. \A n \in Terminal \cup K : g[n] = f[n]
  BY <1>4, SameFunctions
<1>6. View(nd, varnum, f, Terminal \cup K)
  BY <1>4, PartView
<1>7. Carries(varnum, nd, f, new, g, Terminal \cup K)
  BY <1>5, <1>6 DEF Carries, View, nd, new
<1> QED
  BY <1>6, <1>7 DEF f, g, nd, new


-----------------------------------------------------------------------------
(* bdd_makenode under a recursion.                                         *)

(* Insert adds one node and leaves the others alone.                       *)
LEMMA InsertFilled ==
  ASSUME NEW s, NEW nd, NEW fr, NEW l, NEW lo, NEW hi,
         Insertable(s, nd, fr, l, lo, hi), fr # {}, Insert(l, lo, hi, nd, fr)
  PROVE  /\ UsedOf(s, node') = UsedOf(s, nd) \cup {Minimum(fr)}
         /\ \A n \in UsedOf(s, nd) : node'[n] = nd[n]
         /\ node'[Minimum(fr)].level = l
<1>1. fr = (2..(s - 1)) \ UsedOf(s, nd) /\ UsedOf(s, nd) \subseteq 0..(s - 1)
  BY DEF Insertable, GoodTable, UsedOf
<1>2. fr \in SUBSET Nat
  BY <1>1, SMT
<1>3. Minimum(fr) \in fr
  BY <1>2, MinimumIsLeast
<1>4. Fills(s, nd, fr, Minimum(fr), l, lo, hi, node')
  BY <1>3 DEF Insert, Fills
<1>5. IsFilled(s, nd, fr, Minimum(fr), l, lo, hi, node')
  BY <1>4, FilledGood
<1>6. \A n \in UsedOf(s, nd) : n \in 0..(s - 1) \ {Minimum(fr)}
  BY <1>1, <1>3
<1> QED
  BY <1>5, <1>6 DEF IsFilled

(* The nodes after a bdd_makenode are nodes from before it, and perhaps    *)
(* one of the level it was asked for.                                      *)
LEMMA MakeNodeNodes ==
  ASSUME NEW l, NEW lo, NEW hi, Callable(l, lo, hi), MakeNode(l, lo, hi),
         NEW n \in UsedOf(size', node')
  PROVE  (n \in Used /\ node'[n] = node[n]) \/ node'[n].level = l
<1>1. TableInv /\ Used = UsedOf(size, node)
  BY TableFacts DEF Callable
<1>2. ASSUME NEW s \in SizesAfterCollection
      PROVE  LET nd == Grown(s, Collected) IN
             /\ GoodAfter(s, nd, SlotsAfterCollection(s), GrownHeld(s), GrownRaised(s))
             /\ \A m \in UsedOf(s, nd) : m \in Used /\ nd[m] = node[m]
  <2> DEFINE nd == Grown(s, Collected)
  <2>1. s \in Nat /\ s >= size
    BY <1>1, SizesAfter DEF Callable
  <2>2. GoodAfter(s, nd, SlotsAfterCollection(s), GrownHeld(s), GrownRaised(s))
    BY <1>1, <2>1, GoodAfterCollection
  <2> HIDE DEF nd
  <2>3. UsedOf(s, nd) = Marked /\ Keeps(size, node, s, nd, Marked)
    BY <2>2 DEF GoodAfter
  <2>4. \A m \in UsedOf(s, nd) : m \in Used /\ nd[m] = node[m]
    BY <2>3, <1>1 DEF Keeps
  <2> QED
    BY <2>2, <2>4 DEF nd
<1>3. CASE Found(l, lo, hi) \/ Refused(l, lo, hi)
  BY <1>1, <1>3 DEF Found, Refused, table
<1>4. CASE Fresh(l, lo, hi)
  <2>1. Missing(l, lo, hi) /\ free # {} /\ Insert(l, lo, hi, node, free) /\ size' = size
    BY <1>4 DEF Fresh
  <2>2. Insertable(size, node, free, l, lo, hi)
    BY <2>1, InsertableNow
  <2>3. /\ UsedOf(size, node') = UsedOf(size, node) \cup {Minimum(free)}
        /\ \A m \in UsedOf(size, node) : node'[m] = node[m]
        /\ node'[Minimum(free)].level = l
    BY <2>1, <2>2, InsertFilled
  <2> QED
    BY <2>1, <2>3, <1>1
<1>5. CASE Recycled(l, lo, hi)
  <2>1. Missing(l, lo, hi)
    BY <1>5 DEF Recycled
  <2>2. PICK s \in SizesAfterCollection :
          /\ SlotsAfterCollection(s) # {} /\ size' = s
          /\ Insert(l, lo, hi, Grown(s, Collected), SlotsAfterCollection(s))
    BY <1>5 DEF Recycled
  <2> DEFINE nd == Grown(s, Collected)
  <2>3. /\ GoodAfter(s, nd, SlotsAfterCollection(s), GrownHeld(s), GrownRaised(s))
        /\ \A m \in UsedOf(s, nd) : m \in Used /\ nd[m] = node[m]
        /\ Insert(l, lo, hi, nd, SlotsAfterCollection(s))
    BY <1>2, <2>2
  <2> HIDE DEF nd
  <2>4. Insertable(s, nd, SlotsAfterCollection(s), l, lo, hi)
    BY <2>1, <2>3, InsertableAfter
  <2>5. /\ UsedOf(s, node') = UsedOf(s, nd) \cup {Minimum(SlotsAfterCollection(s))}
        /\ \A m \in UsedOf(s, nd) : node'[m] = nd[m]
        /\ node'[Minimum(SlotsAfterCollection(s))].level = l
    BY <2>2, <2>3, <2>4, InsertFilled
  <2> QED
    BY <2>2, <2>3, <2>5
<1>6. CASE Exhausted(l, lo, hi)
  <2>1. PICK s \in SizesAfterCollection : size' = s /\ node' = Grown(s, Collected)
    BY <1>6 DEF Exhausted
  <2> QED
    BY <2>1, <1>2
<1> QED
  BY <1>3, <1>4, <1>5, <1>6 DEF MakeNode

(* A bdd_makenode that does not collect keeps every node.                  *)
LEMMA MakeNodeKeepsAll ==
  ASSUME NEW l, NEW lo, NEW hi, Callable(l, lo, hi), MakeNode(l, lo, hi),
         ~ (Missing(l, lo, hi) /\ free = {} /\ ~ errorcond)
  PROVE  Keeps(size, node, size', node', Used)
<1>1. TableInv /\ Used = UsedOf(size, node) /\ size \in Nat
  BY TableFacts DEF Callable
<1>2. CASE Found(l, lo, hi) \/ Refused(l, lo, hi)
  BY <1>1, <1>2 DEF Found, Refused, table, Keeps
<1>3. CASE Fresh(l, lo, hi)
  <2>1. Missing(l, lo, hi) /\ free # {} /\ Insert(l, lo, hi, node, free) /\ size' = size
    BY <1>3 DEF Fresh
  <2>2. Insertable(size, node, free, l, lo, hi) /\ GoodCounts(size, node, held, raised)
    BY <1>1, <2>1, InsertableNow DEF TableInv
  <2>3. Inserted(size, node, free, held, raised, l, lo, hi)
    BY <2>1, <2>2, InsertGood
  <2> QED
    BY <1>1, <2>1, <2>3 DEF Inserted
<1>4. CASE Recycled(l, lo, hi)
  BY <1>4 DEF Recycled
<1>5. CASE Exhausted(l, lo, hi)
  BY <1>5 DEF Exhausted
<1> QED
  BY <1>2, <1>3, <1>4, <1>5 DEF MakeNode

(* The references held stay where they are.                                *)
LEMMA MakeNodeHeld ==
  ASSUME NEW l, NEW lo, NEW hi, TableInv, MakeNode(l, lo, hi), NEW n \in 0..(size - 1),
         size' \in Nat, size' >= size
  PROVE  held'[n] = held[n]
<1>1. size \in Nat
  BY TableFacts
<1>2. CASE Recycled(l, lo, hi)
  <2>1. PICK s : size' = s /\ held' = [m \in 0..(s - 1) |-> IF m < size THEN held[m] ELSE 0]
    BY <1>2 DEF Recycled
  <2>2. n \in 0..(s - 1) /\ n < size
    BY <2>1, <1>1
  <2> QED
    BY <2>1, <2>2
<1> QED
  BY <1>2 DEF MakeNode, Found, Fresh, Refused, Exhausted

(* The shape of the table that recursions rely on.                         *)
LEMMA MakeNodeTerminals ==
  ASSUME GoodTerminals, varnum \in Nat, NEW l, NEW lo, NEW hi, l < varnum,
         Callable(l, lo, hi), Outcome(l, lo, hi), MakeNode(l, lo, hi),
         Beneath(node, l, lo), Beneath(node, l, hi), UNCHANGED <<varnum, growing>>
  PROVE  GoodTerminals'
<1>1. TableInv /\ Used = UsedOf(size, node) /\ size \in Nat /\ size > 2
  BY TableFacts DEF Callable
<1>2. Keeps(size, node, size', node', Marked) /\ size' \in Nat
  BY OutcomeFacts
<1>3. \A n \in Terminal : node'[n] = node[n] /\ n \in 0..(size - 1)
  BY <1>1, <1>2 DEF Keeps, Terminal, FALSEBDD, TRUEBDD
<1>4. Leveled(size, node, varnum) /\ TerminalsPinned /\ growing = Idle
  BY DEF GoodTerminals
<1>5. OrderedTable(size', node')
  BY <1>4, MakeNodeOrdered DEF Leveled
<1>6. \A n \in UsedOf(size', node') : node'[n].level < varnum
  <2> TAKE n \in UsedOf(size', node')
  <2>1. (n \in Used /\ node'[n] = node[n]) \/ node'[n].level = l
    BY MakeNodeNodes
  <2> QED
    BY <2>1, <1>1, <1>4 DEF Leveled
<1>7. Leveled(size', node', varnum')
  BY <1>3, <1>4, <1>5, <1>6 DEF Leveled
<1>8. \A n \in Terminal : held'[n] = held[n]
  BY <1>1, <1>2, <1>3, MakeNodeHeld DEF Keeps
<1>9. \A n \in Terminal : node'[n].refcou = MaxRef /\ held'[n] = 0
  BY <1>3, <1>4, <1>8 DEF TerminalsPinned
<1> QED
  BY <1>4, <1>7, <1>9 DEF GoodTerminals, TerminalsPinned


-----------------------------------------------------------------------------
(* Steps preserve the invariant.                                           *)

(* The choice Function makes, for a table of its own.                      *)
Chosen(s, nd, num, used) ==
  CHOOSE sat : sat =
    [n \in 0..(s - 1) |->
       IF n \in used
       THEN {x \in sat[nd[n].low] : nd[n].level \notin x}
              \cup {x \in sat[nd[n].high] : nd[n].level \in x}
       ELSE IF n = TRUEBDD THEN Points(num) ELSE {}]

(* Function, as an operator of the table alone.                            *)
LEMMA FunctionOf == Function = Chosen(size, node, varnum, Used)
  BY DEF Function, Chosen, LevelOf, Assignments, Points

(* What hangs on a table that a step leaves alone.                         *)
LEMMA SameTable ==
  ASSUME UNCHANGED <<size, node, varnum>>
  PROVE  /\ Function' = Function
         /\ Survivors' = Survivors /\ Used' = Used /\ Counted' = Counted
         /\ Safe' = Safe /\ InUse' = InUse
<1>1. size' = size /\ node' = node /\ varnum' = varnum
  OBVIOUS
<1>2. Used' = Used
  BY <1>1 DEF Used, Slots
<1>3. Counted' = Counted
  BY <1>1, <1>2 DEF Counted
<1>4. Survivors' = Survivors
  BY <1>1, <1>2, <1>3 DEF Survivors, MarkedFrom, ClosedUnderChildren, Children
<1>5. Function' = Function
  <2>1. (Function = Chosen(size, node, varnum, Used))'
    BY FunctionOf, PTL
  <2> QED
    BY <2>1, <1>1, <1>2, FunctionOf
<1> QED
  BY <1>2, <1>3, <1>4, <1>5 DEF Safe, InUse


(* What the steps find.                                                    *)
LEMMA ApplyFacts ==
  ASSUME ApplyInv
  PROVE  /\ TableInv /\ IInv /\ Quiet
         /\ varnum \in Nat /\ size \in Nat /\ size > 2 /\ errorcond \in BOOLEAN /\ maxsize \in Nat
         /\ Leveled(size, node, varnum) /\ TerminalsPinned
         /\ View(node, varnum, Function, InUse) /\ View(node, varnum, Function, Safe)
         /\ Safe \subseteq InUse /\ InUse \in SUBSET Nat /\ Safe \in SUBSET Nat
         /\ Terminal \cup Counted \subseteq Safe
<1>1. IInv /\ Leveled(size, node, varnum) /\ TerminalsPinned /\ growing = Idle
  BY DEF ApplyInv, GoodTerminals
<1>2. /\ TableInv /\ Quiet /\ varnum \in 0..MaxVars /\ errorcond \in BOOLEAN
      /\ maxsize \in Limits
  BY <1>1 DEF IInv, Quiet, Idle, ScalarType
<1>3. varnum \in Nat /\ maxsize \in Nat
  BY <1>2, BoundAssumption, LimitAssumption
<1>4. size \in Nat /\ size > 2 /\ Used = UsedOf(size, node) /\ InUse \subseteq 0..(size - 1)
  BY <1>2, Numbers
<1>5. /\ Counted \subseteq Survivors /\ Survivors \subseteq Used
      /\ ClosedPart(node, Survivors) /\ ClosedPart(node, Used)
  BY <1>2, Closures
<1>6. GoodTable(size, node, free) /\ Denotes(Function, size, node, varnum)
  BY <1>2, FunctionDenotes DEF TableInv
<1>7. View(node, varnum, Function, Terminal \cup Used)
  BY <1>1, <1>3, <1>4, <1>5, <1>6, PartView
<1>8. View(node, varnum, Function, Terminal \cup Survivors)
  <2>1. Survivors \in SUBSET UsedOf(size, node)
    BY <1>4, <1>5
  <2> QED
    BY <2>1, <1>1, <1>3, <1>5, <1>6, PartView
<1>9. Safe \subseteq InUse /\ Terminal \cup Counted \subseteq Safe
  BY <1>5 DEF Safe, InUse
<1>10. InUse \in SUBSET Nat
  BY <1>4
<1> QED
  BY <1>1, <1>2, <1>3, <1>4, <1>7, <1>8, <1>9, <1>10 DEF Safe, InUse

(* No call is left, and nothing on the stack.                              *)
LEMMA NoFrames ==
  ASSUME NEW nd, NEW num, NEW f, NEW ok, NEW P, NEW want
  PROVE  /\ GoodFrames(nd, num, f, P, << >>)
         /\ AsksFor(num, f, << >>, want)
         /\ \E c \in [1..(Len(<< >>) + 1) -> Nat] : Results(nd, num, f, ok, << >>, c, << >>)
<1>1. Len(<< >>) = 0 /\ 1..0 = {} /\ 1..(0 - 1) = {} /\ << >> \in Seq(Frame)
  OBVIOUS
<1>2. GoodFrames(nd, num, f, P, << >>) /\ AsksFor(num, f, << >>, want)
  BY <1>1 DEF GoodFrames, AsksFor
<1> DEFINE c == [i \in 1..(Len(<< >>) + 1) |-> 0]
<1>3. c \in [1..(Len(<< >>) + 1) -> Nat] /\ c[1] = 0 /\ c[Len(<< >>) + 1] = 0
  BY <1>1
<1> HIDE DEF c
<1>4. Results(nd, num, f, ok, << >>, c, << >>)
  BY <1>1, <1>3 DEF Results, Offsets
<1> QED
  BY <1>2, <1>3, <1>4

(* The top call returns: its caller goes on, or the recursion ends.        *)
LEMMA ReturnLands ==
  ASSUME NEW nd, NEW num \in Nat, NEW f, NEW ok, NEW P \in SUBSET Nat, GoodLevels(nd, num, P),
         GoodFrames(nd, num, f, P, frames), frames # << >>, AsksFor(num, f, frames, call.want),
         NEW b, Results(nd, num, f, ok, frames, b, refstack), NEW n, NEW pile,
         TopAnswered(nd, num, f, ok, frames, b, refstack, n, pile),
         Len(frames) # 1 => Resumed = ResumedFrom(nd, frames), Return(n, pile)
  PROVE  /\ GoodFrames(nd, num, f, P, frames')
         /\ AsksFor(num, f, frames', call.want)
         /\ \E c \in [1..(Len(frames') + 1) -> Nat] : Results(nd, num, f, ok, frames', c, refstack')
         /\ frames' = << >> => result' = n /\ (ok => f[n] = call.want)
<1>1. frames \in Seq(Frame) /\ Len(frames) \in Nat /\ Len(frames) # 0
  BY EmptySeq, LenProperties DEF GoodFrames
<1>2. CASE Len(frames) = 1
  <2>1. frames' = << >> /\ result' = n /\ refstack' = pile
    BY <1>2 DEF Return
  <2>2. Len(pile) = 0 /\ pile \in Seq(Int)
    BY <1>2 DEF TopAnswered, Results, Offsets
  <2>3. pile = << >>
    BY <2>2, EmptySeq
  <2>4. ok => f[n] = call.want
    BY <1>2 DEF TopAnswered, AsksFor
  <2> QED
    BY <2>1, <2>3, <2>4, NoFrames
<1>3. CASE Len(frames) # 1
  <2>1. frames' = Resumed /\ refstack' = Append(pile, n)
    BY <1>3, Zenon DEF Return
  <2>2. frames' = ResumedFrom(nd, frames)
    BY <1>3, <2>1, Zenon
  <2>4. Len(frames) > 1
    <3>1. \A k \in Nat : k # 0 /\ k # 1 => k > 1
      OBVIOUS
    <3> QED
      BY <1>1, <1>3, <3>1, Zenon
  <2>3. /\ GoodFrames(nd, num, f, P, ResumedFrom(nd, frames))
        /\ \A want : AsksFor(num, f, frames, want) => AsksFor(num, f, ResumedFrom(nd, frames), want)
        /\ \E c \in [1..(Len(ResumedFrom(nd, frames)) + 1) -> Nat] :
              Results(nd, num, f, ok, ResumedFrom(nd, frames), c, Append(pile, n))
        /\ ResumedFrom(nd, frames) # << >>
    BY <1>1, <2>4, ReturnGoesOn
  <2> QED
    BY <2>1, <2>2, <2>3, Zenon
<1> QED
  BY <1>2, <1>3


(* The indices of the caches.                                              *)
LEMMA PairNat ==
  ASSUME NEW a \in Nat, NEW b \in Nat
  PROVE  Pair(a, b) \in Nat
<1>1. \A k \in Nat : k \div 2 \in Nat
  OBVIOUS
<1>2. \A k, m \in Nat : k * m \in Nat
  OBVIOUS
<1>3. a + b \in Nat /\ a + b + 1 \in Nat
  OBVIOUS
<1>4. (a + b) * (a + b + 1) \in Nat
  BY <1>2, <1>3
<1>5. ((a + b) * (a + b + 1)) \div 2 \in Nat
  BY <1>1, <1>4
<1> QED
  BY <1>5 DEF Pair

(* A call has a place in its cache.                                        *)
LEMMA IndexInCache ==
  ASSUME NEW P \in SUBSET Nat, NEW op, NEW a, GoodCall(P, op, a)
  PROVE  CacheIndex(op, a) \in CacheIndices /\ CacheOf(op) \in {"apply", "ite"}
<1>1. op \in Operators /\ a \in [1..Arity(op) -> P]
  BY DEF GoodCall
<1>6. /\ op = "not" => Arity(op) = 1
      /\ op \in Binary => Arity(op) = 2
      /\ op = "ite" => Arity(op) = 3
  BY <1>1, Arities
<1>7. \A i \in 1..Arity(op) : a[i] \in Nat
  BY <1>1
<1>2. \A k \in Nat : k % CacheSize \in CacheIndices
  BY CacheAssumption DEF CacheIndices
<1>3. CASE op = "not"
  <2>1. a[1] \in Nat
    <3>1. 1 \in 1..1 /\ Arity(op) = 1
      BY <1>3, <1>6
    <3> QED
      BY <1>7, <3>1
  <2>2. CacheIndex(op, a) = a[1] % CacheSize
    BY <1>3 DEF CacheIndex, Binary
  <2> QED
    BY <2>1, <2>2, <1>2 DEF CacheOf
<1>4. CASE op = "ite"
  <2>1. a[1] \in Nat /\ a[2] \in Nat /\ a[3] \in Nat
    <3>1. 1 \in 1..3 /\ 2 \in 1..3 /\ 3 \in 1..3 /\ Arity(op) = 3
      BY <1>4, <1>6
    <3> QED
      BY <1>7, <3>1
  <2>2. CacheIndex(op, a) = Pair(a[3], Pair(a[1], a[2])) % CacheSize
    BY <1>4 DEF CacheIndex, Binary
  <2>3. Pair(a[1], a[2]) \in Nat
    BY <2>1, PairNat
  <2>4. Pair(a[3], Pair(a[1], a[2])) \in Nat
    BY <2>1, <2>3, PairNat
  <2> QED
    BY <2>2, <2>4, <1>2 DEF CacheOf
<1>5. CASE op \in Binary
  <2>1. a[1] \in Nat /\ a[2] \in Nat
    <3>1. 1 \in 1..2 /\ 2 \in 1..2 /\ Arity(op) = 2
      BY <1>5, <1>6
    <3> QED
      BY <1>7, <3>1
  <2>2. op # "not" /\ op # "ite"
    BY <1>5 DEF Binary
  <2>3. CacheIndex(op, a) = Pair(OpCode[op], Pair(a[1], a[2])) % CacheSize
    BY <1>5, <2>2 DEF CacheIndex
  <2>4. OpCode[op] \in Nat
    BY <1>5 DEF Binary, OpCode
  <2>5. Pair(a[1], a[2]) \in Nat
    BY <2>1, PairNat
  <2>6. Pair(OpCode[op], Pair(a[1], a[2])) \in Nat
    BY <2>4, <2>5, PairNat
  <2> QED
    BY <2>3, <2>6, <1>2 DEF CacheOf
<1> QED
  BY <1>1, <1>3, <1>4, <1>5 DEF Operators

(* A cache entry for a call answers it.                                    *)
LEMMA HitRight ==
  ASSUME NEW nd, NEW num, NEW f, NEW ok, NEW U \in SUBSET Nat, GoodCache(nd, num, f, ok, U, cache),
         NEW op, NEW a, GoodCall(U, op, a), Hit(op, a)
  PROVE  Answers(nd, num, f, ok, U, op, a, Entry(op, a).res)
<1> DEFINE e == Entry(op, a)
<1>1. CacheIndex(op, a) \in CacheIndices /\ CacheOf(op) \in {"apply", "ite"} /\ op \in Operators
  BY IndexInCache DEF GoodCall
<1>2. GoodEntry(nd, num, f, ok, U, e)
  BY <1>1 DEF Entry, GoodCache
<1>3. e.op = op /\ e.args = a
  BY DEF Hit
<1> HIDE DEF e
<1>4. e # NoEntry
  BY <1>1, <1>3 DEF NoEntry, Operators, Binary
<1>5. Answers(nd, num, f, ok, U, op, a, e.res)
  BY <1>2, <1>3, <1>4 DEF GoodEntry
<1> QED
  BY <1>5 DEF e


(* The table stays as it is.                                               *)
LEMMA TableStays ==
  ASSUME ApplyInv, UNCHANGED <<size, node, free, errorcond, varnum, varset, growing, held, raised>>,
         maxsize' = maxsize, GoodStack(size, node, refstack'),
         reorder' \in [method : BOOLEAN, disabled : BOOLEAN, next : Nat]
  PROVE  IInv' /\ GoodTerminals'
<1>1. IInv /\ GoodTerminals /\ Quiet /\ varnum \in Nat
  BY ApplyFacts DEF ApplyInv
<1>2. TableInv'
  BY <1>1, TableKept
<1>3. GoodVars(size', node', varnum', varset')
  BY <1>1, TableKept
<1>4. GrowthInv'
  BY <1>1, QuietGrowth
<1>5. ScalarType'
  BY <1>1 DEF IInv, ScalarType
<1>6. GoodStack(size', node', refstack')
  OBVIOUS
<1>7. IInv'
  BY <1>2, <1>3, <1>4, <1>5, <1>6 DEF IInv
<1>8. GoodTerminals'
  BY <1>1 DEF GoodTerminals, Leveled, TerminalsPinned
<1> QED
  BY <1>7, <1>8

(* The settings of reordering keep their type.                             *)
LEMMA ReorderIsTyped == ApplyInv => reorder \in [method : BOOLEAN, disabled : BOOLEAN, next : Nat]
  BY DEF ApplyInv, IInv, ScalarType

(* A call that does not change keeps its type.                             *)
LEMMA SameCall == ApplyInv /\ call' = call => CallTyped'
  BY DEF ApplyInv, ControlInv, CallTyped

(* A recursion goes on over the same table.                                *)
LEMMA RecursionGoesOn ==
  ASSUME ApplyInv, Running,
         UNCHANGED <<table, varnum, varset, growing, reorder, held, raised, cache, call, first>>,
         GoodStack(size, node, refstack'),
         GoodFrames(node, varnum, Function, Safe, frames'),
         AsksFor(varnum, Function, frames', call.want),
         \E c \in [1..(Len(frames') + 1) -> Nat] :
           Results(node, varnum, Function, ~ errorcond, frames', c, refstack'),
         frames' = << >> /\ ~ errorcond => result' \in InUse /\ Function[result'] = call.want
  PROVE  ApplyInv'
<1>1. /\ UNCHANGED <<size, node, free, maxsize, errorcond>>
      /\ UNCHANGED <<varnum, varset, growing, held, raised, cache, call, first>> /\ reorder' = reorder
  BY DEF table
<1>2. /\ Function' = Function /\ Safe' = Safe /\ InUse' = InUse /\ Counted' = Counted
  BY <1>1, SameTable
<1>3. IInv' /\ GoodTerminals'
  BY <1>1, ReorderIsTyped, TableStays
<1>4. FramesInv'
  BY <1>1, <1>2 DEF FramesInv
<1>5. CachesInv'
  BY <1>1, <1>2 DEF CachesInv, ApplyInv
<1>6. ResultGood' \/ frames' # << >>
  BY <1>1, <1>2 DEF ResultGood
<1>7. GoodOperation'
  BY <1>1, <1>2 DEF GoodOperation, ApplyInv, ControlInv, Running
<1>8. ControlInv'
  BY <1>1, <1>6, <1>7, SameCall DEF ControlInv, Running
<1> QED
  BY <1>3, <1>4, <1>5, <1>8 DEF ApplyInv

(* The top call of the recursion.                                          *)
LEMMA TopFacts ==
  ASSUME ApplyInv, frames # << >>
  PROVE  /\ frames \in Seq(Frame) /\ Len(frames) \in Nat /\ Len(frames) # 0
         /\ Len(frames) \in 1..Len(frames)
         /\ Top \in Frame /\ Top = frames[Len(frames)]
         /\ GoodCall(Safe, Top.op, Top.args) /\ GoodCall(InUse, Top.op, Top.args)
<1>1. GoodFrames(node, varnum, Function, Safe, frames)
  BY DEF ApplyInv, FramesInv
<1>2. frames \in Seq(Frame) /\ Len(frames) \in Nat /\ Len(frames) # 0
  BY <1>1, EmptySeq, LenProperties DEF GoodFrames
<1>3. Len(frames) \in 1..Len(frames) /\ Top = frames[Len(frames)]
  BY <1>2 DEF Top
<1>4. Top \in Frame
  BY <1>2, <1>3, ElementOfSeq
<1>5. GoodCall(Safe, Top.op, Top.args)
  BY <1>1, <1>3 DEF GoodFrames
<1>6. Safe \subseteq InUse
  BY ApplyFacts
<1>7. GoodCall(InUse, Top.op, Top.args)
  BY <1>5, <1>6, LargerPool
<1> QED
  BY <1>2, <1>3, <1>4, <1>5, <1>7

(* The stack is the stack of the top call, which has no results yet, or    *)
(* has just dropped them.                                                  *)
LEMMA AnswersTop ==
  ASSUME ApplyInv, frames # << >>, NEW b,
         Results(node, varnum, Function, ~ errorcond, frames, b, refstack), Top.step = "enter",
         NEW n, Answers(node, varnum, Function, ~ errorcond, InUse, Top.op, Top.args, n)
  PROVE  TopAnswered(node, varnum, Function, ~ errorcond, frames, b, refstack, n, refstack)
<1>1. /\ Len(frames) \in 1..Len(frames) /\ Top = frames[Len(frames)] /\ Len(frames) \in Nat
      /\ frames \in Seq(Frame)
  BY TopFacts
<1>2. refstack \in Seq(0..(size - 1))
  BY DEF ApplyInv, IInv, GoodStack
<1>3. refstack \in Seq(Int)
  <2>1. 0..(size - 1) \subseteq Int
    OBVIOUS
  <2> QED
    BY <1>2, <2>1, SeqMonotonic
<1>4. n \in InUse /\ InUse \in SUBSET Nat /\ GoodLevels(node, varnum, InUse) /\ varnum \in Nat
  BY ApplyFacts DEF Answers, View
<1>5. n \in Int /\ node[n].level \in Nat
  BY <1>4 DEF GoodLevels
<1>6. Len(refstack) = b[Len(frames) + 1] /\ Offsets(frames, b)
  BY DEF Results
<1>7. b[Len(frames) + 1] = b[Len(frames)] + Pushed(frames[Len(frames)]) /\ b[Len(frames)] \in Nat
  BY <1>1, <1>6 DEF Offsets
<1>8. Pushed(frames[Len(frames)]) = 0
  BY <1>1 DEF Pushed
<1>9. Len(refstack) = b[Len(frames)]
  BY <1>6, <1>7, <1>8
<1> QED
  BY <1>1, <1>3, <1>5, <1>9 DEF TopAnswered, Answers


(* A shortcut, a constant or a cache entry answers the top call.           *)
LEMMA AnsweredStep ==
  ASSUME ApplyInv, Answered
  PROVE  ApplyInv'
<1>1. /\ Running /\ frames # << >> /\ Top.step = "enter"
      /\ UNCHANGED <<table, varnum, varset, growing, reorder, held, raised, cache, call, first, calls>>
  BY DEF Answered, At
<1>2. /\ GoodCall(InUse, Top.op, Top.args)
      /\ View(node, varnum, Function, InUse) /\ InUse \in SUBSET Nat
      /\ GoodLevels(node, varnum, Safe) /\ Safe \in SUBSET Nat /\ varnum \in Nat /\ TableInv
  BY <1>1, TopFacts, ApplyFacts DEF View
<1>3. PICK n : /\ Answers(node, varnum, Function, ~ errorcond, InUse, Top.op, Top.args, n)
               /\ Return(n, refstack)
  <2>1. CASE \E n \in Immediate(Top.op, Top.args) : Return(n, refstack)
    <3>1. PICK n \in Immediate(Top.op, Top.args) : Return(n, refstack)
      BY <2>1
    <3>2. Answers(node, varnum, Function, TRUE, InUse, Top.op, Top.args, n)
      BY <1>2, ImmediateRight
    <3> QED
      BY <3>1, <3>2 DEF Answers
  <2>2. CASE Hit(Top.op, Top.args) /\ Return(Entry(Top.op, Top.args).res, refstack)
    <3>1. GoodCache(node, varnum, Function, ~ errorcond, InUse, cache)
      BY DEF ApplyInv, CachesInv
    <3>2. Answers(node, varnum, Function, ~ errorcond, InUse, Top.op, Top.args,
                  Entry(Top.op, Top.args).res)
      BY <1>2, <2>2, <3>1, HitRight
    <3> QED
      BY <2>2, <3>2
  <2> QED
    BY <2>1, <2>2 DEF Answered
<1>4. /\ GoodFrames(node, varnum, Function, Safe, frames)
      /\ AsksFor(varnum, Function, frames, call.want)
  BY DEF ApplyInv, FramesInv
<1>5. PICK b : Results(node, varnum, Function, ~ errorcond, frames, b, refstack)
  BY DEF ApplyInv, FramesInv
<1>6. TopAnswered(node, varnum, Function, ~ errorcond, frames, b, refstack, n, refstack)
  BY <1>1, <1>3, <1>5, AnswersTop
<1>7. Resumed = ResumedFrom(node, frames)
  BY Present
<1>8. /\ GoodFrames(node, varnum, Function, Safe, frames')
      /\ AsksFor(varnum, Function, frames', call.want)
      /\ \E c \in [1..(Len(frames') + 1) -> Nat] :
           Results(node, varnum, Function, ~ errorcond, frames', c, refstack')
      /\ frames' = << >> => result' = n /\ (~ errorcond => Function[n] = call.want)
  <2> DEFINE f == Function
             P == Safe
             ok == ~ errorcond
  <2>1. /\ GoodLevels(node, varnum, P) /\ P \in SUBSET Nat /\ varnum \in Nat
        /\ GoodFrames(node, varnum, f, P, frames) /\ AsksFor(varnum, f, frames, call.want)
        /\ Results(node, varnum, f, ok, frames, b, refstack)
        /\ TopAnswered(node, varnum, f, ok, frames, b, refstack, n, refstack)
    BY <1>2, <1>4, <1>5, <1>6
  <2> HIDE DEF f, P, ok
  <2>2. /\ GoodFrames(node, varnum, f, P, frames')
        /\ AsksFor(varnum, f, frames', call.want)
        /\ \E c \in [1..(Len(frames') + 1) -> Nat] : Results(node, varnum, f, ok, frames', c, refstack')
        /\ frames' = << >> => result' = n /\ (ok => f[n] = call.want)
    BY <2>1, <1>1, <1>3, <1>7, ReturnLands
  <2> QED
    BY <2>2 DEF f, P, ok
<1>9. GoodStack(size, node, refstack')
  <2>1. GoodStack(size, node, refstack)
    BY DEF ApplyInv, IInv
  <2>2. n \in InUse
    BY <1>3 DEF Answers
  <2>3. Used = UsedOf(size, node) /\ InUse \subseteq 0..(size - 1) /\ size \in Nat
    BY <1>2, Numbers
  <2>4. n \in Terminal \cup UsedOf(size, node) /\ n \in 0..(size - 1)
    BY <2>2, <2>3 DEF InUse
  <2>5. GoodStack(size, node, Append(refstack, n))
    BY <2>1, <2>3, <2>4, PushGood
  <2>6. refstack' = refstack \/ refstack' = Append(refstack, n)
    BY <1>3, Zenon DEF Return
  <2> QED
    BY <2>1, <2>5, <2>6
<1>10. frames' = << >> /\ ~ errorcond => result' \in InUse /\ Function[result'] = call.want
  BY <1>3, <1>8 DEF Answers
<1> QED
  BY <1>1, <1>8, <1>9, <1>10, RecursionGoesOn DEF table


(* The stack has nothing above the results of the calls that wait.         *)
LEMMA NothingPushed ==
  ASSUME NEW nd, NEW num, NEW f, NEW ok, NEW fr \in Seq(Frame), fr # << >>, NEW b, NEW stack,
         Results(nd, num, f, ok, fr, b, stack), fr[Len(fr)].step = "enter", NEW x,
         x.step \in {"enter", "low"}
  PROVE  StackGoesOn(nd, num, f, ok, b, Len(fr) - 1, x, stack, stack)
<1>1. Len(fr) \in Nat /\ Len(fr) \in 1..Len(fr) /\ (Len(fr) - 1) + 1 = Len(fr)
  BY EmptySeq, LenProperties
<1>2. Len(stack) = b[Len(fr) + 1] /\ Offsets(fr, b)
  BY DEF Results
<1>3. b[Len(fr) + 1] = b[Len(fr)] + Pushed(fr[Len(fr)]) /\ b[Len(fr)] \in Nat
  BY <1>1, <1>2 DEF Offsets
<1>4. Pushed(fr[Len(fr)]) = 0 /\ Pushed(x) = 0
  BY DEF Pushed
<1>5. Len(stack) = b[(Len(fr) - 1) + 1] + Pushed(x)
  BY <1>1, <1>2, <1>3, <1>4
<1>6. \A side : ~ (Pushed(x) >= Place(side))
  BY <1>4 DEF Place
<1> QED
  BY <1>5, <1>6 DEF StackGoesOn

(* ite_rec goes on as not_rec.                                             *)
LEMMA NegatedStep ==
  ASSUME ApplyInv, Negated
  PROVE  ApplyInv'
<1> DEFINE x == NewFrame("not", <<Top.args[1]>>)
           k == Len(frames) - 1
<1>1. /\ Running /\ frames # << >> /\ Top.step = "enter" /\ IsNegation(Top.op, Top.args)
      /\ frames' = [frames EXCEPT ![Len(frames)] = x]
      /\ UNCHANGED <<vars, result, cache, call, first, calls>>
  BY DEF Negated, At
<1>2. /\ UNCHANGED <<table, varnum, varset, growing, reorder, held, raised, cache, call, first>>
      /\ refstack' = refstack
  BY <1>1 DEF vars
<1>3. /\ frames \in Seq(Frame) /\ Len(frames) \in Nat /\ Top = frames[Len(frames)]
      /\ GoodCall(Safe, Top.op, Top.args) /\ Len(frames) # 0
  BY <1>1, TopFacts
<1>4. View(node, varnum, Function, Safe) /\ Safe \in SUBSET Nat /\ varnum \in Nat
  BY ApplyFacts
<1>5. /\ GoodCall(Safe, "not", <<Top.args[1]>>)
      /\ Means(varnum, Function, "not", <<Top.args[1]>>) = Means(varnum, Function, Top.op, Top.args)
      /\ TopIn(node, <<Top.args[1]>>) >= TopIn(node, Top.args)
  BY <1>1, <1>3, <1>4, NegationMeans
<1>6. x.op = "not" /\ x.args = <<Top.args[1]>> /\ x.step = "enter"
  BY DEF NewFrame
<1>7. x \in Frame
  BY <1>4, <1>5, FrameTyped DEF NewFrame
<1> HIDE DEF x
<1>8. /\ k \in Nat /\ k + 1 = Len(frames) /\ k + 1 \in 1..Len(frames)
      /\ Continues(frames, k, x, frames') /\ Len(frames') = k + 1
  BY <1>1, <1>3, <1>7, TopReplaced
<1> HIDE DEF k
<1>9. TopIn(node, Top.args) <= TopIn(node, <<Top.args[1]>>)
  <2>1. GoodLevels(node, varnum, Safe)
    BY <1>4 DEF View
  <2>2. TopIn(node, Top.args) \in 0..varnum /\ TopIn(node, <<Top.args[1]>>) \in 0..varnum
    BY <2>1, <1>3, <1>4, <1>5, CallTop
  <2> QED
    BY <2>2, <1>5
<1>10. TakesOver(node, varnum, Function, Safe, frames[k + 1], x)
  BY <1>3, <1>5, <1>6, <1>8, <1>9 DEF TakesOver
<1>11. Ends(node, k, x, frames')
  BY <1>6, <1>8 DEF Ends
<1>12. /\ GoodFrames(node, varnum, Function, Safe, frames)
       /\ AsksFor(varnum, Function, frames, call.want)
  BY DEF ApplyInv, FramesInv
<1>13. PICK b : Results(node, varnum, Function, ~ errorcond, frames, b, refstack)
  BY DEF ApplyInv, FramesInv
<1>14. /\ GoodFrames(node, varnum, Function, Safe, frames')
       /\ AsksFor(varnum, Function, frames', call.want)
  <2>1. GoodLevels(node, varnum, Safe)
    BY <1>4 DEF View
  <2> QED
    BY <2>1, <1>4, <1>8, <1>10, <1>11, <1>12, FramesGoOn
<1>15. StackGoesOn(node, varnum, Function, ~ errorcond, b, k, x, refstack, refstack)
  BY <1>1, <1>3, <1>6, <1>13, NothingPushed DEF k
<1>16. \E c \in [1..(Len(frames') + 1) -> Nat] :
         Results(node, varnum, Function, ~ errorcond, frames', c, refstack)
  BY <1>3, <1>8, <1>11, <1>13, <1>15, ResultsGoOn
<1>17. frames' # << >>
  BY <1>8
<1>18. GoodStack(size, node, refstack')
  BY <1>2 DEF ApplyInv, IInv
<1> QED
  BY <1>1, <1>2, <1>14, <1>16, <1>17, <1>18, RecursionGoesOn

(* A call goes on to the low sides of its operands.                        *)
LEMMA DescendStep ==
  ASSUME ApplyInv, Descend
  PROVE  ApplyInv'
<1> DEFINE x == [Top EXCEPT !.step = "low"]
           y == NewFrame(Top.op, SideOf(node, Top.args, "low"))
           k == Len(frames) - 1
<1>1. /\ Running /\ frames # << >> /\ Top.step = "enter" /\ Immediate(Top.op, Top.args) = {}
      /\ frames' = Append([frames EXCEPT ![Len(frames)].step = "low"], y)
      /\ UNCHANGED <<vars, result, cache, call, first, calls>>
  BY Present DEF Descend, At
<1>2. /\ UNCHANGED <<table, varnum, varset, growing, reorder, held, raised, cache, call, first>>
      /\ refstack' = refstack
  BY <1>1 DEF vars
<1>3. /\ frames \in Seq(Frame) /\ Len(frames) \in Nat /\ Top = frames[Len(frames)]
      /\ GoodCall(Safe, Top.op, Top.args) /\ Len(frames) # 0 /\ Top \in Frame
  BY <1>1, TopFacts
<1>4. /\ View(node, varnum, Function, Safe) /\ Safe \in SUBSET Nat /\ varnum \in Nat
      /\ GoodLevels(node, varnum, Safe)
  BY ApplyFacts DEF View
<1>5. TopIn(node, Top.args) < varnum
  BY <1>1, <1>3, <1>4, NotImmediate
<1>6. x.op = Top.op /\ x.args = Top.args /\ x.step = "low" /\ x \in Frame
  BY <1>3 DEF Frame
<1>7. y \in Frame
  <2>1. GoodCall(Safe, Top.op, SideOf(node, Top.args, "low"))
    BY <1>3, <1>4, <1>5, CallSide
  <2> QED
    BY <2>1, <1>4, FrameTyped DEF NewFrame
<1>8. frames' = Append([frames EXCEPT ![Len(frames)] = x], y)
  BY <1>1, <1>3
<1> HIDE DEF x, y
<1>9. /\ k \in Nat /\ k + 1 = Len(frames) /\ k + 1 \in 1..Len(frames)
      /\ Continues(frames, k, x, frames') /\ Len(frames') = k + 2 /\ frames'[k + 2] = y
  <2> DEFINE one == [frames EXCEPT ![Len(frames)] = x]
  <2>1. /\ k \in Nat /\ k + 1 = Len(frames) /\ k + 1 \in 1..Len(frames)
        /\ \A z \in Frame : LET two == Append(one, z)
                            IN  Continues(frames, k, x, two) /\ Len(two) = k + 2 /\ two[k + 2] = z
    BY <1>1, <1>3, <1>6, TopReplaced
  <2>2. frames' = Append(one, y)
    BY <1>8
  <2> HIDE DEF one, k
  <2> QED
    BY <2>1, <2>2, <1>7
<1> HIDE DEF k
<1>10. TopIn(node, Top.args) <= TopIn(node, x.args) /\ TopIn(node, x.args) < varnum
  <2>1. TopIn(node, Top.args) \in 0..varnum
    BY <1>3, <1>4, CallTop
  <2> QED
    BY <2>1, <1>5, <1>6
<1>11. TakesOver(node, varnum, Function, Safe, frames[k + 1], x)
  BY <1>3, <1>6, <1>9, <1>10 DEF TakesOver
<1>12. Ends(node, k, x, frames')
  BY <1>6, <1>9 DEF Ends, y
<1>13. /\ GoodFrames(node, varnum, Function, Safe, frames)
       /\ AsksFor(varnum, Function, frames, call.want)
  BY DEF ApplyInv, FramesInv
<1>14. PICK b : Results(node, varnum, Function, ~ errorcond, frames, b, refstack)
  BY DEF ApplyInv, FramesInv
<1>15. /\ GoodFrames(node, varnum, Function, Safe, frames')
       /\ AsksFor(varnum, Function, frames', call.want)
  BY <1>4, <1>9, <1>11, <1>12, <1>13, FramesGoOn
<1>16. StackGoesOn(node, varnum, Function, ~ errorcond, b, k, x, refstack, refstack)
  BY <1>1, <1>3, <1>6, <1>14, NothingPushed DEF k
<1>17. \E c \in [1..(Len(frames') + 1) -> Nat] :
         Results(node, varnum, Function, ~ errorcond, frames', c, refstack)
  BY <1>3, <1>9, <1>12, <1>14, <1>16, ResultsGoOn
<1>18. frames' # << >>
  BY <1>9
<1>19. GoodStack(size, node, refstack')
  BY <1>2 DEF ApplyInv, IInv
<1> QED
  BY <1>1, <1>2, <1>15, <1>17, <1>18, <1>19, RecursionGoesOn


-----------------------------------------------------------------------------
(* A recursion makes its node.                                             *)

(* A node over the answers to the cofactors answers the call.              *)
LEMMA MadeRight ==
  ASSUME NEW nd, NEW num, NEW f, NEW U, View(nd, num, f, U), NEW op, NEW a, GoodCall(U, op, a),
         TopIn(nd, a) < num, NEW lo, NEW hi,
         f[lo] = Means(num, f, op, SideOf(nd, a, "low")),
         f[hi] = Means(num, f, op, SideOf(nd, a, "high")), NEW n,
         (lo = hi /\ n = lo) \/ (n \in U \ Terminal /\ IsNode(nd, n, TopIn(nd, a), lo, hi))
  PROVE  f[n] = Means(num, f, op, a)
<1> DEFINE l == TopIn(nd, a)
<1>1. Means(num, f, op, a) = {x \in f[lo] : l \notin x} \cup {x \in f[hi] : l \in x}
  BY Expansion
<1> HIDE DEF l
<1>2. CASE lo = hi /\ n = lo
  BY <1>1, <1>2
<1>3. CASE n \in U \ Terminal /\ IsNode(nd, n, TopIn(nd, a), lo, hi)
  <2>1. f[n] = {x \in f[nd[n].low] : nd[n].level \notin x}
                 \cup {x \in f[nd[n].high] : nd[n].level \in x}
    BY <1>3 DEF View, GoodFunctions
  <2>2. nd[n].level = l /\ nd[n].low = lo /\ nd[n].high = hi
    BY <1>3 DEF IsNode, l
  <2> QED
    BY <1>1, <2>1, <2>2
<1> QED
  BY <1>2, <1>3

(* The node bdd_makenode answers is of the level asked for, or a terminal. *)
LEMMA AnswerLevel ==
  ASSUME NEW l, NEW lo, NEW hi, Callable(l, lo, hi), MakeNode(l, lo, hi), lo # hi
  PROVE  Answer(l, lo, hi) \in Terminal \/ node'[Answer(l, lo, hi)].level = l
<1>1. Outcome(l, lo, hi) /\ TableInv
  BY MakeNodeKeeps DEF Callable
<1>2. CASE Found(l, lo, hi)
  <2>1. Find(l, lo, hi) # {} /\ node' = node
    BY <1>2 DEF Found, Missing, table
  <2>2. Answer(l, lo, hi) = CHOOSE n \in Find(l, lo, hi) : TRUE
    <3>1. ~ Missing(l, lo, hi)
      BY <2>1 DEF Missing
    <3> QED
      BY <2>1, <3>1 DEF Answer
  <2>3. Answer(l, lo, hi) \in Find(l, lo, hi)
    BY <2>1, <2>2
  <2> QED
    BY <2>1, <2>3 DEF Find
<1>3. CASE Fresh(l, lo, hi)
  <2>1. Missing(l, lo, hi) /\ free # {} /\ Insert(l, lo, hi, node, free)
    BY <1>3 DEF Fresh
  <2>2. Insertable(size, node, free, l, lo, hi)
    BY <2>1, InsertableNow
  <2>3. node'[Minimum(free)].level = l
    BY <2>1, <2>2, InsertFilled
  <2>4. Answer(l, lo, hi) = Minimum(free)
    BY <2>1 DEF Answer, Missing
  <2> QED
    BY <2>3, <2>4
<1>4. CASE Refused(l, lo, hi)
  <2>1. Missing(l, lo, hi) /\ free = {} /\ errorcond
    BY <1>4 DEF Refused
  <2>2. Answer(l, lo, hi) = FALSEBDD
    BY <2>1 DEF Answer, Missing
  <2> QED
    BY <2>2 DEF Terminal
<1>5. CASE Recycled(l, lo, hi)
  <2>1. ~ errorcond'
    BY <1>5 DEF Recycled
  <2> QED
    BY <2>1, <1>1 DEF Outcome, IsNode
<1>6. CASE Exhausted(l, lo, hi)
  <2>1. /\ Missing(l, lo, hi) /\ free = {} /\ ~ errorcond
        /\ \E s \in SizesAfterCollection : SlotsAfterCollection(s) = {}
    BY <1>6 DEF Exhausted
  <2>2. Answer(l, lo, hi) = FALSEBDD
    BY <2>1, AnswerAfterCollection
  <2> QED
    BY <2>2 DEF Terminal
<1> QED
  BY <1>2, <1>3, <1>4, <1>5, <1>6 DEF MakeNode

(* The children of the node and the call that asks for it.                 *)
LEMMA MakeCall ==
  ASSUME ApplyInv, At("make"), NEW b,
         Results(node, varnum, Function, ~ errorcond, frames, b, refstack)
  PROVE  /\ TopLevel(Top.args) = TopIn(node, Top.args)
         /\ TopIn(node, Top.args) \in Nat /\ TopIn(node, Top.args) < varnum
         /\ b[Len(frames)] \in Nat /\ Len(refstack) = b[Len(frames)] + 2
         /\ Low = refstack[b[Len(frames)] + 1] /\ High = refstack[b[Len(frames)] + 2]
         /\ AnswersSide(node, varnum, Function, ~ errorcond, Top, "low", Low)
         /\ AnswersSide(node, varnum, Function, ~ errorcond, Top, "high", High)
         /\ \A i \in 1..Len(refstack) : refstack[i] \in Terminal \cup Marked
         /\ Low \in Terminal \cup Marked /\ High \in Terminal \cup Marked
<1>1. /\ frames # << >> /\ Top.step = "make" /\ frames \in Seq(Frame) /\ Len(frames) \in Nat
      /\ Len(frames) \in 1..Len(frames) /\ Top = frames[Len(frames)]
      /\ GoodCall(Safe, Top.op, Top.args)
  BY TopFacts DEF At
<1>2. GoodFrames(node, varnum, Function, Safe, frames)
  BY DEF ApplyInv, FramesInv
<1>3. /\ GoodLevels(node, varnum, Safe) /\ varnum \in Nat /\ TableInv
  BY ApplyFacts DEF View
<1>4. TopIn(node, Top.args) \in 0..varnum
  BY <1>1, <1>3, CallTop
<1>5. TopIn(node, Top.args) < varnum
  BY <1>1, <1>2 DEF GoodFrames
<1>6. Offsets(frames, b) /\ Len(refstack) = b[Len(frames) + 1]
  BY DEF Results
<1>7. b[Len(frames) + 1] = b[Len(frames)] + Pushed(frames[Len(frames)]) /\ b[Len(frames)] \in Nat
  BY <1>1, <1>6 DEF Offsets
<1>8. Pushed(frames[Len(frames)]) = 2
  BY <1>1 DEF Pushed
<1>9. /\ Len(refstack) = b[Len(frames)] + 2
      /\ Low = refstack[b[Len(frames)] + 1] /\ High = refstack[b[Len(frames)] + 2]
  BY <1>6, <1>7, <1>8 DEF Low, High
<1>10. Place("low") = 1 /\ Place("high") = 2
  BY DEF Place
<1>11. /\ AnswersSide(node, varnum, Function, ~ errorcond, Top, "low", Low)
       /\ AnswersSide(node, varnum, Function, ~ errorcond, Top, "high", High)
  <2>1. \A side \in {"low", "high"} : Pushed(frames[Len(frames)]) >= Place(side) =>
          AnswersSide(node, varnum, Function, ~ errorcond, frames[Len(frames)], side,
                      refstack[b[Len(frames)] + Place(side)])
    BY <1>1 DEF Results
  <2>2. 2 >= 1 /\ 2 >= 2
    OBVIOUS
  <2> QED
    BY <2>1, <2>2, <1>1, <1>8, <1>9, <1>10
<1>12. \A i \in 1..Len(refstack) : refstack[i] \in Terminal \cup Marked
  <2>1. \A i \in 1..Len(refstack) : refstack[i] \in Terminal \cup Used
    BY <1>3, Numbers DEF ApplyInv, IInv, GoodStack
  <2>2. OnStack \cap Used \subseteq Marked
    BY <1>3, Closures
  <2> QED
    BY <2>1, <2>2 DEF OnStack
<1>13. b[Len(frames)] + 1 \in 1..Len(refstack) /\ b[Len(frames)] + 2 \in 1..Len(refstack)
  BY <1>7, <1>9
<1> QED
  BY <1>3, <1>4, <1>5, <1>7, <1>9, <1>11, <1>12, <1>13, Present


(* The views of a table, now and after a step.                             *)
LEMMA TableViews ==
  TableInv /\ Leveled(size, node, varnum) /\ varnum \in Nat =>
    /\ View(node, varnum, Function, InUse) /\ View(node, varnum, Function, Safe)
    /\ Safe \subseteq InUse /\ InUse \in SUBSET Nat /\ Safe \in SUBSET Nat
    /\ InUse = Terminal \cup UsedOf(size, node)
    /\ Terminal \cup Counted \subseteq Safe
<1> SUFFICES ASSUME TableInv, Leveled(size, node, varnum), varnum \in Nat
             PROVE  /\ View(node, varnum, Function, InUse) /\ View(node, varnum, Function, Safe)
                    /\ Safe \subseteq InUse /\ InUse \in SUBSET Nat /\ Safe \in SUBSET Nat
                    /\ InUse = Terminal \cup UsedOf(size, node)
                    /\ Terminal \cup Counted \subseteq Safe
  OBVIOUS
<1>4. size \in Nat /\ size > 2 /\ Used = UsedOf(size, node) /\ InUse \subseteq 0..(size - 1)
  BY Numbers
<1>5. /\ Counted \subseteq Survivors /\ Survivors \subseteq Used
      /\ ClosedPart(node, Survivors) /\ ClosedPart(node, Used)
  BY Closures
<1>6. GoodTable(size, node, free) /\ Denotes(Function, size, node, varnum)
  BY FunctionDenotes DEF TableInv
<1>7. View(node, varnum, Function, Terminal \cup Used)
  BY <1>4, <1>5, <1>6, PartView
<1>8. View(node, varnum, Function, Terminal \cup Survivors)
  <2>1. Survivors \in SUBSET UsedOf(size, node)
    BY <1>4, <1>5
  <2> QED
    BY <2>1, <1>5, <1>6, PartView
<1>9. Safe \subseteq InUse /\ Terminal \cup Counted \subseteq Safe
  BY <1>5 DEF Safe, InUse
<1>10. InUse \in SUBSET Nat
  BY <1>4
<1> QED
  BY <1>4, <1>7, <1>8, <1>9, <1>10 DEF Safe, InUse

(* The same in the next state.                                             *)
LEMMA TableViewsNext ==
  ASSUME TableInv', Leveled(size', node', varnum'), varnum' \in Nat
  PROVE  /\ View(node', varnum', Function', InUse') /\ View(node', varnum', Function', Safe')
         /\ Safe' \subseteq InUse' /\ InUse' \in SUBSET Nat /\ Safe' \in SUBSET Nat
         /\ InUse' = Terminal \cup UsedOf(size', node')
         /\ Terminal \cup Counted' \subseteq Safe'
<1>1. (TableInv /\ Leveled(size, node, varnum) /\ varnum \in Nat =>
        /\ View(node, varnum, Function, InUse) /\ View(node, varnum, Function, Safe)
        /\ Safe \subseteq InUse /\ InUse \in SUBSET Nat /\ Safe \in SUBSET Nat
        /\ InUse = Terminal \cup UsedOf(size, node)
        /\ Terminal \cup Counted \subseteq Safe)'
  BY TableViews, PTL
<1> QED
  BY <1>1

(* A step keeps a closed set of nodes, with what survives a reordering.    *)
Outlasts(K) ==
  /\ TableInv' /\ varnum' = varnum
  /\ K \in SUBSET Used /\ ClosedPart(node, K) /\ K \subseteq UsedOf(size', node')
  /\ SameNodes(node, node', Terminal \cup K)

(* What the calls ask for is asked for in the new table.                   *)
LEMMA CallsOutlast ==
  ASSUME ApplyInv, NEW K, Outlasts(K), Survivors \subseteq K, Counted \subseteq Counted'
  PROVE  /\ Carries(varnum, node, Function, node', Function', Terminal \cup K)
         /\ Safe \subseteq Terminal \cup K /\ Safe \subseteq Safe'
         /\ GoodFrames(node', varnum, Function', Safe', frames)
         /\ AsksFor(varnum, Function', frames, call.want)
         /\ call.at = "running" =>
              /\ GoodCall(Terminal \cup Counted', call.op, call.args)
              /\ Means(varnum, Function', call.op, call.args) = call.want
<1>1. /\ TableInv /\ varnum \in Nat /\ Leveled(size, node, varnum)
      /\ Terminal \cup Counted \subseteq Safe
  BY ApplyFacts
<1>2. /\ TableInv' /\ varnum' = varnum
      /\ K \in SUBSET Used /\ ClosedPart(node, K) /\ K \subseteq UsedOf(size', node')
      /\ SameNodes(node, node', Terminal \cup K)
  BY DEF Outlasts
<1>3. Carries(varnum, node, Function, node', Function', Terminal \cup K)
  BY <1>1, <1>2, StepCarries
<1>4. Safe \subseteq Terminal \cup K
  BY DEF Safe
<1>5. Safe \subseteq Safe'
  <2>1. SameNodes(node, node', Survivors)
    BY <1>2 DEF SameNodes
  <2>2. Survivors \subseteq Survivors'
    BY <2>1, <1>1, <1>2, SurvivorsPersist
  <2> QED
    BY <2>2 DEF Safe
<1> DEFINE nd == node
           new == node'
           f == Function
           g == Function'
           P == Safe
           Q == Safe'
           J == Terminal \cup K
<1>6. GoodFrames(nd, varnum, f, P, frames) /\ AsksFor(varnum, f, frames, call.want)
  BY DEF ApplyInv, FramesInv
<1>7. Carries(varnum, nd, f, new, g, J) /\ P \subseteq J /\ P \subseteq Q
  BY <1>3, <1>4, <1>5
<1>8. call.at = "running" => /\ GoodCall(Terminal \cup Counted, call.op, call.args)
                             /\ Means(varnum, f, call.op, call.args) = call.want
  BY DEF ApplyInv, ControlInv, GoodOperation
<1>9. Terminal \cup Counted \subseteq J /\ Terminal \cup Counted \subseteq Terminal \cup Counted'
  BY <1>1, <1>4
<1> HIDE DEF nd, new, f, g, P, Q, J
<1>10. GoodFrames(new, varnum, g, Q, frames)
  BY <1>6, <1>7, CarriedFrames
<1>11. AsksFor(varnum, g, frames, call.want)
  <2>1. ASSUME frames # << >>
        PROVE  Means(varnum, g, frames[1].op, frames[1].args) = Means(varnum, f, frames[1].op, frames[1].args)
    <3>1. Len(frames) \in Nat /\ Len(frames) # 0
      BY <2>1, <1>6, EmptySeq, LenProperties DEF GoodFrames
    <3>2. 1 \in 1..Len(frames)
      BY <3>1
    <3>3. GoodCall(P, frames[1].op, frames[1].args)
      BY <3>2, <1>6 DEF GoodFrames
    <3>4. GoodCall(J, frames[1].op, frames[1].args)
      BY <3>3, <1>7, LargerPool
    <3> QED
      BY <3>4, <1>7, CarriedCall
  <2> QED
    BY <2>1, <1>6 DEF AsksFor
<1>12. ASSUME call.at = "running"
       PROVE  /\ GoodCall(Terminal \cup Counted', call.op, call.args)
              /\ Means(varnum, g, call.op, call.args) = call.want
  <2>1. GoodCall(Terminal \cup Counted', call.op, call.args) /\ GoodCall(J, call.op, call.args)
    BY <1>12, <1>8, <1>9, LargerPool
  <2>2. Means(varnum, g, call.op, call.args) = Means(varnum, f, call.op, call.args)
    BY <2>1, <1>7, CarriedCall
  <2> QED
    BY <2>1, <2>2, <1>12, <1>8
<1> QED
  BY <1>3, <1>4, <1>5, <1>10, <1>11, <1>12 DEF nd, new, f, g, P, Q, J


(* The table after the node is made.                                       *)
LEMMA MakeTable ==
  ASSUME ApplyInv, Make, NEW b,
         Results(node, varnum, Function, ~ errorcond, frames, b, refstack)
  PROVE  LET l == TopIn(node, Top.args) IN
         /\ Callable(l, Low, High) /\ MakeNode(l, Low, High) /\ Outcome(l, Low, High)
         /\ GoodTerminals' /\ Outlasts(Marked) /\ Counted \subseteq Counted'
<1> DEFINE l == TopIn(node, Top.args)
<1>1. /\ At("make") /\ MakeNode(TopLevel(Top.args), Low, High) /\ varnum' = varnum
      /\ growing' = growing
  BY DEF Make
<1>2. /\ TopLevel(Top.args) = l /\ l \in Nat /\ l < varnum
      /\ AnswersSide(node, varnum, Function, ~ errorcond, Top, "low", Low)
      /\ AnswersSide(node, varnum, Function, ~ errorcond, Top, "high", High)
      /\ Low \in Terminal \cup Marked /\ High \in Terminal \cup Marked
  BY <1>1, MakeCall
<1>3. TableInv /\ IInv /\ varnum \in Nat /\ GoodTerminals
  BY ApplyFacts DEF ApplyInv
<1>4. Beneath(node, l, Low) /\ Beneath(node, l, High)
  BY <1>2 DEF AnswersSide, Beneath
<1> HIDE DEF l
<1>5. MakeNode(l, Low, High)
  BY <1>1, <1>2
<1>6. Callable(l, Low, High)
  BY <1>2, <1>3, CallableNow
<1>7. Outcome(l, Low, High)
  BY <1>5, <1>6, MakeNodeKeeps
<1>8. GoodTerminals'
  BY <1>1, <1>2, <1>3, <1>4, <1>5, <1>6, <1>7, MakeNodeTerminals
<1>9. TableInv' /\ Keeps(size, node, size', node', Marked)
  BY <1>7, OutcomeFacts
<1>10. Marked \subseteq Used /\ ClosedPart(node, Marked) /\ Counted \subseteq Marked
  BY <1>3, Closures
<1>11. Outlasts(Marked)
  BY <1>1, <1>9, <1>10 DEF Outlasts, Keeps, SameNodes
<1>12. Counted \subseteq Counted'
  <2>1. Used' = UsedOf(size', node')
    BY DEF Used, Slots, UsedOf
  <2>2. \A n \in Counted : n \in Used' /\ node'[n].refcou > 0
    BY <2>1, <1>9, <1>10 DEF Keeps, Counted
  <2> QED
    BY <2>2 DEF Counted
<1> QED
  BY <1>5, <1>6, <1>7, <1>8, <1>11, <1>12 DEF l

(* The cache is emptied by a collection, and otherwise keeps.              *)
LEMMA EmptyGood ==
  ASSUME NEW nd, NEW num, NEW f, NEW ok, NEW U
  PROVE  GoodCache(nd, num, f, ok, U, EmptyCache)
<1>1. \A c \in {"apply", "ite"}, i \in CacheIndices : EmptyCache[c][i] = NoEntry
  BY DEF EmptyCache, CacheIndices
<1>2. EmptyCache = [c \in {"apply", "ite"} |-> [i \in CacheIndices |-> EmptyCache[c][i]]]
  BY DEF EmptyCache, CacheIndices
<1> QED
  BY <1>1, <1>2 DEF GoodCache, GoodEntry

(* A right entry leaves the cache right.                                   *)
LEMMA StoredGood ==
  ASSUME NEW nd, NEW num, NEW f, NEW ok, NEW U \in SUBSET Nat, NEW ch,
         GoodCache(nd, num, f, ok, U, ch), NEW op, NEW a, GoodCall(U, op, a), NEW n,
         Answers(nd, num, f, ok, U, op, a, n)
  PROVE  GoodCache(nd, num, f, ok, U, Stored(ch, op, a, n))
<1> DEFINE e == [op |-> op, args |-> a, res |-> n]
           j == CacheIndex(op, a)
           d == CacheOf(op)
           new == Stored(ch, op, a, n)
<1>1. j \in CacheIndices /\ d \in {"apply", "ite"}
  BY IndexInCache
<1>2. e.op = op /\ e.args = a /\ e.res = n
  OBVIOUS
<1>3. new = [ch EXCEPT ![d][j] = e]
  BY DEF Stored
<1> HIDE DEF e, j, d, new
<1>4. GoodEntry(nd, num, f, ok, U, e)
  BY <1>2 DEF GoodEntry
<1>5. ch = [c \in {"apply", "ite"} |-> [i \in CacheIndices |-> ch[c][i]]]
  BY DEF GoodCache
<1>6. new = [c \in {"apply", "ite"} |-> [i \in CacheIndices |->
               IF c = d /\ i = j THEN e ELSE ch[c][i]]]
  BY <1>1, <1>3, <1>5
<1>7. \A c \in {"apply", "ite"}, i \in CacheIndices :
        new[c][i] = IF c = d /\ i = j THEN e ELSE ch[c][i]
  BY <1>6
<1>8. new = [c \in {"apply", "ite"} |-> [i \in CacheIndices |-> new[c][i]]]
  BY <1>6, <1>7
<1>9. \A c \in {"apply", "ite"}, i \in CacheIndices : GoodEntry(nd, num, f, ok, U, new[c][i])
  BY <1>4, <1>7 DEF GoodCache
<1>10. GoodCache(nd, num, f, ok, U, new)
  BY <1>8, <1>9 DEF GoodCache
<1> QED
  BY <1>10 DEF new

(* What bdd_makenode answers answers the call that makes it.               *)
LEMMA MadeAnswers ==
  ASSUME ApplyInv, Make, NEW b,
         Results(node, varnum, Function, ~ errorcond, frames, b, refstack)
  PROVE  /\ GoodCall(InUse', Top.op, Top.args)
         /\ Answers(node', varnum, Function', ~ errorcond', InUse', Top.op, Top.args,
                    Answer(TopIn(node, Top.args), Low, High))
<1> DEFINE l == TopIn(node, Top.args)
           n == Answer(l, Low, High)
<1>1. /\ At("make") /\ varnum' = varnum /\ varnum \in Nat
      /\ frames # << >>
  BY ApplyFacts DEF Make, At
<1>2. /\ l \in Nat /\ l < varnum
      /\ AnswersSide(node, varnum, Function, ~ errorcond, Top, "low", Low)
      /\ AnswersSide(node, varnum, Function, ~ errorcond, Top, "high", High)
      /\ Low \in Terminal \cup Marked /\ High \in Terminal \cup Marked
  BY <1>1, MakeCall
<1>3. /\ Callable(l, Low, High) /\ MakeNode(l, Low, High) /\ Outcome(l, Low, High)
      /\ GoodTerminals' /\ Outlasts(Marked) /\ Counted \subseteq Counted'
  BY MakeTable
<1>4. TableInv /\ Survivors \subseteq Marked
  BY Closures DEF ApplyInv, IInv
<1>5. /\ Carries(varnum, node, Function, node', Function', Terminal \cup Marked)
      /\ Safe \subseteq Terminal \cup Marked /\ Safe \subseteq Safe'
  BY <1>3, <1>4, CallsOutlast
<1>6. /\ View(node', varnum, Function', InUse') /\ Safe' \subseteq InUse'
      /\ InUse' = Terminal \cup UsedOf(size', node')
  <2>1. TableInv' /\ Leveled(size', node', varnum')
    BY <1>3 DEF GoodTerminals, Outlasts
  <2> QED
    BY <2>1, <1>1, TableViewsNext
<1>7. GoodCall(Safe, Top.op, Top.args)
  BY <1>1, TopFacts
<1>8. GoodCall(InUse', Top.op, Top.args) /\ GoodCall(Terminal \cup Marked, Top.op, Top.args)
  BY <1>5, <1>6, <1>7, LargerPool
<1>9. /\ TopIn(node', Top.args) = l
      /\ \A side \in {"low", "high"} :
           Means(varnum, Function', Top.op, SideOf(node', Top.args, side))
             = Means(varnum, Function, Top.op, SideOf(node, Top.args, side))
  BY <1>2, <1>5, <1>8, CarriedCall, CarriedSide
<1>10. /\ Function'[Low] = Function[Low] /\ Function'[High] = Function[High]
       /\ node'[Low].level = node[Low].level
  BY <1>2, <1>5 DEF Carries, SameNodes
<1> DEFINE f == Function'
           new == node'
           U == InUse'
<1>11. ASSUME ~ errorcond'
       PROVE  /\ f[Low] = Means(varnum, f, Top.op, SideOf(new, Top.args, "low"))
              /\ f[High] = Means(varnum, f, Top.op, SideOf(new, Top.args, "high"))
  <2>1. ~ errorcond
    BY <1>3, <1>11 DEF Outcome
  <2> QED
    BY <2>1, <1>2, <1>9, <1>10 DEF AnswersSide
<1>12. n \in U
  BY <1>3, <1>6 DEF Outcome
<1>13. ASSUME Low = High PROVE n = Low
  <2>1. ~ Missing(l, Low, High)
    BY <1>13 DEF Missing
  <2> QED
    BY <1>13, <2>1 DEF Answer
<1>14. TopIn(new, Top.args) <= new[n].level
  <2>1. CASE Low = High
    <3>1. l < node[Low].level
      BY <1>2 DEF AnswersSide
    <3>2. node[Low].level \in Nat
      BY <1>2, <1>5 DEF Carries, GoodLevels
    <3> QED
      BY <2>1, <3>1, <3>2, <1>2, <1>9, <1>10, <1>13
  <2>2. CASE Low # High
    <3>1. n \in Terminal \/ new[n].level = l
      BY <2>2, <1>3, AnswerLevel
    <3>2. n \in Terminal => new[n].level = varnum
      BY <1>6 DEF View, GoodLevels
    <3> QED
      BY <3>1, <3>2, <1>1, <1>2, <1>9
  <2> QED
    BY <2>1, <2>2
<1>15. ASSUME ~ errorcond'
       PROVE  f[n] = Means(varnum, f, Top.op, Top.args)
  <2>1. (Low = High /\ n = Low) \/ (n \in U \ Terminal /\ IsNode(new, n, TopIn(new, Top.args), Low, High))
    <3>1. CASE Low # High
      <4>1. n \in UsedOf(size', new) /\ IsNode(new, n, l, Low, High)
        BY <3>1, <1>3, <1>15 DEF Outcome
      <4>2. n \notin Terminal
        BY <4>1 DEF UsedOf, Terminal, FALSEBDD, TRUEBDD
      <4> QED
        BY <4>1, <4>2, <1>9, <1>12
    <3> QED
      BY <3>1, <1>13
  <2>2. TopIn(new, Top.args) < varnum
    BY <1>2, <1>9
  <2>3. /\ f[Low] = Means(varnum, f, Top.op, SideOf(new, Top.args, "low"))
        /\ f[High] = Means(varnum, f, Top.op, SideOf(new, Top.args, "high"))
    BY <1>11, <1>15
  <2> HIDE DEF f, new, U, n, l
  <2>4. View(new, varnum, f, U) /\ GoodCall(U, Top.op, Top.args)
    BY <1>6, <1>8 DEF f, new, U
  <2> QED
    BY <2>1, <2>2, <2>3, <2>4, MadeRight
<1> QED
  BY <1>8, <1>12, <1>14, <1>15 DEF Answers


(* The stack without its two last entries.                                 *)
LEMMA PoppedStack ==
  ASSUME NEW s, NEW stack \in Seq(s), NEW k \in Nat, Len(stack) = k + 2
  PROVE  LET short == SubSeq(stack, 1, Len(stack) - 2)
         IN  /\ short \in Seq(s) /\ Len(short) = k
             /\ \A i \in 1..k : short[i] = stack[i]
<1>1. Len(stack) - 2 = k
  OBVIOUS
<1>2. CASE k = 0
  <2>1. SubSeq(stack, 1, 0) = << >>
    BY SubSeqEmpty
  <2> QED
    BY <2>1, <1>1, <1>2, EmptySeq
<1>3. CASE k # 0
  <2>1. 1 \in 1..(Len(stack) + 1) /\ k \in 0..Len(stack) /\ k \in 1..Len(stack) /\ 1 <= k
    BY <1>3
  <2>2. /\ SubSeq(stack, 1, k) \in Seq(s)
        /\ Len(SubSeq(stack, 1, k)) = IF 1 <= k THEN k - 1 + 1 ELSE 0
        /\ \A i \in 1..(k - 1 + 1) : SubSeq(stack, 1, k)[i] = stack[1 + i - 1]
    BY <2>1, SubSeqProperties
  <2>3. k - 1 + 1 = k /\ \A i \in 1..k : 1 + i - 1 = i
    OBVIOUS
  <2> QED
    BY <1>1, <2>1, <2>2, <2>3
<1> QED
  BY <1>2, <1>3

(* The caches after the node is made, without its entry and with it.       *)
LEMMA MakeCache ==
  ASSUME ApplyInv, Make, NEW b,
         Results(node, varnum, Function, ~ errorcond, frames, b, refstack)
  PROVE  CachesInv'
<1> DEFINE l == TopIn(node, Top.args)
           n == Answer(l, Low, High)
<1>1. /\ At("make") /\ varnum' = varnum /\ TopLevel(Top.args) = l
      /\ cache' = Stored(CacheAfterMake, Top.op, Top.args, n)
  BY Present DEF Make
<1>2. /\ TableInv /\ varnum \in Nat /\ Leveled(size, node, varnum)
      /\ errorcond \in BOOLEAN
  BY ApplyFacts
<1>3. /\ Callable(l, Low, High) /\ MakeNode(l, Low, High) /\ Outcome(l, Low, High)
      /\ GoodTerminals' /\ Outlasts(Marked)
  BY MakeTable
<1>4. /\ GoodCall(InUse', Top.op, Top.args)
      /\ Answers(node', varnum, Function', ~ errorcond', InUse', Top.op, Top.args, n)
  BY MadeAnswers
<1>5. InUse' \in SUBSET Nat /\ InUse' = Terminal \cup UsedOf(size', node')
  <2>1. TableInv' /\ Leveled(size', node', varnum')
    BY <1>3 DEF GoodTerminals, Outlasts
  <2> QED
    BY <2>1, <1>1, <1>2, TableViewsNext
<1>6. GoodCache(node', varnum, Function', ~ errorcond', InUse', CacheAfterMake)
  <2>1. CASE Collects
    BY <2>1, EmptyGood DEF CacheAfterMake
  <2>2. CASE ~ Collects
    <3>1. ~ (Missing(l, Low, High) /\ free = {} /\ ~ errorcond)
      BY <2>2, <1>1 DEF Collects
    <3> HIDE DEF l, n
    <3>2. Keeps(size, node, size', node', Used)
      BY <3>1, <1>3, MakeNodeKeepsAll
    <3>3. ClosedPart(node, Used)
      BY <1>2, Closures
    <3>4. SameNodes(node, node', Terminal \cup Used) /\ Used \subseteq UsedOf(size', node')
      BY <3>2 DEF Keeps, SameNodes
    <3>5. TableInv'
      BY <1>3 DEF Outcome
    <3>6. Carries(varnum, node, Function, node', Function', Terminal \cup Used)
      BY <3>3, <3>4, <3>5, <1>1, <1>2, StepCarries
    <3>7. InUse \subseteq InUse' /\ (~ errorcond' => ~ errorcond)
      BY <3>4, <1>3, <1>5 DEF InUse, Outcome
    <3> DEFINE nd == node
               new == node'
               f == Function
               g == Function'
               U == InUse
               V == InUse'
               ok == ~ errorcond
               still == ~ errorcond'
    <3>8. GoodCache(nd, varnum, f, ok, U, cache)
      BY DEF ApplyInv, CachesInv
    <3>9. Carries(varnum, nd, f, new, g, U) /\ U \subseteq V /\ (still => ok)
      BY <3>6, <3>7 DEF InUse
    <3> HIDE DEF nd, new, f, g, U, V, ok, still
    <3>10. GoodCache(new, varnum, g, still, V, cache)
      BY <3>8, <3>9, CarriedCache
    <3> QED
      BY <3>10, <2>2 DEF CacheAfterMake, new, g, V, still
  <2> QED
    BY <2>1, <2>2
<1> DEFINE g == Function'
           new == node'
           V == InUse'
           still == ~ errorcond'
           ch == CacheAfterMake
<1>7. /\ V \in SUBSET Nat /\ GoodCache(new, varnum, g, still, V, ch)
      /\ GoodCall(V, Top.op, Top.args)
      /\ Answers(new, varnum, g, still, V, Top.op, Top.args, n)
  BY <1>4, <1>5, <1>6
<1> HIDE DEF g, new, V, still, ch, n
<1>8. GoodCache(new, varnum, g, still, V, Stored(ch, Top.op, Top.args, n))
  BY <1>7, StoredGood
<1> QED
  BY <1>1, <1>8 DEF CachesInv, g, new, V, still, ch, n


(* The stack and the frames after the node is made.                        *)
LEMMA MakeReturns ==
  ASSUME ApplyInv, Make, NEW b,
         Results(node, varnum, Function, ~ errorcond, frames, b, refstack)
  PROVE  /\ GoodFrames(node', varnum, Function', Safe', frames')
         /\ AsksFor(varnum, Function', frames', call.want)
         /\ \E c \in [1..(Len(frames') + 1) -> Nat] :
              Results(node', varnum, Function', ~ errorcond', frames', c, refstack')
         /\ frames' = << >> =>
              /\ result' = Answer(TopIn(node, Top.args), Low, High)
              /\ ~ errorcond' => Function'[result'] = call.want
         /\ GoodStack(size', node', refstack')
<1> DEFINE l == TopIn(node, Top.args)
           n == Answer(l, Low, High)
<1>1. /\ At("make") /\ varnum' = varnum /\ varnum \in Nat /\ TopLevel(Top.args) = l
      /\ Return(n, Popped) /\ frames # << >>
  BY ApplyFacts, Present DEF Make, At
<1>2. /\ b[Len(frames)] \in Nat /\ Len(refstack) = b[Len(frames)] + 2
      /\ \A i \in 1..Len(refstack) : refstack[i] \in Terminal \cup Marked
  BY <1>1, MakeCall
<1>3. /\ Outcome(l, Low, High) /\ GoodTerminals' /\ Outlasts(Marked) /\ Counted \subseteq Counted'
  BY MakeTable
<1>4. Survivors \subseteq Marked
  BY Closures DEF ApplyInv, IInv
<1>5. /\ Carries(varnum, node, Function, node', Function', Terminal \cup Marked)
      /\ Safe \subseteq Terminal \cup Marked /\ Safe \subseteq Safe'
      /\ GoodFrames(node', varnum, Function', Safe', frames)
      /\ AsksFor(varnum, Function', frames, call.want)
  BY <1>3, <1>4, CallsOutlast
<1>6. /\ GoodLevels(node', varnum, Safe') /\ Safe' \in SUBSET Nat
      /\ GoodLevels(node', varnum, InUse') /\ InUse' \in SUBSET Nat
  <2>1. TableInv' /\ Leveled(size', node', varnum')
    BY <1>3 DEF GoodTerminals, Outlasts
  <2> QED
    BY <2>1, <1>1, TableViewsNext DEF View
<1>7. Answers(node', varnum, Function', ~ errorcond', InUse', Top.op, Top.args, n)
  BY MadeAnswers
<1>8. refstack \in Seq(0..(size - 1)) /\ IInv
  BY DEF ApplyInv, IInv, GoodStack
<1>9. refstack \in Seq(Int)
  <2>1. 0..(size - 1) \subseteq Int
    OBVIOUS
  <2> QED
    BY <2>1, <1>8, SeqMonotonic
<1>10. /\ Popped \in Seq(Int) /\ Len(Popped) = b[Len(frames)]
       /\ \A i \in 1..b[Len(frames)] : Popped[i] = refstack[i]
  BY <1>2, <1>9, PoppedStack DEF Popped
<1>11. Results(node', varnum, Function', ~ errorcond', frames, b, refstack)
  <2> DEFINE nd == node
             new == node'
             f == Function
             g == Function'
             P == Safe
             J == Terminal \cup Marked
             ok == ~ errorcond
             still == ~ errorcond'
  <2>1. still => ok
    BY <1>3 DEF Outcome
  <2>2. GoodFrames(nd, varnum, f, P, frames)
    BY DEF ApplyInv, FramesInv
  <2>3. Carries(varnum, nd, f, new, g, J) /\ P \subseteq J
    BY <1>5
  <2>4. (\A i \in 1..Len(refstack) : refstack[i] \in J)
        /\ Results(nd, varnum, f, ok, frames, b, refstack)
    BY <1>2
  <2> HIDE DEF nd, new, f, g, P, J, ok, still
  <2>5. Results(new, varnum, g, still, frames, b, refstack)
    BY <2>1, <2>2, <2>3, <2>4, CarriedResults
  <2> QED
    BY <2>5 DEF new, g, still
<1>12. TopAnswered(node', varnum, Function', ~ errorcond', frames, b, refstack, n, Popped)
  <2>1. Top = frames[Len(frames)]
    BY DEF Top
  <2>2. n \in Int /\ node'[n].level \in Nat
    <3>1. n \in InUse'
      BY <1>7 DEF Answers
    <3>2. \A m \in InUse' : m \in Int /\ node'[m].level \in Nat
      BY <1>1, <1>6 DEF GoodLevels
    <3> QED
      BY <3>1, <3>2, Zenon
  <2> QED
    BY <2>1, <2>2, <1>7, <1>10 DEF TopAnswered, Answers
<1>13. Len(frames) # 1 => Resumed = ResumedFrom(node', frames)
  <2>1. ASSUME Len(frames) # 1
        PROVE  SideOf(node', frames[Len(frames) - 1].args, "high")
                 = SideOf(node, frames[Len(frames) - 1].args, "high")
    <3>1. Len(frames) \in Nat /\ Len(frames) # 0
      BY <1>1, TopFacts
    <3>2. Len(frames) - 1 \in 1..Len(frames)
      <4>1. \A k \in Nat : k # 0 /\ k # 1 => k - 1 \in 1..k
        OBVIOUS
      <4> QED
        BY <4>1, <2>1, <3>1, Zenon
    <3>3. GoodCall(Safe, frames[Len(frames) - 1].op, frames[Len(frames) - 1].args)
      BY <3>2 DEF ApplyInv, FramesInv, GoodFrames
    <3>4. GoodCall(Terminal \cup Marked, frames[Len(frames) - 1].op, frames[Len(frames) - 1].args)
      BY <3>3, <1>5, LargerPool
    <3> QED
      BY <3>4, <1>5, CarriedCall
  <2>2. Resumed = ResumedFrom(node, frames)
    BY Present
  <2> QED
    BY <2>1, <2>2 DEF ResumedFrom
<1>14. /\ GoodFrames(node', varnum, Function', Safe', frames')
       /\ AsksFor(varnum, Function', frames', call.want)
       /\ \E c \in [1..(Len(frames') + 1) -> Nat] :
            Results(node', varnum, Function', ~ errorcond', frames', c, refstack')
       /\ frames' = << >> => result' = n /\ (~ errorcond' => Function'[n] = call.want)
  <2> DEFINE new == node'
             g == Function'
             P == Safe'
             still == ~ errorcond'
  <2>1. /\ GoodLevels(new, varnum, P) /\ P \in SUBSET Nat /\ varnum \in Nat
        /\ GoodFrames(new, varnum, g, P, frames) /\ AsksFor(varnum, g, frames, call.want)
        /\ Results(new, varnum, g, still, frames, b, refstack)
        /\ TopAnswered(new, varnum, g, still, frames, b, refstack, n, Popped)
        /\ (Len(frames) # 1 => Resumed = ResumedFrom(new, frames))
    BY <1>1, <1>5, <1>6, <1>11, <1>12, <1>13
  <2> HIDE DEF new, g, P, still, n
  <2>2. /\ GoodFrames(new, varnum, g, P, frames')
        /\ AsksFor(varnum, g, frames', call.want)
        /\ \E c \in [1..(Len(frames') + 1) -> Nat] :
             Results(new, varnum, g, still, frames', c, refstack')
        /\ frames' = << >> => result' = n /\ (still => g[n] = call.want)
    BY <2>1, <1>1, ReturnLands
  <2> QED
    BY <2>2 DEF new, g, P, still
<1>15. GoodStack(size', node', refstack')
  <2>1. /\ size' \in Nat /\ n \in Terminal \cup UsedOf(size', node') /\ n \in 0..(size' - 1)
        /\ Keeps(size, node, size', node', Marked)
    BY <1>3, OutcomeFacts
  <2>2. GoodStack(size', node', refstack)
    BY <2>1, <1>8, KeepsStack
  <2>3. refstack \in Seq(0..(size' - 1))
    BY <2>2 DEF GoodStack
  <2>4. /\ Popped \in Seq(0..(size' - 1)) /\ Len(Popped) = b[Len(frames)]
        /\ \A i \in 1..b[Len(frames)] : Popped[i] = refstack[i]
    BY <2>3, <1>2, PoppedStack DEF Popped
  <2>5. GoodStack(size', node', Popped)
    <3>1. \A i \in 1..b[Len(frames)] : i \in 1..Len(refstack)
      BY <1>2
    <3> QED
      BY <2>2, <2>4, <3>1 DEF GoodStack
  <2>6. GoodStack(size', node', Append(Popped, n))
    BY <2>1, <2>5, PushGood
  <2>7. refstack' = Popped \/ refstack' = Append(Popped, n)
    BY <1>1, Zenon DEF Return
  <2> QED
    BY <2>5, <2>6, <2>7
<1> QED
  BY <1>14, <1>15

(* A recursion makes its node, whatever bdd_makenode does for it.          *)
LEMMA MakeStep ==
  ASSUME ApplyInv, Make
  PROVE  ApplyInv'
<1> DEFINE l == TopIn(node, Top.args)
           n == Answer(l, Low, High)
<1>1. /\ Running /\ UNCHANGED <<varnum, varset, growing, reorder, call, first>>
  BY DEF Make, At
<1>2. PICK b : Results(node, varnum, Function, ~ errorcond, frames, b, refstack)
  BY DEF ApplyInv, FramesInv
<1>3. /\ Outcome(l, Low, High) /\ GoodTerminals' /\ Outlasts(Marked) /\ Counted \subseteq Counted'
  BY <1>2, MakeTable
<1>4. CachesInv'
  BY <1>2, MakeCache
<1>5. /\ GoodFrames(node', varnum, Function', Safe', frames')
      /\ AsksFor(varnum, Function', frames', call.want)
      /\ \E c \in [1..(Len(frames') + 1) -> Nat] :
           Results(node', varnum, Function', ~ errorcond', frames', c, refstack')
      /\ frames' = << >> => result' = n /\ (~ errorcond' => Function'[result'] = call.want)
      /\ GoodStack(size', node', refstack')
  BY <1>2, MakeReturns
<1>6. n \in InUse'
  BY <1>2, MadeAnswers DEF Answers
<1>7. /\ IInv /\ Quiet /\ TableInv /\ Survivors \subseteq Marked
  BY ApplyFacts, Closures
<1> HIDE DEF l, n
<1>8. FramesInv'
  BY <1>1, <1>5 DEF FramesInv
<1>9. ControlInv'
  <2>1. call.at = "running" =>
              /\ GoodCall(Terminal \cup Counted', call.op, call.args)
              /\ Means(varnum, Function', call.op, call.args) = call.want
    BY <1>3, <1>7, CallsOutlast
  <2>2. GoodOperation'
    BY <2>1, <1>1 DEF GoodOperation, Running, ApplyInv, ControlInv
  <2>3. frames' = << >> => ResultGood'
    BY <1>1, <1>5, <1>6 DEF ResultGood
  <2> QED
    BY <2>2, <2>3, <1>1, SameCall DEF ControlInv, Running
<1>10. IInv'
  <2>1. /\ TableInv' /\ size' \in Nat /\ Keeps(size, node, size', node', Marked)
        /\ errorcond' \in BOOLEAN /\ maxsize' = maxsize
    BY <1>3, OutcomeFacts
  <2>2. GoodVars(size', node', varnum', varset')
    BY <2>1, <1>1, <1>7, KeepsVars
  <2>3. GrowthInv'
    BY <1>1, <1>7, QuietGrowth
  <2>4. ScalarType'
    BY <2>1, <1>1, <1>7, ScalarsKept
  <2> QED
    BY <2>1, <2>2, <2>3, <2>4, <1>5 DEF IInv
<1> QED
  BY <1>3, <1>4, <1>8, <1>9, <1>10 DEF ApplyInv


-----------------------------------------------------------------------------
(* A recursion starts, or starts again.                                    *)

(* What a collection leaves of a table that recursions rely on.            *)
LEMMA CollectionTerminals ==
  ASSUME IInv, GoodTerminals, NEW K \in SUBSET Used, ClosedUnderChildren(K), node' = Kept(K),
         UNCHANGED <<size, varnum, growing, held, raised>>
  PROVE  GoodTerminals'
<1>1. GoodTable(size, node, free) /\ size \in Nat /\ Used = UsedOf(size, node)
  BY TableFacts DEF IInv, TableInv
<1>2. UsedOf(size, Kept(K)) = K /\ \A n \in K \cup Terminal : Kept(K)[n] = node[n]
  BY <1>1, KeptGood
<1>3. Leveled(size, node, varnum) /\ TerminalsPinned /\ growing = Idle
  BY DEF GoodTerminals
<1>4. OrderedTable(size', node')
  BY <1>3, CollectionOrdered DEF Leveled
<1>5. \A n \in UsedOf(size', node') : node'[n].level < varnum
  BY <1>1, <1>2, <1>3 DEF Leveled
<1>6. \A n \in Terminal : node'[n] = node[n]
  BY <1>2
<1>7. Leveled(size', node', varnum')
  BY <1>3, <1>4, <1>5, <1>6 DEF Leveled
<1>8. TerminalsPinned'
  BY <1>3, <1>6 DEF TerminalsPinned
<1> QED
  BY <1>3, <1>7, <1>8 DEF GoodTerminals

(* And what a reordering that keeps the order leaves.                      *)
LEMMA ReorderingTerminals ==
  ASSUME IInv, GoodTerminals,
         node' = Reordered, raised' = Raised, free' = Slots \ Survivors,
         UNCHANGED <<size, varnum, growing, held>>
  PROVE  GoodTerminals'
<1>1. KeepsShape(size, node, size', node', Survivors) /\ TableInv
  BY SurvivalStep DEF IInv
<1>2. Leveled(size, node, varnum) /\ TerminalsPinned /\ growing = Idle
  BY DEF GoodTerminals
<1>3. OrderedTable(size', node') /\ UsedOf(size', node') = Survivors
  BY <1>2, SurvivalOrdered DEF Leveled
<1>4. \A n \in Survivors : node'[n].level < varnum
  BY <1>1, <1>2 DEF KeepsShape, Leveled
<1>5. \A n \in Terminal : node'[n] = node[n]
  BY <1>1 DEF KeepsShape
<1>6. Leveled(size', node', varnum')
  BY <1>2, <1>3, <1>4, <1>5 DEF Leveled
<1>7. TerminalsPinned'
  BY <1>2, <1>5 DEF TerminalsPinned
<1> QED
  BY <1>2, <1>6, <1>7 DEF GoodTerminals

(* The first call of a recursion.                                          *)
LEMMA OneFrame ==
  ASSUME NEW nd, NEW num, NEW f, NEW ok, NEW P \in SUBSET Nat, NEW op, NEW a, GoodCall(P, op, a)
  PROVE  LET one == <<NewFrame(op, a)>>
         IN  /\ GoodFrames(nd, num, f, P, one)
             /\ AsksFor(num, f, one, Means(num, f, op, a))
             /\ \E c \in [1..(Len(one) + 1) -> Nat] : Results(nd, num, f, ok, one, c, << >>)
             /\ one # << >>
<1> DEFINE x   == NewFrame(op, a)
           one == <<x>>
<1>1. x.op = op /\ x.args = a /\ x.step = "enter"
  BY DEF NewFrame
<1>2. x \in Frame
  BY FrameTyped DEF NewFrame
<1> HIDE DEF x
<1>3. one \in Seq(Frame) /\ Len(one) = 1 /\ one[1] = x /\ one # << >>
  BY <1>2
<1> HIDE DEF one
<1>4. 1..(1 - 1) = {} /\ 1..1 = {1}
  OBVIOUS
<1>5. GoodFrames(nd, num, f, P, one)
  BY <1>1, <1>3, <1>4 DEF GoodFrames
<1>6. AsksFor(num, f, one, Means(num, f, op, a))
  BY <1>1, <1>3 DEF AsksFor
<1> DEFINE c == [i \in 1..(Len(one) + 1) |-> 0]
<1>7. c \in [1..(Len(one) + 1) -> Nat] /\ c[1] = 0 /\ c[2] = 0
  BY <1>3
<1> HIDE DEF c
<1>8. Pushed(x) = 0
  BY <1>1 DEF Pushed
<1>9. Offsets(one, c)
  BY <1>3, <1>4, <1>7, <1>8 DEF Offsets
<1>10. \A side : ~ (Pushed(x) >= Place(side))
  BY <1>8 DEF Place
<1>11. Results(nd, num, f, ok, one, c, << >>)
  BY <1>3, <1>4, <1>7, <1>9, <1>10 DEF Results
<1> QED
  BY <1>3, <1>5, <1>6, <1>7, <1>11 DEF one, x

(* The jump out of the recursion: it starts again, over the nodes that a   *)
(* reordering keeps.                                                       *)
LEMMA InterruptedStep ==
  ASSUME ApplyInv, Interrupted
  PROVE  ApplyInv'
<1>1. /\ Running /\ Interrupts
      /\ node' = Reordered /\ raised' = Raised /\ free' = Slots \ Survivors /\ refstack' = << >>
      /\ cache' = EmptyCache /\ first' = first - 1
      /\ UNCHANGED <<size, maxsize, errorcond, varnum, varset, growing, held, call, calls>>
  BY DEF Interrupted, At
<1>2. /\ IInv /\ GoodTerminals /\ Quiet /\ TableInv /\ varnum \in Nat
      /\ errorcond \in BOOLEAN
  BY ApplyFacts DEF ApplyInv
<1>3. GoodOperation
  BY <1>1 DEF ApplyInv, ControlInv, Running
<1>4. first = 1
  BY <1>1, <1>3 DEF GoodOperation, Interrupts, ReorderReady
<1> DEFINE used == size - Cardinality(Slots \ Survivors)
           next == Minimum({4 * used, MaxNext})
<1>5. /\ frames' = <<NewFrame(call.op, call.args)>>
      /\ reorder' = Restarted(next)
  BY <1>4, Zenon DEF Interrupted
<1>6. reorder' \in [method : BOOLEAN, disabled : BOOLEAN, next : Nat] /\ reorder'.disabled
  <2>1. used \in Nat
    BY <1>2, FreedCount
  <2> HIDE DEF used
  <2>2. {4 * used, MaxNext} \in SUBSET Nat /\ {4 * used, MaxNext} # {}
    BY <2>1, BoundAssumption
  <2>3. next \in Nat
    BY <2>2, MinimumIsLeast
  <2> HIDE DEF next
  <2>4. reorder \in [method : BOOLEAN, disabled : BOOLEAN, next : Nat]
    BY ReorderIsTyped
  <2> QED
    BY <2>3, <2>4, <1>5 DEF Restarted
<1> HIDE DEF next
<1>7. TableInv' /\ KeepsShape(size, node, size', node', Survivors)
  BY <1>1, <1>2, SurvivalStep
<1>8. /\ Counted \subseteq Survivors /\ Survivors \subseteq Used /\ ClosedPart(node, Survivors)
  BY <1>2, Closures
<1>9. GoodTable(size, node, free) /\ ClosedUnderChildren(Survivors) /\ size' \in Nat
  BY <1>1, <1>2, SurvivorsClosed, TableFacts DEF TableInv
<1>10. GoodTerminals'
  BY <1>1, <1>2, ReorderingTerminals
<1>11. IInv'
  <2>1. GoodVars(size', node', varnum', varset')
    <3> DEFINE new == node'
               t   == size'
    <3>1. Survivors \subseteq 0..(t - 1)
      BY <1>1, <1>8 DEF Used, Slots
    <3>2. \A n \in Survivors : new[n] \in NodeType
      BY <3>1, <1>7 DEF TableInv, GoodTable, TypedTable
    <3>3. t \in Nat /\ KeepsShape(size, node, t, new, Survivors)
      BY <1>7, <1>9
    <3> HIDE DEF t, new
    <3>4. GoodVars(t, new, varnum, varset)
      BY <1>2, <3>2, <3>3, SurvivorsKeepVars
    <3> QED
      BY <3>4, <1>1 DEF t, new
  <2>2. GoodStack(size', node', refstack')
    BY <1>1 DEF GoodStack
  <2>3. GrowthInv'
    BY <1>1, <1>2, QuietGrowth
  <2>4. ScalarType'
    BY <1>1, <1>2, <1>6 DEF IInv, ScalarType
  <2> QED
    BY <2>1, <2>2, <2>3, <2>4, <1>7 DEF IInv
<1>12. Outlasts(Survivors) /\ Counted \subseteq Counted'
  <2>1. Used' = UsedOf(size', node')
    BY DEF Used, Slots, UsedOf
  <2>2. \A n \in Counted : n \in Used' /\ node'[n].refcou > 0
    <3>1. ASSUME NEW n \in Counted
          PROVE  n \in Used' /\ node'[n].refcou > 0
      <4> DEFINE new == node'
      <4>1. n \in UsedOf(size', new) /\ new[n].refcou >= node[n].refcou /\ new[n].refcou <= MaxRef
        BY <1>7, <1>8 DEF KeepsShape
      <4>2. new[n].refcou \in Nat
        <5>1. new \in [0..(size' - 1) -> NodeType]
          BY <1>7 DEF TableInv, GoodTable, TypedTable
        <5>2. n \in 0..(size' - 1)
          BY <4>1 DEF UsedOf
        <5>3. new[n] \in NodeType
          BY <5>1, <5>2
        <5> QED
          BY <5>3 DEF NodeType
      <4>3. node[n].refcou > 0 /\ node[n].refcou \in Nat
        BY <1>9 DEF GoodTable, TypedTable, NodeType, Counted, Used, Slots
      <4> HIDE DEF new
      <4>4. new[n].refcou > 0
        BY <4>1, <4>2, <4>3
      <4> QED
        BY <4>1, <4>4, <2>1 DEF new
    <3> QED
      BY <3>1
  <2> QED
    BY <2>2, <1>1, <1>7, <1>8 DEF Outlasts, KeepsShape, SameNodes, Counted
<1>13. /\ GoodCall(Terminal \cup Counted', call.op, call.args)
       /\ Means(varnum, Function', call.op, call.args) = call.want
  BY <1>1, <1>12, CallsOutlast DEF Running
<1>14. Terminal \cup Counted' \subseteq Safe' /\ Safe' \in SUBSET Nat
  BY <1>1, <1>2, <1>7, <1>10, TableViewsNext DEF GoodTerminals
<1>15. GoodCall(Safe', call.op, call.args)
  BY <1>13, <1>14, LargerPool
<1>16. FramesInv' /\ frames' # << >>
  <2> DEFINE g == Function'
             P == Safe'
             one == <<NewFrame(call.op, call.args)>>
             new == node'
             ok == ~ errorcond
  <2>1. GoodCall(P, call.op, call.args) /\ P \in SUBSET Nat
    BY <1>14, <1>15
  <2> HIDE DEF g, P, new, ok
  <2>2. /\ GoodFrames(new, varnum, g, P, one)
        /\ AsksFor(varnum, g, one, Means(varnum, g, call.op, call.args))
        /\ \E c \in [1..(Len(one) + 1) -> Nat] : Results(new, varnum, g, ok, one, c, << >>)
        /\ one # << >>
    BY <2>1, OneFrame
  <2>3. Means(varnum, g, call.op, call.args) = call.want
    BY <1>13 DEF g
  <2>4. frames' = one
    BY <1>5
  <2> HIDE DEF one
  <2> QED
    BY <2>2, <2>3, <2>4, <1>1 DEF FramesInv, g, P, new, ok
<1>17. CachesInv'
  BY <1>1, EmptyGood DEF CachesInv
<1>18. ControlInv'
  <2>1. GoodOperation'
    BY <1>1, <1>4, <1>6, <1>13 DEF GoodOperation
  <2> QED
    BY <2>1, <1>1, <1>16, SameCall DEF ControlInv, Running
<1> QED
  BY <1>10, <1>11, <1>16, <1>17, <1>18 DEF ApplyInv


-----------------------------------------------------------------------------
(* Between the operations.                                                 *)

(* Without calls there is nothing on the stack.                            *)
LEMMA NothingStacked ==
  ASSUME ApplyInv, frames = << >>
  PROVE  refstack = << >>
<1>1. PICK b : Results(node, varnum, Function, ~ errorcond, frames, b, refstack)
  BY DEF ApplyInv, FramesInv
<1>2. Len(refstack) = 0 /\ refstack \in Seq(0..(size - 1))
  BY <1>1 DEF Results, Offsets, ApplyInv, IInv, GoodStack
<1> QED
  BY <1>2, EmptySeq

(* A step of the program while no operation runs.                          *)
LEMMA IdleStep ==
  ASSUME ApplyInv, call.at # "running", IInv', GoodTerminals', CachesInv',
         frames' = frames, refstack' = refstack, call'.at = "idle", CallTyped'
  PROVE  ApplyInv'
<1>1. frames = << >>
  BY DEF ApplyInv, ControlInv
<1>2. frames' = << >> /\ refstack' = << >>
  BY <1>1, NothingStacked
<1>3. FramesInv'
  <2> DEFINE new == node'
             num == varnum'
             g == Function'
             P == Safe'
             ok == ~ errorcond'
             want == call.want'
  <2> HIDE DEF new, num, g, P, ok, want
  <2>1. /\ GoodFrames(new, num, g, P, << >>)
        /\ AsksFor(num, g, << >>, want)
        /\ \E c \in [1..(Len(<< >>) + 1) -> Nat] : Results(new, num, g, ok, << >>, c, << >>)
    BY NoFrames
  <2> QED
    BY <2>1, <1>2 DEF FramesInv, new, num, g, P, ok, want
<1>4. ControlInv'
  BY <1>2 DEF ControlInv
<1> QED
  BY <1>3, <1>4 DEF ApplyInv

(* A step that changes a count leaves the caches right.                    *)
LEMMA CountChanges ==
  ASSUME ApplyInv, NEW n \in Used, NEW count, NEW kept, node[n] \in NodeType,
         node' = [node EXCEPT ![n].refcou = count], held' = [held EXCEPT ![n] = kept], IInv',
         UNCHANGED <<size, varnum, growing, errorcond, cache>>
  PROVE  GoodTerminals' /\ CachesInv'
<1>1. /\ TableInv /\ varnum \in Nat /\ Leveled(size, node, varnum) /\ TerminalsPinned
      /\ growing = Idle
  BY ApplyFacts DEF ApplyInv, GoodTerminals
<1>2. TableInv'
  BY DEF IInv
<1>3. /\ Used = UsedOf(size, node) /\ n \notin Terminal /\ Used \subseteq 0..(size - 1)
      /\ Terminal \subseteq 0..(size - 1) /\ size \in Nat
  BY <1>1, Numbers DEF InUse
<1>4. node \in [0..(size - 1) -> NodeType] /\ held \in [0..(size - 1) -> Nat]
  BY <1>1 DEF TableInv, GoodTable, TypedTable, GoodCounts
<1>5. \A m \in 0..(size - 1) : m # n => node'[m] = node[m] /\ held'[m] = held[m]
  BY <1>4
<1>6. /\ node'[n].level = node[n].level /\ node'[n].low = node[n].low
      /\ node'[n].high = node[n].high
  <2>1. node'[n] = [node[n] EXCEPT !.refcou = count]
    BY <1>3, <1>4
  <2> QED
    BY <2>1 DEF NodeType
<1>7. \A m \in 0..(size - 1) : /\ node'[m].level = node[m].level /\ node'[m].low = node[m].low
                               /\ node'[m].high = node[m].high
  BY <1>5, <1>6
<1>8. UsedOf(size', node') = Used
  BY <1>3, <1>7 DEF UsedOf
<1>9. Leveled(size', node', varnum')
  <2>1. OrderedTable(size', node')
    BY <1>1, RecountOrdered DEF Leveled
  <2> QED
    BY <2>1, <1>1, <1>3, <1>7, <1>8 DEF Leveled
<1>10. TerminalsPinned'
  BY <1>1, <1>3, <1>5 DEF TerminalsPinned
<1>11. GoodTerminals'
  BY <1>1, <1>9, <1>10 DEF GoodTerminals
<1>12. SameNodes(node, node', Terminal \cup Used)
  BY <1>3, <1>7 DEF SameNodes
<1>13. ClosedPart(node, Used)
  BY <1>1, Closures
<1>14. Carries(varnum, node, Function, node', Function', Terminal \cup Used)
  BY <1>1, <1>2, <1>8, <1>12, <1>13, StepCarries
<1>15. InUse' = InUse
  BY <1>8 DEF InUse, Used, Slots, UsedOf
<1>16. CachesInv'
  <2> DEFINE nd == node
             new == node'
             f == Function
             g == Function'
             U == InUse
             ok == ~ errorcond
  <2>1. GoodCache(nd, varnum, f, ok, U, cache) /\ Carries(varnum, nd, f, new, g, U)
    BY <1>14 DEF ApplyInv, CachesInv, InUse
  <2> HIDE DEF nd, new, f, g, U, ok
  <2>2. GoodCache(new, varnum, g, ok, U, cache)
    BY <2>1, CarriedCache
  <2> QED
    BY <2>2, <1>15 DEF CachesInv, new, g, U, ok
<1> QED
  BY <1>11, <1>16


-----------------------------------------------------------------------------
(* The end and the beginning of an operation.                              *)

(* The operation returns.                                                  *)
LEMMA FinishStep ==
  ASSUME ApplyInv, Finish
  PROVE  ApplyInv'
<1>1. /\ Running /\ frames = << >>
      /\ call' = [call EXCEPT !.at = "done"]
      /\ reorder' = [reorder EXCEPT !.disabled = @ /\ first # 0]
      /\ UNCHANGED <<size, node, free, maxsize, errorcond>>
      /\ UNCHANGED <<refstack, varnum, varset, growing, held, raised, frames, result, cache, first>>
  BY DEF Finish, table
<1>2. /\ Function' = Function /\ Safe' = Safe /\ InUse' = InUse /\ Counted' = Counted
  BY <1>1, SameTable
<1>3. reorder' \in [method : BOOLEAN, disabled : BOOLEAN, next : Nat]
  <2>1. reorder \in [method : BOOLEAN, disabled : BOOLEAN, next : Nat]
    BY ReorderIsTyped
  <2>2. (reorder.disabled /\ first # 0) \in BOOLEAN
    BY Zenon
  <2> QED
    BY <1>1, <2>1, <2>2
<1>4. GoodStack(size, node, refstack')
  BY <1>1 DEF ApplyInv, IInv
<1>5. IInv' /\ GoodTerminals'
  BY <1>1, <1>3, <1>4, TableStays
<1>6. CachesInv'
  BY <1>1, <1>2 DEF CachesInv, ApplyInv
<1>7. ASSUME call'.at = "done", call'.want = call.want, CallTyped'
      PROVE  ApplyInv'
  <2>1. ResultGood
    BY <1>1 DEF ApplyInv, ControlInv, Running
  <2>2. ResultGood'
    BY <2>1, <1>1, <1>2, <1>7 DEF ResultGood
  <2>3. ControlInv'
    BY <2>2, <1>1, <1>7 DEF ControlInv
  <2>4. FramesInv'
    BY <1>1, <1>2, <1>7 DEF FramesInv, ApplyInv
  <2> QED
    BY <2>3, <2>4, <1>5, <1>6 DEF ApplyInv
<1>8. CallTyped
  BY DEF ApplyInv, ControlInv
<1>9. call'.at = "done" /\ call'.want = call.want /\ CallTyped'
  BY <1>1, <1>8 DEF CallTyped
<1> QED
  BY <1>7, <1>9


(* An operand is counted.                                                  *)
LEMMA OperandsCounted == ApplyInv => Operands \subseteq Counted
<1> SUFFICES ASSUME ApplyInv
             PROVE  Operands \subseteq Counted
  OBVIOUS
<1>1. IInv /\ TableInv /\ GoodVars(size, node, varnum, varset)
  BY ApplyFacts DEF IInv
<1>2. ASSUME NEW v \in 0..(varnum - 1)
      PROVE  varset[v][1] \in Counted
  <2>1. Pin(size, node, varset[v][1], v, FALSEBDD, TRUEBDD)
    BY <1>1 DEF GoodVars
  <2> QED
    BY <2>1, <1>1, PinnedCounted
<1>3. ASSUME NEW n \in Slots, held[n] > 0
      PROVE  n \in Counted
  BY <1>1, <1>3, InvariantImplies DEF HeldNodesLive, Counted
<1> QED
  BY <1>2, <1>3 DEF Operands

(* An operation is called, with counted operands.                          *)
LEMMA AskStep ==
  ASSUME ApplyInv, NEW op \in Operators, NEW a \in OperandLists(Arity(op)), Ask(op, a)
  PROVE  ApplyInv'
<1>1. /\ call.at = "idle"
      /\ call' = [at |-> "running", op |-> op, args |-> a, want |-> Wanted(op, a)]
      /\ frames' = <<NewFrame(op, a)>> /\ refstack' = << >> /\ first' = 1
      /\ UNCHANGED <<size, node, free, maxsize, errorcond>>
      /\ UNCHANGED <<varnum, varset, growing, reorder, held, raised, cache>>
  BY DEF Ask, table
<1>2. /\ Function' = Function /\ Safe' = Safe /\ InUse' = InUse /\ Counted' = Counted
  BY <1>1, SameTable
<1>3. GoodStack(size, node, refstack')
  BY <1>1 DEF GoodStack
<1>4. IInv' /\ GoodTerminals'
  BY <1>1, <1>3, ReorderIsTyped, TableStays
<1>5. CachesInv'
  BY <1>1, <1>2 DEF CachesInv, ApplyInv
<1>6. Terminal \cup Counted \subseteq Safe /\ Safe \in SUBSET Nat
  BY ApplyFacts
<1>7. GoodCall(Terminal \cup Counted, op, a)
  <2>1. a \in [1..Arity(op) -> Operands]
    BY DEF OperandLists
  <2>2. Operands \subseteq Terminal \cup Counted
    BY OperandsCounted
  <2> QED
    BY <2>1, <2>2 DEF GoodCall
<1>8. GoodCall(Safe, op, a)
  BY <1>6, <1>7, LargerPool
<1>9. call'.want = Means(varnum, Function, op, a)
  BY <1>1, Present
<1>10. call'.at = "running" /\ call'.op = op /\ call'.args = a /\ CallTyped'
  BY <1>1 DEF CallTyped
<1>11. FramesInv' /\ frames' # << >>
  <2> DEFINE f == Function
             P == Safe
             one == <<NewFrame(op, a)>>
             nd == node
             ok == ~ errorcond
  <2>1. GoodCall(P, op, a) /\ P \in SUBSET Nat
    BY <1>6, <1>8
  <2> HIDE DEF f, P, nd, ok
  <2>2. /\ GoodFrames(nd, varnum, f, P, one)
        /\ AsksFor(varnum, f, one, Means(varnum, f, op, a))
        /\ \E c \in [1..(Len(one) + 1) -> Nat] : Results(nd, varnum, f, ok, one, c, << >>)
        /\ one # << >>
    BY <2>1, OneFrame
  <2>3. call'.want = Means(varnum, f, op, a)
    BY <1>9 DEF f
  <2>4. frames' = one /\ refstack' = << >>
    BY <1>1
  <2>5. /\ Function' = f /\ Safe' = P /\ node' = nd /\ (~ errorcond') = ok /\ varnum' = varnum
    BY <1>1, <1>2 DEF f, P, nd, ok
  <2> HIDE DEF one
  <2> QED
    BY <2>2, <2>3, <2>4, <2>5 DEF FramesInv
<1>12. GoodOperation'
  <2>1. Means(varnum', Function', call'.op, call'.args) = call'.want
    BY <1>1, <1>2, <1>9, <1>10
  <2>2. GoodCall(Terminal \cup Counted', call'.op, call'.args)
    BY <1>2, <1>7, <1>10
  <2> QED
    BY <2>1, <2>2, <1>1 DEF GoodOperation
<1>13. ControlInv'
  BY <1>10, <1>11, <1>12 DEF ControlInv
<1> QED
  BY <1>4, <1>5, <1>11, <1>13 DEF ApplyInv

-----------------------------------------------------------------------------
(* What the program does between the operations.                           *)

(* No operation is left.                                                   *)
LEMMA Dismissed ==
  ASSUME Dismiss
  PROVE  /\ call'.at = "idle" /\ CallTyped'
         /\ frames' = frames /\ cache' = cache
  BY DEF Dismiss, NoCall, CallTyped

(* The program does not keep the result.                                   *)
LEMMA DropStep ==
  ASSUME ApplyInv, Drop
  PROVE  ApplyInv'
<1>1. /\ call.at = "done"
      /\ UNCHANGED <<size, node, free, maxsize, errorcond>>
      /\ UNCHANGED <<refstack, varnum, varset, growing, reorder, held, raised>>
  BY DEF Drop, vars, table
<1>2. call'.at = "idle" /\ CallTyped' /\ frames' = frames /\ cache' = cache
  BY Dismissed DEF Drop
<1>3. /\ Function' = Function /\ InUse' = InUse
  BY <1>1, SameTable
<1>4. GoodStack(size, node, refstack')
  BY <1>1 DEF ApplyInv, IInv
<1>5. IInv' /\ GoodTerminals'
  BY <1>1, <1>4, ReorderIsTyped, TableStays
<1>6. CachesInv'
  BY <1>1, <1>2, <1>3 DEF CachesInv, ApplyInv
<1> QED
  BY <1>1, <1>2, <1>5, <1>6, IdleStep


(* Only used nodes that are not terminals are counted.                     *)
LEMMA KeepStep ==
  ASSUME ApplyInv, Keep
  PROVE  ApplyInv'
<1> DEFINE n     == result
           count == IF node[n].refcou < MaxRef THEN node[n].refcou + 1 ELSE node[n].refcou
           kept  == held[n] + 1
<1>1. /\ call.at = "done" /\ ~ errorcond /\ Quiet
      /\ held[n] > 0 \/ node[n].refcou < MaxRef
      /\ held' = [held EXCEPT ![n] = kept]
      /\ node' = [node EXCEPT ![n].refcou = count]
      /\ UNCHANGED <<size, free, maxsize, errorcond, refstack, varnum, varset, growing, reorder, raised>>
  BY DEF Keep, AddRef
<1>2. call'.at = "idle" /\ CallTyped' /\ frames' = frames /\ cache' = cache
  BY Dismissed DEF Keep
<1>3. IInv /\ TableInv /\ TerminalsPinned
  BY ApplyFacts
<1>4. n \in Used
  <2>1. frames = << >> /\ ResultGood
    BY <1>1 DEF ApplyInv, ControlInv
  <2>2. n \in InUse
    BY <2>1, <1>1 DEF ResultGood
  <2>3. n \notin Terminal
    <3> SUFFICES ASSUME n \in Terminal PROVE FALSE
      OBVIOUS
    <3>1. node[n].refcou = MaxRef /\ held[n] = 0
      BY <1>3 DEF TerminalsPinned
    <3> QED
      BY <3>1, <1>1, RefAssumption
  <2> QED
    BY <2>2, <2>3 DEF InUse
<1>5. GoodCounts(size, node, held, raised) /\ GoodTable(size, node, free) /\ n \in 2..(size - 1)
      /\ n \in 0..(size - 1)
  BY <1>3, <1>4, TableFacts DEF UsedOf, TableInv
<1>6. /\ node[n] \in NodeType /\ node[n].refcou \in 0..MaxRef /\ held[n] \in Nat
      /\ node[n].refcou \in {held[n] + raised[n], MaxRef} /\ raised[n] \in Nat
  BY <1>5 DEF GoodTable, TypedTable, NodeType, GoodCounts
<1>7. count \in 0..MaxRef /\ kept \in Nat /\ count \in {kept + raised[n], MaxRef}
      /\ (node[n].refcou = MaxRef => count = MaxRef)
  BY <1>6, RefAssumption
<1> HIDE DEF count, kept, n
<1>8. IInv'
  BY <1>1, <1>3, <1>4, <1>7, RecountStep
<1>9. UNCHANGED <<size, varnum, growing, errorcond, cache>>
  BY <1>1, <1>2
<1>10. GoodTerminals' /\ CachesInv'
  BY <1>1, <1>4, <1>6, <1>8, <1>9, CountChanges
<1>11. call.at # "running" /\ refstack' = refstack
  BY <1>1
<1> QED
  BY <1>2, <1>8, <1>10, <1>11, IdleStep

(* No operation is called.                                                 *)
LEMMA StillIdle ==
  ASSUME ApplyInv, call.at = "idle", call' = call
  PROVE  call'.at = "idle" /\ CallTyped' /\ call.at # "running"
  BY SameCall

(* bdd_delref leaves functions and caches as they are.                     *)
LEMMA ReleaseStep ==
  ASSUME ApplyInv, NEW n \in Slots, Release(n)
  PROVE  ApplyInv'
<1>1. /\ call.at = "idle" /\ DelRef(n) /\ n \in Used
      /\ held' = [held EXCEPT ![n] = held[n] - 1]
      /\ node' = [node EXCEPT ![n].refcou = Decref(node[n].refcou)]
      /\ UNCHANGED <<size, errorcond, refstack, varnum, growing>>
      /\ UNCHANGED <<frames, cache, call>>
  BY DEF Release, DelRef, machine
<1>2. IInv /\ TableInv
  BY ApplyFacts
<1>3. IInv'
  BY <1>1, <1>2, DelRefStep
<1>4. node[n] \in NodeType
  <2>1. n \in 0..(size - 1) /\ node \in [0..(size - 1) -> NodeType]
    BY <1>1, <1>2, TableFacts DEF UsedOf, TableInv, GoodTable, TypedTable
  <2> QED
    BY <2>1
<1>5. GoodTerminals' /\ CachesInv'
  BY <1>1, <1>3, <1>4, CountChanges
<1>6. call'.at = "idle" /\ CallTyped' /\ call.at # "running"
  BY <1>1, StillIdle
<1> QED
  BY <1>1, <1>3, <1>5, <1>6, IdleStep

(* bdd_gbc empties the caches.                                             *)
LEMMA CollectStep ==
  ASSUME ApplyInv, Collect
  PROVE  ApplyInv'
<1>1. /\ call.at = "idle" /\ Gbc /\ node' = Kept(Marked)
      /\ UNCHANGED <<size, errorcond, refstack, varnum, growing, held, raised>>
      /\ cache' = EmptyCache /\ frames' = frames /\ call' = call
  BY DEF Collect, Gbc, Collected
<1>2. IInv /\ TableInv /\ GoodTerminals
  BY ApplyFacts DEF ApplyInv
<1>3. IInv'
  BY <1>1, <1>2, GbcStep
<1>4. Marked \in SUBSET Used /\ ClosedUnderChildren(Marked)
  BY <1>2, GoodHasNoDangling, MarkedClosed DEF TableInv
<1>5. GoodTerminals'
  BY <1>1, <1>2, <1>4, CollectionTerminals
<1>6. CachesInv'
  BY <1>1, EmptyGood DEF CachesInv
<1>7. call'.at = "idle" /\ CallTyped' /\ call.at # "running"
  BY <1>1, StillIdle
<1> QED
  BY <1>1, <1>3, <1>5, <1>6, <1>7, IdleStep

(* bdd_clear_error empties the caches: entries made after the error may be *)
(* wrong.                                                                  *)
LEMMA ForgetErrorStep ==
  ASSUME ApplyInv, ForgetError
  PROVE  ApplyInv'
<1>1. /\ call.at = "idle" /\ ClearError
      /\ UNCHANGED <<size, node, refstack, varnum, growing, held, raised>>
      /\ cache' = EmptyCache /\ frames' = frames /\ call' = call
  BY DEF ForgetError, ClearError
<1>2. IInv /\ GoodTerminals
  BY DEF ApplyInv
<1>3. IInv'
  BY <1>1, <1>2, ProgramSettingStep
<1>4. GoodTerminals'
  BY <1>1, <1>2 DEF GoodTerminals, Leveled, TerminalsPinned
<1>5. CachesInv'
  BY <1>1, EmptyGood DEF CachesInv
<1>6. call'.at = "idle" /\ CallTyped' /\ call.at # "running"
  BY <1>1, StillIdle
<1> QED
  BY <1>1, <1>3, <1>4, <1>5, <1>6, IdleStep

(* The settings of reordering matter to no function.                       *)
LEMMA TuneStep ==
  ASSUME ApplyInv, NEW setting \in ReorderCalls, Tune(setting)
  PROVE  ApplyInv'
<1>1. /\ call.at = "idle" /\ SetReorder(setting)
      /\ UNCHANGED <<size, node, errorcond, refstack, varnum, growing, held, raised>>
      /\ cache' = cache /\ frames' = frames /\ call' = call
  BY DEF Tune, SetReorder, machine, table
<1>2. IInv /\ GoodTerminals
  BY DEF ApplyInv
<1>3. IInv'
  BY <1>1, <1>2, ProgramSettingStep
<1>4. GoodTerminals'
  BY <1>1, <1>2 DEF GoodTerminals, Leveled, TerminalsPinned
<1>5. Function' = Function /\ InUse' = InUse
  BY <1>1, SameTable
<1>6. CachesInv'
  BY <1>1, <1>5 DEF CachesInv, ApplyInv
<1>7. call'.at = "idle" /\ CallTyped' /\ call.at # "running"
  BY <1>1, StillIdle
<1> QED
  BY <1>1, <1>3, <1>4, <1>6, <1>7, IdleStep

(* Nothing happens.                                                        *)
LEMMA NothingHappens ==
  ASSUME ApplyInv, UNCHANGED all
  PROVE  ApplyInv'
<1>1. /\ UNCHANGED <<size, node, errorcond, refstack, varnum, growing, held, raised, reorder>>
      /\ UNCHANGED <<frames, result, cache, call, first>> /\ UNCHANGED vars
  BY DEF all, machine, vars, table
<1>2. IInv /\ GoodTerminals /\ ControlInv /\ FramesInv /\ CachesInv
  BY DEF ApplyInv
<1>3. /\ Function' = Function /\ Safe' = Safe /\ InUse' = InUse /\ Counted' = Counted
  BY <1>1, SameTable
<1>4. IInv'
  BY <1>1, <1>2, StutterStep
<1>5. GoodTerminals'
  BY <1>1, <1>2 DEF GoodTerminals, Leveled, TerminalsPinned
<1>6. CachesInv' /\ FramesInv'
  BY <1>1, <1>2, <1>3 DEF CachesInv, FramesInv
<1>7. ControlInv'
  BY <1>1, <1>2, <1>3 DEF ControlInv, CallTyped, GoodOperation, ResultGood
<1> QED
  BY <1>4, <1>5, <1>6, <1>7 DEF ApplyInv

(* Every step preserves the invariant.                                     *)
LEMMA ApplyStep ==
  ASSUME ApplyInv, [ApplyNext]_all
  PROVE  ApplyInv'
<1>1. CASE RecursionStep
  BY <1>1, AnsweredStep, NegatedStep, DescendStep, MakeStep, InterruptedStep, FinishStep
     DEF RecursionStep
<1>2. CASE CallStep
  BY <1>2, AskStep, KeepStep, DropStep, ReleaseStep, CollectStep, ForgetErrorStep, TuneStep
     DEF CallStep
<1>3. CASE UNCHANGED all
  BY <1>3, NothingHappens
<1> QED
  BY <1>1, <1>2, <1>3 DEF ApplyNext


-----------------------------------------------------------------------------
(* The table of bdd_init and bdd_setvarnum.                                *)

VariableSlots == 2..(2 * MaxVars + 1)

FirstNode(n) ==
  CASE n \in Terminal -> [TerminalNode(n) EXCEPT !.level = MaxVars]
    [] n \in 2..(2 * MaxVars + 1) -> VariableNode(n)
    [] n > 2 * MaxVars + 1 -> FreeNode

(* The nodes for the variable at a level are the slots 2 * level + 2 and   *)
(* 2 * level + 3.                                                          *)
LEMMA VariableNodes ==
  ASSUME NEW n \in VariableSlots
  PROVE  /\ VariableNode(n) \in NodeType
         /\ VariableNode(n).refcou = MaxRef
         /\ VariableNode(n).level \in 0..(MaxVars - 1) /\ VariableNode(n).level = (n - 2) \div 2
         /\ VariableNode(n).low \in Terminal /\ VariableNode(n).low = n % 2
         /\ VariableNode(n).high \in Terminal /\ VariableNode(n).high = 1 - (n % 2)
<1>1. MaxVars \in Nat /\ MaxRef \in Nat /\ n \in Nat /\ n >= 2 /\ n <= 2 * MaxVars + 1
  BY BoundAssumption, RefAssumption DEF VariableSlots
<1>2. (n - 2) \div 2 \in 0..(MaxVars - 1)
  BY <1>1
<1>3. n % 2 \in {0, 1} /\ 1 - (n % 2) \in {0, 1}
  BY <1>1
<1>4. /\ VariableNode(n).refcou = MaxRef /\ VariableNode(n).level = (n - 2) \div 2
      /\ VariableNode(n).low = n % 2 /\ VariableNode(n).high = 1 - (n % 2)
  BY DEF VariableNode
<1>5. VariableNode(n) \in NodeType
  BY <1>1, <1>2, <1>3 DEF VariableNode, NodeType
<1> QED
  BY <1>2, <1>3, <1>4, <1>5 DEF Terminal, FALSEBDD, TRUEBDD

(* What each slot holds.                                                   *)
LEMMA FirstNodes ==
  ASSUME ApplyInit
  PROVE  /\ size = InitSize /\ size \in Nat /\ size > 2 /\ IsPrime(size) /\ MaxVars \in Nat
         /\ \A n \in Terminal : /\ n \in 0..(size - 1) /\ node[n] \in NodeType
                                /\ node[n].refcou = MaxRef /\ node[n].level = MaxVars
                                /\ node[n].low = n /\ node[n].high = n
         /\ \A n \in VariableSlots : n \in 2..(size - 1) /\ node[n] = VariableNode(n)
         /\ \A n \in 2..(size - 1) : n \notin VariableSlots => node[n] = FreeNode
         /\ node \in [0..(size - 1) -> NodeType]
         /\ UsedOf(size, node) = VariableSlots
         /\ free = (2..(size - 1)) \ VariableSlots
<1>1. /\ size = InitSize /\ size \in Nat /\ size > 2 /\ IsPrime(size) /\ MaxVars \in Nat
      /\ size >= 2 * MaxVars + 2
  BY SizeAssumption, BoundAssumption, RoomAssumption DEF ApplyInit
<1>2. node = [n \in 0..(size - 1) |-> FirstNode(n)]
  BY <1>1 DEF ApplyInit, FirstNode
<1>3. \A n \in Terminal : n \in 0..(size - 1) /\ n \notin VariableSlots /\ ~ (n > 2 * MaxVars + 1)
  BY <1>1 DEF Terminal, FALSEBDD, TRUEBDD, VariableSlots
<1>4. ASSUME NEW n \in Terminal
      PROVE  /\ node[n] \in NodeType
             /\ node[n].refcou = MaxRef /\ node[n].level = MaxVars
             /\ node[n].low = n /\ node[n].high = n
  <2>1. FirstNode(n) = [TerminalNode(n) EXCEPT !.level = MaxVars]
    BY <1>3 DEF FirstNode, VariableSlots
  <2>2. node[n] = [refcou |-> MaxRef, level |-> MaxVars, low |-> n, high |-> n]
    BY <2>1, <1>2, <1>3 DEF TerminalNode
  <2>3. n \in Int /\ MaxRef \in 0..MaxRef
    BY RefAssumption DEF Terminal, FALSEBDD, TRUEBDD
  <2> QED
    BY <2>2, <2>3, <1>1 DEF NodeType
<1>5. ASSUME NEW n \in VariableSlots
      PROVE  n \in 2..(size - 1) /\ node[n] = VariableNode(n) /\ n \in 0..(size - 1)
  <2>1. n \in 2..(size - 1) /\ n \notin Terminal /\ ~ (n > 2 * MaxVars + 1) /\ n \in 0..(size - 1)
    BY <1>1 DEF VariableSlots, Terminal, FALSEBDD, TRUEBDD
  <2>2. FirstNode(n) = VariableNode(n)
    BY <2>1 DEF FirstNode, VariableSlots
  <2> QED
    BY <2>1, <2>2, <1>2
<1>6. ASSUME NEW n \in 2..(size - 1), n \notin VariableSlots
      PROVE  node[n] = FreeNode
  <2>1. n \notin Terminal /\ n > 2 * MaxVars + 1 /\ n \in 0..(size - 1)
    BY <1>1, <1>6 DEF VariableSlots, Terminal, FALSEBDD, TRUEBDD
  <2>2. FirstNode(n) = FreeNode
    BY <2>1, <1>6 DEF FirstNode, VariableSlots
  <2> QED
    BY <2>1, <2>2, <1>2
<1>7. \A n \in 0..(size - 1) : node[n] \in NodeType
  <2> SUFFICES ASSUME NEW n \in 0..(size - 1)
               PROVE  node[n] \in NodeType
    OBVIOUS
  <2>1. n \in Terminal \/ n \in 2..(size - 1)
    BY <1>1 DEF Terminal, FALSEBDD, TRUEBDD
  <2> QED
    BY <2>1, <1>4, <1>5, <1>6, VariableNodes, FreeNodeFields
<1>8. node \in [0..(size - 1) -> NodeType]
  BY <1>2, <1>7
<1>9. UsedOf(size, node) = VariableSlots
  <2>1. \A n \in VariableSlots : n \in 2..(size - 1) /\ node[n].low # FreeLow
    BY <1>5, VariableNodes DEF Terminal, FALSEBDD, TRUEBDD, FreeLow
  <2>2. \A n \in 2..(size - 1) : n \notin VariableSlots => node[n].low = FreeLow
    BY <1>6, FreeNodeFields
  <2> QED
    BY <2>1, <2>2 DEF UsedOf
<1>10. free = (2..(size - 1)) \ VariableSlots
  <2>1. free = (2 * MaxVars + 2)..(size - 1)
    BY <1>1 DEF ApplyInit
  <2> QED
    BY <2>1, <1>1 DEF VariableSlots
<1> QED
  BY <1>1, <1>3, <1>4, <1>5, <1>6, <1>8, <1>9, <1>10


(* The table is good, and the variables have their nodes.                  *)
LEMMA FirstTable ==
  ASSUME ApplyInit
  PROVE  TableInv /\ GoodVars(size, node, varnum, varset) /\ GoodTerminals
<1>1. /\ size \in Nat /\ size > 2 /\ IsPrime(size) /\ MaxVars \in Nat
      /\ \A n \in Terminal : /\ n \in 0..(size - 1) /\ node[n] \in NodeType
                             /\ node[n].refcou = MaxRef /\ node[n].level = MaxVars
                             /\ node[n].low = n /\ node[n].high = n
      /\ \A n \in VariableSlots : n \in 2..(size - 1) /\ node[n] = VariableNode(n)
      /\ \A n \in 2..(size - 1) : n \notin VariableSlots => node[n] = FreeNode
      /\ node \in [0..(size - 1) -> NodeType]
      /\ UsedOf(size, node) = VariableSlots
      /\ free = (2..(size - 1)) \ VariableSlots
  BY FirstNodes
<1>2. \A n \in VariableSlots : /\ node[n].refcou = MaxRef
                               /\ node[n].level \in 0..(MaxVars - 1) /\ node[n].level = (n - 2) \div 2
                               /\ node[n].low \in Terminal /\ node[n].low = n % 2
                               /\ node[n].high \in Terminal /\ node[n].high = 1 - (n % 2)
  BY <1>1, VariableNodes
<1>3. TypedTable(size, node)
  <2>1. ASSUME NEW n \in 0..(size - 1)
        PROVE  node[n].low \in FreeLow..(size - 1) /\ node[n].high \in 0..(size - 1)
    <3>1. n \in Terminal \/ n \in VariableSlots \/ node[n] = FreeNode
      BY <1>1 DEF Terminal, FALSEBDD, TRUEBDD
    <3>2. Terminal \subseteq 0..(size - 1) /\ Terminal \subseteq FreeLow..(size - 1)
      BY <1>1 DEF Terminal, FALSEBDD, TRUEBDD, FreeLow
    <3>3. FreeLow \in FreeLow..(size - 1) /\ 0 \in 0..(size - 1)
      BY <1>1 DEF FreeLow
    <3>4. CASE n \in Terminal
      BY <3>2, <3>4, <1>1, Zenon
    <3>5. CASE n \in VariableSlots
      BY <3>2, <3>5, <1>2, Zenon
    <3>6. CASE node[n] = FreeNode
      BY <3>3, <3>6, FreeNodeFields
    <3> QED
      BY <3>1, <3>4, <3>5, <3>6
  <2> QED
    BY <2>1, <1>1 DEF TypedTable
<1>4. ClosedTable(size, node)
  BY <1>1, <1>2 DEF ClosedTable
<1>5. CanonicalTable(size, node)
  <2>1. ASSUME NEW m \in VariableSlots, NEW n \in VariableSlots,
               node[m].level = node[n].level, node[m].low = node[n].low
        PROVE  m = n
    <3>1. (m - 2) \div 2 = (n - 2) \div 2 /\ m % 2 = n % 2
      BY <2>1, <1>2
    <3>2. m \in Nat /\ n \in Nat /\ m >= 2 /\ n >= 2
      BY <1>1 DEF VariableSlots
    <3> QED
      BY <3>1, <3>2
  <2>2. ASSUME NEW n \in VariableSlots
        PROVE  node[n].low # node[n].high
    <3>1. node[n].low = n % 2 /\ node[n].high = 1 - (n % 2)
      BY <1>2
    <3>2. n \in Int
      BY <1>1
    <3>3. n % 2 # 1 - (n % 2)
      BY <3>2
    <3> QED
      BY <3>1, <3>3
  <2> QED
    BY <2>1, <2>2, <1>1 DEF CanonicalTable
<1>6. GoodTable(size, node, free)
  BY <1>1, <1>3, <1>4, <1>5 DEF GoodTable
<1>7. GoodCounts(size, node, held, raised)
  <2>1. held = [n \in 0..(size - 1) |-> 0] /\ raised = [n \in 0..(size - 1) |-> 0]
    BY FirstNodes DEF ApplyInit
  <2>2. ASSUME NEW n \in 2..(size - 1)
        PROVE  /\ raised[n] = 0 /\ held[n] = 0 /\ node[n].refcou \in {held[n] + raised[n], MaxRef}
               /\ node[n].low = FreeLow => node[n].refcou = 0
    <3>1. n \in 0..(size - 1) /\ held[n] = 0 /\ raised[n] = 0
      BY <1>1, <2>1
    <3>2. CASE n \in VariableSlots
      BY <3>1, <3>2, <1>2 DEF Terminal, FALSEBDD, TRUEBDD, FreeLow
    <3>3. CASE n \notin VariableSlots
      BY <3>1, <3>3, <1>1, FreeNodeFields
    <3> QED
      BY <3>2, <3>3
  <2>3. held \in [0..(size - 1) -> Nat] /\ raised \in [0..(size - 1) -> Nat]
    BY <2>1
  <2> QED
    BY <2>2, <2>3 DEF GoodCounts
<1>8. varnum = MaxVars /\ varset = [v \in 0..(MaxVars - 1) |-> <<2 * v + 2, 2 * v + 3>>]
      /\ growing = Idle
  BY DEF ApplyInit
<1>9. GoodVars(size, node, varnum, varset)
  <2>1. ASSUME NEW v \in 0..(MaxVars - 1)
        PROVE  /\ 2 * v + 2 \in VariableSlots /\ 2 * v + 3 \in VariableSlots
               /\ 2 * v + 2 \in 0..(size - 1) /\ 2 * v + 3 \in 0..(size - 1)
               /\ varset[v] = <<2 * v + 2, 2 * v + 3>>
               /\ VariableNode(2 * v + 2) = [refcou |-> MaxRef, level |-> v, low |-> 0, high |-> 1]
               /\ VariableNode(2 * v + 3) = [refcou |-> MaxRef, level |-> v, low |-> 1, high |-> 0]
    <3>1. v \in Nat /\ v <= MaxVars - 1
      BY <1>1
    <3>2. 2 * v + 2 \in VariableSlots /\ 2 * v + 3 \in VariableSlots
      BY <3>1, <1>1 DEF VariableSlots
    <3>3. 2 * v + 2 \in 0..(size - 1) /\ 2 * v + 3 \in 0..(size - 1)
      <4>1. \A n \in 2..(size - 1) : n \in 0..(size - 1)
        BY <1>1
      <4> QED
        BY <4>1, <3>2, <1>1
    <3>4. /\ (2 * v + 2) % 2 = 0 /\ (2 * v + 3) % 2 = 1
          /\ (2 * v + 2 - 2) \div 2 = v /\ (2 * v + 3 - 2) \div 2 = v
      BY <3>1
    <3>5. /\ VariableNode(2 * v + 2) = [refcou |-> MaxRef, level |-> v, low |-> 0, high |-> 1]
          /\ VariableNode(2 * v + 3) = [refcou |-> MaxRef, level |-> v, low |-> 1, high |-> 0]
      BY <3>4 DEF VariableNode
    <3> QED
      BY <3>2, <3>3, <3>5, <1>8
  <2>2. varset \in [0..(MaxVars - 1) -> (0..(size - 1)) \X (0..(size - 1))]
    BY <2>1, <1>8
  <2>3. ASSUME NEW v \in 0..(MaxVars - 1)
        PROVE  /\ Pin(size, node, varset[v][1], v, FALSEBDD, TRUEBDD)
               /\ Pin(size, node, varset[v][2], v, TRUEBDD, FALSEBDD)
    BY <2>1, <1>1 DEF Pin, FALSEBDD, TRUEBDD
  <2> QED
    BY <2>2, <2>3, <1>8 DEF GoodVars
<1>10. GoodTerminals
  <2>1. \A n \in Terminal : held[n] = 0
    BY <1>1, FirstNodes DEF ApplyInit
  <2>2. OrderedTable(size, node)
    BY <1>1, <1>2 DEF OrderedTable
  <2>3. \A n \in VariableSlots : node[n].level < MaxVars
    <3>1. \A k \in 0..(MaxVars - 1) : k < MaxVars
      BY <1>1
    <3> QED
      BY <3>1, <1>2
  <2> QED
    BY <2>1, <2>2, <2>3, <1>1, <1>8 DEF GoodTerminals, Leveled, TerminalsPinned
<1> QED
  BY <1>1, <1>6, <1>7, <1>9, <1>10 DEF TableInv

(* The invariant holds at the start.                                       *)
LEMMA FirstState ==
  ASSUME ApplyInit
  PROVE  ApplyInv
<1>1. TableInv /\ GoodVars(size, node, varnum, varset) /\ GoodTerminals
  BY FirstTable
<1>2. /\ refstack = << >> /\ growing = Idle /\ varnum = MaxVars /\ MaxVars \in Nat
      /\ InitSize \in Nat /\ maxsize \in Limits
      /\ reorder = [method |-> FALSE, disabled |-> FALSE, next |-> InitSize]
      /\ frames = << >> /\ cache = EmptyCache /\ call = NoCall
  BY SizeAssumption, BoundAssumption DEF ApplyInit
<1>3. GrowthInv
  BY <1>2 DEF GrowthInv, GrowthType, Idle
<1>4. ScalarType
  <2>1. errorcond \in BOOLEAN
    BY Zenon DEF ApplyInit
  <2>2. [method |-> FALSE, disabled |-> FALSE, next |-> InitSize]
          \in [method : BOOLEAN, disabled : BOOLEAN, next : Nat]
    BY <1>2
  <2>3. varnum \in 0..MaxVars
    BY <1>2
  <2> QED
    BY <2>1, <2>2, <2>3, <1>2, Zenon DEF ScalarType
<1>5. IInv
  <2>1. GoodStack(size, node, refstack)
    BY <1>2 DEF GoodStack
  <2> QED
    BY <2>1, <1>1, <1>3, <1>4 DEF IInv
<1>6. ControlInv
  BY <1>2 DEF ControlInv, CallTyped, NoCall
<1>7. CachesInv
  BY <1>2, EmptyGood DEF CachesInv
<1>8. FramesInv
  <2> DEFINE f == Function
             P == Safe
             ok == ~ errorcond
             want == call.want
  <2> HIDE DEF f, P, ok, want
  <2>1. /\ GoodFrames(node, varnum, f, P, << >>)
        /\ AsksFor(varnum, f, << >>, want)
        /\ \E c \in [1..(Len(<< >>) + 1) -> Nat] : Results(node, varnum, f, ok, << >>, c, << >>)
    BY NoFrames
  <2> QED
    BY <2>1, <1>2 DEF FramesInv, f, P, ok, want
<1> QED
  BY <1>1, <1>5, <1>6, <1>7, <1>8 DEF ApplyInv

-----------------------------------------------------------------------------
(* The theorems.                                                           *)

(* The inductive invariant of the operators.                               *)
THEOREM ApplyInvariant == ApplySpec => []ApplyInv
<1>1. ApplyInit => ApplyInv
  BY FirstState
<1>2. ApplyInv /\ [ApplyNext]_all => ApplyInv'
  BY ApplyStep
<1> QED
  BY <1>1, <1>2, PTL DEF ApplySpec


(* An operation that has met no error returns what it was asked for:       *)
(* bdd_apply, bdd_not and bdd_ite, in a table of any size, with caches of  *)
(* any size, after any number of collections and resizes and a jump out of *)
(* the recursion.                                                          *)
THEOREM ResultRightHolds == ApplySpec => []ResultRight
<1>1. ApplyInv => ResultRight
  BY DEF ApplyInv, ControlInv, ResultGood, ResultRight, InUse
<1> QED
  BY <1>1, ApplyInvariant, PTL

(* What the caches hold is about nodes in use and right about them: no     *)
(* entry outlives a node of it, or the slot's next owner would answer.     *)
THEOREM CacheCoherentHolds == ApplySpec => []CacheCoherent
<1>1. ASSUME ApplyInv, ~ errorcond, NEW c \in {"apply", "ite"}, NEW i \in 0..(CacheSize - 1),
             cache[c][i] # NoEntry
      PROVE  LET e == cache[c][i]
             IN  /\ {e.args[k] : k \in 1..Len(e.args)} \cup {e.res} \subseteq Terminal \cup Used
                 /\ Function[e.res] = Wanted(e.op, e.args)
  <2> DEFINE e == cache[c][i]
  <2>1. GoodEntry(node, varnum, Function, ~ errorcond, InUse, e)
    BY <1>1 DEF ApplyInv, CachesInv, GoodCache, CacheIndices
  <2>2. /\ GoodCall(InUse, e.op, e.args)
        /\ Answers(node, varnum, Function, ~ errorcond, InUse, e.op, e.args, e.res)
    BY <2>1, <1>1 DEF GoodEntry
  <2> HIDE DEF e
  <2>3. \A k \in 1..Len(e.args) : e.args[k] \in InUse
    <3>1. varnum \in Nat /\ GoodLevels(node, varnum, InUse)
      BY <1>1, ApplyFacts DEF View
    <3> QED
      BY <3>1, <2>2, CallTop
  <2>4. e.res \in InUse /\ Function[e.res] = Means(varnum, Function, e.op, e.args)
    BY <2>2, <1>1 DEF Answers
  <2>5. Function[e.res] = Wanted(e.op, e.args)
    BY <2>4, Present
  <2> QED
    BY <2>3, <2>4, <2>5 DEF e, InUse
<1>2. ApplyInv => CacheCoherent
  BY <1>1 DEF CacheCoherent
<1> QED
  BY <1>2, ApplyInvariant, PTL

(* A call puts at most two results on the stack.                           *)
LEMMA PushedTwo ==
  ASSUME NEW r \in Frame
  PROVE  Pushed(r) \in 0..2
<1>1. r.step \in {"enter", "low", "high", "make"}
  BY DEF Frame
<1> QED
  BY <1>1 DEF Pushed

PushedOf(p, fr) ==
  [i \in 1..(Len(fr) + 1) |-> IF i = 1 THEN 0 ELSE p[i - 1] + Pushed(fr[i - 1])]

(* The offsets of the invariant are the lengths that StackRight adds up.   *)
LEMMA OffsetsFound ==
  ASSUME NEW b, frames \in Seq(Frame), Offsets(frames, b)
  PROVE  PushedBelow = b
<1> DEFINE L == Len(frames)
           p == PushedBelow
<1>1. L \in Nat /\ b \in [1..(L + 1) -> Nat] /\ b[1] = 0
  BY LenProperties DEF Offsets
<1>2. \A i \in 1..L : b[i + 1] = b[i] + Pushed(frames[i])
  BY DEF Offsets
<1> HIDE DEF L
<1>3. b = PushedOf(b, frames)
  <2>1. ASSUME NEW i \in 1..(L + 1)
        PROVE  b[i] = IF i = 1 THEN 0 ELSE b[i - 1] + Pushed(frames[i - 1])
    <3>1. CASE i = 1
      BY <3>1, <1>1
    <3>2. CASE i # 1
      <4>1. i - 1 \in 1..L /\ (i - 1) + 1 = i
        BY <3>2, <1>1
      <4> QED
        BY <4>1, <3>2, <1>2
    <3> QED
      BY <3>1, <3>2
  <2> QED
    BY <2>1, <1>1 DEF PushedOf, L
<1>4. PushedBelow = CHOOSE q : q = PushedOf(q, frames)
  BY DEF PushedBelow, PushedOf
<1>5. p = PushedOf(p, frames)
  BY <1>3, <1>4
<1> HIDE DEF p
<1>6. /\ p = [i \in 1..(L + 1) |-> p[i]] /\ p[1] = 0
      /\ \A i \in 1..L : p[i + 1] = p[i] + Pushed(frames[i])
  <2>1. p = [i \in 1..(L + 1) |-> IF i = 1 THEN 0 ELSE p[i - 1] + Pushed(frames[i - 1])]
    BY <1>5 DEF PushedOf, L
  <2>2. p = [i \in 1..(L + 1) |-> p[i]]
    BY <2>1
  <2>3. 1 \in 1..(L + 1) /\ \A i \in 1..L : i + 1 \in 1..(L + 1) /\ i + 1 # 1 /\ (i + 1) - 1 = i
    BY <1>1
  <2>4. p[1] = 0
    BY <2>1, <2>3
  <2>5. ASSUME NEW i \in 1..L
        PROVE  p[i + 1] = p[i] + Pushed(frames[i])
    <3> DEFINE k == i + 1
    <3>1. k \in 1..(L + 1) /\ k # 1 /\ k - 1 = i
      BY <2>3
    <3> HIDE DEF k
    <3>2. p[k] = p[k - 1] + Pushed(frames[k - 1])
      BY <2>1, <3>1
    <3> QED
      BY <3>1, <3>2 DEF k
  <2> QED
    BY <2>2, <2>4, <2>5
<1> DEFINE wrong == {i \in 1..(L + 1) : p[i] # b[i]}
<1>7. wrong = {}
  <2> SUFFICES ASSUME wrong # {} PROVE FALSE
    OBVIOUS
  <2>1. wrong \in SUBSET Nat
    OBVIOUS
  <2>2. PICK i \in wrong : \A j \in wrong : ~ (j < i)
    BY <2>1, LeastExists
  <2>3. i \in 1..(L + 1) /\ i # 1 /\ p[i] # b[i]
    BY <2>2, <1>1, <1>6
  <2> DEFINE k == i - 1
  <2>4. k \in 1..L /\ k + 1 = i /\ k \in 1..(L + 1) /\ k < i
    BY <2>3, <1>1
  <2>5. p[k] = b[k]
    BY <2>2, <2>4
  <2>6. p[k + 1] = p[k] + Pushed(frames[k]) /\ b[k + 1] = b[k] + Pushed(frames[k])
    BY <2>4, <1>2, <1>6
  <2> QED
    BY <2>3, <2>4, <2>5, <2>6
<1> QED
  BY <1>1, <1>6, <1>7 DEF p

(* Each call looks further down than its caller: there are no more calls   *)
(* than variables and one, and no more results than two for each.          *)
LEMMA StackBounded ==
  ASSUME NEW nd, NEW num \in Nat, NEW f, NEW P, GoodLevels(nd, num, P),
         NEW fr, GoodFrames(nd, num, f, P, fr), NEW b, Offsets(fr, b)
  PROVE  b[Len(fr) + 1] <= 2 * num + 2
<1> DEFINE L == Len(fr)
<1>1. fr \in Seq(Frame) /\ L \in Nat
  BY LenProperties DEF GoodFrames
<1>2. ASSUME NEW i \in 1..L
      PROVE  /\ TopIn(nd, fr[i].args) \in 0..num /\ Pushed(fr[i]) \in 0..2
  <2>1. GoodCall(P, fr[i].op, fr[i].args)
    BY DEF GoodFrames
  <2>2. TopIn(nd, fr[i].args) \in 0..num
    BY <2>1, CallTop
  <2> QED
    BY <2>2, <1>1, PushedTwo
<1>3. \A i \in 1..(L - 1) : TopIn(nd, fr[i].args) < TopIn(nd, fr[i + 1].args)
  BY DEF GoodFrames, Delegates
<1>4. b \in [1..(L + 1) -> Nat] /\ b[1] = 0 /\ \A i \in 1..L : b[i + 1] = b[i] + Pushed(fr[i])
  BY DEF Offsets
<1> HIDE DEF L
<1> DEFINE deep(i) == i - 1 <= TopIn(nd, fr[i].args) /\ b[i + 1] <= 2 * i
           wrong   == {i \in 1..L : ~ deep(i)}
<1>5. wrong = {}
  <2> SUFFICES ASSUME wrong # {} PROVE FALSE
    OBVIOUS
  <2>1. wrong \in SUBSET Nat
    OBVIOUS
  <2>2. PICK i \in wrong : \A j \in wrong : ~ (j < i)
    BY <2>1, LeastExists
  <2>3. i \in 1..L /\ ~ deep(i) /\ i \in 1..(L + 1) /\ i + 1 \in 1..(L + 1)
    BY <2>2, <1>1
  <2>4. /\ TopIn(nd, fr[i].args) \in Nat /\ Pushed(fr[i]) \in 0..2 /\ b[i] \in Nat
        /\ b[i + 1] = b[i] + Pushed(fr[i])
    BY <2>3, <1>2, <1>4
  <2>5. CASE i = 1
    BY <2>5, <2>3, <2>4, <1>4
  <2>6. CASE i # 1
    <3> DEFINE k == i - 1
    <3>1. k \in 1..L /\ k \in 1..(L - 1) /\ k < i /\ k + 1 = i /\ k \in Nat
      BY <2>3, <2>6, <1>1
    <3>2. deep(k)
      <4>1. k \notin wrong
        BY <2>2, <3>1
      <4> QED
        BY <4>1, <3>1
    <3> HIDE DEF k
    <3>3. TopIn(nd, fr[k].args) < TopIn(nd, fr[i].args) /\ TopIn(nd, fr[k].args) \in Nat
      BY <3>1, <1>2, <1>3
    <3>4. k - 1 <= TopIn(nd, fr[k].args) /\ b[i] <= 2 * k
      BY <3>1, <3>2
    <3> QED
      BY <3>1, <3>3, <3>4, <2>3, <2>4
  <2> QED
    BY <2>5, <2>6
<1>6. CASE L = 0
  BY <1>6, <1>4 DEF L
<1>7. CASE L # 0
  <2>1. L \in 1..L
    BY <1>1, <1>7
  <2>2. deep(L)
    BY <2>1, <1>5
  <2>3. TopIn(nd, fr[L].args) \in 0..num /\ b[L + 1] \in Nat
    BY <2>1, <1>1, <1>2, <1>4
  <2>4. b[L + 1] <= 2 * num + 2
    BY <2>2, <2>3, <1>1
  <2> QED
    BY <2>4 DEF L
<1> QED
  BY <1>6, <1>7


(* The stack holds the results of the calls that wait and nothing else, at *)
(* their places, within the room bdd_setvarnum makes for it: what a call   *)
(* has left there is still in use, and means what it meant, when the call  *)
(* makes its node.                                                         *)
THEOREM StackRightHolds == ApplySpec => []StackRight
<1>1. ASSUME ApplyInv
      PROVE  StackRight
  <2>1. PICK b : Results(node, varnum, Function, ~ errorcond, frames, b, refstack)
    BY <1>1 DEF ApplyInv, FramesInv
  <2>2. /\ GoodFrames(node, varnum, Function, Safe, frames) /\ frames \in Seq(Frame)
        /\ Len(frames) \in Nat /\ GoodStack(size, node, refstack)
    BY <1>1, LenProperties DEF ApplyInv, FramesInv, GoodFrames, IInv
  <2>3. varnum \in Nat /\ GoodLevels(node, varnum, Safe) /\ InUse = Terminal \cup UsedOf(size, node)
    BY <1>1, ApplyFacts, TableFacts DEF View, InUse, TableInv
  <2>4. Offsets(frames, b) /\ Len(refstack) = b[Len(frames) + 1]
    BY <2>1 DEF Results
  <2>5. PushedBelow = b
    BY <2>2, <2>4, OffsetsFound
  <2>6. StackExact
    <3>1. b[Len(frames) + 1] <= 2 * varnum + 2
      BY <2>2, <2>3, <2>4, StackBounded
    <3>2. b[Len(frames) + 1] \in Nat
      BY <2>2, <2>4 DEF Offsets
    <3>3. Len(refstack) <= 2 * varnum + 4
      BY <3>1, <3>2, <2>3, <2>4
    <3> QED
      BY <3>3, <2>4, <2>5 DEF StackExact
  <2>7. ASSUME ~ errorcond, NEW i \in 1..Len(frames), NEW side \in {"low", "high"},
               Pushed(frames[i]) >= b[i] + Place(side) - b[i]
        PROVE  /\ refstack[b[i] + Place(side)] \in Terminal \cup Used
               /\ Function[refstack[b[i] + Place(side)]]
                    = Wanted(frames[i].op, Cofactor(frames[i].args, side))
    <3> DEFINE place == b[i] + Place(side)
    <3>1. b[i] \in Nat /\ Place(side) \in Nat
      BY <2>2, <2>4 DEF Offsets, Place
    <3>2. Pushed(frames[i]) >= Place(side)
      BY <2>7, <3>1
    <3>3. place \in 1..Len(refstack)
      <4>1. Len(frames) + 1 \in (i + 1)..(Len(frames) + 1)
        BY <2>2
      <4>2. place \in 1..b[Len(frames) + 1]
        BY <4>1, <3>2, <2>2, <2>4, ResultPlace
      <4> QED
        BY <4>2, <2>4
    <3>4. refstack[place] \in InUse
      BY <3>3, <2>2, <2>3 DEF GoodStack
    <3>5. AnswersSide(node, varnum, Function, ~ errorcond, frames[i], side, refstack[place])
      BY <3>2, <2>1 DEF Results
    <3>6. Function[refstack[place]]
            = Means(varnum, Function, frames[i].op, SideOf(node, frames[i].args, side))
      BY <3>5, <2>7 DEF AnswersSide
    <3>7. Function[refstack[place]] = Wanted(frames[i].op, Cofactor(frames[i].args, side))
      BY <3>6, Present
    <3> QED
      BY <3>4, <3>7 DEF InUse
  <2>8. PartialResultsRight
    <3> SUFFICES ASSUME ~ errorcond, NEW i \in 1..Len(frames), NEW side \in {"low", "high"}
                 PROVE  LET place == PushedBelow[i] + (IF side = "low" THEN 1 ELSE 2)
                        IN  Pushed(frames[i]) >= place - PushedBelow[i] =>
                              /\ refstack[place] \in Terminal \cup Used
                              /\ Function[refstack[place]]
                                   = Wanted(frames[i].op, Cofactor(frames[i].args, side))
      BY DEF PartialResultsRight
    <3> DEFINE place == PushedBelow[i] + (IF side = "low" THEN 1 ELSE 2)
    <3>1. place = b[i] + Place(side) /\ PushedBelow[i] = b[i]
      BY <2>5 DEF Place
    <3> DEFINE f      == Function
               below  == PushedBelow
               wanted == Wanted(frames[i].op, Cofactor(frames[i].args, side))
               pushed == Pushed(frames[i])
    <3>2. pushed >= b[i] + Place(side) - b[i] =>
            /\ refstack[b[i] + Place(side)] \in Terminal \cup Used
            /\ f[refstack[b[i] + Place(side)]] = wanted
      BY <2>7
    <3>b. b[i] \in Nat /\ Place(side) \in Nat
      BY <2>2, <2>4 DEF Offsets, Place
    <3>c. place = b[i] + Place(side) /\ below[i] = b[i] /\ b[i] \in Nat /\ Place(side) \in Nat
      BY <3>1, <3>b
    <3> HIDE DEF place, f, wanted, pushed, below
    <3>3. pushed >= place - below[i] =>
            refstack[place] \in Terminal \cup Used /\ f[refstack[place]] = wanted
      <4>1. place - below[i] = b[i] + Place(side) - b[i]
        BY <3>c
      <4>2. refstack[place] = refstack[b[i] + Place(side)]
        BY <3>c
      <4> QED
        BY <4>1, <4>2, <3>2
    <3> QED
      BY <3>3 DEF place, f, wanted, pushed, below
  <2> QED
    BY <2>6, <2>8 DEF StackRight
<1> QED
  BY <1>1, ApplyInvariant, PTL


-----------------------------------------------------------------------------
(* Reduced ordered diagrams are canonical: the program may compare         *)
(* functions by comparing node numbers.                                    *)

(* Whether an assignment makes a node true does not depend on the          *)
(* variables above the node.                                               *)
LEMMA Independent ==
  ASSUME NEW f, NEW s, NEW nd, NEW fr, NEW num \in Nat,
         GoodTable(s, nd, fr), Leveled(s, nd, num), Denotes(f, s, nd, num)
  PROVE  \A n \in Terminal \cup UsedOf(s, nd), l \in 0..(num - 1), x \in Points(num) :
           l < nd[n].level => (x \in f[n] <=> x \cup {l} \in f[n])
<1> DEFINE U == UsedOf(s, nd)
           free_(n) == \A l \in 0..(num - 1), x \in Points(num) :
                         l < nd[n].level => (x \in f[n] <=> x \cup {l} \in f[n])
           Good == {n \in Terminal \cup U : free_(n)}
<1>1. \A l \in 0..(num - 1), x \in Points(num) : x \cup {l} \in Points(num)
  BY DEF Points
<1>2. Terminal \subseteq Good
  <2>1. f[FALSEBDD] = {} /\ f[TRUEBDD] = Points(num)
    BY DEF Denotes
  <2>2. free_(FALSEBDD) /\ free_(TRUEBDD)
    BY <1>1, <2>1
  <2> QED
    BY <2>2 DEF Terminal
<1>3. ClosedPart(nd, U)
  BY DEF GoodTable, ClosedTable, ClosedPart
<1>4. ASSUME NEW n \in U, nd[n].low \in Good, nd[n].high \in Good
      PROVE  n \in Good
  <2> DEFINE v == nd[n].level
             lo == nd[n].low
             hi == nd[n].high
  <2>1. v \in 0..num /\ v < nd[lo].level /\ v < nd[hi].level
        /\ nd[lo].level \in 0..num /\ nd[hi].level \in 0..num
    BY <1>4, LevelFacts
  <2>2. f[n] = {x \in f[lo] : v \notin x} \cup {x \in f[hi] : v \in x}
    BY DEF Denotes
  <2>3. free_(lo) /\ free_(hi)
    BY <1>4
  <2> SUFFICES ASSUME NEW l \in 0..(num - 1), NEW x \in Points(num), l < v
               PROVE  x \in f[n] <=> x \cup {l} \in f[n]
    OBVIOUS
  <2>4. l < nd[lo].level /\ l < nd[hi].level /\ l # v
    BY <2>1
  <2> HIDE DEF v, lo, hi
  <2>5. (x \in f[lo] <=> x \cup {l} \in f[lo]) /\ (x \in f[hi] <=> x \cup {l} \in f[hi])
    BY <2>3, <2>4
  <2>6. v \in x \cup {l} <=> v \in x
    BY <2>4
  <2> QED
    BY <2>2, <2>5, <2>6
<1>5. Terminal \cup U \subseteq Good
  <2> HIDE DEF Good
  <2> QED
    BY <1>2, <1>3, <1>4, FromBelow
<1> QED
  BY <1>5

(* The functions of the children are the cofactors of the node's.          *)
LEMMA ChildCofactors ==
  ASSUME NEW f, NEW s, NEW nd, NEW fr, NEW num \in Nat,
         GoodTable(s, nd, fr), Leveled(s, nd, num), Denotes(f, s, nd, num),
         NEW n \in UsedOf(s, nd), NEW x \in Points(num)
  PROVE  /\ x \ {nd[n].level} \in f[n] <=> x \in f[nd[n].low]
         /\ x \cup {nd[n].level} \in f[n] <=> x \in f[nd[n].high]
<1> DEFINE v == nd[n].level
           lo == nd[n].low
           hi == nd[n].high
           y == x \ {v}
<1>1. lo \in Terminal \cup UsedOf(s, nd) /\ hi \in Terminal \cup UsedOf(s, nd)
  BY DEF GoodTable, ClosedTable
<1>2. v \in 0..(num - 1) /\ v < nd[lo].level /\ v < nd[hi].level
  BY LevelFacts
<1>3. f[n] = {z \in f[lo] : v \notin z} \cup {z \in f[hi] : v \in z}
  BY DEF Denotes
<1>4. y \in Points(num) /\ y \cup {v} = x \cup {v}
  BY DEF Points
<1>5. x \in f[lo] <=> x \cup {v} \in f[lo]
  BY <1>1, <1>2, Independent
<1>6. y \in f[lo] <=> y \cup {v} \in f[lo]
  BY <1>1, <1>2, <1>4, Independent
<1>7. x \in f[hi] <=> x \cup {v} \in f[hi]
  BY <1>1, <1>2, Independent
<1>8. v \notin y /\ v \in x \cup {v}
  OBVIOUS
<1> HIDE DEF v, lo, hi, y
<1>9. y \in f[n] <=> y \in f[lo]
  BY <1>3, <1>8
<1>10. x \cup {v} \in f[n] <=> x \cup {v} \in f[hi]
  BY <1>3, <1>8
<1>11. y \in f[n] <=> x \in f[lo]
  BY <1>4, <1>5, <1>6, <1>9
<1>12. x \cup {v} \in f[n] <=> x \in f[hi]
  BY <1>7, <1>10
<1> QED
  BY <1>11, <1>12 DEF v, lo, hi, y

(* Two nodes of a good table that have the same function are one node.     *)
LEMMA SameFunctionSameNode ==
  ASSUME NEW f, NEW s, NEW nd, NEW fr, NEW num \in Nat,
         GoodTable(s, nd, fr), Leveled(s, nd, num), Denotes(f, s, nd, num)
  PROVE  \A m, n \in Terminal \cup UsedOf(s, nd) : f[m] = f[n] => m = n
<1> DEFINE U == Terminal \cup UsedOf(s, nd)
           twin(m, n) == m # n /\ f[m] = f[n]
           upper == {m \in U : \E n \in U : twin(m, n) /\ nd[m].level <= nd[n].level}
           heights == {num - nd[m].level : m \in upper}
<1>1. /\ \A n \in U : nd[n].level \in 0..num
      /\ \A n \in Terminal : nd[n].level = num
      /\ \A n \in UsedOf(s, nd) : /\ nd[n].level < num
                                  /\ nd[n].level < nd[nd[n].low].level
                                  /\ nd[n].level < nd[nd[n].high].level
  BY LevelFacts
<1>2. /\ \A n \in UsedOf(s, nd) : nd[n].low \in U /\ nd[n].high \in U /\ nd[n].low # nd[n].high
      /\ \A m, n \in UsedOf(s, nd) :
           nd[m].level = nd[n].level /\ nd[m].low = nd[n].low /\ nd[m].high = nd[n].high => m = n
  BY DEF GoodTable, ClosedTable, CanonicalTable
<1>3. \A n \in U : f[n] \subseteq Points(num)
  BY FunctionsInPoints
<1>4. upper = {}
  <2> SUFFICES ASSUME upper # {} PROVE FALSE
    OBVIOUS
  <2>1. heights \in SUBSET Nat /\ heights # {}
    BY <1>1
  <2>2. PICK h \in heights : \A k \in heights : ~ (k < h)
    BY <2>1, LeastExists
  <2>3. PICK m \in upper : h = num - nd[m].level
    OBVIOUS
  <2>4. PICK n \in U : twin(m, n) /\ nd[m].level <= nd[n].level
    OBVIOUS
  <2> DEFINE v == nd[m].level
  <2>5. ASSUME NEW c \in U, NEW d \in U, v < nd[c].level, v < nd[d].level, f[c] = f[d]
        PROVE  c = d
    <3> SUFFICES ASSUME c # d PROVE FALSE
      OBVIOUS
    <3>1. PICK e \in upper : v < nd[e].level
      <4>1. nd[c].level <= nd[d].level \/ nd[d].level <= nd[c].level
        BY <1>1
      <4>2. twin(c, d) /\ twin(d, c)
        BY <2>5
      <4>3. c \in upper \/ d \in upper
        BY <4>1, <4>2
      <4> QED
        BY <4>3, <2>5
    <3>2. num - nd[e].level \in heights /\ num - nd[e].level < h
      BY <3>1, <2>3, <1>1
    <3> QED
      BY <3>2, <2>2
  <2>6. m \in U /\ n \in U /\ m # n /\ f[m] = f[n] /\ v <= nd[n].level /\ v \in 0..num
    BY <2>4, <1>1
  <2> HIDE DEF upper, heights, U, twin
  <2>7. CASE m \in Terminal
    <3>1. nd[n].level = num /\ n \in Terminal
      BY <2>6, <2>7, <1>1 DEF U
    <3>2. f[FALSEBDD] = {} /\ f[TRUEBDD] = Points(num) /\ {} \in Points(num)
      BY DEF Denotes, Points
    <3> QED
      BY <3>1, <3>2, <2>6, <2>7 DEF Terminal
  <2>8. CASE m \in UsedOf(s, nd) /\ v < nd[n].level
    <3> DEFINE lo == nd[m].low
               hi == nd[m].high
    <3>1. lo \in U /\ hi \in U /\ lo # hi /\ v < nd[lo].level /\ v < nd[hi].level /\ v \in 0..(num - 1)
      BY <2>6, <2>8, <1>1, <1>2
    <3>2. ASSUME NEW x \in Points(num)
          PROVE  x \in f[lo] <=> x \in f[hi]
      <4>1. x \ {v} \in f[m] <=> x \in f[lo]
        BY <2>8, ChildCofactors
      <4>2. x \cup {v} \in f[m] <=> x \in f[hi]
        BY <2>8, ChildCofactors
      <4>3. x \ {v} \in Points(num) /\ (x \ {v}) \cup {v} = x \cup {v}
        BY DEF Points
      <4>4. x \ {v} \in f[n] <=> (x \ {v}) \cup {v} \in f[n]
        BY <4>3, <3>1, <2>6, <2>8, Independent DEF U
      <4> QED
        BY <4>1, <4>2, <4>3, <4>4, <2>6
    <3> HIDE DEF lo, hi
    <3>3. f[lo] = f[hi]
      BY <3>1, <3>2, <1>3
    <3> QED
      BY <3>1, <3>3, <2>5
  <2>9. CASE m \in UsedOf(s, nd) /\ ~ (v < nd[n].level)
    <3>1. nd[n].level = v /\ n \in UsedOf(s, nd)
      BY <2>6, <2>9, <1>1 DEF U
    <3>2. ASSUME NEW x \in Points(num)
          PROVE  /\ x \in f[nd[m].low] <=> x \in f[nd[n].low]
                 /\ x \in f[nd[m].high] <=> x \in f[nd[n].high]
      <4>1. /\ x \ {v} \in f[m] <=> x \in f[nd[m].low]
            /\ x \cup {v} \in f[m] <=> x \in f[nd[m].high]
        BY <2>9, ChildCofactors
      <4>2. /\ x \ {v} \in f[n] <=> x \in f[nd[n].low]
            /\ x \cup {v} \in f[n] <=> x \in f[nd[n].high]
        BY <3>1, ChildCofactors
      <4> QED
        BY <4>1, <4>2, <2>6
    <3>3. /\ nd[m].low \in U /\ nd[n].low \in U /\ nd[m].high \in U /\ nd[n].high \in U
          /\ v < nd[nd[m].low].level /\ v < nd[nd[n].low].level
          /\ v < nd[nd[m].high].level /\ v < nd[nd[n].high].level
      BY <3>1, <2>9, <1>1, <1>2
    <3>4. f[nd[m].low] = f[nd[n].low] /\ f[nd[m].high] = f[nd[n].high]
      BY <3>2, <3>3, <1>3
    <3>5. nd[m].low = nd[n].low /\ nd[m].high = nd[n].high
      BY <3>3, <3>4, <2>5
    <3> QED
      BY <3>1, <3>5, <2>6, <2>9, <1>2
  <2> QED
    BY <2>6, <2>7, <2>8, <2>9 DEF U
<1>5. ASSUME NEW m \in U, NEW n \in U, f[m] = f[n], m # n
      PROVE  FALSE
  <2>1. nd[m].level <= nd[n].level \/ nd[n].level <= nd[m].level
    BY <1>1
  <2>2. twin(m, n) /\ twin(n, m)
    BY <1>5
  <2>3. m \in upper \/ n \in upper
    BY <2>1, <2>2
  <2> QED
    BY <2>3, <1>4
<1> QED
  BY <1>5

(* No two nodes in use have the same function, whatever was computed,      *)
(* found in a cache, collected or resized before: the program may compare  *)
(* functions, and the caches and bdd_apply's shortcuts do, by comparing    *)
(* node numbers.                                                           *)
FunctionsDistinct == \A m, n \in InUse : Function[m] = Function[n] => m = n

THEOREM OneNodeAFunction == ApplySpec => []FunctionsDistinct
<1>1. ASSUME ApplyInv
      PROVE  FunctionsDistinct
  <2>1. TableInv /\ varnum \in Nat /\ Leveled(size, node, varnum)
    BY <1>1, ApplyFacts
  <2>2. GoodTable(size, node, free) /\ Denotes(Function, size, node, varnum)
    BY <2>1, FunctionDenotes DEF TableInv
  <2>3. InUse = Terminal \cup UsedOf(size, node)
    BY <2>1, TableFacts DEF InUse, TableInv
  <2> DEFINE f == Function
  <2>4. Denotes(f, size, node, varnum)
    BY <2>2
  <2> HIDE DEF f
  <2>5. \A m, n \in Terminal \cup UsedOf(size, node) : f[m] = f[n] => m = n
    BY <2>1, <2>2, <2>4, SameFunctionSameNode
  <2> QED
    BY <2>3, <2>5 DEF FunctionsDistinct, f
<1> QED
  BY <1>1, ApplyInvariant, PTL

(* The node an operation returns is the only one with the function it was  *)
(* asked for: to do the operation again, with whatever is in the caches by *)
(* then, gives the same number as long as the node is in use.              *)
ResultUnique ==
  call.at = "done" /\ ~ errorcond =>
    \A n \in InUse : Function[n] = call.want <=> n = result

THEOREM ResultUniqueHolds == ApplySpec => []ResultUnique
<1>1. ResultRight /\ FunctionsDistinct => ResultUnique
  BY DEF ResultRight, FunctionsDistinct, ResultUnique, InUse
<1> QED
  BY <1>1, ResultRightHolds, OneNodeAFunction, PTL

(* The table stays sound below the operators: reduced, ordered, without a  *)
(* dangling child, with exact reference counts and an exact free list,     *)
(* while recursions, collections, resizes and jumps out of the recursion   *)
(* interleave.                                                             *)
THEOREM ApplyTableSound ==
  ApplySpec => [](/\ TypeOK /\ Canonical /\ NoDanglingChild /\ FreeListExact
                  /\ HeldNodesLive /\ CountsExact /\ VariablesPinned)
<1>1. ASSUME ApplyInv
      PROVE  /\ TypeOK /\ Canonical /\ NoDanglingChild /\ FreeListExact
             /\ HeldNodesLive /\ CountsExact /\ VariablesPinned
  BY <1>1, ApplyFacts, InvariantTypes, InvariantImplies
<1> QED
  BY <1>1, ApplyInvariant, PTL
=============================================================================
