------------------------------- MODULE Apply -------------------------------
(***************************************************************************)
(* The recursive operators of src/src/bddop.c: bdd_not, bdd_apply and      *)
(* bdd_ite, over the node table of NodeTable and the operator caches of    *)
(* src/src/cache.c.                                                        *)
(*                                                                         *)
(* A recursion is a stack of frames, one for each call of not_rec,         *)
(* apply_rec or ite_rec that has not returned. Any bdd_makenode on the way *)
(* may collect, resize, fail, or jump back to the start of the operation   *)
(* to reorder the variables. The program keeps or drops each result.       *)
(***************************************************************************)
EXTENDS NodeTable

CONSTANTS
  CacheSize,   (* entries of an operator cache, a prime                    *)
  Script       (* bound: the operators the program may ask for, call by call *)

Binary    == {"and", "xor", "or", "nand", "nor", "imp", "biimp", "diff", "less", "invimp"}
Operators == Binary \cup {"not", "ite"}

ASSUME CacheAssumption  == CacheSize \in Nat \ {0} /\ IsPrime(CacheSize)
ASSUME ScriptAssumption == Script \in Seq(SUBSET Operators)
ASSUME RoomAssumption   == InitSize >= 2 * MaxVars + 2   \* for the variables

VARIABLES
  frames,   (* the calls of the recursion, outermost first                 *)
  result,   (* what the outermost call has returned                        *)
  cache,    (* applycache and itecache                                     *)
  call,     (* the operation: where it is, operator, operands, and the     *)
            (* history want: the function asked for                        *)
  first,    (* firstReorder                                                *)
  calls     (* bound: operations asked for so far                          *)

machine == <<frames, result, cache, call, first, calls>>
all     == <<vars, machine>>

Arity(op) == CASE op = "not" -> 1 [] op \in Binary -> 2 [] op = "ite" -> 3

-----------------------------------------------------------------------------
(* Operators without the graph.                                            *)

(* oprres[op][left<<1 | right].                                            *)
OprRes ==
  [and  |-> <<0, 0, 0, 1>>, xor   |-> <<0, 1, 1, 0>>, or     |-> <<0, 1, 1, 1>>,
   nand |-> <<1, 1, 1, 0>>, nor   |-> <<1, 0, 0, 0>>, imp    |-> <<1, 1, 0, 1>>,
   biimp |-> <<1, 0, 0, 1>>, diff |-> <<0, 0, 1, 0>>, less   |-> <<0, 1, 0, 0>>,
   invimp |-> <<1, 0, 1, 1>>]

When(condition, n) == IF condition THEN {n} ELSE {}

ShortcutsImpUnordered(op, a) ==
  LET l == a[1]
      r == a[Len(a)]
  IN  CASE op = "and"  -> When(l = r, l) \cup When(0 \in {l, r}, 0)
                            \cup When(l = 1, r) \cup When(r = 1, l)
        [] op = "or"   -> When(l = r, l) \cup When(1 \in {l, r}, 1)
                            \cup When(l = 0, r) \cup When(r = 0, l)
        [] op = "xor"  -> When(l = r, 0) \cup When(l = 0, r) \cup When(r = 0, l)
        [] op = "nand" -> When(0 \in {l, r}, 1)
        [] op = "nor"  -> When(1 \in {l, r}, 0)
        [] op = "imp"  -> When(l = 0, 1) \cup When(l = 1, r) \cup When(r = 0, 1)
        [] op = "not"  -> When(l \in Terminal, 1 - l)
        [] op = "ite"  -> When(l = 1, a[2]) \cup When(l = 0, r)
                            \cup When(a[2] = r, r) \cup When(a[2] = 1 /\ r = 0, l)
        [] OTHER       -> {}

(* The answers at the head of apply_rec, not_rec and ite_rec. Where two    *)
(* tests hold they give the same node.                                     *)
Shortcuts(op, a) ==
  LET l == a[1]
      r == a[Len(a)]
  IN  CASE op = "and"  -> When(l = r, l) \cup When(0 \in {l, r}, 0)
                            \cup When(l = 1, r) \cup When(r = 1, l)
        [] op = "or"   -> When(l = r, l) \cup When(1 \in {l, r}, 1)
                            \cup When(l = 0, r) \cup When(r = 0, l)
        [] op = "xor"  -> When(l = r, 0) \cup When(l = 0, r) \cup When(r = 0, l)
        [] op = "nand" -> When(0 \in {l, r}, 1)
        [] op = "nor"  -> When(1 \in {l, r}, 0)
        [] op = "imp"  -> When(l = 0, 1) \cup When(l = 1, r) \cup When(r = 1, 1)
        [] op = "not"  -> When(l \in Terminal, 1 - l)
        [] op = "ite"  -> When(l = 1, a[2]) \cup When(l = 0, r)
                            \cup When(a[2] = r, r) \cup When(a[2] = 1 /\ r = 0, l)
        [] OTHER       -> {}

(* Two constants that no shortcut of the operator catches.                 *)
Constant(op, a) ==
  When(op \in Binary /\ {a[1], a[Len(a)]} \subseteq Terminal, OprRes[op][2 * a[1] + a[Len(a)] + 1])

Immediate(op, a) == IF Shortcuts(op, a) # {} THEN Shortcuts(op, a) ELSE Constant(op, a)

(* ite_rec hands if-then-0-else-1 over to not_rec.                         *)
IsNegation(op, a) == op = "ite" /\ a[2] = 0 /\ a[3] = 1

-----------------------------------------------------------------------------
(* The operator caches: one entry an index, overwritten by the next result.*)

NoEntry    == [op |-> "none", args |-> << >>, res |-> 0]
EmptyCache == [c \in {"apply", "ite"} |-> [i \in 0..(CacheSize - 1) |-> NoEntry]]

CacheOf(op) == IF op = "ite" THEN "ite" ELSE "apply"
Pair(a, b)  == ((a + b) * (a + b + 1)) \div 2 + a

OpCode ==
  [and |-> 0, xor |-> 1, or |-> 2, nand |-> 3, nor |-> 4, imp |-> 5, biimp |-> 6,
   diff |-> 7, less |-> 8, invimp |-> 9]

(* NOTHASH, APPLYHASH and ITEHASH.                                         *)
CacheIndex(op, a) ==
  (CASE op = "not"     -> a[1]
     [] op = "ite"     -> Pair(a[3], Pair(a[1], a[2]))
     [] op \in Binary  -> Pair(OpCode[op], Pair(a[1], a[2]))) % CacheSize

Entry(op, a) == cache[CacheOf(op)][CacheIndex(op, a)]

HitOperandsOnly(op, a) == Entry(op, a).args = a

(* The entry was made for the same operator and the same operands.         *)
Hit(op, a) == Entry(op, a).op = op /\ Entry(op, a).args = a

Stored(caches, op, a, res) ==
  [caches EXCEPT ![CacheOf(op)][CacheIndex(op, a)] = [op |-> op, args |-> a, res |-> res]]

-----------------------------------------------------------------------------
(* One call of a recursion.                                                *)

NewFrame(op, a) == [op |-> op, args |-> a, step |-> "enter"]
Top == frames[Len(frames)]

TopLevel(a) == Minimum({LevelOf(a[i]) : i \in 1..Len(a)})

(* The operands of the recursive call on the low or the high side.         *)
Cofactor(a, side) ==
  [i \in 1..Len(a) |->
     IF LevelOf(a[i]) = TopLevel(a) THEN node[a[i]][side] ELSE a[i]]

(* The frames below the top one when it returns: its caller goes on.       *)
Resumed ==
  LET parent == frames[Len(frames) - 1]
      rest   == SubSeq(frames, 1, Len(frames) - 2)
  IN  IF parent.step = "low"
      THEN rest \o <<[parent EXCEPT !.step = "high"],
                     NewFrame(parent.op, Cofactor(parent.args, "high"))>>
      ELSE rest \o <<[parent EXCEPT !.step = "make"]>>

(* The top call returns n to its caller, which does PUSHREF(n), or ends    *)
(* the recursion.                                                          *)
Return(n, stack) ==
  IF Len(frames) = 1
  THEN /\ frames' = << >>
       /\ result' = n
       /\ refstack' = stack
  ELSE /\ frames' = Resumed
       /\ refstack' = Append(stack, n)
       /\ UNCHANGED result

Running == call.at = "running"
At(step) == Running /\ frames # << >> /\ Top.step = step

(* A constant, a shortcut or a cache entry answers at once.                *)
Answered ==
  /\ At("enter")
  /\ LET now == Immediate(Top.op, Top.args)
     IN  \/ \E n \in now : Return(n, refstack)
         \/ /\ now = {} /\ ~ IsNegation(Top.op, Top.args)
            /\ Hit(Top.op, Top.args)
            /\ Return(Entry(Top.op, Top.args).res, refstack)
  /\ UNCHANGED <<table, varnum, varset, growing, reorder, held, raised, cache, call, first, calls>>

Negated ==
  /\ At("enter")
  /\ Immediate(Top.op, Top.args) = {} /\ IsNegation(Top.op, Top.args)
  /\ frames' = [frames EXCEPT ![Len(frames)] = NewFrame("not", <<Top.args[1]>>)]
  /\ UNCHANGED <<vars, result, cache, call, first, calls>>

Descend ==
  /\ At("enter")
  /\ Immediate(Top.op, Top.args) = {}
  /\ ~ IsNegation(Top.op, Top.args) /\ ~ Hit(Top.op, Top.args)
  /\ frames' = Append([frames EXCEPT ![Len(frames)].step = "low"],
                      NewFrame(Top.op, Cofactor(Top.args, "low")))
  /\ UNCHANGED <<vars, result, cache, call, first, calls>>

Low  == refstack[Len(refstack) - 1]    (* READREF(2) *)
High == refstack[Len(refstack)]        (* READREF(1) *)

(* bdd_makenode is about to collect.                                       *)
Collects == Missing(TopLevel(Top.args), Low, High) /\ free = {} /\ ~ errorcond

(* POPREF(2).                                                              *)
Popped == SubSeq(refstack, 1, Len(refstack) - 2)

CacheKept == cache

(* bdd_gbc empties the operator caches.                                    *)
CacheAfterMake == IF Collects THEN EmptyCache ELSE cache

(* res = bdd_makenode(..., READREF(2), READREF(1)), POPREF(2), and the     *)
(* cache entry: also when bdd_makenode has failed and res is 0.            *)
Make ==
  /\ At("make")
  /\ ~ (Collects /\ Interrupts)
  /\ MakeNode(TopLevel(Top.args), Low, High)
  /\ LET res == Answer(TopLevel(Top.args), Low, High)
     IN  /\ cache' = Stored(CacheAfterMake, Top.op, Top.args, res)
         /\ Return(res, Popped)
  /\ UNCHANGED <<varnum, varset, growing, reorder, call, first, calls>>

InterruptedAgain ==
  /\ At("make")
  /\ Collects /\ Interrupts
  /\ node' = Reordered
  /\ raised' = Raised
  /\ free' = Slots \ Survivors
  /\ refstack' = << >>
  /\ cache' = EmptyCache
  /\ first' = 0
  /\ frames' = <<NewFrame(call.op, call.args)>>
  /\ UNCHANGED <<size, maxsize, errorcond, varnum, varset, growing, reorder, held, result, call, calls>>

(* Automatic reordering while the operation runs a second time.            *)
Restarted(next) == [reorder EXCEPT !.next = next, !.disabled = TRUE]

(* bdd_makenode collects and jumps out of the recursion, which loses its   *)
(* frames and the reference stack. The program's variables are reordered   *)
(* (see OpInterrupted of NodeTable) and the operation starts again, once.  *)
Interrupted ==
  /\ At("make")
  /\ Collects /\ Interrupts
  /\ node' = Reordered
  /\ raised' = Raised
  /\ free' = Slots \ Survivors
  /\ refstack' = << >>
  /\ cache' = EmptyCache
  /\ first' = first - 1
  /\ LET next == Minimum({4 * (size - Cardinality(Slots \ Survivors)), MaxNext})
     IN  IF first = 1
         THEN /\ frames' = <<NewFrame(call.op, call.args)>>
              /\ reorder' = Restarted(next)
              /\ UNCHANGED result
         ELSE /\ frames' = << >> /\ result' = FALSEBDD
              /\ reorder' = [reorder EXCEPT !.next = next]
  /\ UNCHANGED <<size, maxsize, errorcond, varnum, varset, growing, held, call, calls>>

(* The operation returns; one that started again enables reordering.       *)
Finish ==
  /\ Running /\ frames = << >>
  /\ call' = [call EXCEPT !.at = "done"]
  /\ reorder' = [reorder EXCEPT !.disabled = @ /\ first # 0]
  /\ UNCHANGED <<table, refstack, varnum, varset, growing, held, raised, frames, result, cache, first, calls>>

-----------------------------------------------------------------------------
(* What is asked for, and what the nodes mean.                             *)

(* An assignment is the set of the variables that are true.                *)
Assignments == SUBSET (0..(varnum - 1))

(* The function of each node: the assignments that make it true.           *)
Function ==
  LET sat[n \in 0..(size - 1)] ==
        IF n \in Used
        THEN {s \in sat[node[n].low]  : LevelOf(n) \notin s}
               \cup {s \in sat[node[n].high] : LevelOf(n) \in s}
        ELSE IF n = TRUEBDD THEN Assignments ELSE {}
  IN  sat

(* The truth tables of the documentation of bdd_apply, bdd_not, bdd_ite.   *)
Truth(op, b) ==
  CASE op = "and"    -> b[1] /\ b[2]
    [] op = "xor"    -> b[1] # b[2]
    [] op = "or"     -> b[1] \/ b[2]
    [] op = "nand"   -> ~ (b[1] /\ b[2])
    [] op = "nor"    -> ~ (b[1] \/ b[2])
    [] op = "imp"    -> b[1] => b[2]
    [] op = "biimp"  -> b[1] = b[2]
    [] op = "diff"   -> b[1] /\ ~ b[2]
    [] op = "less"   -> ~ b[1] /\ b[2]
    [] op = "invimp" -> b[2] => b[1]
    [] op = "not"    -> ~ b[1]
    [] op = "ite"    -> IF b[1] THEN b[2] ELSE b[3]

Wanted(op, a) ==
  LET f == Function
  IN  {s \in Assignments : Truth(op, [i \in 1..Len(a) |-> s \in f[a[i]]])}

-----------------------------------------------------------------------------
(* The program.                                                            *)

NoCall == [at |-> "idle", op |-> "none", args |-> << >>, want |-> {}]

(* Bound: operands are positive variables and what the program holds, one  *)
(* of them different from the next.                                        *)
Operands == {varset[v][1] : v \in 0..(varnum - 1)} \cup {n \in Slots : held[n] > 0}
OperandLists(k) == {a \in [1..k -> Operands] : \A i, j \in 1..k : i # j => a[i] # a[j]}

(* bdd_apply, bdd_not or bdd_ite is called: INITREF.                       *)
Ask(op, a) ==
  /\ call.at = "idle"
  /\ calls < Len(Script) /\ op \in Script[calls + 1]
  /\ call' = [at |-> "running", op |-> op, args |-> a, want |-> Wanted(op, a)]
  /\ calls' = calls + 1
  /\ frames' = <<NewFrame(op, a)>>
  /\ refstack' = << >>
  /\ first' = 1
  /\ UNCHANGED <<table, varnum, varset, growing, reorder, held, raised, result, cache>>

Dismiss == call' = NoCall /\ result' = FALSEBDD /\ UNCHANGED <<frames, cache, first, calls>>

(* bdd_addref(result).                                                     *)
Keep ==
  /\ call.at = "done" /\ ~ errorcond
  /\ AddRef(result)
  /\ Dismiss

Drop ==
  /\ call.at = "done"
  /\ Dismiss
  /\ UNCHANGED vars

Release(n) ==
  /\ call.at = "idle"
  /\ DelRef(n)
  /\ UNCHANGED machine

(* bdd_gbc and bdd_clear_error reset the caches as well.                   *)
Collect ==
  /\ call.at = "idle"
  /\ Gbc
  /\ cache' = EmptyCache
  /\ UNCHANGED <<frames, result, call, first, calls>>

ForgetError ==
  /\ call.at = "idle" /\ errorcond
  /\ ClearError
  /\ cache' = EmptyCache
  /\ UNCHANGED <<frames, result, call, first, calls>>

(* Bound: the program sets up automatic reordering before its first call.  *)
Tune(setting) ==
  /\ call.at = "idle" /\ calls = 0
  /\ SetReorder(setting)
  /\ UNCHANGED machine

-----------------------------------------------------------------------------
(* After bdd_init, bdd_setmaxnodenum and bdd_setvarnum(MaxVars).           *)
VariableNode(n) ==
  [refcou |-> MaxRef, level |-> (n - 2) \div 2, low |-> n % 2, high |-> 1 - (n % 2)]

ApplyInit ==
  /\ size = InitSize
  /\ node = [n \in 0..(InitSize - 1) |->
       CASE n \in Terminal -> [TerminalNode(n) EXCEPT !.level = MaxVars]
         [] n \in 2..(2 * MaxVars + 1) -> VariableNode(n)
         [] n > 2 * MaxVars + 1 -> FreeNode]
  /\ free = (2 * MaxVars + 2)..(InitSize - 1)
  /\ maxsize \in Limits
  /\ errorcond = FALSE
  /\ refstack = << >>
  /\ varnum = MaxVars
  /\ varset = [v \in 0..(MaxVars - 1) |-> <<2 * v + 2, 2 * v + 3>>]
  /\ growing = Idle
  /\ reorder = [method |-> FALSE, disabled |-> FALSE, next |-> InitSize]
  /\ held = [n \in 0..(InitSize - 1) |-> 0]
  /\ raised = [n \in 0..(InitSize - 1) |-> 0]
  /\ frames = << >> /\ result = FALSEBDD /\ cache = EmptyCache
  /\ call = NoCall /\ first = 1 /\ calls = 0

RecursionStep == Answered \/ Negated \/ Descend \/ Make \/ Interrupted \/ Finish

CallStep ==
  \/ \E op \in Operators : \E a \in OperandLists(Arity(op)) : Ask(op, a)
  \/ Keep
  \/ Drop
  \/ \E n \in Slots : Release(n)
  \/ Collect
  \/ ForgetError
  \/ \E setting \in ReorderCalls : Tune(setting)

ApplyNext == RecursionStep \/ CallStep

(* An operation that has been called runs on; the program may stop.        *)
ApplySpec == ApplyInit /\ [][ApplyNext]_all /\ WF_all(RecursionStep)

-----------------------------------------------------------------------------
(* Properties.                                                             *)

(* An operation that has met no error returns the function its operands    *)
(* had when it was called ("The result of the operation", bddop.c), after  *)
(* any number of collections, resizes, cache hits and a jump to reorder.   *)
ResultRight ==
  call.at = "done" /\ ~ errorcond =>
    result \in Terminal \cup Used /\ Function[result] = call.want

(* A cache entry is about nodes in use and right about their functions, as *)
(* long as no error has been raised since the caches were last reset.      *)
CacheCoherent ==
  LET f == Function
  IN  ~ errorcond =>
        \A c \in {"apply", "ite"}, i \in 0..(CacheSize - 1) :
          LET e == cache[c][i]
          IN  e # NoEntry =>
                /\ {e.args[k] : k \in 1..Len(e.args)} \cup {e.res} \subseteq Terminal \cup Used
                /\ f[e.res] = Wanted(e.op, e.args)

Pushed(frame) == CASE frame.step \in {"enter", "low"} -> 0 [] frame.step = "high" -> 1
                   [] frame.step = "make" -> 2

(* The length of the reference stack below the results of the i-th frame.  *)
PushedBelow ==
  LET pushed[i \in 1..(Len(frames) + 1)] ==
        IF i = 1 THEN 0 ELSE pushed[i - 1] + Pushed(frames[i - 1])
  IN  pushed

(* Between two steps the reference stack holds one result for every call   *)
(* that has done its low side and two for one that is about to make its    *)
(* node, and so never outgrows the 2 * num + 4 entries of bdd_setvarnum.   *)
StackExact ==
  /\ Len(refstack) = PushedBelow[Len(frames) + 1]
  /\ Len(refstack) <= 2 * varnum + 4

(* Whatever has been collected, resized or found in a cache since, every   *)
(* call that has done its low side finds at its place in the stack a node  *)
(* in use with the function of its low cofactors, and above it that of its *)
(* high cofactors once it is about to make its node.                       *)
PartialResultsRight ==
  LET f     == Function
      below == PushedBelow
  IN  ~ errorcond =>
        \A i \in 1..Len(frames), side \in {"low", "high"} :
          LET place == below[i] + (IF side = "low" THEN 1 ELSE 2)
          IN  Pushed(frames[i]) >= place - below[i] =>
                /\ refstack[place] \in Terminal \cup Used
                /\ f[refstack[place]] = Wanted(frames[i].op, Cofactor(frames[i].args, side))

(* The stack holds the results of the calls that wait and nothing else, at *)
(* their places: collections keep what a call will use.                    *)
StackRight == StackExact /\ PartialResultsRight

(* Every operation that is called returns, reordered in between or not.    *)
Returns == (call.at = "running") ~> (call.at = "done")
=============================================================================
