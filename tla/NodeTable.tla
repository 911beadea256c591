------------------------------ MODULE NodeTable ------------------------------
(***************************************************************************)
(* The node table of the BDD kernel (src/src/kernel.c): the array bddnodes *)
(* with its reference counts, the free list, the internal reference stack  *)
(* that protects intermediate results, and the functions that change them: *)
(* bdd_makenode, bdd_gbc, bdd_noderesize, bdd_addref, bdd_delref,          *)
(* bdd_setvarnum, bdd_setmaxnodenum and bdd_clear_error.                   *)
(*                                                                         *)
(* The clients of the table (the recursions of bddop.c and the program     *)
(* that calls the package) are the most general ones that keep its rules:  *)
(* a child given to bdd_makenode is protected by the reference stack or by *)
(* a counted reference, and only the holder of a reference gives it back.  *)
(*                                                                         *)
(* The hash chains of the unique table are the set of used nodes here;     *)
(* module HashedTable has the chains and the linked free list, and         *)
(* implements this module.                                                 *)
(***************************************************************************)
EXTENDS Integers, Sequences, FiniteSets

CONSTANTS
  InitSize,     (* size of the table bdd_init allocates, a prime           *)
  MaxRef,       (* MAXREF, where a reference count saturates               *)
  MinFree,      (* minfreenodes, in per cent                               *)
  MaxIncrease,  (* bddmaxnodeincrease                                      *)
  Limits,       (* values given to bdd_setmaxnodenum, 0 is "unlimited"     *)
  MaxVars,      (* bound: variables the program asks for                   *)
  VarNums,      (* the numbers of variables it asks for, one after another *)
  ReorderCalls, (* settings made by bdd_autoreorder, bdd_disable_reorder   *)
                (* and bdd_enable_reorder                                  *)
  MaxNext,      (* bound: greatest usednodes_nextreorder told apart        *)
  LowChildren,  (* bound: low children of the nodes operations ask for     *)
  MaxHandles,   (* bound: nodes the program holds references on            *)
  MaxHeld,      (* bound: references the program holds on one node         *)
  MaxStack      (* bound: entries of the reference stack                   *)

(* bdd_prime_gte and bdd_prime_lte give the table its size.                *)
IsPrime(p) == p > 1 /\ \A d \in 2..(p - 1) : p % d # 0

ASSUME SizeAssumption  == InitSize \in Nat /\ InitSize > 2 /\ IsPrime(InitSize)
ASSUME RefAssumption   == MaxRef \in Nat \ {0}
ASSUME TuneAssumption  == MinFree \in 0..100 /\ MaxIncrease \in Nat
ASSUME LimitAssumption == Limits \subseteq Nat
ASSUME CallAssumption  == ReorderCalls \subseteq [method : BOOLEAN, disabled : BOOLEAN]
ASSUME BoundAssumption == MaxNext \in Nat /\ MaxVars \in Nat /\ VarNums \subseteq 1..MaxVars

VARIABLES
  size,       (* bddnodesize                                               *)
  node,       (* bddnodes[]: refcou, level, low and high of every slot     *)
  free,       (* the slots on the free list, taken lowest first            *)
  maxsize,    (* bddmaxnodesize                                            *)
  errorcond,  (* bdderrorcond # 0                                          *)
  refstack,   (* bddrefstack[] up to bddrefstacktop                        *)
  varnum,     (* bddvarnum                                                 *)
  varset,     (* bddvarset[]: the nodes <<x, not x>> of each variable      *)
  growing,    (* progress of bdd_setvarnum: step, target, bddvarnum before *)
  reorder,    (* automatic reordering: a method set, bddreorderdisabled,   *)
              (* and usednodes_nextreorder                                 *)
  held,       (* history: references the program holds on each slot        *)
  raised      (* history: what reorderings have added to its count         *)

table == <<size, node, free, maxsize, errorcond>>
vars  == <<table, refstack, varnum, varset, growing, reorder, held, raised>>

FALSEBDD == 0
TRUEBDD  == 1
Terminal == {FALSEBDD, TRUEBDD}

(* LOW(n) = -1 marks a slot of the free list; the other fields of such a   *)
(* slot are never read before bdd_makenode has set them again.             *)
FreeLow  == -1
FreeNode == [refcou |-> 0, level |-> 0, low |-> FreeLow, high |-> 0]
Idle     == [step |-> "idle", target |-> 0, before |-> 0]

Slots == 2..(size - 1)
Used  == {n \in Slots : node[n].low # FreeLow}

Children(n)  == {node[n].low, node[n].high} \ Terminal
OnStack      == {refstack[i] : i \in 1..Len(refstack)} \ Terminal
Counted      == {n \in Used : node[n].refcou > 0}

Minimum(S) == CHOOSE x \in S : \A y \in S : x <= y

-----------------------------------------------------------------------------
(* Garbage collection.                                                     *)

ClosedUnderChildren(S) == \A n \in S : Children(n) \subseteq S

(* What bdd_mark reaches from a set of roots: the slots in every set of    *)
(* used nodes that holds the roots and the children of its members.        *)
MarkedFrom(roots) ==
  LET closed == {S \in SUBSET (Used \ roots) : ClosedUnderChildren(S \cup roots)}
  IN  roots \cup {n \in Used \ roots : \A S \in closed : n \in S}

(* What reorder_init keeps: it looks at the counts, not at the stack.       *)
Survivors == MarkedFrom(Counted)

MarkedShallow == Counted \cup (OnStack \cap Used)

(* bdd_gbc marks from the reference stack and from every counted node.     *)
Marked == MarkedFrom(Counted \cup (OnStack \cap Used))

Kept(S) == [n \in 0..(size - 1) |-> IF n \in Terminal \cup S THEN node[n] ELSE FreeNode]

(* The table and the free list bdd_gbc leaves.                             *)
Collected == Kept(Marked)
ReclaimedUncounted == Slots \ Counted
Reclaimed == Slots \ Marked

-----------------------------------------------------------------------------
(* The counts a reordering leaves: mark_roots adds to the count of every   *)
(* node the edges from all nodes that are kept, and at the end reorder_done*)
(* sets to zero only the counts of nodes that had none before.             *)

Saturated(count) == IF count < MaxRef THEN count ELSE MaxRef

EdgesTo(n) == Cardinality({m \in Survivors : n \in Children(m)})

ReorderedAllCounted ==
  [n \in 0..(size - 1) |->
     IF n \in Survivors THEN [node[n] EXCEPT !.refcou = Saturated(@ + EdgesTo(n))]
     ELSE Kept(Survivors)[n]]

Reordered ==
  [n \in 0..(size - 1) |->
     IF n \in Counted THEN [node[n] EXCEPT !.refcou = Saturated(@ + EdgesTo(n))]
     ELSE Kept(Survivors)[n]]

(* What reorderings have added to the counts that are not saturated.       *)
Raised ==
  [n \in 0..(size - 1) |->
     IF n \in Counted /\ node[n].refcou < MaxRef THEN Saturated(raised[n] + EdgesTo(n))
     ELSE raised[n]]

-----------------------------------------------------------------------------
(* Resizing: bdd_noderesize(1) after a collection.                         *)

MayGrow == ~ (size >= maxsize /\ maxsize > 0)

GrowthCap ==
  Minimum({2 * size, size + MaxIncrease} \cup (IF maxsize > 0 THEN {maxsize} ELSE {}))

(* The sizes a resize may give the table: the greatest prime up to the cap.*)
NewSizes ==
  {s \in size..GrowthCap : IsPrime(s) /\ \A q \in (s + 1)..GrowthCap : ~ IsPrime(q)}

Scarce == (Cardinality(Reclaimed) * 100) \div size <= MinFree

SizesUngrown == {size}

(* Sizes after the collection of a bdd_makenode that found no free slot.   *)
SizesAfterCollection == IF Scarce /\ MayGrow THEN NewSizes ELSE {size}

Grown(s, nodes) ==
  [n \in 0..(s - 1) |-> IF n < size THEN nodes[n] ELSE FreeNode]

-----------------------------------------------------------------------------
(* When a collection is followed by a jump out of the operation, to        *)
(* reorder the variables: bdd_reorder_ready and the threshold.             *)
(* reorder.method stands for "a method, a variable block and reorderings   *)
(* left to do".                                                            *)

ReorderReady == reorder.method /\ ~ reorder.disabled

Interrupts == size - Cardinality(Reclaimed) >= reorder.next /\ ReorderReady

-----------------------------------------------------------------------------
(* bdd_makenode(l, lo, hi). Its outcomes exclude each other; each sets the *)
(* table, and leaves the other variables to the caller.                    *)

FindLive(l, lo, hi) ==
  {n \in Counted : node[n].level = l /\ node[n].low = lo /\ node[n].high = hi}

(* The hash lookup: the used nodes with this level and these children.     *)
Find(l, lo, hi) ==
  {n \in Used : node[n].level = l /\ node[n].low = lo /\ node[n].high = hi}

Missing(l, lo, hi) == lo # hi /\ Find(l, lo, hi) = {}

(* The slots on the free list after a collection and a resize to s.        *)
SlotsAfterCollection(s) == Reclaimed \cup size..(s - 1)

InsertKeepingFree(l, lo, hi, nodes, slots) ==
  LET r == Minimum(slots) IN
  /\ node' = [nodes EXCEPT ![r] =
               [refcou |-> nodes[r].refcou, level |-> l, low |-> lo, high |-> hi]]
  /\ free' = slots

(* Take the first slot of the free list and fill it; refcou is left alone. *)
Insert(l, lo, hi, nodes, slots) ==
  LET r == Minimum(slots) IN
  /\ node' = [nodes EXCEPT ![r] =
               [refcou |-> nodes[r].refcou, level |-> l, low |-> lo, high |-> hi]]
  /\ free' = slots \ {r}

(* Equal children, or a node that is in the table already, live or dead.   *)
Found(l, lo, hi) ==
  /\ ~ Missing(l, lo, hi)
  /\ UNCHANGED <<table, held, raised>>

Fresh(l, lo, hi) ==
  /\ Missing(l, lo, hi)
  /\ free # {}
  /\ Insert(l, lo, hi, node, free)
  /\ UNCHANGED <<size, maxsize, errorcond, held, raised>>

(* No free slot and an error already raised: nothing is tried again.       *)
Refused(l, lo, hi) ==
  /\ Missing(l, lo, hi)
  /\ free = {} /\ errorcond
  /\ UNCHANGED <<table, held, raised>>

(* No free slot: collect, grow if few slots came free, then insert.        *)
Recycled(l, lo, hi) ==
  /\ Missing(l, lo, hi)
  /\ free = {} /\ ~ errorcond /\ ~ Interrupts
  /\ \E s \in SizesAfterCollection :
       /\ SlotsAfterCollection(s) # {}
       /\ size' = s
       /\ Insert(l, lo, hi, Grown(s, Collected), SlotsAfterCollection(s))
       /\ held'   = [n \in 0..(s - 1) |-> IF n < size THEN held[n] ELSE 0]
       /\ raised' = [n \in 0..(s - 1) |-> IF n < size THEN raised[n] ELSE 0]
  /\ UNCHANGED <<maxsize, errorcond>>

(* Nothing to collect and no room to grow: BDD_NODENUM.                    *)
Exhausted(l, lo, hi) ==
  /\ Missing(l, lo, hi)
  /\ free = {} /\ ~ errorcond /\ ~ Interrupts
  /\ \E s \in SizesAfterCollection :
       /\ SlotsAfterCollection(s) = {}
       /\ size' = s
       /\ node' = Grown(s, Collected)
  /\ free' = {}
  /\ errorcond' = TRUE
  /\ UNCHANGED <<maxsize, held, raised>>

MakeNode(l, lo, hi) ==
  \/ Found(l, lo, hi)
  \/ Fresh(l, lo, hi)
  \/ Refused(l, lo, hi)
  \/ Recycled(l, lo, hi)
  \/ Exhausted(l, lo, hi)

(* The node number it returns.                                             *)
Answer(l, lo, hi) ==
  CASE lo = hi -> lo
    [] lo # hi /\ Find(l, lo, hi) # {}  -> CHOOSE n \in Find(l, lo, hi) : TRUE
    [] Missing(l, lo, hi) /\ free # {}  -> Minimum(free)
    [] Missing(l, lo, hi) /\ free = {}  ->
         LET slots == UNION {SlotsAfterCollection(s) : s \in SizesAfterCollection}
         IN  IF errorcond \/ slots = {} THEN FALSEBDD ELSE Minimum(slots)

-----------------------------------------------------------------------------
(* What the recursions of bddop.c do with the table.                       *)

LevelOf(n) == node[n].level

(* Nodes a client may name: what a counted reference or the stack protects,*)
(* less the nodes of variables that an abandoned bdd_setvarnum left behind.*)
Protected == Terminal \cup {n \in Marked : node[n].level < varnum}

Quiet == growing.step = "idle"

(* A bdd_makenode an operation may ask for: the children are protected and *)
(* lie below level l. LowChildren bounds the functions that are asked for. *)
Legal(l, lo, hi) ==
  /\ l < LevelOf(lo) /\ l < LevelOf(hi)
  /\ lo \in LowChildren
  /\ hi \in Terminal \/ node[hi].low \in LowChildren

(* res = bdd_makenode(...), with a result nobody keeps.                    *)
OpMakeNode(l, lo, hi) ==
  /\ Quiet
  /\ Legal(l, lo, hi)
  /\ MakeNode(l, lo, hi)
  /\ UNCHANGED <<refstack, varnum, varset, growing, reorder>>

(* PUSHREF(bdd_makenode(...)): the result stays protected. An entry that   *)
(* protects nothing new is left out.                                       *)
OpPushNode(l, lo, hi) ==
  /\ Quiet
  /\ Legal(l, lo, hi)
  /\ Len(refstack) < MaxStack
  /\ Answer(l, lo, hi) \notin Protected
  /\ MakeNode(l, lo, hi)
  /\ refstack' = Append(refstack, Answer(l, lo, hi))
  /\ UNCHANGED <<varnum, varset, growing, reorder>>

(* bdd_makenode collects and jumps to the operation's setjmp, which calls  *)
(* bdd_checkreorder and starts again with an empty stack. The reordering   *)
(* drops what is only stacked and leaves raised counts behind; its         *)
(* exchanges are in module Reorder: here it finds the order good as it is, *)
(* and with no gain the next one waits for four times the nodes now in use.*)
OpInterrupted(l, lo, hi) ==
  /\ Quiet
  /\ Legal(l, lo, hi)
  /\ Missing(l, lo, hi)
  /\ free = {} /\ ~ errorcond /\ Interrupts
  /\ node' = Reordered
  /\ raised' = Raised
  /\ free' = Slots \ Survivors
  /\ refstack' = << >>
  /\ reorder' = [reorder EXCEPT
       !.next = Minimum({4 * (size - Cardinality(Slots \ Survivors)), MaxNext})]
  /\ UNCHANGED <<size, maxsize, errorcond, varnum, varset, growing, held>>

(* POPREF(1).                                                              *)
OpPopRef ==
  /\ Quiet
  /\ refstack # << >>
  /\ refstack' = SubSeq(refstack, 1, Len(refstack) - 1)
  /\ UNCHANGED <<table, varnum, varset, growing, reorder, held, raised>>

-----------------------------------------------------------------------------
(* What the program that uses the package does.                            *)

AddRefUnsaturated(n) ==
  /\ Quiet
  /\ held[n] > 0 \/ node[n].refcou < MaxRef
  /\ held[n] < MaxHeld
  /\ held[n] > 0 \/ Cardinality({m \in Slots : held[m] > 0}) < MaxHandles
  /\ held' = [held EXCEPT ![n] = @ + 1]
  /\ node' = [node EXCEPT ![n].refcou = @ + 1]
  /\ UNCHANGED <<size, free, maxsize, errorcond, refstack, varnum, varset, growing, reorder, raised>>

(* bdd_addref, INCREF. A count at MAXREF stays there; first references to  *)
(* such a node, above all to the nodes of the variables, are left out.     *)
AddRef(n) ==
  /\ Quiet
  /\ held[n] > 0 \/ node[n].refcou < MaxRef
  /\ held[n] < MaxHeld
  /\ held[n] > 0 \/ Cardinality({m \in Slots : held[m] > 0}) < MaxHandles
  /\ held' = [held EXCEPT ![n] = @ + 1]
  /\ node' = [node EXCEPT ![n].refcou = IF @ < MaxRef THEN @ + 1 ELSE @]
  /\ UNCHANGED <<size, free, maxsize, errorcond, refstack, varnum, varset, growing, reorder, raised>>

DecrefAboveOne(count) == IF count # MaxRef /\ count > 1 THEN count - 1 ELSE count

(* What DECREF makes of a count: a saturated count is never decreased.     *)
Decref(count)         == IF count # MaxRef /\ count > 0 THEN count - 1 ELSE count

(* bdd_delref, by a holder of a reference.                                 *)
DelRef(n) ==
  /\ Quiet
  /\ n \in Used /\ held[n] > 0
  /\ held' = [held EXCEPT ![n] = @ - 1]
  /\ node' = [node EXCEPT ![n].refcou = Decref(@)]
  /\ UNCHANGED <<size, free, maxsize, errorcond, refstack, varnum, varset, growing, reorder, raised>>

(* bdd_gbc, called by the program.                                         *)
Gbc ==
  /\ Quiet
  /\ node' = Collected
  /\ free' = Reclaimed
  /\ UNCHANGED <<size, maxsize, errorcond, refstack, varnum, varset, growing, reorder, held, raised>>

SetMaxNodeNum(limit) ==
  /\ Quiet
  /\ limit > size \/ limit = 0
  /\ maxsize' = limit
  /\ UNCHANGED <<size, node, free, errorcond, refstack, varnum, varset, growing, reorder, held, raised>>

(* bdd_autoreorder with a method, bdd_disable_reorder, bdd_enable_reorder.  *)
SetReorder(call) ==
  /\ Quiet
  /\ reorder' = [reorder EXCEPT !.method = call.method, !.disabled = call.disabled]
  /\ UNCHANGED <<table, refstack, varnum, varset, growing, held, raised>>

ClearError ==
  /\ Quiet
  /\ errorcond' = FALSE
  /\ UNCHANGED <<size, node, free, maxsize, refstack, varnum, varset, growing, reorder, held, raised>>

-----------------------------------------------------------------------------
(* bdd_setvarnum: a loop of two bdd_makenode calls a variable.             *)

SetVarNum(num) ==
  /\ Quiet
  /\ varnum < num
  /\ growing' = [step |-> "pos", target |-> num, before |-> varnum]
  /\ reorder' = [reorder EXCEPT !.disabled = TRUE]
  /\ refstack' = << >>
  /\ UNCHANGED <<table, varnum, varset, held, raised>>

(* The early returns for a number that does not grow come after the call   *)
(* of bdd_disable_reorder.                                                 *)
SetVarNumRefused(num) ==
  /\ Quiet
  /\ num <= varnum
  /\ reorder' = [reorder EXCEPT !.disabled = TRUE]
  /\ UNCHANGED <<table, refstack, varnum, varset, growing, held, raised>>

GrowPos ==
  /\ growing.step = "pos"
  /\ MakeNode(varnum, FALSEBDD, TRUEBDD)
  /\ refstack' = <<Answer(varnum, FALSEBDD, TRUEBDD)>>
  /\ growing'  = [growing EXCEPT !.step = "neg"]
  /\ UNCHANGED <<varnum, varset, reorder>>

GrowNeg ==
  /\ growing.step = "neg"
  /\ MakeNode(varnum, TRUEBDD, FALSEBDD)
  /\ varset' = [varset EXCEPT ![varnum] = <<refstack[1], Answer(varnum, TRUEBDD, FALSEBDD)>>]
  /\ refstack' = << >>
  /\ growing'  = [growing EXCEPT !.step = "pin"]
  /\ UNCHANGED <<varnum, reorder>>

PinnedPositive == [node EXCEPT ![varset[varnum][1]].refcou = MaxRef]

(* The reference count of a variable's nodes is set to saturation.         *)
Pinned == [node EXCEPT ![varset[varnum][1]].refcou = MaxRef,
                       ![varset[varnum][2]].refcou = MaxRef]

(* An error leaves the loop with the old number of variables; the nodes of *)
(* the variables made before it stay in the table.                         *)
GrowAbandon ==
  /\ growing.step = "pin"
  /\ errorcond
  /\ varnum'  = growing.before
  /\ growing' = Idle
  /\ UNCHANGED <<table, refstack, varset, reorder, held, raised>>

GrowPin ==
  /\ growing.step = "pin"
  /\ ~ errorcond
  /\ varnum' = varnum + 1
  /\ IF varnum + 1 < growing.target
     THEN /\ node' = Pinned
          /\ growing' = [growing EXCEPT !.step = "pos"]
          /\ UNCHANGED reorder
     ELSE /\ node' = [Pinned EXCEPT ![FALSEBDD].level = growing.target,
                                    ![TRUEBDD].level  = growing.target]
          /\ growing' = Idle
          /\ reorder' = [reorder EXCEPT !.disabled = FALSE]
  /\ UNCHANGED <<size, free, maxsize, errorcond, refstack, varset, held, raised>>

-----------------------------------------------------------------------------
TerminalNode(n) == [refcou |-> MaxRef, level |-> 0, low |-> n, high |-> n]

(* bdd_init, and a bdd_setmaxnodenum right after it.                       *)
Init ==
  /\ size = InitSize
  /\ node = [n \in 0..(InitSize - 1) |-> IF n \in Terminal THEN TerminalNode(n) ELSE FreeNode]
  /\ free = 2..(InitSize - 1)
  /\ maxsize \in Limits
  /\ errorcond = FALSE
  /\ refstack = << >>
  /\ varnum = 0
  /\ varset = [v \in 0..(MaxVars - 1) |-> <<FALSEBDD, FALSEBDD>>]
  /\ growing = Idle
  /\ reorder = [method |-> FALSE, disabled |-> FALSE, next |-> InitSize]
  /\ held = [n \in 0..(InitSize - 1) |-> 0]
  /\ raised = [n \in 0..(InitSize - 1) |-> 0]

OperationStep ==
  LET known == Protected IN
  \/ \E l \in 0..(varnum - 1), lo \in known, hi \in known :
       OpMakeNode(l, lo, hi) \/ OpPushNode(l, lo, hi) \/ OpInterrupted(l, lo, hi)
  \/ OpPopRef

ProgramStep ==
  \/ \E n \in Protected \ Terminal : AddRef(n)
  \/ \E n \in Slots : DelRef(n)
  \/ Gbc
  \/ \E limit \in Limits : SetMaxNodeNum(limit)
  \/ \E call \in ReorderCalls : SetReorder(call)
  \/ ClearError

SetVarNumStep ==
  \/ \E num \in VarNums : SetVarNum(num) \/ SetVarNumRefused(num)
  \/ GrowPos \/ GrowNeg \/ GrowAbandon \/ GrowPin

Next == OperationStep \/ ProgramStep \/ SetVarNumStep

Spec == Init /\ [][Next]_vars

-----------------------------------------------------------------------------
(* Properties.                                                             *)

NodeType == [refcou : 0..MaxRef, level : Nat, low : Int, high : Int]

(* Every variable keeps to its type: counts within MAXREF, children and    *)
(* stack entries within the table.                                         *)
TypeOK ==
  /\ size \in Nat /\ size > 2 /\ IsPrime(size)
  /\ node \in [0..(size - 1) -> NodeType]
  /\ \A n \in 0..(size - 1) : node[n].low \in FreeLow..(size - 1) /\ node[n].high \in 0..(size - 1)
  /\ \A n \in Terminal : node[n].low = n /\ node[n].high = n
  /\ free \subseteq Slots
  /\ maxsize \in Limits
  /\ errorcond \in BOOLEAN
  /\ refstack \in Seq(0..(size - 1))
  /\ varnum \in 0..MaxVars
  /\ varset \in [0..(MaxVars - 1) -> (0..(size - 1)) \X (0..(size - 1))]
  /\ growing \in [step : {"idle", "pos", "neg", "pin"}, target : 0..MaxVars, before : 0..MaxVars]
  /\ reorder \in [method : BOOLEAN, disabled : BOOLEAN, next : Nat]
  /\ held \in [0..(size - 1) -> Nat]
  /\ raised \in [0..(size - 1) -> Nat]

(* The unique table is canonical: no two used slots have the same level    *)
(* and children, and none has equal children. Equality of functions is     *)
(* equality of node numbers only because of this (bdd_makenode).           *)
Canonical ==
  /\ \A m, n \in Used :
       (/\ node[m].level = node[n].level
        /\ node[m].low = node[n].low
        /\ node[m].high = node[n].high) => m = n
  /\ \A n \in Used : node[n].low # node[n].high

(* No collection leaves a used node, live or dead, with a child that is a  *)
(* free slot: a later bdd_makenode may still hand the dead node out again. *)
NoDanglingChild == \A n \in Used : Children(n) \subseteq Used

(* A node's children are below it in the variable order.                   *)
Ordered == \A n \in Used : \A c \in Children(n) : node[n].level < node[c].level

(* The free list holds exactly the slots with LOW = -1: bdd_makenode can   *)
(* neither overwrite a used node nor lose a free one.                      *)
FreeListExact == free = Slots \ Used

(* What the program or the reference stack holds is a used node, and a     *)
(* node held by the program has a count above zero however often counts    *)
(* saturated at MAXREF before.                                             *)
HeldNodesLive ==
  /\ \A n \in Slots : held[n] > 0 => n \in Used /\ node[n].refcou > 0
  /\ OnStack \subseteq Used

(* A count below saturation is the number of references the program holds  *)
(* and what reorderings have added to it, nothing else: before the first   *)
(* reordering a node everybody gave back can be reclaimed, and later one   *)
(* that had no node above it whenever variables were reordered. A node     *)
(* whose count was raised (reorder_done, reorder.c:1681) never can.        *)
CountsExact ==
  \A n \in Slots : node[n].refcou \in {held[n] + raised[n], MaxRef}

(* bdd_ithvar and bdd_nithvar answer the pinned nodes of the variable      *)
(* whatever was collected since bdd_setvarnum made them.                   *)
VariablesPinned ==
  \A v \in 0..(varnum - 1) :
    LET pos == varset[v][1]
        neg == varset[v][2]
    IN  /\ pos \in Used /\ neg \in Used
        /\ node[pos] = [refcou |-> MaxRef, level |-> v, low |-> FALSEBDD, high |-> TRUEBDD]
        /\ node[neg] = [refcou |-> MaxRef, level |-> v, low |-> TRUEBDD, high |-> FALSEBDD]

Content(n) == <<node[n].level, node[n].low, node[n].high>>

(* What is below a node that is counted, or stacked before and after.      *)
StillProtected == MarkedFrom(Counted \cup (OnStack \cap OnStack' \cap Used))

(* Collections, resizes and the reuse of slots leave the whole graph below *)
(* a counted node, and below one that stays stacked, as it is: the function*)
(* it stands for never changes.                                            *)
ProtectedGraphKept ==
  [][node' # node => \A n \in StillProtected : Content(n)' = Content(n)]_vars

(* BDD_NODENUM is raised only when every slot is in use by something that  *)
(* is still referenced and the table may not grow to a larger prime.       *)
ErrorOnlyWhenFull ==
  [][errorcond' /\ ~ errorcond => Marked = Slots /\ (MayGrow => NewSizes = {size})]_vars
=============================================================================
