----------------------------- MODULE HashedTable -----------------------------
(***************************************************************************)
(* The unique table as kernel.c lays it out: hash chains and the free list *)
(* share the "next" field of the slots, "hash" holds the head of a chain,  *)
(* bddfreepos the head of the free list and bddfreenum its length.         *)
(* bdd_gbc and bdd_gbc_rehash rebuild both, bdd_noderesize moves every     *)
(* node to another chain, and bdd_makenode, which computed the number of   *)
(* its chain before it called them, inserts after them.                    *)
(*                                                                         *)
(* The module implements NodeTable, where the table is a set of nodes and  *)
(* the free list a set of slots. The steps that do not touch the chains    *)
(* are those of NodeTable.                                                 *)
(***************************************************************************)
EXTENDS Integers, Sequences, FiniteSets

CONSTANTS
  InitSize, MaxRef, MinFree, MaxIncrease, Limits, MaxVars, VarNums, ReorderCalls,
  MaxNext, LowChildren, MaxHandles, MaxHeld, MaxStack

VARIABLES
  size, node, maxsize, errorcond, refstack, varnum, varset, growing, reorder,
  held, raised, (* all as in NodeTable                                     *)
  hash,       (* the head of each chain, 0 when it is empty                *)
  next,       (* the next slot of the chain or the free list               *)
  freepos,    (* bddfreepos                                                *)
  freenum     (* bddfreenum                                                *)

chains == <<hash, next, freepos, freenum>>
others == <<refstack, varnum, varset, growing, reorder, held, raised>>
vars   == <<size, node, maxsize, errorcond, others, chains>>

(* The slots from a head on, in a table of s slots with these links; never *)
(* more than the table has.                                                *)
SlotsFrom(s, links, head) ==
  LET linked[k \in 0..s] ==
        [n \in 0..(s - 1) |->
           IF n \in 2..(s - 1) /\ k > 0 THEN {n} \cup linked[k - 1][links[n]] ELSE {}]
  IN  linked[s][head]

LinkedFrom(head) == SlotsFrom(size, next, head)

NT == INSTANCE NodeTable WITH free <- LinkedFrom(freepos)

(* The assumptions of NodeTable on the constants.                          *)
ASSUME SizeAssumption  == InitSize \in Nat /\ InitSize > 2 /\ NT!IsPrime(InitSize)
ASSUME RefAssumption   == MaxRef \in Nat \ {0}
ASSUME TuneAssumption  == MinFree \in 0..100 /\ MaxIncrease \in Nat
ASSUME LimitAssumption == Limits \subseteq Nat
ASSUME CallAssumption  == ReorderCalls \subseteq [method : BOOLEAN, disabled : BOOLEAN]
ASSUME BoundAssumption == MaxNext \in Nat /\ MaxVars \in Nat /\ VarNums \subseteq 1..MaxVars

-----------------------------------------------------------------------------
(* NODEHASH. The tables here are too small for it to wrap around.          *)
Pair(a, b) == ((a + b) * (a + b + 1)) \div 2 + a
NodeHash(s, l, lo, hi) == Pair(hi, Pair(l, lo)) % s

(* The list of the slots of S in ascending order.                          *)
HeadOf(S) == IF S = {} THEN 0 ELSE NT!Minimum(S)
NextIn(S, n) == HeadOf({m \in S : m > n})

(* Chains and free list of s slots, as bdd_gbc and bdd_gbc_rehash link     *)
(* them from the last slot to the first.                                   *)
Relinked(s, nodes) ==
  LET used == {n \in 2..(s - 1) : nodes[n].low # NT!FreeLow}
      unused == 2..(s - 1) \ used
      code == [n \in used |-> NodeHash(s, nodes[n].level, nodes[n].low, nodes[n].high)]
      class(n) == IF n \in used THEN {m \in used : code[m] = code[n]} ELSE unused
  IN  [hash    |-> [h \in 0..(s - 1) |-> HeadOf({n \in used : code[n] = h})],
       next    |-> [n \in 0..(s - 1) |-> IF n < 2 THEN 0 ELSE NextIn(class(n), n)],
       freepos |-> HeadOf(unused),
       freenum |-> Cardinality(unused)]

Now == [hash |-> hash, next |-> next, freepos |-> freepos, freenum |-> freenum]

Link(links) ==
  /\ hash' = links.hash /\ next' = links.next
  /\ freepos' = links.freepos /\ freenum' = links.freenum

-----------------------------------------------------------------------------
(* bdd_makenode.                                                           *)

LookupFirst(l, lo, hi) ==
  {n \in {hash[NodeHash(size, l, lo, hi)]} \ {0} :
     node[n].level = l /\ node[n].low = lo /\ node[n].high = hi}

(* The node with these fields on the chain it hashes to.                   *)
Lookup(l, lo, hi) ==
  {n \in LinkedFrom(hash[NodeHash(size, l, lo, hi)]) :
     node[n].level = l /\ node[n].low = lo /\ node[n].high = hi}

Missing(l, lo, hi) == lo # hi /\ Lookup(l, lo, hi) = {}

ChainBefore(s, l, lo, hi) == NodeHash(size, l, lo, hi)

(* The chain of the new node in a table of s slots: the number computed    *)
(* before a resize is computed again after it.                             *)
ChainAfter(s, l, lo, hi) == NodeHash(s, l, lo, hi)

(* Take the head of the free list and put it in front of chain h.          *)
Insert(l, lo, hi, h, nodes, links) ==
  LET r == links.freepos IN
  /\ node' = [nodes EXCEPT ![r] = [@ EXCEPT !.level = l, !.low = lo, !.high = hi]]
  /\ Link([hash    |-> [links.hash EXCEPT ![h] = r],
           next    |-> [links.next EXCEPT ![r] = links.hash[h]],
           freepos |-> links.next[r],
           freenum |-> links.freenum - 1])

Found(l, lo, hi) ==
  /\ ~ Missing(l, lo, hi)
  /\ UNCHANGED <<size, node, maxsize, errorcond, held, raised, chains>>

Fresh(l, lo, hi) ==
  /\ Missing(l, lo, hi)
  /\ freepos # 0
  /\ Insert(l, lo, hi, NodeHash(size, l, lo, hi), node, Now)
  /\ UNCHANGED <<size, maxsize, errorcond, held, raised>>

Refused(l, lo, hi) ==
  /\ Missing(l, lo, hi)
  /\ freepos = 0 /\ errorcond
  /\ UNCHANGED <<size, node, maxsize, errorcond, held, raised, chains>>

(* The links bdd_gbc leaves.                                               *)
CollectedLinks == Relinked(size, NT!Collected)

(* "At least usednodes_nextreorder nodes are in use".                      *)
Interrupts ==
  size - CollectedLinks.freenum >= reorder.next /\ NT!ReorderReady

(* The size of the table after bdd_gbc and, with few slots free,           *)
(* bdd_noderesize(1).                                                      *)
SizeAfterCollection ==
  IF (CollectedLinks.freenum * 100) \div size <= MinFree /\ NT!MayGrow
  THEN CHOOSE s \in NT!NewSizes : TRUE
  ELSE size

(* No slot left: collect, resize, and insert or fail.                      *)
Recycled(l, lo, hi) ==
  LET s == SizeAfterCollection
      nodes == NT!Grown(s, NT!Collected)
      links == Relinked(s, nodes)
  IN  /\ Missing(l, lo, hi)
      /\ freepos = 0 /\ ~ errorcond /\ ~ Interrupts
      /\ links.freepos # 0
      /\ size' = s
      /\ Insert(l, lo, hi, ChainAfter(s, l, lo, hi), nodes, links)
      /\ held'   = [n \in 0..(s - 1) |-> IF n < size THEN held[n] ELSE 0]
      /\ raised' = [n \in 0..(s - 1) |-> IF n < size THEN raised[n] ELSE 0]
      /\ UNCHANGED <<maxsize, errorcond>>

Exhausted(l, lo, hi) ==
  LET s == SizeAfterCollection
      nodes == NT!Grown(s, NT!Collected)
      links == Relinked(s, nodes)
  IN  /\ Missing(l, lo, hi)
      /\ freepos = 0 /\ ~ errorcond /\ ~ Interrupts
      /\ links.freepos = 0
      /\ size' = s /\ node' = nodes /\ Link(links)
      /\ errorcond' = TRUE
      /\ UNCHANGED <<maxsize, held, raised>>

MakeNode(l, lo, hi) ==
  \/ Found(l, lo, hi)
  \/ Fresh(l, lo, hi)
  \/ Refused(l, lo, hi)
  \/ Recycled(l, lo, hi)
  \/ Exhausted(l, lo, hi)

(* What it returns: the node found, the head of the free list, or 0.       *)
Answer(l, lo, hi) ==
  CASE lo = hi -> lo
    [] lo # hi /\ Lookup(l, lo, hi) # {} -> CHOOSE n \in Lookup(l, lo, hi) : TRUE
    [] Missing(l, lo, hi) /\ freepos # 0 -> freepos
    [] Missing(l, lo, hi) /\ freepos = 0 ->
         IF errorcond THEN NT!FALSEBDD
         ELSE LET s == SizeAfterCollection IN Relinked(s, NT!Grown(s, NT!Collected)).freepos

-----------------------------------------------------------------------------
OpMakeNode(l, lo, hi) ==
  /\ NT!Quiet
  /\ NT!Legal(l, lo, hi)
  /\ MakeNode(l, lo, hi)
  /\ UNCHANGED <<refstack, varnum, varset, growing, reorder>>

OpPushNode(l, lo, hi) ==
  /\ NT!Quiet
  /\ NT!Legal(l, lo, hi)
  /\ Len(refstack) < MaxStack
  /\ Answer(l, lo, hi) \notin NT!Protected
  /\ MakeNode(l, lo, hi)
  /\ refstack' = Append(refstack, Answer(l, lo, hi))
  /\ UNCHANGED <<varnum, varset, growing, reorder>>

(* bdd_makenode jumps after bdd_gbc; reorder_done rebuilds chains and list.*)
OpInterrupted(l, lo, hi) ==
  /\ NT!Quiet
  /\ NT!Legal(l, lo, hi)
  /\ Missing(l, lo, hi)
  /\ freepos = 0 /\ ~ errorcond /\ Interrupts
  /\ node' = NT!Reordered
  /\ raised' = NT!Raised
  /\ Link(Relinked(size, node'))
  /\ refstack' = << >>
  /\ reorder' = [reorder EXCEPT !.next = NT!Minimum({4 * (size - freenum'), MaxNext})]
  /\ UNCHANGED <<size, maxsize, errorcond, varnum, varset, growing, held>>

(* bdd_gbc, called by the program.                                         *)
Gbc ==
  /\ NT!Quiet
  /\ node' = NT!Collected
  /\ Link(CollectedLinks)
  /\ UNCHANGED <<size, maxsize, errorcond, others>>

GrowPos ==
  /\ growing.step = "pos"
  /\ MakeNode(varnum, NT!FALSEBDD, NT!TRUEBDD)
  /\ refstack' = <<Answer(varnum, NT!FALSEBDD, NT!TRUEBDD)>>
  /\ growing'  = [growing EXCEPT !.step = "neg"]
  /\ UNCHANGED <<varnum, varset, reorder>>

GrowNeg ==
  /\ growing.step = "neg"
  /\ MakeNode(varnum, NT!TRUEBDD, NT!FALSEBDD)
  /\ varset' = [varset EXCEPT ![varnum] =
                  <<refstack[1], Answer(varnum, NT!TRUEBDD, NT!FALSEBDD)>>]
  /\ refstack' = << >>
  /\ growing'  = [growing EXCEPT !.step = "pin"]
  /\ UNCHANGED <<varnum, reorder>>

(* Steps of NodeTable that leave chains and free list alone.               *)
OtherStep ==
  /\ UNCHANGED chains
  /\ \/ NT!OpPopRef
     \/ \E n \in NT!Protected \ NT!Terminal : NT!AddRef(n)
     \/ \E n \in NT!Slots : NT!DelRef(n)
     \/ \E limit \in Limits : NT!SetMaxNodeNum(limit)
     \/ \E call \in ReorderCalls : NT!SetReorder(call)
     \/ NT!ClearError
     \/ \E num \in VarNums : NT!SetVarNum(num) \/ NT!SetVarNumRefused(num)
     \/ NT!GrowAbandon
     \/ NT!GrowPin

(* bdd_init links every slot to the next one, the last to none.            *)
FirstLinks == [n \in 0..(InitSize - 1) |-> (n + 1) % InitSize]

(* bdd_init: every slot but the terminals is free, and no chain has a node.*)
Init ==
  /\ size = InitSize
  /\ node = [n \in 0..(InitSize - 1) |->
               IF n \in NT!Terminal THEN NT!TerminalNode(n) ELSE NT!FreeNode]
  /\ hash = [h \in 0..(InitSize - 1) |-> 0]
  /\ next = FirstLinks
  /\ freepos = 2 /\ freenum = InitSize - 2
  /\ maxsize \in Limits
  /\ errorcond = FALSE
  /\ refstack = << >>
  /\ varnum = 0
  /\ varset = [v \in 0..(MaxVars - 1) |-> <<NT!FALSEBDD, NT!FALSEBDD>>]
  /\ growing = NT!Idle
  /\ reorder = [method |-> FALSE, disabled |-> FALSE, next |-> InitSize]
  /\ held = [n \in 0..(InitSize - 1) |-> 0]
  /\ raised = [n \in 0..(InitSize - 1) |-> 0]

TableStep ==
  \/ LET known == NT!Protected IN
     \E l \in 0..(varnum - 1), lo \in known, hi \in known :
       OpMakeNode(l, lo, hi) \/ OpPushNode(l, lo, hi) \/ OpInterrupted(l, lo, hi)
  \/ Gbc
  \/ GrowPos \/ GrowNeg

Next == TableStep \/ OtherStep

Spec == Init /\ [][Next]_vars

-----------------------------------------------------------------------------
(* Properties.                                                             *)

(* Links stay within the table.                                            *)
TypeOK ==
  /\ NT!TypeOK
  /\ hash \in [0..(size - 1) -> {0} \cup 2..(size - 1)]
  /\ next \in [0..(size - 1) -> 0..(size - 1)]
  /\ freepos \in {0} \cup 2..(size - 1)
  /\ freenum \in 0..(size - 2)

(* Every used slot is on the chain of its hash code, and on no other list: *)
(* the lookup of bdd_makenode misses no node, and the shared "next" field  *)
(* never joins a chain to the free list or to another chain. bddfreenum,   *)
(* on which resizing and reordering are decided, is the length of the free *)
(* list.                                                                   *)
ChainsExact ==
  /\ TypeOK
  /\ \A h \in 0..(size - 1) :
       LinkedFrom(hash[h]) =
         {n \in NT!Used : NodeHash(size, node[n].level, node[n].low, node[n].high) = h}
  /\ LinkedFrom(freepos) = NT!Slots \ NT!Used
  /\ freenum = Cardinality(LinkedFrom(freepos))

(* The table with chains does what the table without them does.            *)
ImplementsNodeTable == NT!Spec
=============================================================================
