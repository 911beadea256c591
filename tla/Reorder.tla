------------------------------- MODULE Reorder -------------------------------
(***************************************************************************)
(* Dynamic variable reordering (src/src/reorder.c). A reordering starts    *)
(* with reorder_init: mark_roots gives every node a full reference count   *)
(* and records in an interaction matrix which variables meet below a root, *)
(* and reorder_gbc drops the dead nodes. Then adjacent variables are       *)
(* exchanged by reorder_vardown, which rewrites the nodes of the upper one *)
(* in place. reorder_done returns to plain counts and collects.            *)
(*                                                                         *)
(* Between reorderings the program builds, releases and collects nodes and *)
(* adds variables. The searches for a good order (windows, sifting, random)*)
(* and bdd_swapvar are any sequence of exchanges here.                     *)
(***************************************************************************)
EXTENDS Integers, FiniteSets, SequencesExt

CONSTANTS
  InitSize,     (* size of the node table                                  *)
  Limit,        (* bddmaxnodesize, 0 is "unlimited"                        *)
  MaxIncrease,  (* bddmaxnodeincrease                                      *)
  MaxRef,       (* MAXREF, where a reference count saturates               *)
  FirstVars,    (* variables of the first bdd_setvarnum                    *)
  MaxVars,      (* bound: variables after every bdd_extvarnum(1)           *)
  LowChildren,  (* bound: low children of the nodes the program asks for   *)
  MaxHandles,   (* bound: references the program holds at a time           *)
  MaxExchanges, (* bound: exchanges in one reordering                      *)
  MaxReorders,  (* bound: reorderings                                      *)
  MaxCalls      (* bound: calls of the program that build or release nodes *)

IsPrime(p) == p > 1 /\ \A d \in 2..(p - 1) : p % d # 0

ASSUME ReorderSizes  == InitSize \in Nat /\ IsPrime(InitSize) /\ InitSize >= 2 * FirstVars + 2
ASSUME ReorderLimits == Limit \in Nat /\ MaxIncrease \in Nat /\ MaxRef \in Nat \ {0}
ASSUME ReorderVars   == FirstVars \in Nat \ {0} /\ MaxVars \in Nat /\ MaxVars >= FirstVars

VARIABLES
  size,       (* bddnodesize                                               *)
  node,       (* bddnodes[]; level holds the variable while reordering     *)
  free,       (* the free list, from bddfreepos                            *)
  errorcond,  (* bdderrorcond # 0                                          *)
  varnum,     (* bddvarnum                                                 *)
  level2var,  (* bddlevel2var[]                                            *)
  phase,      (* where a reordering has got to                             *)
  extroots,   (* extroots[]: nodes with a count when the reordering began  *)
  iactmtx,    (* the interaction matrix                                    *)
  pending,    (* the toBeProcessed chain of the exchange                   *)
  upper,      (* var0, the variable the exchange moves down                *)
  resized,    (* resizedInMakenode                                         *)
  budget,     (* bound: calls, reorderings, exchanges left                 *)
  held,       (* history: references the program holds on each slot        *)
  meaning,    (* history: the function each held node was handed out for   *)
  lost        (* history: mark_roots has missed an interaction             *)

vars == <<size, node, free, errorcond, varnum, level2var, phase, extroots, iactmtx,
          pending, upper, resized, budget, held, meaning, lost>>

FALSEBDD == 0
TRUEBDD  == 1
Terminal == {FALSEBDD, TRUEBDD}

Slots    == 2..(size - 1)
FreeSet  == ToSet(free)
Taken    == Slots \ FreeSet
Variable == 0..(varnum - 1)
Ascending(S) ==
  [i \in 1..Cardinality(S) |-> CHOOSE x \in S : Cardinality({y \in S : y < x}) = i - 1]

Children(n) == {node[n].low, node[n].high} \ Terminal
Parents(n)  == {m \in Taken : n \in Children(m)}

(* The level field is a level, except while a reordering is on.            *)
VarOf(n)       == IF phase = "idle" THEN level2var[node[n].level] ELSE node[n].level
Var2Level(v)   == CHOOSE l \in 0..varnum : level2var[l] = v

(* The slots reached from each slot in use.                                *)
Below ==
  LET below[n \in 0..(size - 1)] ==
        IF n \in Terminal \/ node[n].low = -1 THEN {}
        ELSE {n} \cup below[node[n].low] \cup below[node[n].high]
  IN  below

(* The function of each slot: the sets of variables that make it true.     *)
Functions_ ==
  LET sat[n \in 0..(size - 1)] ==
        IF n \in Terminal \/ node[n].low = -1
        THEN IF n = TRUEBDD THEN SUBSET (0..(MaxVars - 1)) ELSE {}
        ELSE {a \in sat[node[n].low]  : VarOf(n) \notin a}
               \cup {a \in sat[node[n].high] : VarOf(n) \in a}
  IN  sat

(* Reference counts saturate at MAXREF and then never change.              *)
Incref(count, k) == IF count + k < MaxRef THEN count + k ELSE MaxRef
Decref(count, k) ==
  CASE count = MaxRef -> MaxRef
    [] count # MaxRef /\ count > k -> count - k
    [] OTHER -> 0

(* Edges from a set of slots to slot n, one by one.                        *)
EdgesTo(n, S) ==
  Cardinality({m \in S : node[m].low = n}) + Cardinality({m \in S : node[m].high = n})

Counted   == {n \in Slots : node[n].refcou > 0}
Reachable == LET below == Below IN UNION {below[n] : n \in Counted}

(* A slot of the free list: nothing but LOW = -1 is read of it.            *)
FreeNode == [refcou |-> 0, level |-> 0, low |-> -1, high |-> 0]

Cleared(nodes, S) == [n \in DOMAIN nodes |-> IF n \in S THEN FreeNode ELSE nodes[n]]

-----------------------------------------------------------------------------
(* What the program does between reorderings.                              *)

Idle == phase = "idle"

(* One of the MaxCalls calls the program makes.                            *)
Called == /\ Idle /\ budget.calls > 0
          /\ budget' = [budget EXCEPT !.calls = @ - 1]

LevelOf(n) == node[n].level

Known ==
  LET below == Below
  IN  Terminal \cup UNION {below[n] : n \in {m \in Slots : held[m] > 0} \cup Counted}

Hold(n, nodes) ==
  /\ node' = [nodes EXCEPT ![n].refcou = Incref(@, 1)]
  /\ held' = [held EXCEPT ![n] = @ + 1]

HeldNow == FoldFunctionOnSet(+, 0, held, DOMAIN held)

(* bdd_addref(bdd_makenode(l, lo, hi)) in a table that has room.           *)
Build(l, lo, hi) ==
  /\ Called /\ ~ errorcond
  /\ HeldNow < MaxHandles
  /\ lo \in LowChildren
  /\ lo # hi /\ l < LevelOf(lo) /\ l < LevelOf(hi)
  /\ LET found == {n \in Taken : node[n].level = l /\ node[n].low = lo /\ node[n].high = hi}
     IN  \/ /\ found # {}
            /\ \E n \in found :
                 /\ node[n].refcou < MaxRef
                 /\ Hold(n, node)
                 /\ meaning' = [meaning EXCEPT ![n] = Functions_[n]]
            /\ UNCHANGED <<size, free>>
         \/ /\ found = {} /\ free # << >>
            /\ LET r == Head(free)
                   filled == [node EXCEPT ![r] = [@ EXCEPT !.level = l, !.low = lo, !.high = hi]]
                   sat == Functions_
                   v == level2var[l]
               IN  /\ Hold(r, filled)
                   /\ meaning' = [meaning EXCEPT ![r] = {a \in sat[lo] : v \notin a}
                                                   \cup {a \in sat[hi] : v \in a}]
            /\ free' = Tail(free)
            /\ UNCHANGED size
  /\ UNCHANGED <<errorcond, varnum, level2var, phase, extroots, iactmtx, pending,
                 upper, resized, lost>>

(* bdd_delref.                                                             *)
Release(n) ==
  /\ Called /\ held[n] > 0
  /\ held' = [held EXCEPT ![n] = @ - 1]
  /\ node' = [node EXCEPT ![n].refcou = Decref(@, 1)]
  /\ meaning' = IF held[n] = 1 THEN [meaning EXCEPT ![n] = {}] ELSE meaning
  /\ UNCHANGED <<size, free, errorcond, varnum, level2var, phase, extroots, iactmtx,
                 pending, upper, resized, lost>>

(* bdd_gbc.                                                                *)
Gbc ==
  /\ Called
  /\ LET garbage == Slots \ Reachable
     IN  /\ node' = Cleared(node, garbage)
         /\ free' = Ascending(garbage)
  /\ UNCHANGED <<size, held, errorcond, varnum, level2var, phase, extroots, iactmtx,
                 pending, upper, resized, meaning, lost>>

(* bdd_extvarnum(1) in a table that has room: the new variable comes last. *)
AddVariable ==
  /\ Called /\ ~ errorcond
  /\ varnum < MaxVars /\ Len(free) >= 2
  /\ LET pos == free[1]
         neg == free[2]
     IN  node' = [node EXCEPT
           ![pos] = [refcou |-> MaxRef, level |-> varnum, low |-> FALSEBDD, high |-> TRUEBDD],
           ![neg] = [refcou |-> MaxRef, level |-> varnum, low |-> TRUEBDD, high |-> FALSEBDD],
           ![FALSEBDD].level = varnum + 1,
           ![TRUEBDD].level  = varnum + 1]
  /\ free' = Tail(Tail(free))
  /\ varnum' = varnum + 1
  /\ level2var' = [l \in 0..(varnum + 1) |-> IF l < varnum THEN level2var[l] ELSE l]
  /\ UNCHANGED <<size, held, errorcond, phase, extroots, iactmtx, pending, upper,
                 resized, meaning, lost>>

-----------------------------------------------------------------------------
(* reorder_init.                                                           *)

(* The nodes without a count that addref_rec finds below each slot before  *)
(* it meets a root.                                                        *)
Unrooted ==
  LET visit[n \in Taken] ==
        UNION {{c} \cup visit[c] : c \in {d \in Children(n) : node[d].refcou = 0}}
  IN  visit

(* mark_roots visits the roots in the order of their slots: each node is   *)
(* visited first from the first root above it.                             *)
VisitedFrom ==
  LET visit == Unrooted
  IN  [n \in Counted |->
         {n} \cup {m \in visit[n] : \A k \in Counted : m \in visit[k] => n <= k}]

(* dep[] of each root: the variables of the nodes visited first from it,   *)
(* and for every other node met, root or not, and every node met again     *)
(* along a second edge, what the earlier roots have written into the row   *)
(* of its variable.                                                        *)
Dependencies ==
  LET visited == VisitedFrom
      met == [n \in Counted |-> {c \in UNION {Children(m) : m \in visited[n]} :
                                  c \in visited[n] => EdgesTo(c, visited[n]) > 1}]
      dep[n \in Counted] ==
        {level2var[node[m].level] : m \in visited[n]}
          \cup UNION {{v \in dep[k] : \E m \in met[n] : level2var[node[m].level] \in dep[k]} :
                        k \in IF met[n] = {} THEN {} ELSE {k \in Counted : k < n}}
  IN  dep

(* Two variables interact when they meet below one of the roots.           *)
Interacting ==
  LET below == Below
  IN  UNION {LET vs == {VarOf(m) : m \in below[n]} IN vs \X vs : n \in Counted}

(* mark_roots counts every edge between the nodes it reaches, and turns    *)
(* levels into variables; reorder_gbc makes the other nodes free slots.    *)
Start ==
  /\ Idle /\ budget.reorders > 0
  /\ phase' = "ready"
  /\ extroots' = Counted
  /\ LET alive == Reachable
         dep == Dependencies
         matrix == UNION {dep[n] \X dep[n] : n \in Counted}
     IN  /\ node' = [n \in DOMAIN node |->
              CASE n \in Terminal -> node[n]
                [] n \in alive -> [node[n] EXCEPT !.level = level2var[@],
                                                  !.refcou = Incref(@, EdgesTo(n, alive))]
                [] OTHER -> FreeNode]
         /\ free' = Ascending(Slots \ alive)
         /\ iactmtx' = matrix
         /\ lost' = (lost \/ ~ (Interacting \subseteq matrix))
  /\ budget' = [budget EXCEPT !.reorders = @ - 1, !.exchanges = MaxExchanges]
  /\ UNCHANGED <<size, held, errorcond, varnum, level2var, pending, upper, resized, meaning>>

-----------------------------------------------------------------------------
(* reorder_vardown.                                                        *)

Lower == level2var[Var2Level(upper) + 1]

Exchanged(v) ==
  LET l == Var2Level(v)
  IN  [level2var EXCEPT ![l] = level2var[l + 1], ![l + 1] = v]

Exchange(v) ==
  /\ level2var' = Exchanged(v)
  /\ budget' = [budget EXCEPT !.exchanges = @ - 1]

(* Variables that never meet trade places and no node is touched.          *)
ExchangeIndependent(v) ==
  /\ phase = "ready" /\ budget.exchanges > 0
  /\ Var2Level(v) < varnum - 1
  /\ <<v, level2var[Var2Level(v) + 1]>> \notin iactmtx
  /\ Exchange(v)
  /\ UNCHANGED <<size, node, free, held, errorcond, varnum, phase, extroots, iactmtx,
                 pending, upper, resized, meaning, lost>>

DependentOnBoth(v) ==
  LET w == level2var[Var2Level(v) + 1]
  IN  {n \in Taken : node[n].level = v /\ \A c \in Children(n) : node[c].level = w}

(* The nodes of v with a child of the next variable.                       *)
Dependent(v) ==
  LET w == level2var[Var2Level(v) + 1]
  IN  {n \in Taken : node[n].level = v /\ \E c \in Children(n) : node[c].level = w}

(* reorder_downSimple: they leave the hash table and wait to be rewritten. *)
DownSimple(v) ==
  /\ phase = "ready" /\ budget.exchanges > 0
  /\ Var2Level(v) < varnum - 1
  /\ <<v, level2var[Var2Level(v) + 1]>> \in iactmtx
  /\ pending' = Dependent(v)
  /\ upper' = v
  /\ phase' = "swap"
  /\ resized' = FALSE
  /\ UNCHANGED <<size, node, free, held, errorcond, varnum, level2var, extroots, 
                 iactmtx, budget, meaning, lost>>

(* The size bdd_noderesize gives the table.                                *)
NextSize(s) ==
  LET cap == Min({2 * s, s + MaxIncrease} \cup (IF Limit > 0 THEN {Limit} ELSE {}))
  IN  Max({p \in 2..cap : IsPrime(p)})

(* A table: what reorder_makenode changes, with the node it returned last. *)
Table == [size |-> size, node |-> node, free |-> free, error |-> errorcond,
          resized |-> resized, hidden |-> pending, res |-> FALSEBDD]

(* bdd_noderesize(0), without rehashing. A table that is at its greatest   *)
(* prime already "grows" by a free list that starts past its end.          *)
Resize(t) ==
  IF t.size >= Limit /\ Limit > 0
  THEN [t EXCEPT !.resized = TRUE]
  ELSE LET s == NextSize(t.size)
       IN  [t EXCEPT
              !.size = s,
              !.node = [n \in 0..(s - 1) |->
                          IF n < t.size THEN t.node[n]
                          ELSE FreeNode],
              !.free = IF s = t.size THEN <<s>> ELSE Ascending(t.size..(s - 1)) \o t.free,
              !.resized = TRUE]

CountUp(nodes, n) == IF n \in Terminal THEN nodes ELSE [nodes EXCEPT ![n].refcou = Incref(@, 1)]
CountDown(nodes, n) == IF n \in Terminal THEN nodes ELSE [nodes EXCEPT ![n].refcou = Decref(@, 1)]

(* A new node is born with a count of one, and counts its children. A free *)
(* list past the end of the table makes it write outside the table.        *)
NewNode(t, v, lo, hi) ==
  LET r == Head(t.free)
      filled == [t.node EXCEPT ![r] = [refcou |-> 1, level |-> v, low |-> lo, high |-> hi]]
  IN  IF r < t.size
      THEN [t EXCEPT !.node = CountUp(CountUp(filled, lo), hi), !.free = Tail(@), !.res = r]
      ELSE [t EXCEPT !.node = CountUp(CountUp(@, lo), hi), !.free = Tail(@), !.res = r]

ChainOfLower(t, v) ==
  {n \in 2..(t.size - 1) : n \notin ToSet(t.free) \cup t.hidden /\ t.node[n].level = Lower}

(* The nodes of variable v in the hash table, dead ones among them.        *)
Chain(t, v) ==
  {n \in 2..(t.size - 1) : n \notin ToSet(t.free) \cup t.hidden /\ t.node[n].level = v}

FoundUncounted(t, n) == [t EXCEPT !.res = n]

(* Whoever asks for a node that exists has one more edge to it.            *)
Found(t, n) == [t EXCEPT !.node = CountUp(@, n), !.res = n]

(* reorder_makenode.                                                       *)
ReorderMakeNode(t, v, lo, hi) ==
  LET found == {n \in Chain(t, v) : t.node[n].low = lo /\ t.node[n].high = hi}
      grown == IF t.free = << >> /\ ~ t.error THEN Resize(t) ELSE t
  IN  CASE lo = hi -> Found(t, lo)
        [] lo # hi /\ found # {} ->
             Found(t, Min(found))
        [] lo # hi /\ found = {} /\ grown.free # << >> -> NewNode(grown, v, lo, hi)
        [] lo # hi /\ found = {} /\ grown.free = << >> ->
             [grown EXCEPT !.error = TRUE, !.res = FALSEBDD]

CofactorsCrossed(n) ==
  LET low(f)  == IF node[f].level = Lower THEN node[f].low  ELSE f
      high(f) == IF node[f].level = Lower THEN node[f].high ELSE f
  IN  [f00 |-> low(node[n].low),  f01 |-> low(node[n].high),
       f10 |-> high(node[n].low), f11 |-> high(node[n].high)]

(* The grandchildren of a node: f01 is the high child of its low child.    *)
Cofactors(n) ==
  LET low(f)  == IF node[f].level = Lower THEN node[f].low  ELSE f
      high(f) == IF node[f].level = Lower THEN node[f].high ELSE f
  IN  [f00 |-> low(node[n].low),  f01 |-> high(node[n].low),
       f10 |-> low(node[n].high), f11 |-> high(node[n].high)]

(* reorder_swap, one turn of its loop: node n of variable upper becomes a  *)
(* node of the variable below it, over two nodes of upper.                 *)
SwapNode(n) ==
  LET f == Cofactors(n)
      t0 == ReorderMakeNode(Table, upper, f.f00, f.f10)
      t1 == ReorderMakeNode(t0, upper, f.f01, f.f11)
      counted == CountDown(CountDown(t1.node, node[n].low), node[n].high)
  IN  /\ phase = "swap" /\ n \in pending
      /\ size' = t1.size
      /\ node' = [counted EXCEPT ![n].level = Lower, ![n].low = t0.res, ![n].high = t1.res]
      /\ free' = t1.free
      /\ errorcond' = t1.error
      /\ resized' = t1.resized
      /\ pending' = pending \ {n}
      /\ held' = [m \in 0..(t1.size - 1) |-> IF m < size THEN held[m] ELSE 0]
      /\ meaning' = [m \in 0..(t1.size - 1) |-> IF m < size THEN meaning[m] ELSE {}]
      /\ UNCHANGED <<varnum, level2var, phase, extroots, iactmtx, upper, budget, lost>>

(* reorder_localGbc reclaims the dead nodes of the lower variable. Then    *)
(* the variables trade places, and after a resize reorder_rehashAll makes  *)
(* a free slot of every node without a count.                              *)
LocalGbc ==
  /\ phase = "swap" /\ pending = {}
  /\ LET dead == {n \in Taken : node[n].level = Lower /\ node[n].refcou = 0}
         counted == [m \in DOMAIN node |->
                       IF m \in Terminal THEN node[m]
                       ELSE [node[m] EXCEPT !.refcou = Decref(@, EdgesTo(m, dead))]]
     IN  /\ node' = Cleared(counted, dead)
         /\ free' = IF resized THEN Ascending({n \in Slots : counted[n].refcou = 0})
                    ELSE Ascending(dead) \o free
  /\ Exchange(upper)
  /\ phase' = "ready" /\ upper' = 0 /\ resized' = FALSE
  /\ UNCHANGED <<size, held, errorcond, varnum, extroots, iactmtx, pending, meaning,
                 lost>>

-----------------------------------------------------------------------------
(* reorder_done: counts of inner nodes are dropped, variables become       *)
(* levels again, and bdd_gbc collects from the counts that are left.       *)
Done ==
  /\ phase = "ready"
  /\ phase' = "idle"
  /\ LET below == Below
         kept == UNION {below[n] : n \in {m \in extroots : node[m].refcou > 0}}
         garbage == Slots \ kept
         plain == [n \in DOMAIN node |->
                     IF n \in Terminal THEN node[n]
                     ELSE [node[n] EXCEPT !.level = Var2Level(@),
                                          !.refcou = IF n \in extroots THEN @ ELSE 0]]
     IN  /\ node' = Cleared(plain, garbage)
         /\ free' = Ascending(garbage)
  /\ extroots' = {}
  /\ iactmtx' = {}
  /\ UNCHANGED <<size, held, errorcond, varnum, level2var,  pending, upper, resized,
                 budget, meaning, lost>>

-----------------------------------------------------------------------------
(* bdd_init and bdd_setvarnum(FirstVars).                                  *)
Init ==
  /\ size = InitSize
  /\ node = [n \in 0..(InitSize - 1) |->
       CASE n \in Terminal -> [refcou |-> MaxRef, level |-> FirstVars, low |-> n, high |-> n]
         [] n \in 2..(2 * FirstVars + 1) ->
              [refcou |-> MaxRef, level |-> (n - 2) \div 2, low |-> n % 2, high |-> 1 - (n % 2)]
         [] OTHER -> FreeNode]
  /\ free = Ascending((2 * FirstVars + 2)..(InitSize - 1))
  /\ errorcond = FALSE
  /\ varnum = FirstVars
  /\ level2var = [l \in 0..FirstVars |-> l]
  /\ phase = "idle"
  /\ extroots = {} /\ iactmtx = {} /\ pending = {}
  /\ upper = 0 /\ resized = FALSE
  /\ budget = [calls |-> MaxCalls, reorders |-> MaxReorders, exchanges |-> 0]
  /\ held = [n \in 0..(InitSize - 1) |-> 0]
  /\ meaning = [n \in 0..(InitSize - 1) |-> {}]
  /\ lost = FALSE

ProgramStep ==
  \/ LET known == Known IN \E l \in Variable, lo \in known, hi \in known : Build(l, lo, hi)
  \/ \E n \in Slots : Release(n)
  \/ Gbc
  \/ AddVariable

ReorderStep ==
  \/ Start
  \/ \E v \in Variable : ExchangeIndependent(v) \/ DownSimple(v)
  \/ \E n \in pending : SwapNode(n)
  \/ LocalGbc
  \/ Done

Next == ProgramStep \/ ReorderStep

Spec == Init /\ [][Next]_vars

-----------------------------------------------------------------------------
(* Properties.                                                             *)

(* Every variable keeps to its type.                                       *)
TypeOK ==
  /\ size \in Nat
  /\ node \in [0..(size - 1) -> [refcou : 0..MaxRef, level : 0..MaxVars,
                                 low : -1..(size - 1), high : 0..(size - 1)]]
  /\ FreeSet \subseteq Slots /\ Len(free) = Cardinality(FreeSet)
  /\ errorcond \in BOOLEAN /\ resized \in BOOLEAN /\ lost \in BOOLEAN
  /\ varnum \in 1..MaxVars
  /\ level2var \in [0..varnum -> 0..varnum]
  /\ \A v \in 0..varnum : \E l \in 0..varnum : level2var[l] = v
  /\ phase \in {"idle", "ready", "swap"}
  /\ extroots \subseteq Slots /\  pending \subseteq Taken
  /\ iactmtx \subseteq Variable \X Variable
  /\ upper \in 0..(MaxVars - 1)
  /\ held \in [0..(size - 1) -> Nat]

(* A node the program holds stands for the same function of the variables, *)
(* at every moment of every reordering, also half way through an exchange. *)
FunctionsKept ==
  LET sat == Functions_
  IN  \A n \in Slots : held[n] > 0 => n \in Taken /\ sat[n] = meaning[n]

(* No slot in use has a child on the free list.                            *)
NoDanglingChild == \A n \in Taken : Children(n) \subseteq Taken

(* The level of a node's variable in the order of the moment.              *)
Depth(n) == Var2Level(VarOf(n))

(* Children lie below their parents in the variable order whenever no      *)
(* exchange is under way (the assertions of sanitycheck in reorder.c).     *)
Ordered ==
  phase # "swap" =>
    \A n \in Taken : \A c \in Children(n) : Depth(n) < Depth(c)

(* The order is kept by every reordering whose mark_roots found all the    *)
(* interactions: the exchanges themselves never break it.                  *)
OrderedUnlessLost == lost \/ Ordered

(* No two slots in use hold the same node, and none has equal children,    *)
(* when an exchange is over.                                               *)
Canonical ==
  ~ lost /\ phase # "swap" =>
    \A m, n \in Taken :
      /\ node[m].level = node[n].level /\ node[m].low = node[n].low
           /\ node[m].high = node[n].high => m = n
      /\ node[m].low # node[m].high

(* While variables are exchanged a node's count covers the edges that lead *)
(* to it and the references of the program: no reclaimed node is in use.   *)
CountsCover ==
  phase \in {"ready", "swap"} =>
    \A n \in Taken : node[n].refcou >= Incref(held[n], EdgesTo(n, Taken))

(* Through every step of a reordering, half way through an exchange too,   *)
(* no node in use has a child on the free list or a count that leaves out  *)
(* an edge or a reference: what the local collection reclaims is dead.     *)
TableSound == TypeOK /\ NoDanglingChild /\ CountsCover
=============================================================================
