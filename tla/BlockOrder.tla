---------------------------- MODULE BlockOrder -----------------------------
(***************************************************************************)
(* The searches for a good variable order (src/src/reorder.c) over the     *)
(* tree of variable blocks: windows of two and three blocks, sifting, both *)
(* also iterated, and the random order; bdd_setvarorder and bdd_swapvar;   *)
(* the calls that build the tree; the settings of automatic reordering.    *)
(*                                                                         *)
(* The exchange of two adjacent variables is the business of module        *)
(* Reorder. Here it changes the order, and may leave nodes behind: a node  *)
(* whose count saturates on the way (MAXREF) is not released until         *)
(* reorder_done clears the counts. The number of nodes, which is all the   *)
(* searches ask for, depends on the order and on the nodes kept that way:  *)
(* SizeOf[h] for the handler h that bdd_reorder_probe has set. How many    *)
(* nodes each level has is left open: sifting takes the blocks in any      *)
(* sequence. Left out are exchanges that meet a full table or two          *)
(* variables whose interaction mark_roots has missed.                      *)
(***************************************************************************)
EXTENDS BlockTree

CONSTANTS
  N,            (* bddvarnum                                               *)
  Handlers,     (* functions that give a size: bdd_getnodenum and those    *)
  Default,      (* that bdd_reorder_probe sets; the first of them          *)
  Immortals,    (* bound: for each, nodes whose count may saturate         *)
  SizeOf,       (* what they return, for the nodes kept and the order      *)
  Caps,         (* for each, bddmaxnodesize-bddmaxnodeincrease-2, or NoCap *)
  Requests,     (* bound: the ranges the program asks blocks for           *)
  Gaps,         (* does the program reorder with variables between blocks? *)
  MaxCalls,     (* bound: calls of the program                             *)
  MaxReorders,  (* bound: how many of them are calls of bdd_reorder        *)
  AutoMethods,  (* bound: methods given to bdd_autoreorder_times           *)
  MaxTimes      (* bound: numbers given to it                              *)

Vars      == 0..(N - 1)
Levelings == {l \in [Vars -> Vars] : \A v, w \in Vars : l[v] = l[w] => v = w}
NoCap     == -1000
NoBlock   == -3
AnyOrder  == <<>>

ASSUME BlockOrderVars == N \in Nat \ {0, 1}
ASSUME BlockOrderSize ==
  \A h \in Handlers : \A k \in SUBSET Immortals[h] : \A l \in Levelings : SizeOf[h][k][l] \in Nat

Windows == {"win2", "win2ite", "win3", "win3ite"}
Sifting == {"sift", "siftite"}
Methods == Windows \cup Sifting \cup {"random"}

ASSUME BlockOrderSettings ==
  Default \in Handlers /\ AutoMethods \subseteq Methods \cup {"none"} /\ MaxTimes \in Int

VARIABLES
  level,     (* bddvar2level[]                                             *)
  tree,      (* vartree                                                    *)
  blockid,   (* blockid                                                    *)
  nodenum,   (* reorder_nodenum, the handler that gives the size           *)
  auto,      (* bddreordermethod, bddreordertimes and reorderdisabled      *)
  todo,      (* what reorder_block has still to do; <<>> when nothing runs *)
  call,      (* what bdd_reorder keeps: method and saved settings; and     *)
             (* history: sizes at its ends, and if a count has saturated   *)
  search,    (* the search that runs and its local variables               *)
  kept,      (* nodes whose count has saturated since bdd_reorder began    *)
  budget,    (* bound: calls left, and reorderings left                    *)
  asked,     (* history: ranges answered with an identifier                *)
  overlap,   (* history: a range was asked for that overlaps another       *)
  wanted,    (* history: the order the last call was for, or AnyOrder      *)
  automatic  (* history: the number given to bdd_autoreorder_times and the *)
             (* automatic reorderings since                                *)

settings == <<blockid, nodenum>>
history  == <<asked, overlap, wanted, automatic>>
vars     == <<level, tree, settings, auto, todo, call, search, kept, budget, history>>

Identity  == [v \in Vars |-> v]
NoSearch  == [kind |-> "none"]
Unsaved   == [method |-> "none", times |-> 0]
Idle      == todo = <<>>
Size      == SizeOf[nodenum][kept][level]
MayCall   == Idle /\ budget.calls > 0
Called    == budget' = [budget EXCEPT !.calls = @ - 1]

(* bdd_reorder_ready, and without the number of reorderings left.          *)
ReadyAnyTimes == auto.method # "none" /\ tree.kids[Top] # <<>> /\ ~ auto.disabled
Ready == auto.method # "none" /\ tree.kids[Top] # <<>> /\ auto.times # 0 /\ ~ auto.disabled

Init ==
  /\ level = Identity
  /\ tree = EmptyTree
  /\ blockid = 0
  /\ nodenum = Default
  /\ auto = [method |-> "none", times |-> 0, disabled |-> FALSE]
  /\ todo = <<>>
  /\ call = [method |-> "none", automatic |-> FALSE, before |-> 0, after |-> 0, saturated |-> FALSE,
             cap |-> NoCap, saved |-> Unsaved]
  /\ search = NoSearch
  /\ kept = {}
  /\ budget = [calls |-> MaxCalls, reorders |-> MaxReorders]
  /\ asked = {} /\ overlap = FALSE /\ wanted = Identity
  /\ automatic = [granted |-> 0, done |-> 0]

-----------------------------------------------------------------------------
(* Exchanges.                                                              *)

(* reorder_vardown and reorder_varup.                                      *)
VarDown(l, v) ==
  IF l[v] = N - 1 THEN l
  ELSE [w \in Vars |-> IF w = v THEN l[v] + 1 ELSE IF l[w] = l[v] + 1 THEN l[v] ELSE l[w]]

VarUp(l, v) ==
  IF l[v] = 0 THEN l
  ELSE [w \in Vars |-> IF w = v THEN l[v] - 1 ELSE IF l[w] = l[v] - 1 THEN l[v] ELSE l[w]]

(* A single pass of the loop below.                                        *)
LeftOnce(l, lseq, rlast) ==
  LET n == Cardinality(DOMAIN lseq) - 1
      one(m, i) == IF i = n \/ m[lseq[i]] + 1 # m[lseq[i + 1]] THEN VarDown(m, lseq[i]) ELSE m
      down[s \in [level : Levelings, i : 0..(n + 1)]] ==
        IF s.i = n + 1 THEN s.level ELSE down[[level |-> one(s.level, s.i), i |-> s.i + 1]]
  IN  down[[level |-> l, i |-> 0]]

(* First loop of blockdown: the variables of lseq go down until they are   *)
(* below rseq, each to just above the next one of lseq or, the last one,   *)
(* below rlast. Variable i of lseq is next.                                *)
LeftPastRight(l, lseq, rlast) ==
  LET n == Cardinality(DOMAIN lseq) - 1
      one(m, i) == IF (i = n \/ m[lseq[i]] + 1 # m[lseq[i + 1]]) /\ m[lseq[i]] < m[rlast]
                   THEN VarDown(m, lseq[i]) ELSE m
      down[s \in [level : Levelings, i : 0..n]] ==
        IF s.i = 0 /\ s.level[lseq[0]] >= s.level[rlast] THEN s.level
        ELSE down[[level |-> one(s.level, s.i), i |-> IF s.i = n THEN 0 ELSE s.i + 1]]
  IN  down[[level |-> l, i |-> 0]]

(* Second loop: the variables of rseq, from the last to the first, go up   *)
(* until the first is where lseq started.                                  *)
RightToStart(l, rseq, start) ==
  LET n == Cardinality(DOMAIN rseq) - 1
      one(m, i) == IF (i = 0 \/ m[rseq[i]] - 1 # m[rseq[i - 1]]) /\ m[rseq[i]] > start
                   THEN VarUp(m, rseq[i]) ELSE m
      up[s \in [level : Levelings, i : 0..n]] ==
        IF s.i = n /\ s.level[rseq[0]] <= start THEN s.level
        ELSE up[[level |-> one(s.level, s.i), i |-> IF s.i = 0 THEN n ELSE s.i - 1]]
  IN  up[[level |-> l, i |-> n]]

(* blockdown on the i-th block of a list: s is an order and the list. The  *)
(* pos fields change places too, so that they stay the places in the list. *)
(* As a function of s it is evaluated for one s once.                      *)
blockdown(s, i) ==
  LET down[a \in {s}] ==
        LET left  == tree.block[a.list[i]].seq
            right == tree.block[a.list[i + 1]].seq
            below == LeftPastRight(a.level, left, right[Cardinality(DOMAIN right) - 1])
        IN  [level |-> RightToStart(below, right, a.level[left[0]]),
             list  |-> [a.list EXCEPT ![i] = a.list[i + 1], ![i + 1] = a.list[i]]]
  IN  down[s]

(* Several in a row, at these places.                                      *)
BlocksDown(s, places) ==
  LET after[k \in 0..Len(places)] == IF k = 0 THEN s ELSE blockdown(after[k - 1], places[k])
  IN  after[Len(places)]

(* The handler's answer in s, and what may be kept after exchanges.        *)
SizeIn(s, k) == SizeOf[nodenum][k][s.level]
KeptAfter(k) == {m \in SUBSET Immortals[nodenum] : k \subseteq m}

(* Only fewer nodes are an improvement.                                    *)
AsGood(old, new) == new <= old
Better(old, new) == new < old

(* Exchanges since the best order so far.                                  *)
SinceBest(better, exchanges) == IF better THEN 0 ELSE exchanges

-----------------------------------------------------------------------------
(* The list a search works on, its current block and that block's place.   *)

List      == tree.kids[search.on]
Here      == CHOOSE i \in DOMAIN List : List[i] = search.this
Now       == [level |-> level, list |-> List]
HasNext   == Here < Len(List)
HasTwo    == Here + 1 < Len(List)

Move(s) ==
  /\ level' = s.level
  /\ tree' = [tree EXCEPT !.kids[search.on] = s.list]
  /\ kept' \in KeptAfter(kept)

Stay == UNCHANGED <<level, tree, kept>>

(* A search ends: nextlevel becomes the block it returns, and with it the  *)
(* list from there on.                                                     *)
Return(first) ==
  LET i == CHOOSE j \in DOMAIN List : List[j] = first IN
  /\ tree' = WithList(tree, search.on, SubSeq(List, i, Len(List)))
  /\ search' = NoSearch
  /\ UNCHANGED <<level, kept>>

-----------------------------------------------------------------------------
(* reorder_win2 and reorder_win2ite.                                       *)

(* The block the list begins with after the current one has moved down.    *)
FirstBefore(s) == search.first
FirstAfter(s) == IF search.first = search.this THEN s.list[Here] ELSE search.first

(* An exchange that makes more nodes is taken back, and the window moves   *)
(* on; otherwise the block has moved on with the exchange.                 *)
Win2 ==
  LET down == blockdown(Now, Here)
      back == blockdown(down, Here)
  IN  \E k \in KeptAfter(kept) :
        IF Size < SizeIn(down, k)
        THEN Move(back) /\ k \subseteq kept' /\ search' = [search EXCEPT !.this = back.list[Here + 1]]
        ELSE Move(down) /\ k = kept' /\ search' = [search EXCEPT !.first = FirstAfter(down)]

Win2Step ==
  /\ search.kind \in {"win2", "win2ite"}
  /\ HasNext
  /\ Win2

(* The scan starts again at t, the block the list began with at first.     *)
Win2Again ==
  /\ search.kind = "win2ite"
  /\ ~ HasNext /\ Size # search.lastsize
  /\ search' = [search EXCEPT !.this = search.t, !.lastsize = Size]
  /\ Stay

Win2Ends ==
  /\ \/ search.kind = "win2"
     \/ search.kind = "win2ite" /\ Size = search.lastsize
  /\ ~ HasNext
  /\ Return(search.first)

(* reorder_swapwin3. A window of three blocks goes through the other five  *)
(* arrangements, pos counting the exchanges since the best one, and back   *)
(* the same way. Only then does it move on, and not if the last            *)
(* arrangement is the best. moves is 0 between windows.                    *)
Win3Place(left, moves) == IF moves % 2 = 1 THEN left ELSE left + 1

Win3Move ==
  /\ search.kind \in {"win3", "win3ite"}
  /\ search.moves < 5 /\ (search.moves = 0 => HasTwo)
  /\ LET left   == IF search.moves = 0 THEN Here ELSE search.left
         s      == blockdown(Now, Win3Place(left, search.moves + 1))
         before == IF search.moves = 0 THEN Size ELSE search.best
         better == Better(before, SizeIn(s, kept'))
     IN  /\ Move(s)
         /\ search' = [search EXCEPT
              !.left  = left,
              !.moves = @ + 1,
              !.pos   = SinceBest(better, @ + 1),
              !.best  = IF better THEN SizeIn(s, kept') ELSE before]

Win3Back ==
  /\ search.kind \in {"win3", "win3ite"}
  /\ search.moves = 5
  /\ LET left == search.left
         s == BlocksDown(Now, [k \in 1..search.pos |-> Win3Place(left, 6 - k)])
     IN  /\ Move(s)
         /\ search' = [search EXCEPT
              !.this  = IF search.pos = 0 THEN @ ELSE s.list[left + 1],
              !.first = IF search.pos > 0 /\ left = 1 THEN s.list[1] ELSE @,
              !.left = 0, !.moves = 0, !.pos = 0, !.best = 0]

(* With only two blocks left, a window of two.                             *)
Win3Pair ==
  /\ search.kind = "win3" /\ search.moves = 0
  /\ HasNext /\ ~ HasTwo
  /\ LET i    == Here
         down == blockdown(Now, i)
         back == blockdown(down, i)
     IN  \E k \in KeptAfter(kept) :
           IF Size < SizeIn(down, k)
           THEN Move(back) /\ k \subseteq kept' /\ search' = [search EXCEPT !.this = back.list[i + 1]]
           ELSE Move(down) /\ k = kept' /\ search' = [search EXCEPT !.first = IF i = 1 THEN down.list[1] ELSE @]

Win3Again ==
  /\ search.kind = "win3ite" /\ search.moves = 0
  /\ ~ HasTwo /\ Size # search.lastsize
  /\ search' = [search EXCEPT !.this = search.first, !.lastsize = Size]
  /\ Stay

Win3Ends ==
  /\ \/ search.kind = "win3" /\ ~ HasNext
     \/ search.kind = "win3ite" /\ ~ HasTwo /\ Size = search.lastsize
  /\ search.moves = 0
  /\ Return(search.first)

-----------------------------------------------------------------------------
(* reorder_sift_bestpos for every block of the list, in any sequence.      *)

(* maxAllowed.                                                             *)
Allowed(best) ==
  LET grown == best \div 5 + best
  IN  IF call.cap # NoCap /\ call.cap < grown THEN call.cap ELSE grown

SiftStart ==
  /\ search.kind \in Sifting /\ search.this = NoBlock
  /\ \E b \in search.left :
       LET pos == (CHOOSE i \in DOMAIN List : List[i] = b) - 1 IN
       search' = [search EXCEPT
         !.this = b, !.left = @ \ {b},
         !.best = Size, !.allowed = Allowed(Size), !.bestpos = 0,
         !.up = ~ (pos > Len(List) \div 2), !.leg = 0, !.fresh = TRUE]
  /\ Stay

CanMove == IF search.up THEN Here > 1 ELSE HasNext
OnItsWay == search.leg < 2 /\ CanMove /\ (Size <= search.allowed \/ search.fresh)

SiftMove ==
  /\ search.kind \in Sifting /\ search.this # NoBlock
  /\ OnItsWay
  /\ LET s      == blockdown(Now, IF search.up THEN Here - 1 ELSE Here)
         steps  == search.bestpos + (IF search.up THEN -1 ELSE 1)
         better == Better(search.best, SizeIn(s, kept'))
     IN  /\ Move(s)
         /\ search' = [search EXCEPT
              !.fresh   = FALSE,
              !.bestpos = SinceBest(better, steps),
              !.best    = IF better THEN SizeIn(s, kept') ELSE @,
              !.allowed = IF better THEN Allowed(SizeIn(s, kept')) ELSE @]

SiftTurn ==
  /\ search.kind \in Sifting /\ search.this # NoBlock
  /\ search.leg < 2 /\ ~ OnItsWay
  /\ search' = [search EXCEPT !.leg = @ + 1, !.up = ~ @, !.fresh = TRUE]
  /\ Stay

(* The way back to the best place, which is bestpos places away.           *)
NoWayBack(bestpos) == <<>>
WayBack(bestpos) ==
  IF bestpos < 0 THEN [k \in 1..(-bestpos) |-> Here + k - 1] ELSE [k \in 1..bestpos |-> Here - k]

SiftBack ==
  /\ search.kind \in Sifting /\ search.this # NoBlock
  /\ search.leg = 2
  /\ Move(BlocksDown(Now, WayBack(search.bestpos)))
  /\ search' = [search EXCEPT !.this = NoBlock, !.best = 0, !.allowed = 0, !.bestpos = 0]

AllSifted == search.kind \in Sifting /\ search.this = NoBlock /\ search.left = {}

SiftAgain ==
  /\ AllSifted /\ search.kind = "siftite" /\ Size # search.lastsize
  /\ search' = [search EXCEPT !.left = ToSet(List), !.lastsize = Size]
  /\ Stay

SiftEnds ==
  /\ AllSifted
  /\ search.kind = "siftite" => Size = search.lastsize
  /\ Return(List[1])

(* reorder_random: four times as many exchanges as there are blocks, of    *)
(* blocks picked at random; picking the last one does nothing. The list    *)
(* returned begins at its first block.                                     *)
RandomMove ==
  /\ search.kind = "random" /\ search.left > 0
  /\ \E i \in DOMAIN List : IF i < Len(List) THEN Move(blockdown(Now, i)) ELSE Stay
  /\ search' = [search EXCEPT !.left = @ - 1]

RandomEnds ==
  /\ search.kind = "random" /\ search.left = 0
  /\ Return(List[1])

SearchStep ==
  /\ \/ Win2Step \/ Win2Again \/ Win2Ends
     \/ Win3Move \/ Win3Back \/ Win3Pair \/ Win3Again \/ Win3Ends
     \/ SiftStart \/ SiftMove \/ SiftTurn \/ SiftBack \/ SiftAgain \/ SiftEnds
     \/ RandomMove \/ RandomEnds
  /\ UNCHANGED <<settings, auto, todo, call, budget, history>>

-----------------------------------------------------------------------------
(* reorder_block and bdd_reorder.                                          *)

Begun(m, b) ==
  LET t == tree.kids[b][1] IN
  CASE m \in Windows -> [kind |-> m, on |-> b, t |-> t, this |-> t, first |-> t,
                         lastsize |-> Size, left |-> 0, moves |-> 0, pos |-> 0, best |-> 0]
    [] m \in Sifting -> [kind |-> m, on |-> b, this |-> NoBlock, left |-> ToSet(tree.kids[b]),
                         best |-> 0, allowed |-> 0, bestpos |-> 0, up |-> FALSE, leg |-> 0,
                         fresh |-> FALSE, lastsize |-> Size]
    [] OTHER         -> [kind |-> m, on |-> b, left |-> 4 * Len(tree.kids[b])]

AnyFree(b) == TRUE
IsFree(b) == b = Top \/ tree.block[b].fixed = FREE

(* A block: search among its children if they are free to move.            *)
VisitBlock ==
  /\ ~ Idle /\ search = NoSearch /\ todo[1].step = "search"
  /\ LET b == todo[1].block IN
     /\ todo' = <<[step |-> "children", block |-> b]>> \o Tail(todo)
     /\ search' = IF IsFree(b) /\ tree.kids[b] # <<>> THEN Begun(call.method, b) ELSE NoSearch
  /\ UNCHANGED <<level, tree, settings, auto, call, kept, budget, history>>

(* Then its children, and last its own sequence of variables is sorted.    *)
VisitChildren ==
  /\ ~ Idle /\ search = NoSearch /\ todo[1].step = "children"
  /\ LET b == todo[1].block IN
     todo' = [i \in DOMAIN tree.kids[b] |-> [step |-> "search", block |-> tree.kids[b][i]]]
               \o <<[step |-> "sort", block |-> b]>> \o Tail(todo)
  /\ UNCHANGED <<level, tree, search, settings, auto, call, kept, budget, history>>

SortBlock ==
  /\ ~ Idle /\ search = NoSearch /\ todo[1].step = "sort" /\ todo[1].block # Top
  /\ LET b == todo[1].block IN
     tree' = [tree EXCEPT !.block[b].seq = Sorted(level, tree.block[b])]
  /\ todo' = Tail(todo)
  /\ UNCHANGED <<level, search, settings, auto, call, kept, budget, history>>

(* The top block has no sequence. reorder_done clears the counts, but of   *)
(* roots, bdd_reorder restores the settings it overwrote, and              *)
(* bdd_reorder_auto counts.                                                *)
EndReorder ==
  /\ ~ Idle /\ search = NoSearch /\ todo[1].step = "sort" /\ todo[1].block = Top
  /\ todo' = <<>>
  /\ call' = [call EXCEPT !.after = Size, !.saturated = (kept # {}), !.saved = Unsaved]
  /\ kept' = {}
  /\ auto' = [auto EXCEPT !.method = call.saved.method,
                          !.times = call.saved.times - (IF call.automatic THEN 1 ELSE 0)]
  /\ UNCHANGED <<level, tree, search, settings, budget, history>>

(* A variable between two blocks of a list that is in neither.             *)
HasGap(p) ==
  LET L == tree.kids[p] IN
  \E i \in DOMAIN L, j \in DOMAIN L, v \in Vars :
    /\ tree.block[L[i]].last < v /\ v < tree.block[L[j]].first
    /\ \A k \in DOMAIN L : v \notin VarsOf(tree, L[k])

BeginReorder(m, isAuto) ==
  /\ MayCall /\ (isAuto \/ budget.reorders > 0)
  /\ budget' = [calls |-> budget.calls - 1, reorders |-> budget.reorders - (IF isAuto THEN 0 ELSE 1)]
  /\ Gaps \/ \A p \in DOMAIN tree.kids : ~ HasGap(p)
  /\ todo' = <<[step |-> "search", block |-> Top]>>
  /\ \E cap \in IF m \in Sifting THEN Caps[nodenum] ELSE {NoCap} :
       call' = [method |-> m, automatic |-> isAuto, before |-> Size, after |-> 0, saturated |-> FALSE,
                cap |-> cap, saved |-> [method |-> auto.method, times |-> auto.times]]
  /\ auto' = [auto EXCEPT !.method = m, !.times = 1]
  /\ wanted' = AnyOrder
  /\ UNCHANGED <<level, tree, settings, search, kept, asked, overlap>>

BddReorder ==
  /\ \E m \in Methods : BeginReorder(m, FALSE)
  /\ UNCHANGED automatic

(* An operation has left bdd_makenode because the table is due and         *)
(* bdd_reorder_ready; its caller calls bdd_checkreorder.                   *)
AutoReorder ==
  /\ Ready
  /\ BeginReorder(auto.method, TRUE)
  /\ automatic' = [automatic EXCEPT !.done = @ + 1]

ReorderStep == SearchStep \/ VisitBlock \/ VisitChildren \/ SortBlock \/ EndReorder

-----------------------------------------------------------------------------
(* What else the program calls.                                            *)

(* Only in the order the variables were declared in.                       *)
MayAdd == MayCall /\ level = Identity

Add(first, last, fixed) ==
  LET added == AddRange(tree, level, first, last, fixed, blockid) IN
  /\ tree' = added.tree
  /\ blockid' = IF added.ok THEN blockid + 1 ELSE blockid
  /\ asked' = IF added.ok THEN asked \cup {<<first, last>>} ELSE asked
  /\ overlap' = (overlap \/ \E b \in Ids(tree) : Overlap(tree.block[b], first, last))

(* bdd_intaddvarblock, and bdd_addvarblock, for which the range is from    *)
(* the least to the greatest variable of a set.                            *)
IntAddVarBlock ==
  /\ MayAdd
  /\ \E r \in Requests :
       IF r.first \in Vars /\ r.last \in Vars
       THEN Add(r.first, r.last, r.fixed) /\ Called
       ELSE UNCHANGED <<tree, blockid, asked, overlap, budget>>
  /\ UNCHANGED <<level, nodenum, auto, todo, call, search, kept, wanted, automatic>>

(* bdd_varblockall, a block for each variable in turn.                     *)
VarBlockAll ==
  LET one(t, v) ==
        LET a == AddRange(t.tree, level, v, v, FIXED, t.id)
        IN  [tree |-> a.tree, id |-> IF a.ok THEN t.id + 1 ELSE t.id]
      added[n \in 0..N] ==
        IF n = 0 THEN [tree |-> tree, id |-> blockid] ELSE one(added[n - 1], n - 1)
      all == added[N]
  IN  /\ MayAdd
      /\ tree' = all.tree /\ blockid' = all.id
      /\ asked' = asked \cup {<<v, v>> : v \in Vars}
      /\ Called
      /\ UNCHANGED <<level, nodenum, auto, todo, call, search, kept, overlap, wanted, automatic>>

(* bdd_clrvarblocks.                                                       *)
ClrVarBlocks ==
  /\ MayCall /\ Called
  /\ tree' = EmptyTree /\ blockid' = 0
  /\ asked' = {} /\ overlap' = FALSE
  /\ UNCHANGED <<level, nodenum, auto, todo, call, search, kept, wanted, automatic>>

MayOrder == MayCall /\ tree.kids[Top] = <<>>

(* The loops of bdd_setvarorder: for each level from the top, the variable *)
(* asked for it is moved up to it.                                         *)
Raised(l, neworder) ==
  LET raise(m, k) == IF m[neworder[k]] > k THEN [level |-> VarUp(m, neworder[k]), k |-> k]
                     ELSE [level |-> m, k |-> k + 1]
      from[s \in [level : Levelings, k : 0..N]] ==
        IF s.k = N THEN s.level ELSE from[raise(s.level, s.k)]
  IN  from[[level |-> l, k |-> 0]]

(* bdd_setvarorder.                                                        *)
SetVarOrder ==
  /\ MayOrder
  /\ \E neworder \in Levelings :   \* from levels to variables
       /\ level' = Raised(level, neworder)
       /\ wanted' = [v \in Vars |-> CHOOSE k \in Vars : neworder[k] = v]
  /\ Called
  /\ UNCHANGED <<tree, settings, auto, todo, call, search, kept, asked, overlap, automatic>>

(* v1 goes down to the level of v2; v2, which has come up by one, goes up  *)
(* to the level v1 had.                                                    *)
UpperDown(l, v1, v2) ==
  LET down[m \in Levelings] == IF m[v1] < l[v2] THEN down[VarDown(m, v1)] ELSE m IN down[l]

Exchanged(l, v1, v2) ==
  LET up[m \in Levelings] == IF m[v2] > l[v1] THEN up[VarUp(m, v2)] ELSE m
  IN  up[UpperDown(l, v1, v2)]

(* bdd_swapvar, v1 being the upper one.                                    *)
SwapVar ==
  /\ MayOrder
  /\ \E v1, v2 \in Vars :
       /\ level[v1] < level[v2]
       /\ level' = Exchanged(level, v1, v2)
       /\ wanted' = [level EXCEPT ![v1] = level[v2], ![v2] = level[v1]]
  /\ Called
  /\ UNCHANGED <<tree, settings, auto, todo, call, search, kept, asked, overlap, automatic>>

(* bdd_autoreorder, for which the number is -1, and bdd_autoreorder_times. *)
SetAuto ==
  /\ MayCall
  /\ \E m \in AutoMethods, n \in -1..MaxTimes :
       /\ auto' = [auto EXCEPT !.method = m, !.times = n]
       /\ automatic' = [granted |-> n, done |-> 0]
  /\ Called
  /\ UNCHANGED <<level, tree, settings, todo, call, search, kept, asked, overlap, wanted>>

(* bdd_disable_reorder and bdd_enable_reorder.                             *)
Switch ==
  /\ MayCall
  /\ auto' = [auto EXCEPT !.disabled = ~ @]
  /\ Called
  /\ UNCHANGED <<level, tree, settings, todo, call, search, kept, history>>

(* bdd_reorder_probe.                                                      *)
Probe ==
  /\ MayCall
  /\ nodenum' \in Handlers
  /\ Called
  /\ call' = [call EXCEPT !.method = "none"]
  /\ UNCHANGED <<level, tree, blockid, auto, todo, search, kept, history>>

Next ==
  \/ ReorderStep
  \/ BddReorder \/ AutoReorder
  \/ IntAddVarBlock \/ VarBlockAll \/ ClrVarBlocks
  \/ SetVarOrder \/ SwapVar
  \/ SetAuto \/ Switch \/ Probe

(* Once it has begun, a reordering runs to its end without waiting for     *)
(* anything.                                                               *)
Spec == Init /\ [][Next]_vars /\ WF_vars(ReorderStep)

-----------------------------------------------------------------------------
(* Properties.                                                             *)

TypeOK ==
  /\ level \in Levelings
  /\ \A b \in Ids(tree) : b \in 0..(blockid - 1) /\ VarsOf(tree, b) \subseteq Vars
  /\ nodenum \in Handlers
  /\ auto \in [method : Methods \cup {"none"}, times : Int, disabled : BOOLEAN]
  /\ \A i \in DOMAIN todo : /\ todo[i].step \in {"search", "children", "sort"}
                            /\ todo[i].block \in Ids(tree) \cup {Top}
  /\ search # NoSearch => search.on \in Ids(tree) \cup {Top}

Above(b, c) == \A v \in VarsOf(tree, b), w \in VarsOf(tree, c) : level[v] < level[w]

Together(b) ==
  \A u, w \in VarsOf(tree, b) : \A v \in Vars :
    level[u] < level[v] /\ level[v] < level[w] => v \in VarsOf(tree, b)

InOrder(p) == \A i, j \in DOMAIN tree.kids[p] : i < j => Above(tree.kids[p][i], tree.kids[p][j])

(* The blocks whose seq the program or the running search relies on.       *)
Relied == IF Idle THEN Ids(tree) ELSE IF search = NoSearch THEN {} ELSE ToSet(List)

(* "A block is a range of BDD variables that should be kept together"      *)
(* (manual, section 2.6).                                                  *)
KeptTogether == \A b \in Ids(tree) : Together(b)

(* Whatever the searches do, the variables of a block stay next to each    *)
(* other in the order, a block stays inside its parent, the blocks of a    *)
(* list are in the order of their levels, and seq, from which blockdown    *)
(* takes where a block begins and ends, lists a block's variables in the   *)
(* current order whenever it is used.                                      *)
BlocksTogether ==
  /\ TypeOK
  /\ \A p \in DOMAIN tree.kids : InOrder(p)
  /\ KeptTogether
  /\ \A p \in Ids(tree) : \A c \in ToSet(tree.kids[p]) : VarsOf(tree, c) \subseteq VarsOf(tree, p)
  /\ \A b \in Relied : tree.block[b].seq = Sorted(level, tree.block[b])

(* No search loses a block, by returning a block that is not the first of  *)
(* its list, and no added block pushes another out of the tree: every      *)
(* range that was answered with an identifier is there, until one is asked *)
(* for that overlaps another.                                              *)
BlocksKept ==
  ~ overlap => \A r \in asked : \E b \in Ids(tree) : SameRange(tree.block[b], r[1], r[2])

(* A count has saturated on the way, and kept a node that is in the way of *)
(* the same size in the same order.                                        *)
MeetsSaturation == call.saturated

(* No search but the random one ends with more nodes than it began with,   *)
(* although sifting and windows go on through orders with more and have to *)
(* find their way back by counting, unless a count has saturated.          *)
NeverWorse ==
  Idle /\ call.method \notin {"none", "random"} /\ ~ MeetsSaturation => call.after <= call.before

(* The children of a fixed block are in the order they were declared in.   *)
FixedKept ==
  \A b \in Ids(tree) : tree.block[b].fixed = FIXED =>
    \A i, j \in DOMAIN tree.kids[b] :
      i < j => tree.block[tree.kids[b][i]].first < tree.block[tree.kids[b][j]].first

(* bdd_setvarorder and bdd_swapvar, which move variables one level at a    *)
(* time past variables that are in place, end in the order asked for.      *)
OrdersAsAsked == wanted # AnyOrder => level = wanted

(* There are never more automatic reorderings than bdd_autoreorder_times   *)
(* allowed: bdd_reorder overwrites the number while it runs.               *)
TimesRespected == automatic.granted >= 0 => automatic.done <= automatic.granted

(* Every reordering ends. The iterated searches go on as long as the size  *)
(* has changed, and a window of three goes back to its first block.        *)
Terminates == ~ Idle ~> Idle
=============================================================================
