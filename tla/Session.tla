------------------------------ MODULE Session -------------------------------
(***************************************************************************)
(* A program that calls the operations of src/src/bddop.c one after the    *)
(* other: what one call leaves behind, in the caches, in the stamps of     *)
(* quantvarset and supportSet and in its tables of pairs, is what the next *)
(* one meets. Between calls, or out of one, variables are added, reordered *)
(* and substituted anew.                                                   *)
(*                                                                         *)
(* A call is one action. What interrupts it is in NodeTable and Apply; the *)
(* interruption that matters here, the jump that reorders the variables    *)
(* and starts the call again, is an action of its own (Interrupted).       *)
(***************************************************************************)
EXTENDS Pairs, Witnesses

CONSTANTS
  Programs,   (* bound: what a program holds and may call, see ProgramType *)
  SetIdMax    (* INT_MAX, where quantvarsetID wraps                        *)

ASSUME SetIdMaxAssumption == SetIdMax \in Nat /\ SetIdMax >= 5

VARIABLES
  program,    (* the program that runs                                     *)
  cache,      (* quantcache, appexcache, replacecache, misccache and the   *)
              (* simplify entries of applycache                            *)
  marks,      (* quantvarset                                               *)
  setid,      (* quantvarsetID                                             *)
  support,    (* supportSet (stamps), supportID and the static supportSize *)
  disabled,   (* reorderdisabled                                           *)
  last,       (* history: the last call, what it met and what it returned  *)
  grown,      (* history: variables were added since the caches were reset *)
  reset,      (* history: tables reset since they last got an id           *)
  skewed,     (* history: tables reset under an order that is not 0, 1, ..  *)
  failed,     (* history: a replacement has failed since then              *)
  steps       (* bound: what the program has done so far                   *)

vars == <<pairVars, program, cache, marks, setid, support, disabled, last,
          grown, reset, skewed, failed, steps>>

NoAnswer == [op |-> "none"]

Identity(n) == [l \in 0..(n - 1) |-> l]
NoMarks(n)  == [l \in 0..(n - 1) |-> 0]

Held       == {program.f, program.g}
Asks(op)   == steps < program.steps /\ op \in program.ops
Step       == steps' = steps + 1 /\ UNCHANGED program

EmptyCaches == [c \in Caches |-> << >>]

-----------------------------------------------------------------------------
(* Setting up the globals of a call.                                       *)

(* The next quantvarsetID. A signed set reads its stamps by their absolute *)
(* value and starts again at half the range, if it meets that very number; *)
(* one that is past it can take the counter to its end, and the next       *)
(* increment wraps it (an overflow, which the processor wraps).            *)
SetIdLimit(op) == IF op = "restrict" THEN SetIdMax \div 2 ELSE SetIdMax

Incremented(id) == IF id = SetIdMax THEN -SetIdMax - 1 ELSE id + 1

NextSetId(op, id) == IF Incremented(id) = SetIdLimit(op) THEN 1 ELSE Incremented(id)

Stamps(op, id, stamps) ==
  IF Incremented(id) = SetIdLimit(op) THEN [l \in DOMAIN stamps |-> 0] ELSE stamps

(* varset2vartable and varset2svartable: the levels of a cube, negated for *)
(* a negative literal if signed.                                           *)
Marked(op, cube, from, id, stamps) ==
  [l \in DOMAIN stamps |->
     IF ~DependsOn(cube, from[l]) THEN Stamps(op, id, stamps)[l]
     ELSE IF op = "restrict" /\ Cofactor(cube, from[l], FALSE) # Zero
     THEN -NextSetId(op, id) ELSE NextSetId(op, id)]

(* quantlast. The signed loop has moved on when it reads the level, and    *)
(* ends up at that of a terminal.                                          *)
QuantLast(op, cube, from) ==
  IF op = "restrict" THEN VarNum(from)
  ELSE Max({l \in DOMAIN from : DependsOn(cube, from[l])})

NoGlobals ==
  [order |-> order, last |-> -1, marks |-> marks, setid |-> setid, opr |-> "or",
   appex |-> "none", miscid |-> ConstrainId, quantid |-> ConstrainId, appexid |-> ConstrainId,
   replaceid |-> <<0, "none">>, pair |-> Defaults(order), level |-> 0, polarity |-> FALSE]

CombinedBy(op) ==
  CASE op \in {"exist", "appex", "simplify"} -> "or"
    [] op \in {"forall", "appall"}           -> "and"
    [] op \in {"unique", "appuni"}           -> "xor"

WithVarSet(g, op, cube) ==
  [g EXCEPT !.last  = QuantLast(op, cube, g.order),
            !.setid = NextSetId(op, g.setid),
            !.marks = Marked(op, cube, g.order, g.setid, g.marks)]

AppexIdOf(c) == AppexId(c.set, c.opr, IF c.op = "appex" THEN 0 ELSE 1)

(* The recursion each function calls.                                      *)
RecursionOf(op) ==
  CASE op \in {"exist", "forall", "unique"}   -> "quant"
    [] op \in {"appex", "appall", "appuni"}   -> "appquant"
    [] op \in {"satcount", "satcountset"}     -> "satcount"
    [] OTHER                                  -> op

(* The assignments of each function before its recursion. from and list    *)
(* are the order and the tables it meets, a holds the stamps so far.       *)
Globals(c, from, list, a) ==
  LET g == [NoGlobals EXCEPT !.order = from, !.marks = a.marks, !.setid = a.setid]
  IN  CASE c.op = "restrict" ->
             [WithVarSet(g, c.op, c.set) EXCEPT !.miscid = RestrictId(c.set)]
        [] c.op = "constrain" -> g
        [] c.op = "simplify"  -> g
        [] c.op \in {"exist", "forall", "unique"} ->
             [WithVarSet(g, c.op, c.set) EXCEPT !.opr = CombinedBy(c.op),
                                                !.quantid = QuantId(c.set, c.op)]
        [] c.op \in {"appex", "appall", "appuni"} ->
             [WithVarSet(g, c.op, c.set) EXCEPT !.opr = CombinedBy(c.op), !.appex = c.opr,
                                                !.appexid = AppexIdOf(c),
                                                !.quantid = AppexQuantId(AppexIdOf(c), c.op)]
        [] c.op \in {"replace", "veccompose"} ->
             LET t == Table(list, c.handle)
             IN  [g EXCEPT !.pair = t.result, !.last = t.last, !.replaceid = <<t.id, c.op>>]
        [] c.op = "compose" ->
             [g EXCEPT !.level = LevelOf(from, c.var),
                       !.replaceid = <<LevelOf(from, c.var), c.op>>]
        [] c.op \in {"satcount", "satcountset", "pathcount"} ->
             [g EXCEPT !.miscid = CountId(RecursionOf(c.op))]
        [] c.op = "satoneset" -> [g EXCEPT !.polarity = c.polarity]
        [] OTHER -> g

Binary == {"constrain", "simplify", "appex", "appall", "appuni", "compose"}

Operands(c) == IF c.op \in Binary THEN <<c.f, c.g>> ELSE <<c.f>>

-----------------------------------------------------------------------------
(* The calls.                                                              *)

Quantifiers  == {"exist", "forall", "unique"}
AppQuants    == {"appex", "appall", "appuni"}
Substituting == {"replace", "veccompose", "compose"}
Counting     == {"satcount", "satcountset", "pathcount"}
Choosing     == {"satone", "satoneset", "fullsatone"}
Listing      == {"allsat", "printset"}
NodeCounting == {"nodecount", "anodecount", "varprofile"}
Reading      == Listing \cup NodeCounting \cup {"buildcube", "scanset"}

(* Those that call bdd_makenode under setjmp.                              *)
Interruptible ==
  {"restrict", "constrain", "simplify"} \cup Quantifiers \cup AppQuants \cup Substituting

Operations == Interruptible \cup Counting \cup Choosing \cup Reading

Plain(op) == [op |-> op, f |-> program.f, g |-> program.g]

Calls(op) ==
  CASE op = "restrict"     -> {Plain(op) @@ [set |-> s] : s \in program.cubes}
    [] op \in Quantifiers  -> {Plain(op) @@ [set |-> s] : s \in program.sets}
    [] op \in AppQuants    -> {Plain(op) @@ [set |-> s, opr |-> o] :
                                 s \in program.sets, o \in program.oprs[op]}
    [] op \in {"replace", "veccompose"} ->
         {Plain(op) @@ [handle |-> h] : h \in {h \in Handles : Registered(h)}}
    [] op = "compose"      -> {Plain(op) @@ [var |-> v] : v \in VarsOf(order)}
    [] op = "satcountset"  -> {Plain(op) @@ [set |-> s] :
                                 s \in {s \in program.sets : Support(program.f) \subseteq Support(s)}}
    [] op = "satoneset"    -> {Plain(op) @@ [set |-> s, polarity |-> p] :
                                 s \in program.sets, p \in BOOLEAN}
    [] op = "buildcube"    -> {Plain(op) @@ [value |-> k, variables |-> vs] :
                                 k \in 0..3, vs \in {vs \in VarsOf(order) \X VarsOf(order) : vs[1] # vs[2]}}
    [] op = "scanset"      -> {Plain(op) @@ [set |-> s] : s \in program.sets}
    [] OTHER               -> {Plain(op)}

(* The early returns before any global is set.                             *)
Trivial(c) ==
  CASE c.op \in {"restrict"} \cup Quantifiers -> IF IsConst(c.set) THEN {c.f} ELSE {}
    [] c.op \in AppQuants  -> IF IsConst(c.set) THEN {Opr(c.opr, c.f, c.g)} ELSE {}
    [] c.op = "satcountset" -> IF IsConst(c.set) \/ c.f = Zero THEN {0} ELSE {}
    [] c.op = "support"    -> IF IsConst(c.f) THEN {Zero} ELSE {}
    [] c.op = "satone"     -> IF IsConst(c.f) THEN {c.f} ELSE {}
    [] OTHER               -> {}

(* From the paths below the root to all variables, and to those of a set.  *)
CountOf(c, g, below) == 2 ^ Level(g.order, c.f) * below

CountOfSet(c, g, below) ==
  LET n      == CountOf(c, g, below)
      unused == 2 ^ (VarNum(g.order) - Cardinality(Support(c.set)))
  IN  IF n >= unused THEN n \div unused ELSE 1

Result(c, g, res) ==
  CASE c.op = "satcount"    -> CountOf(c, g, res)
    [] c.op = "satcountset" -> CountOfSet(c, g, res)
    [] OTHER                -> res

Answer(c, g, m) ==
  CASE c.op = "satone"     -> SatOne(c.f, g, m)
    [] c.op = "satoneset"  -> SatOneSet(c.f, c.set, g, m)
    [] c.op = "fullsatone" -> FullSatOne(c.f, g, m)
    [] c.op = "allsat"     -> Returns(AllSat(c.f, g), m)
    [] c.op = "printset"   -> Returns(PrintSet(c.f, g), m)
    [] c.op = "nodecount"  -> Returns(NodeCount(<<c.f>>, g), m)
    [] c.op = "anodecount" -> Returns(NodeCount(<<c.f, c.g, c.f>>, g), m)
    [] c.op = "varprofile" -> Returns(VarProfile(c.f, g), m)
    [] c.op = "buildcube"  -> Returns(BuildCube(c.value, c.variables), m)
    [] c.op = "scanset"    -> Returns(ScanSet(c.set, g), m)
    [] OTHER -> [Rec(RecursionOf(c.op), Operands(c), g, m) EXCEPT !.res = Result(c, g, @)]

(* The substitution a call asks for.                                       *)
Substitution(c, list, from) ==
  CASE c.op = "compose" -> c.var :> c.g
    [] c.op \in {"replace", "veccompose"} ->
         [v \in VarsOf(from) |-> Table(list, c.handle).result[LevelOf(from, v)]]
    [] OTHER -> << >>

(* A call that gets as far as its recursion, with these tables.            *)
Ended(c, g, list, out, alone) ==
  [cache |-> out.m.cache, marks |-> g.marks, setid |-> g.setid, made |-> out.m.made,
   failed |-> out.m.error,
   last |-> c @@ [res |-> out.res, alone |-> alone, order |-> g.order,
                  sub |-> Substitution(c, list, g.order), error |-> out.m.error,
                  ordered |-> out.m.ordered]]

Recursed(c, g, list, known) ==
  Ended(c, g, list, Answer(c, g, Fresh(known)), Answer(c, g, Fresh(EmptyCaches)).res)

Run(c, from, list, a) == Recursed(c, Globals(c, from, list, a), list, a.cache)

Met == [cache |-> cache, marks |-> marks, setid |-> setid]

Becomes(run) ==
  /\ cache' = run.cache
  /\ marks' = run.marks
  /\ setid' = run.setid
  /\ last' = run.last

TrivialRun(c) ==
  LET res == CHOOSE r \in Trivial(c) : TRUE
  IN  Met @@ [failed |-> FALSE,
              last |-> c @@ [res |-> res, alone |-> res, order |-> order, sub |-> << >>,
                             error |-> FALSE, ordered |-> TRUE]]

(* A call that is not interrupted. The ones that pick an assignment switch *)
(* reordering off, and on again.                                           *)
Call(op) ==
  /\ Asks(op)
  /\ op \in Operations
  /\ \E c \in Calls(op) :
       /\ \E run \in {IF Trivial(c) # {} THEN TrivialRun(c) ELSE Run(c, order, pairs, Met)} :
            Becomes(run) /\ failed' = (failed \/ run.failed)
       /\ disabled' = IF op \in Choosing /\ Trivial(c) = {} /\ c.f # Zero THEN FALSE ELSE disabled
  /\ Step
  /\ UNCHANGED <<pairVars, support, grown, reset, skewed>>

OrderDown(from, level) == Exchanged(from, level)

(* The second attempt: other levels, no caches, all globals set again.     *)
RunAgain(c, level, first) ==
  Run(c, OrderDown(order, level), TablesDown(pairs, level), [first EXCEPT !.cache = EmptyCaches])

(* A call left by longjmp: the variables at two levels change places, and  *)
(* the call starts over with reordering off.                               *)
Interrupted(op) ==
  /\ Asks(op)
  /\ op \in Interruptible
  /\ ~disabled
  /\ \E c \in Calls(op), level \in DOMAIN order :
       /\ Trivial(c) = {}
       /\ level + 1 \in DOMAIN order
       /\ \E first \in {Run(c, order, pairs, Met)} :
            /\ first.made
            /\ \E run \in {RunAgain(c, level, first)} :
                 Becomes(run) /\ failed' = run.failed
       /\ order' = OrderDown(order, level)
       /\ pairs' = TablesDown(pairs, level)
  /\ disabled' = FALSE
  /\ grown' = FALSE
  /\ Step
  /\ UNCHANGED <<pairsid, support, reset, skewed>>

-----------------------------------------------------------------------------
(* bdd_support. The stamps are made when first needed, and made again when *)
(* there are more variables than they have room for. supportSize outlives  *)
(* bdd_done, which the array itself does not.                              *)

NewStamps == [stamps |-> NoMarks(VarNum(order)), size |-> VarNum(order), id |-> 0]

StampsWithRoom == IF support.size < VarNum(order) THEN NewStamps ELSE support

NextIdOfArray(room) == 1

NextSupportId(room) == room.id + 1

(* With no array to stamp the program has no defined behaviour: here it    *)
(* goes on with an answer of no use, and null says so.                     *)
SupportRun(c, room) ==
  LET null   == DOMAIN room.stamps = {}
      id     == NextSupportId(room)
      stamps == Stamped(room.stamps, c.f, id, NoGlobals)
      out    == IF null THEN Returns(Zero, Fresh(cache))
                ELSE SupportOf(stamps, c.f, id, NoGlobals, Fresh(cache))
  IN  [support |-> [room EXCEPT !.stamps = stamps, !.id = id],
       last |-> c @@ [res |-> out.res, alone |-> out.res, order |-> order, sub |-> << >>,
                      error |-> FALSE, ordered |-> out.m.ordered, null |-> null]]

CallSupport ==
  /\ Asks("support")
  /\ \E r \in Held :
       LET c == [Plain("support") EXCEPT !.f = r]
       IN  IF Trivial(c) # {}
           THEN /\ last' = TrivialRun(c).last @@ [null |-> FALSE]
                /\ UNCHANGED <<support, disabled>>
           ELSE /\ support' = SupportRun(c, StampsWithRoom).support
                /\ last' = SupportRun(c, StampsWithRoom).last
                /\ disabled' = FALSE
  /\ Step
  /\ UNCHANGED <<pairVars, cache, marks, setid, grown, reset, skewed, failed>>

-----------------------------------------------------------------------------
(* What a program does between calls.                                      *)

CachesReset == cache' = EmptyCaches /\ grown' = FALSE /\ failed' = FALSE

CachesStay == UNCHANGED <<cache, grown, failed>>

(* A new id wraps now and then, and then bdd_operator_reset is called.     *)
CachesIfWrapped == IF Wraps THEN CachesReset ELSE CachesStay

PairOperations == {"newpair", "setpair", "setbddpair", "freepair"}

ChangePairs(op) ==
  /\ Asks(op)
  /\ \E h \in program.handles :
       \/ /\ op = "newpair" /\ NewPair(h)
          /\ CachesIfWrapped
          /\ reset' = IF Wraps THEN {} ELSE reset
          /\ UNCHANGED skewed
       \/ /\ \E old \in VarsOf(order) :
               \/ op = "setpair" /\ \E new \in VarsOf(order) : SetPair(h, old, new)
               \/ op = "setbddpair" /\ SetBddPair(h, old, program.g)
          /\ CachesIfWrapped
          /\ reset' = IF Wraps THEN {} ELSE reset \ {h}
          /\ UNCHANGED skewed
       \/ /\ op = "freepair" /\ FreePair(h)
          /\ CachesStay
          /\ reset' = reset \ {h}
          /\ skewed' = skewed \ {h}
  /\ last' = NoAnswer
  /\ Step
  /\ UNCHANGED <<marks, setid, support, disabled>>

Reset ==
  /\ Asks("resetpair")
  /\ \E h \in program.handles :
       /\ ResetPair(h)
       /\ reset' = reset \cup {h}
       /\ skewed' = IF order = Identity(VarNum(order)) THEN skewed \ {h} ELSE skewed \cup {h}
  /\ last' = NoAnswer
  /\ Step
  /\ UNCHANGED <<cache, marks, setid, support, disabled, grown, failed>>

(* bdd_setvarnum, by one variable. The caches stay.                        *)
VarSetResized(newOrder) == marks' = NoMarks(VarNum(newOrder)) /\ setid' = 0

AddVariable ==
  /\ Asks("setvarnum")
  /\ VarNum(order) < MaxVars
  /\ LET newOrder == [l \in 0..VarNum(order) |-> IF l \in DOMAIN order THEN order[l] ELSE l]
     IN  /\ order' = newOrder
         /\ pairs' = TablesGrown(pairs, newOrder)
         /\ VarSetResized(newOrder)
  /\ disabled' = FALSE
  /\ grown' = TRUE
  /\ last' = NoAnswer
  /\ Step
  /\ UNCHANGED <<pairsid, cache, support, reset, skewed, failed>>

(* bdd_setvarnum of the number there is: an early return that leaves       *)
(* reordering disabled.                                                    *)
KeepVariables ==
  /\ Asks("setvarnum")
  /\ disabled' = TRUE
  /\ last' = NoAnswer
  /\ Step
  /\ UNCHANGED <<pairVars, cache, marks, setid, support, grown, reset, skewed, failed>>

(* bdd_swapvar for two variables that are neighbours; any reordering is a  *)
(* sequence of such exchanges and resets the caches.                       *)
SwapVar ==
  /\ Asks("reorder")
  /\ \E level \in DOMAIN order :
       /\ level + 1 \in DOMAIN order
       /\ order' = OrderDown(order, level)
       /\ pairs' = TablesDown(pairs, level)
  /\ CachesReset
  /\ last' = NoAnswer
  /\ Step
  /\ UNCHANGED <<pairsid, marks, setid, support, disabled, reset, skewed>>

(* bdd_disable_reorder and bdd_enable_reorder, called by the program.      *)
DisableReorder ==
  /\ Asks("disable_reorder")
  /\ disabled' = TRUE
  /\ last' = NoAnswer
  /\ Step
  /\ UNCHANGED <<pairVars, cache, marks, setid, support, grown, reset, skewed, failed>>

EnableReorder ==
  /\ Asks("disable_reorder")
  /\ disabled' = FALSE
  /\ last' = NoAnswer
  /\ Step
  /\ UNCHANGED <<pairVars, cache, marks, setid, support, grown, reset, skewed, failed>>

(* bdd_done and bdd_init, and bdd_setvarnum with the variables the program *)
(* began with. The program builds what it holds again.                     *)
Restart ==
  /\ Asks("restart")
  /\ order' = Identity(program.vars)
  /\ pairs' = << >>
  /\ pairsid' = 0
  /\ marks' = NoMarks(program.vars)
  /\ setid' = 0
  /\ support' = [support EXCEPT !.stamps = << >>]
  /\ disabled' = FALSE
  /\ reset' = {}
  /\ skewed' = {}
  /\ CachesReset
  /\ last' = NoAnswer
  /\ Step

-----------------------------------------------------------------------------
Init ==
  /\ program \in Programs
  /\ order = Identity(program.vars)
  /\ pairs = << >>
  /\ pairsid = 0
  /\ cache = EmptyCaches
  /\ marks = NoMarks(program.vars)
  /\ setid = 0
  /\ support = [stamps |-> << >>, size |-> 0, id |-> 0]
  /\ disabled = FALSE
  /\ last = NoAnswer
  /\ grown = FALSE
  /\ reset = {}
  /\ skewed = {}
  /\ failed = FALSE
  /\ steps = 0

Next ==
  \/ \E op \in program.ops : Call(op)
  \/ \E op \in program.ops : Interrupted(op)
  \/ \E op \in program.ops : ChangePairs(op)
  \/ CallSupport
  \/ Reset
  \/ AddVariable
  \/ KeepVariables
  \/ SwapVar
  \/ DisableReorder
  \/ EnableReorder
  \/ Restart

Spec == Init /\ [][Next]_vars

-----------------------------------------------------------------------------
ProgramType ==
  [f : SUBSET Assignments, g : SUBSET Assignments, vars : 1..MaxVars, steps : Nat,
   handles : SUBSET Handles,
   ops : SUBSET (Operations \cup PairOperations \cup
                 {"support", "resetpair", "setvarnum", "reorder", "disable_reorder", "restart"}),
   sets : SUBSET SUBSET Assignments, cubes : SUBSET SUBSET Assignments,
   oprs : [AppQuants -> SUBSET STRING]]

ASSUME ProgramsAssumption == \A p \in Programs : p \in ProgramType

(* The order is a permutation, and every table gives every level a         *)
(* function.                                                               *)
TypeOK ==
  /\ VarsOf(order) = 0..(VarNum(order) - 1)
  /\ \A i \in DOMAIN pairs : /\ DOMAIN pairs[i].result = DOMAIN order
                             /\ pairs[i].last < VarNum(order)
                             /\ pairs[i].id <= pairsid
  /\ pairsid \in 0..(PairIdMax - 1)
  /\ setid \in (-SetIdMax - 1)..SetIdMax
  /\ marks \in [DOMAIN order -> (-SetIdMax - 1)..(SetIdMax + 1)]
  /\ \A l \in DOMAIN support.stamps : support.stamps[l] \in 0..support.id

Answered(ops) == last.op \in ops

(* The calls that meet what the code does not keep apart: a count from     *)
(* before bdd_setvarnum, a table from before bdd_resetpair, a quantvarsetID*)
(* that has overflowed.                                                    *)
MeetsOldCount == grown /\ Answered({"satcount", "satcountset"})
MeetsOverflow == setid < 0
MeetsOldTable == Answered({"replace", "veccompose"}) /\ last.handle \in reset \cup skewed

(* Caching is transparent: whatever was called before, a call returns what *)
(* it would return with empty caches. Cache ids and the resets of          *)
(* collections, reorderings and pairsid have to see to it.                 *)
AnswersAsIfFresh ==
  last.op = "none" \/ MeetsOldCount \/ MeetsOldTable \/ MeetsOverflow
    \/ last.res = last.alone

(* bdd_exist, bdd_forall, bdd_appex and bdd_appall remove all variables of *)
(* the set and no others, whichever sets and signs were stamped before.    *)
QuantifiersRight ==
  LET vs == Support(last.set)
  IN  MeetsOverflow \/
      /\ Answered({"exist"})  => last.res = Exists(last.f, vs)
      /\ Answered({"forall"}) => last.res = Forall(last.f, vs)
      /\ Answered({"appex"})  => last.res = Exists(Opr(last.opr, last.f, last.g), vs)
      /\ Answered({"appall"}) => last.res = Forall(Opr(last.opr, last.f, last.g), vs)

(* s with the literals of a cube made true.                                *)
Forced(s, cube) ==
  {v \in Vars : IF DependsOn(cube, v) THEN Cofactor(cube, v, TRUE) # Zero ELSE v \in s}

(* How far two assignments are apart, the upper levels counting most.      *)
Distance(s, t, from) ==
  MapThenSumSet(LAMBDA v : 2 ^ (VarNum(from) - LevelOf(from, v)),
                {v \in VarsOf(from) : (v \in s) # (v \in t)})

Nearest(s, c, from) ==
  CHOOSE t \in c : \A u \in c : Distance(s, t, from) <= Distance(s, u, from)

(* bdd_restrict fixes the literals of the cube. bdd_constrain is the       *)
(* generalized cofactor: outside of c, f at the nearest assignment in c.   *)
(* bdd_simplify agrees with f on d and adds no variable.                   *)
CofactorsRight ==
  /\ Answered({"restrict"}) /\ ~MeetsOverflow =>
       last.res = {s \in Assignments : Forced(s, last.set) \in last.f}
  /\ Answered({"constrain"}) /\ last.g # Zero =>
       last.res = {s \in Assignments : Nearest(s, last.g, last.order) \in last.f}
  /\ Answered({"simplify"}) =>
       /\ last.res \cap last.g = last.f \cap last.g
       /\ Support(last.res) \subseteq Support(last.f)

(* bdd_replace looks at the topmost variable of a table's entry only.      *)
NewVar(f, from) == IF IsConst(f) THEN f ELSE Ithvar(from[Level(from, f)])

Renaming == [v \in DOMAIN last.sub |-> NewVar(last.sub[v], last.order)]

Clash ==
  \E v, w \in Support(last.f) : v # w /\ Renaming[v] = Renaming[w]

(* bdd_compose, bdd_veccompose and bdd_replace substitute, all variables   *)
(* at once, what the table says now. bdd_replace may refuse, if two        *)
(* variables get the same name or one none; a renaming that is not refused *)
(* is right.                                                               *)
SubstitutionsRight ==
  MeetsOldTable \/
  /\ Answered({"compose", "veccompose"}) => last.res = Substitute(last.f, last.sub)
  /\ Answered({"replace"}) /\ ~failed => last.res = Substitute(last.f, Renaming)
  /\ Answered({"replace"}) /\ last.error =>
       Clash \/ \E v \in Support(last.f) : IsConst(last.sub[v])

(* What is left of f when the variables above a level have values: the     *)
(* nodes of f at that level, if they test its variable.                    *)
NodesAt(f, level, from) ==
  LET above == {from[l] : l \in {l \in DOMAIN from : l < level}}
      fixed(t) == {s \in Assignments : (s \ above) \cup t \in f}
  IN  {n \in {fixed(t) : t \in SUBSET above} : DependsOn(n, from[level])}

NodesOf(f, from) == UNION {NodesAt(f, l, from) : l \in DOMAIN from}

(* The assignments of the variables there are, or of a set, that make f    *)
(* true; the paths to the terminal true; the nodes of f, of f and g        *)
(* together and of each variable: every function that fixing variables     *)
(* from the top leaves, once. No mark stays behind to spoil the next count.*)
CountsRight ==
  LET over(vs) == Cardinality({s \in last.f : s \subseteq vs})
  IN  MeetsOldCount \/
      /\ Answered({"satcount"}) => last.res = over(VarsOf(last.order))
      /\ Answered({"satcountset"}) /\ ~IsConst(last.set) => last.res = over(Support(last.set))
      /\ Answered({"pathcount"}) =>
           last.res = Len(AllSat(last.f, [NoGlobals EXCEPT !.order = last.order]))
      /\ Answered({"nodecount"}) => last.res.num = Cardinality(NodesOf(last.f, last.order))
      /\ Answered({"anodecount"}) =>
           last.res.num = Cardinality(NodesOf(last.f, last.order) \cup NodesOf(last.g, last.order))
      /\ Answered({"varprofile"}) => \A l \in DOMAIN last.order :
           last.res.num[last.order[l]] = Cardinality(NodesAt(last.f, l, last.order))
      /\ Answered(NodeCounting) => last.res.left = {}

IsCube(f) == Cardinality(f) * 2 ^ Cardinality(Support(f)) = Cardinality(Assignments)

(* bdd_satone, bdd_satoneset and bdd_fullsatone pick a cube inside of f if *)
(* there is one; the set forces its variables in, with the polarity asked  *)
(* for where f does not mind; the full one is a single assignment.         *)
ChoicesRight ==
  Answered(Choosing) =>
    /\ last.res \subseteq last.f
    /\ last.f = Zero \/ IsCube(last.res)
    /\ Answered({"satone"}) => Support(last.res) \subseteq Support(last.f)
    /\ Answered({"satoneset"}) /\ last.f # Zero =>
         /\ Support(last.set) \subseteq Support(last.res)
         /\ Support(last.res) \subseteq Support(last.set) \cup Support(last.f)
         /\ \A v \in Support(last.set) \ Support(last.f) :
              last.res \subseteq (IF last.polarity THEN Ithvar(v) ELSE Nithvar(v))
    /\ Answered({"fullsatone"}) /\ last.f # Zero => Support(last.res) = VarsOf(last.order)

CubeOf(profile) ==
  {s \in Assignments : \A v \in DOMAIN profile :
     profile[v] # -1 => (v \in s) = (profile[v] = 1)}

(* bdd_allsat shows its handler, and bdd_printset prints, every satisfying *)
(* assignment exactly once, in cubes, and no entry of the array that was   *)
(* never written or is left over from another path.                        *)
ListsEachOnce ==
  Answered(Listing) =>
    /\ last.f = UNION {CubeOf(last.res[i]) : i \in DOMAIN last.res}
    /\ \A i, j \in DOMAIN last.res :
         i # j => CubeOf(last.res[i]) \cap CubeOf(last.res[j]) = {}

(* Exempt: the first bdd_support after bdd_done and bdd_init, which writes  *)
(* through a null pointer.                                                 *)
MeetsNoArray == last.null

(* bdd_support returns the variables f depends on, however the stamps of   *)
(* earlier calls and of fewer variables lie.                               *)
SupportRight ==
  Answered({"support"}) /\ ~MeetsNoArray /\ ~IsConst(last.f) =>
    last.res = {s \in Assignments : Support(last.f) \subseteq s}

(* Exempt: a reordering has put a variable of the set below one with a     *)
(* greater number. The code goes by the levels, and the order documented   *)
(* at kernel.c:1427-1428 is not kept.                                      *)
MeetsNewOrder ==
  \E v, w \in Support(last.set) : v < w /\ LevelOf(last.order, v) > LevelOf(last.order, w)

(* bdd_buildcube is the assignment whose bits are the value, the first     *)
(* variable counting most; bdd_scanset lists the variables of a set, each  *)
(* once and in ascending order, as its documentation guarantees, unless    *)
(* they were exchanged; and bdd_makeset makes the set of them again.       *)
CubesRight ==
  /\ Answered({"buildcube"}) =>
       last.res = {s \in Assignments :
         last.value = (IF last.variables[1] \in s THEN 2 ELSE 0)
                        + (IF last.variables[2] \in s THEN 1 ELSE 0)}
  /\ Answered({"scanset"}) =>
       /\ \A i, j \in DOMAIN last.res : i < j => last.res[i] # last.res[j]
       /\ MeetsNewOrder \/ \A i, j \in DOMAIN last.res : i < j => last.res[i] < last.res[j]
       /\ MakeSet(last.res) = last.set

(* A table says "no change" for every level below its last one, which is   *)
(* where replace_rec and veccompose_rec stop; reordering moves entries     *)
(* across that line, and bdd_setvarnum adds levels below it.               *)
LastCovers ==
  \A i \in DOMAIN pairs : \A l \in DOMAIN order :
    l > pairs[i].last /\ pairs[i].handle \notin skewed =>
      pairs[i].result[l] = Ithvar(order[l])

(* Whatever was called, interrupted, reordered or added before, quantifiers*)
(* and their combinations with an operator, restrict, constrain, simplify, *)
(* compose, veccompose and replace return the function their names say.    *)
OperationsRight == QuantifiersRight /\ CofactorsRight /\ SubstitutionsRight

(* Whatever was called or reordered before, the assignments picked, listed *)
(* and printed, the support and the cubes are those of the function,       *)
(* except where bdd_support has no array (MeetsNoArray) and in the order   *)
(* that bdd_scanset lists exchanged variables in (MeetsNewOrder).          *)
WitnessesRight == ChoicesRight /\ ListsEachOnce /\ SupportRight /\ CubesRight

(* Two tables of pairs never have the same id, which cache entries would   *)
(* confuse, and none says "no change" where it has one: through resets,    *)
(* wrap-arounds of the id, reorderings and new variables. All that is kept *)
(* per level has room for every level.                                     *)
TablesSound == TypeOK /\ PairIdsDistinct /\ LastCovers

(* No recursion asks bdd_makenode for a node above or beside its variable. *)
(* The node table would take it, and two nodes would be one function.      *)
NodesOrdered == last.op = "none" \/ last.ordered

(***************************************************************************)
(* What the documentation says and the code does not do.                   *)
(***************************************************************************)

(* bdd_appuni combines and quantifies whatever was called before. It uses  *)
(* the ids of bdd_appall.                                                  *)
AppUniAsIfFresh == Answered({"appuni"}) => last.res = last.alone
=============================================================================
