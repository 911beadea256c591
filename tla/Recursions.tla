----------------------------- MODULE Recursions -----------------------------
(***************************************************************************)
(* The recursions of src/src/bddop.c other than those of Apply: each one   *)
(* as an operator from operands, the globals set before it and a machine   *)
(* state to a result and a machine state.                                  *)
(*                                                                         *)
(* The machine state m holds the caches, as functions from the fields a    *)
(* lookup compares to the result; m.ordered: no bdd_makenode so far was    *)
(* asked for a node above or beside its own variable; m.made: one was      *)
(* called, and might have jumped; m.error: bdd_error(BDD_REPLACE) was      *)
(* called. A cache forgets nothing here: with collisions and collections   *)
(* it would answer fewer questions, never others.                          *)
(*                                                                         *)
(* The globals g: order (bddlevel2var), last (quantlast or replacelast),   *)
(* marks and setid (quantvarset and quantvarsetID), opr (applyop), appex   *)
(* (appexop), the cache ids, pair (replacepair), level (composelevel).     *)
(*                                                                         *)
(* apply_rec and ite_rec appear by their result: Apply is about how they   *)
(* get it.                                                                 *)
(***************************************************************************)
EXTENDS BddAlgebra, Sequences, TLC

Caches == {"apply", "quant", "appex", "replace", "misc"}

Fresh(cache) == [cache |-> cache, ordered |-> TRUE, error |-> FALSE, made |-> FALSE]

Returns(r, m) == [res |-> r, m |-> m]

-----------------------------------------------------------------------------
(* Cache ids. A shift and an or are the fields they keep apart; a field    *)
(* that is not there is the 0 that is shifted. ("FIXME: range" in the code *)
(* is about the bits a shift drops, which this leaves out.)                *)

CacheId(var, opr, bit, id) == [var |-> var, opr |-> opr, bit |-> bit, id |-> id]

RestrictId(var)        == CacheId(var, "none", 0, "restrict")
ConstrainId            == CacheId(Zero, "none", 0, "constrain")
CountId(kind)          == CacheId(Zero, "none", 0, kind)
QuantId(var, kind)     == CacheId(var, "none", 0, kind)

AppexIdWithoutOpr(var, opr, bit) == CacheId(var, "none", bit, "appex")

(* (var << 5) | (appexop << 1) | bit, the id of an appexcache entry.       *)
AppexId(var, opr, bit) == CacheId(var, opr, bit, "appex")

(* (appexid << 3) | id, the id of a quantcache entry on behalf of appquant.*)
AppexQuantId(appexid, kind) == [appexid EXCEPT !.id = kind]

SimplifyId             == CacheId(Zero, "simplify", 0, "none")

CacheOf(op) ==
  CASE op \in {"restrict", "constrain", "satcount", "pathcount"} -> "misc"
    [] op \in {"replace", "compose", "veccompose"}               -> "replace"
    [] op = "quant"                                              -> "quant"
    [] op = "appquant"                                           -> "appex"
    [] op = "simplify"                                           -> "apply"

(* The fields a, b and c that a lookup compares. Where it does not compare *)
(* b, b is Zero here.                                                      *)
Key(op, a, g) ==
  <<a[1], IF op \in {"constrain", "compose", "simplify", "appquant"} THEN a[2] ELSE Zero,
    CASE CacheOf(op) = "misc"    -> g.miscid
      [] CacheOf(op) = "replace" -> g.replaceid
      [] CacheOf(op) = "quant"   -> g.quantid
      [] CacheOf(op) = "appex"   -> g.appexid
      [] CacheOf(op) = "apply"   -> SimplifyId>>

Kept(m, op, key, r) == [m EXCEPT !.cache[CacheOf(op)] = (key :> r) @@ @]

-----------------------------------------------------------------------------
(* The node table.                                                         *)

MakeNode(level, low, high, g, m) ==
  IF low = high THEN Returns(low, m)
  ELSE Returns(Branch(g.order[level], low, high),
               [m EXCEPT !.made = TRUE,
                         !.ordered = @ /\ level < Level(g.order, low)
                                       /\ level < Level(g.order, high)])

(* What apply_rec or ite_rec returns; both end in bdd_makenode.            *)
Applied(r, m) == Returns(r, [m EXCEPT !.made = @ \/ ~IsConst(r)])

TopLevel(f, h, g) == Min({Level(g.order, f), Level(g.order, h)})

(* The operands at a level go down, the others stay.                       *)
Down(a, level, value, g) ==
  [i \in DOMAIN a |-> IF Level(g.order, a[i]) = level THEN Child(g.order, a[i], value) ELSE a[i]]

InVarSet(level, g)  == g.marks[level] = g.setid
InSVarSet(level, g) == (IF g.marks[level] < 0 THEN -g.marks[level] ELSE g.marks[level]) = g.setid

RECURSIVE Rec(_, _, _, _)

(* The recursion on both halves, low first.                                *)
Halves(op, low, high, g, m) ==
  LET l == Rec(op, low, g, m)
      h == Rec(op, high, g, l.m)
  IN  [low |-> l.res, high |-> h.res, m |-> h.m]

-----------------------------------------------------------------------------
(* The body of each recursion, after shortcuts and cache lookup.           *)

NodeFrom(level, s, g) == MakeNode(level, s.low, s.high, g, s.m)

HalvesAt(op, a, level, g, m) ==
  Halves(op, Down(a, level, FALSE, g), Down(a, level, TRUE, g), g, m)

NodeOfHalves(op, a, level, g, m) == NodeFrom(level, HalvesAt(op, a, level, g, m), g)

(* The operands of a recursion on the children of a node.                  *)
HalvesOf(op, f, g, m) == Halves(op, <<Low(g.order, f)>>, <<High(g.order, f)>>, g, m)

RestrictRec(a, g, m) ==
  LET level == Level(g.order, a[1])
  IN  IF InSVarSet(level, g)
      THEN Rec("restrict", <<Child(g.order, a[1], g.marks[level] > 0)>>, g, m)
      ELSE NodeOfHalves("restrict", a, level, g, m)

(* The care set c decides the branch where one half of it is empty.        *)
ConstrainRec(a, g, m) ==
  LET level == TopLevel(a[1], a[2], g)
      cTop  == Level(g.order, a[2]) = level
  IN  IF cTop /\ Low(g.order, a[2]) = Zero
      THEN Rec("constrain", Down(a, level, TRUE, g), g, m)
      ELSE IF cTop /\ High(g.order, a[2]) = Zero
      THEN Rec("constrain", Down(a, level, FALSE, g), g, m)
      ELSE NodeOfHalves("constrain", a, level, g, m)

SimplifyRec(a, g, m) ==
  LET f == a[1]
      d == a[2]
      level == Level(g.order, f)
  IN  CASE Level(g.order, d) < level ->
             Rec("simplify", <<f, Opr(g.opr, Low(g.order, d), High(g.order, d))>>, g, m)
        [] Level(g.order, d) = level /\ Low(g.order, d) = Zero ->
             Rec("simplify", <<High(g.order, f), High(g.order, d)>>, g, m)
        [] Level(g.order, d) = level /\ Low(g.order, d) # Zero /\ High(g.order, d) = Zero ->
             Rec("simplify", <<Low(g.order, f), Low(g.order, d)>>, g, m)
        [] OTHER -> NodeOfHalves("simplify", a, level, g, m)

(* Quantified levels are combined, the others rebuilt.                     *)
Quantified(level, s, g) ==
  IF InVarSet(level, g) THEN Applied(Opr(g.opr, s.low, s.high), s.m) ELSE NodeFrom(level, s, g)

QuantRec(a, g, m) ==
  Quantified(Level(g.order, a[1]), HalvesOf("quant", a[1], g, m), g)

AppQuantRec(a, g, m) ==
  LET level == TopLevel(a[1], a[2], g)
  IN  Quantified(level, HalvesAt("appquant", a, level, g, m), g)

RECURSIVE Correctify(_, _, _, _, _)

(* bdd_correctify: a node for a level that need not be above its children. *)
Correctify(level, l, r, g, m) ==
  LET ll == Level(g.order, l)
      lr == Level(g.order, r)
      top == Min({ll, lr})
      lows  == Down(<<l, r>>, top, FALSE, g)
      highs == Down(<<l, r>>, top, TRUE, g)
      low   == Correctify(level, lows[1], lows[2], g, m)
      high  == Correctify(level, highs[1], highs[2], g, low.m)
  IN  CASE level < ll /\ level < lr -> MakeNode(level, l, r, g, m)
        [] level \in {ll, lr}       -> Returns(Zero, [m EXCEPT !.error = TRUE])
        [] OTHER                    -> MakeNode(top, low.res, high.res, g, high.m)

ReplacedLevel(a, g) == Level(g.order, g.pair[Level(g.order, a[1])])

ReplaceUncorrected(a, g, m) == NodeFrom(ReplacedLevel(a, g), HalvesOf("replace", a[1], g, m), g)

CorrectHalves(level, s, g) == Correctify(level, s.low, s.high, g, s.m)

ReplaceRec(a, g, m) == CorrectHalves(ReplacedLevel(a, g), HalvesOf("replace", a[1], g, m), g)

IteHalves(f, s) == Applied(Ite(f, s.high, s.low), s.m)

VecComposeRec(a, g, m) ==
  IteHalves(g.pair[Level(g.order, a[1])], HalvesOf("veccompose", a[1], g, m))

ComposeRec(a, g, m) ==
  IF Level(g.order, a[1]) < g.level
  THEN NodeOfHalves("compose", a, TopLevel(a[1], a[2], g), g, m)
  ELSE Applied(Ite(a[2], High(g.order, a[1]), Low(g.order, a[1])), m)

(* satcount_rec: each half counts for the levels it skips.                 *)
Weighed(f, s, g) ==
  LET skipped(child) == Level(g.order, child) - Level(g.order, f) - 1
  IN  Returns(2 ^ skipped(Low(g.order, f)) * s.low + 2 ^ skipped(High(g.order, f)) * s.high, s.m)

Added(s) == Returns(s.low + s.high, s.m)

SatCountUnweighed(a, g, m) == Added(HalvesOf("satcount", a[1], g, m))

SatCountRec(a, g, m) == Weighed(a[1], HalvesOf("satcount", a[1], g, m), g)

PathCountRec(a, g, m) == Added(HalvesOf("pathcount", a[1], g, m))

-----------------------------------------------------------------------------
(* The answers before the cache is looked at: none or one.                 *)

(* appquant_rec leaves for quant_rec on one operand.                       *)
LeftToQuant(g, l, r) ==
  CASE g.appex = "and" -> IF l = r THEN {l} ELSE IF l = One THEN {r} ELSE IF r = One THEN {l} ELSE {}
    [] g.appex = "or"  -> IF l = r THEN {l} ELSE IF l = Zero THEN {r} ELSE IF r = Zero THEN {l} ELSE {}
    [] g.appex = "xor" -> IF l = Zero THEN {r} ELSE IF r = Zero THEN {l} ELSE {}
    [] OTHER           -> {}

Settled(g, l, r) ==
  CASE g.appex = "and"  -> IF Zero \in {l, r} THEN {Zero} ELSE {}
    [] g.appex = "or"   -> IF One \in {l, r} THEN {One} ELSE {}
    [] g.appex = "xor"  -> IF l = r THEN {Zero} ELSE {}
    [] g.appex = "nand" -> IF Zero \in {l, r} THEN {One} ELSE {}
    [] g.appex = "nor"  -> IF One \in {l, r} THEN {Zero} ELSE {}
    [] OTHER            -> {}

BelowLast(f, g) == IsConst(f) \/ Level(g.order, f) > g.last

Shortcut(op, a, g) ==
  CASE op \in {"restrict", "quant", "replace", "veccompose"} ->
         IF BelowLast(a[1], g) THEN {a[1]} ELSE {}
    [] op \in {"constrain", "simplify"} ->
         CASE a[2] = One \/ IsConst(a[1]) -> {a[1]}
           [] a[1] = a[2]                 -> {One}
           [] a[2] = Zero                 -> {Zero}
           [] OTHER                       -> {}
    [] op = "compose"  -> IF Level(g.order, a[1]) > g.level THEN {a[1]} ELSE {}
    [] op = "appquant" ->
         CASE Settled(g, a[1], a[2]) # {} -> Settled(g, a[1], a[2])
           [] LeftToQuant(g, a[1], a[2]) # {} -> {}
           [] BelowLast(a[1], g) /\ BelowLast(a[2], g) -> {Opr(g.appex, a[1], a[2])}
           [] OTHER -> {}
    [] op \in {"satcount", "pathcount"} ->
         CASE a[1] = Zero -> {0}
           [] a[1] = One  -> {1}
           [] OTHER       -> {}

Body(op, a, g, m) ==
  CASE op = "restrict"   -> RestrictRec(a, g, m)
    [] op = "constrain"  -> ConstrainRec(a, g, m)
    [] op = "simplify"   -> SimplifyRec(a, g, m)
    [] op = "quant"      -> QuantRec(a, g, m)
    [] op = "appquant"   -> AppQuantRec(a, g, m)
    [] op = "replace"    -> ReplaceRec(a, g, m)
    [] op = "veccompose" -> VecComposeRec(a, g, m)
    [] op = "compose"    -> ComposeRec(a, g, m)
    [] op = "satcount"   -> SatCountRec(a, g, m)
    [] op = "pathcount"  -> PathCountRec(a, g, m)

Entered(op, key, out) == Returns(out.res, Kept(out.m, op, key, out.res))

Looked(op, a, g, m, key) ==
  IF key \in DOMAIN m.cache[CacheOf(op)] THEN Returns(m.cache[CacheOf(op)][key], m)
  ELSE Entered(op, key, Body(op, a, g, m))

(* Every recursion: shortcut, cached answer, or body and new entry.        *)
Attempt(op, a, g, m, short, quant) ==
  CASE short # {} -> Returns(CHOOSE r \in short : TRUE, m)
    [] short = {} /\ quant # {} -> Rec("quant", <<CHOOSE r \in quant : TRUE>>, g, m)
    [] OTHER -> Looked(op, a, g, m, Key(op, a, g))

Rec(op, a, g, m) ==
  Attempt(op, a, g, m, Shortcut(op, a, g),
          IF op = "appquant" THEN LeftToQuant(g, a[1], a[2]) ELSE {})
=============================================================================
