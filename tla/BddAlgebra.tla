----------------------------- MODULE BddAlgebra -----------------------------
(***************************************************************************)
(* Decision diagrams as what they denote. The node table keeps one node a  *)
(* function (NodeTable, Canonical), so that a node number can be replaced  *)
(* by the function: the set of assignments it is true for, an assignment   *)
(* being the set of the variables it makes true. Comparing node numbers,   *)
(* as caches and shortcuts do, is then comparing functions.                *)
(***************************************************************************)
EXTENDS Integers, FiniteSets, FiniteSetsExt

CONSTANT MaxVars   (* bound: the variables there can ever be               *)

ASSUME MaxVarsAssumption == MaxVars \in Nat \ {0}

Vars        == 0..(MaxVars - 1)
Assignments == SUBSET Vars
Zero        == {}
One         == Assignments
IsConst(f)  == f = Zero \/ f = One

(* bdd_ithvar and bdd_nithvar.                                             *)
Ithvar(v)  == {s \in Assignments : v \in s}
Nithvar(v) == Assignments \ Ithvar(v)

Cofactor(f, v, value) ==
  {s \in Assignments : (IF value THEN s \cup {v} ELSE s \ {v}) \in f}

Branch(v, low, high) == {s \in low : v \notin s} \cup {s \in high : v \in s}

DependsOn(f, v) == \E s \in f : (IF v \in s THEN s \ {v} ELSE s \cup {v}) \notin f
Support(f)      == {v \in Vars : DependsOn(f, v)}

-----------------------------------------------------------------------------
(* The view of the code. An order is bddlevel2var: the variable at each    *)
(* level 0..bddvarnum-1.                                                   *)

VarNum(order)   == Cardinality(DOMAIN order)
VarsOf(order)   == {order[l] : l \in DOMAIN order}
LevelOf(order, v) == CHOOSE l \in DOMAIN order : order[l] = v   (* bddvar2level *)

(* LEVEL, LOW and HIGH. Both terminals have level bddvarnum, and are their *)
(* own children.                                                           *)
Level(order, f) ==
  LET tested == {l \in DOMAIN order : DependsOn(f, order[l])}
  IN  IF tested = {} THEN VarNum(order) ELSE Min(tested)

Child(order, f, value) ==
  IF IsConst(f) THEN f ELSE Cofactor(f, order[Level(order, f)], value)

Low(order, f)  == Child(order, f, FALSE)
High(order, f) == Child(order, f, TRUE)

-----------------------------------------------------------------------------
(* What the operators mean.                                                *)

Not(f)       == Assignments \ f
Ite(f, g, h) == (f \cap g) \cup (Not(f) \cap h)

Opr(op, l, r) ==
  CASE op = "and"    -> l \cap r
    [] op = "xor"    -> (l \ r) \cup (r \ l)
    [] op = "or"     -> l \cup r
    [] op = "nand"   -> Not(l \cap r)
    [] op = "nor"    -> Not(l \cup r)
    [] op = "imp"    -> Not(l) \cup r
    [] op = "biimp"  -> Not((l \ r) \cup (r \ l))
    [] op = "diff"   -> l \ r
    [] op = "less"   -> r \ l
    [] op = "invimp" -> l \cup Not(r)

(* Every value of the variables in vs, elsewhere as s.                     *)
Fibre(s, vs) == {(s \ vs) \cup t : t \in SUBSET vs}

Exists(f, vs) == {s \in Assignments : Fibre(s, vs) \cap f # {}}
Forall(f, vs) == {s \in Assignments : Fibre(s, vs) \subseteq f}

(* Every variable v replaced by the function sub[v], all at once.          *)
Substitute(f, sub) ==
  {s \in Assignments : ({v \in Vars \ DOMAIN sub : v \in s}
                          \cup {v \in DOMAIN sub : s \in sub[v]}) \in f}
=============================================================================
