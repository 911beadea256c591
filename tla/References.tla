----------------------------- MODULE References -----------------------------
(***************************************************************************)
(* The reference counts of the nodes a program holds, as bdd_addref and    *)
(* bdd_delref keep them: a ledger has a bag of counts, and whether a       *)
(* reference was given back that nobody had (BDD_BREAK, which the default  *)
(* handler answers with abort; here another one goes on).                  *)
(***************************************************************************)
EXTENDS BddAlgebra, BagsExt, SequencesExt, TLC

(* Constants and variables have a saturated count, that nothing changes.   *)
Pinned(f) == IsConst(f) \/ \E v \in Vars : f \in {Ithvar(v), Nithvar(v)}

NoReferences == [count |-> EmptyBag, broken |-> FALSE]

Count(f, m) == IF f \in DOMAIN m.count THEN m.count[f] ELSE 0

(* bdd_addref.                                                             *)
AddRef(f, m) == IF Pinned(f) THEN m ELSE [m EXCEPT !.count = BagAdd(@, f)]

(* bdd_delref: a count of zero stays zero, and is an error.                *)
DelRef(f, m) ==
  IF Pinned(f) THEN m
  ELSE [count |-> BagRemove(m.count, f), broken |-> m.broken \/ Count(f, m) = 0]

(* bvec_addref, bvec_delref.                                               *)
AddRefs(v, m) == FoldLeft(LAMBDA a, f : AddRef(f, a), m, v)
DelRefs(v, m) == FoldLeft(LAMBDA a, f : DelRef(f, a), m, v)
=============================================================================
