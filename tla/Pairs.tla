------------------------------- MODULE Pairs --------------------------------
(***************************************************************************)
(* Replacement pairs (src/src/pairs.c), and the order of the variables     *)
(* they are stored in. A table of pairs gives every level a function; its  *)
(* id is what the replace cache knows it by, so that every change of the   *)
(* table needs a new id. Memory and reference counts are left out.         *)
(***************************************************************************)
EXTENDS BddAlgebra, Sequences

CONSTANTS
  Handles,    (* the tables a program can have, by the pointers it holds   *)
  PairIdMax   (* INT_MAX >> 2, where pairsid wraps                         *)

ASSUME PairIdMaxAssumption == PairIdMax \in Nat /\ PairIdMax > Cardinality(Handles) + 1

VARIABLES
  order,     (* bddlevel2var                                               *)
  pairs,     (* the list of tables, newest first                           *)
  pairsid

pairVars == <<order, pairs, pairsid>>

Defaults(from) == [l \in DOMAIN from |-> Ithvar(from[l])]

IndexOf(list, h) == CHOOSE i \in DOMAIN list : list[i].handle = h
Registered(h)    == \E i \in DOMAIN pairs : pairs[i].handle = h
Table(list, h)   == list[IndexOf(list, h)]

-----------------------------------------------------------------------------
(* update_pairsid: the next id or, at the limit, new ids for all tables.   *)

Wraps == pairsid + 1 = PairIdMax

NextId == IF Wraps THEN Len(pairs) ELSE pairsid + 1

NumberedKeepingIds == pairs

Numbered ==
  IF Wraps THEN [i \in DOMAIN pairs |-> [pairs[i] EXCEPT !.id = i - 1]] ELSE pairs

(* bdd_newpair.                                                            *)
NewPair(h) ==
  /\ ~Registered(h)
  /\ pairs' = <<[handle |-> h, id |-> NextId, last |-> -1, result |-> Defaults(order)]>>
                \o Numbered
  /\ pairsid' = NextId
  /\ UNCHANGED order

(* What bdd_setpair and bdd_setbddpair write.                              *)
TableWith(t, level, f) ==
  [t EXCEPT !.result[level] = f, !.id = NextId, !.last = IF level > @ THEN level ELSE @]

SetTo(h, old, f) ==
  /\ Registered(h)
  /\ old \in VarsOf(order)
  /\ pairs' = [Numbered EXCEPT ![IndexOf(pairs, h)] = TableWith(@, LevelOf(order, old), f)]
  /\ pairsid' = NextId
  /\ UNCHANGED order

SetPair(h, old, new)   == new \in VarsOf(order) /\ SetTo(h, old, Ithvar(new))
SetBddPair(h, old, f)  == SetTo(h, old, f)

(* bdd_resetpair: no new id, and the variable n at level n.                *)
ResetPair(h) ==
  /\ Registered(h)
  /\ pairs' = [pairs EXCEPT ![IndexOf(pairs, h)].result = [l \in DOMAIN order |-> Ithvar(l)],
                            ![IndexOf(pairs, h)].last = 0]
  /\ UNCHANGED <<order, pairsid>>

FreePair(h) ==
  /\ Registered(h)
  /\ pairs' = SelectSeq(pairs, LAMBDA t : t.handle # h)
  /\ UNCHANGED <<order, pairsid>>

-----------------------------------------------------------------------------
(* What the rest of the library does to the tables.                        *)

Exchanged(f, level) == [f EXCEPT ![level] = f[level + 1], ![level + 1] = f[level]]

TablesDownKeepingLast(list, level) ==
  [i \in DOMAIN list |-> [list[i] EXCEPT !.result = Exchanged(@, level)]]

(* bdd_pairs_vardown: the variables at level and level + 1 change places.  *)
TablesDown(list, level) ==
  [i \in DOMAIN list |-> [list[i] EXCEPT !.result = Exchanged(@, level),
                                         !.last = IF @ = level THEN @ + 1 ELSE @]]

(* bdd_pairs_resize, for the levels bdd_setvarnum adds.                    *)
TablesGrown(list, newOrder) ==
  [i \in DOMAIN list |->
     [list[i] EXCEPT !.result = [l \in DOMAIN newOrder |->
                                   IF l \in DOMAIN @ THEN @[l] ELSE Ithvar(newOrder[l])]]]

-----------------------------------------------------------------------------
(* Two tables never share an id: the replace cache tells them apart by it. *)
(* At the limit pairsid starts again under tables that are still in use.   *)
PairIdsDistinct ==
  \A i, j \in DOMAIN pairs : pairs[i].id = pairs[j].id => i = j
=============================================================================
