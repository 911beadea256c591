------------------------------ MODULE SaveLoad ------------------------------
(***************************************************************************)
(* bdd_save and bdd_load (src/src/bddio.c): the file as the numbers in it, *)
(* and the hash table that leads from the node numbers of a file to the    *)
(* nodes built for them. The variable order is written and read as well,   *)
(* but nothing is done with it.                                            *)
(***************************************************************************)
EXTENDS References

CONSTANT FirstSlot   (* bound: the lowest node number that is not pinned   *)

ASSUME FirstSlotAssumption == FirstSlot \in Nat /\ FirstSlot >= 10

(* What is left of f when its variables in vs are those in s.              *)
Fixing(f, vs, s) == {t \in Assignments : ((t \ vs) \cup s) \in f}

(* bdd_mark, bdd_markcount: the nodes of the diagram of f. One has what is *)
(* left of f when the variables above some level have values.              *)
Below(order, f) ==
  ({f} \cup UNION {{Fixing(f, vs, s) : s \in SUBSET vs} :
                     vs \in {{order[k] : k \in 0..l} : l \in DOMAIN order}}) \ {Zero, One}

(* bdd_save_rec: what is below a node is written before the node, and what *)
(* is marked is not written again.                                         *)
SaveRec(order, root) ==
  LET rec[f \in SUBSET Assignments, written \in Seq(SUBSET Assignments)] ==
        IF IsConst(f) \/ f \in ToSet(written) THEN written
        ELSE Append(rec[High(order, f), rec[Low(order, f), written]], f)
  IN  rec[root, << >>]

(* bdd_save, with the nodes in slots that are stride apart. The file is    *)
(* complete: header tells the numbers there are in its first line, where a *)
(* constant has its root as the third and any other file the order as the  *)
(* rest. of is history, what was saved.                                    *)
Saved(order, r, stride) ==
  LET nodes == SaveRec(order, r)
      Slot(f) == CASE f = Zero -> 0
                   [] f = One  -> 1
                   [] OTHER    -> FirstSlot + stride * IndexFirstSubSeq(<<f>>, nodes)
      entry(f) == [key |-> Slot(f), var |-> order[Level(order, f)],
                   low |-> Slot(Low(order, f)), high |-> Slot(High(order, f))]
  IN  [header  |-> 3,
       nodenum |-> Cardinality(Below(order, r)),
       varnum  |-> IF IsConst(r) THEN 0 ELSE VarNum(order),
       root    |-> IF IsConst(r) THEN Slot(r) ELSE 0,
       entries |-> [i \in DOMAIN nodes |-> entry(nodes[i])],
       cut |-> FALSE, of |-> r]

(* What a full disk or a crash leaves of a file: some numbers of its first *)
(* line, its first lines, or the last of them short of a digit. bdd_save   *)
(* does not look at what fprintf returns. A file with no number in it is   *)
(* read like one with one number, and one without all of its order like    *)
(* one without entries.                                                    *)
Damaged(file) ==
  LET first(k) == [file EXCEPT !.entries = SubSeq(@, 1, k)]
  IN  {[first(0) EXCEPT !.header = k] : k \in 1..2}
        \cup {first(k) : k \in 1..(file.nodenum - 1)}
        \cup {[first(k) EXCEPT !.entries[k].high = @ \div 10, !.cut = TRUE] :
                k \in {k \in 1..file.nodenum : file.entries[k].high >= 10}}

-----------------------------------------------------------------------------
(* lh_table with lh_freepos; lh_nodenum is the number of its slots.        *)

Unwritten == {{-2}}   (* data malloc has left there                        *)
NotFound  == {{-3}}

EmptyHash(n) ==
  [slot |-> [i \in 0..(n - 1) |-> [key |-> 0, data |-> Unwritten, first |-> -1,
                                   next |-> IF i = n - 1 THEN -1 ELSE i + 1]],
   freepos |-> 0]

HashSize(h) == Cardinality(DOMAIN h.slot)

(* loadhash_add. Head and cell may be one slot.                            *)
LoadHashAdd(h, key, data) ==
  LET hash == key % HashSize(h)
      pos  == h.freepos
      linked == [h.slot EXCEPT ![pos].next = h.slot[hash].first, ![pos].key = key, ![pos].data = data]
  IN  [slot |-> [linked EXCEPT ![hash].first = pos], freepos |-> h.slot[pos].next]

LoadHashFirst(h, key) ==
  LET pos == h.slot[key % HashSize(h)].first IN IF pos = -1 THEN NotFound ELSE h.slot[pos].data

(* loadhash_get.                                                           *)
LoadHashGet(h, key) ==
  LET from[pos \in Int] ==
        CASE pos = -1               -> NotFound
          [] h.slot[pos].key = key  -> h.slot[pos].data
          [] OTHER                  -> from[h.slot[pos].next]
  IN  from[h.slot[key % HashSize(h)].first]

LoadedBy(h) == {i \in DOMAIN h.slot : h.slot[i].data # Unwritten}

(* The low or high node an entry names.                                    *)
Operand(h, number) ==
  CASE number = 0 -> Zero
    [] number = 1 -> One
    [] OTHER      -> LoadHashGet(h, number)
=============================================================================
