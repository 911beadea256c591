---------------------------- MODULE MCBlockOrder ---------------------------
(***************************************************************************)
(* Four variables. Sizes are those of real BDDs under every order, with    *)
(* one more when a count has saturated, and a made up one with many local  *)
(* minima.                                                                 *)
(***************************************************************************)
EXTENDS BlockOrder

(* A function of the variables as the sets of variables that are true.     *)
Chooses == {S \in SUBSET (0..3) : IF 3 \in S THEN 0 \in S ELSE 1 \in S /\ 2 \notin S}

(* The number of nodes of the functions in F: at each level the different  *)
(* cofactors by the variables above that depend on the variable there.     *)
NodesOf(F, l) ==
  LET above(v) == {w \in 0..3 : l[w] < l[v]}
      cofactor(f, v, A) == {S \in SUBSET ((0..3) \ above(v)) : A \cup S \in f}
      depends(v, g) == \E S \in SUBSET ((0..3) \ (above(v) \cup {v})) : (S \in g) # (S \cup {v} \in g)
      at(v) == Cardinality({g \in {cofactor(f, v, A) : f \in F, A \in SUBSET above(v)} : depends(v, g)})
  IN  at(0) + at(1) + at(2) + at(3)

Rugged(l) == 5 + ((7 * l[0] + 5 * l[1] * l[2] + 3 * l[3] * l[0]) % 9)

(* The function of a node that a saturated count may keep: more nodes in   *)
(* some orders than in others.                                             *)
Parity02 == {S \in SUBSET (0..3) : (0 \in S) # (2 \in S)}

MCHandlers   == {"chooses", "rugged"}
MCImmortals  == [h \in MCHandlers |-> IF h = "chooses" THEN {Parity02} ELSE {}]
MCSizeOf ==
  [h \in MCHandlers |-> [k \in SUBSET MCImmortals[h] |-> [l \in Levelings |->
     IF h = "chooses" THEN NodesOf({Chooses} \cup k, l) ELSE Rugged(l)]]]

Req(f, l, x) == [first |-> f, last |-> l, fixed |-> x]
MCRequests == {Req(0, 1, FREE), Req(2, 3, FIXED), Req(1, 3, FREE), Req(3, 4, FREE)}
MCGapRequests == {Req(0, 0, FIXED), Req(2, 3, FIXED)}
MCCaps == [h \in MCHandlers |-> IF h = "rugged" THEN {NoCap, 8} ELSE {NoCap}]
=============================================================================
