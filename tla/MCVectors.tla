----------------------------- MODULE MCVectors ------------------------------
(***************************************************************************)
(* VectorSession for TLC: programs that make one call on vectors of three  *)
(* bits, and programs that make several.                                   *)
(***************************************************************************)
EXTENDS VectorSession

x(v) == Ithvar(v)

Variables3 == <<x(0), x(1), x(2)>>
Mixed3     == <<Xor(x(2), x(3)), And(x(0), x(1)), Or(x(1), x(3))>>
Mixed2     == <<And(x(0), x(3)), Xor(x(1), x(2))>>
Mixed4     == <<x(3), Xor(x(0), x(1)), Zero, And(x(2), x(3))>>

Runs(n, ops, start) ==
  [steps |-> n, ops |-> ops, start |-> start, vars |-> MaxVars, doms |-> {<<2>>},
   numbers |-> {2}, fills |-> {x(3)}]

(* Every operation on all pairs of numbers of three bits: the first as     *)
(* variables, the second as constants.                                     *)
Numbers3 ==
  {[Runs(1, VectorOperations, <<Variables3, r>>) EXCEPT
      !.numbers = 0..8, !.fills = {Zero, One, x(3)}] :
     r \in {Con(3, k) : k \in 0..7} \cup {Mixed3}}

Lengths ==
  {[Runs(1, VectorOperations, <<l, r>>) EXCEPT !.numbers = 0..5] :
     l \in {Mixed2, Mixed3, Mixed4, <<And(x(0), x(2))>>}, r \in {Mixed2, Mixed4, << >>}}

Long ==
  {Runs(4, {"add", "sub", "mul", "copy", "free"}, <<Mixed2>>),
   Runs(3, {"ite", "shlfixed", "coerce", "xor", "mapite", "not", "free"}, <<Mixed3, Variables3>>),
   [Runs(5, {"extdomain", "overlapdomain", "clearall", "reorder"}, << >>) EXCEPT
      !.vars = 1, !.doms = {<<2>>, <<3>>, <<2, 3>>, <<3, 2>>}],
   [Runs(4, {"extdomain", "varfdd", "add", "equ", "free", "clearall"}, << >>) EXCEPT
      !.doms = {<<4, 3>>}],
   [Runs(3, {"extdomain", "overlapdomain", "domain", "addvarblock", "clearall"}, <<Mixed2>>) EXCEPT
      !.doms = {<<3, 4>>, <<8>>, <<1>>, <<5>>}]}

MCPrograms == Numbers3 \cup Lengths \cup Long
=============================================================================
