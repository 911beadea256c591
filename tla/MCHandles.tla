----------------------------- MODULE MCHandles -----------------------------
(***************************************************************************)
(* Handles for TLC: programs with objects, with vectors, and with files    *)
(* written here or by a program with more variables in another order.      *)
(***************************************************************************)
EXTENDS Handles

x(v) == Ithvar(v)

Small ==
  [vars |-> 3, start |-> [o \in {"a", "b"} |-> IF o = "a" THEN x(0) \cap x(1) ELSE Ite(x(0), x(1), x(2))],
   bits |-> <<>>, ops |-> {}, operators |-> {"&", "^"}, lengths |-> {0, 2}, temps |-> 2,
   maps |-> [n \in 1..3 |-> CASE n = 1 -> {"!"} [] n = 2 -> {"&", "^"} [] n = 3 -> {"ite"}],
   strides |-> {1}, faults |-> FALSE, literals |-> {}, files |-> {NoFile}, reorder |-> FALSE, steps |-> 4]

MCObjects == {"a", "b"}
MCVectors == {"v", "w"}

TwoVectors == [u \in MCVectors |-> IF u = "v" THEN <<x(0) \cap x(1), Ite(x(0), x(1), x(2))>>
                                              ELSE <<x(1) \cap x(2), x(0) \cap x(1)>>]

Backwards == [l \in 0..2 |-> 2 - l]
Foreign(fs, strides) == {Saved(Backwards, f, s) : f \in fs, s \in strides}
Functions == {x(1), x(0) \cap x(1), Ite(x(0), x(1), x(2)), Ite(x(2), x(0), x(1)), Opr("xor", x(0), x(2)), One}

MCPrograms ==
  {[Small EXCEPT !.ops = {"declare", "copy", "assign", "evaluate", "destroy", "done"}, !.operators = {"^"},
                 !.steps = 4],
   [Small EXCEPT !.ops = {"assign", "evaluate"}, !.operators = {"&"}, !.literals = {2}, !.reorder = TRUE,
                 !.steps = 3],
   [Small EXCEPT !.ops = {"evaluate"}, !.operators = {"&", ">>", "<", "-", "<<", "|", ">", "^"},
                 !.literals = {1}, !.steps = 1],
   [Small EXCEPT !.bits = TwoVectors, !.ops = {"bvec", "set", "at", "map"}, !.steps = 4],
   [Small EXCEPT !.ops = {"save", "load", "evaluate", "assign"}, !.strides = {1, 3}, !.faults = TRUE,
                 !.operators = {"^"}, !.steps = 3],
   [Small EXCEPT !.ops = {"load"}, !.files = {NoFile} \cup Foreign(Functions, {1, 2, 3, 4}), !.reorder = TRUE,
                 !.steps = 2],
   [Small EXCEPT !.vars = 2, !.start = [o \in {"a", "b"} |-> x(0) \cap x(1)], !.ops = {"load"}, !.faults = TRUE,
                 !.files = Foreign(Functions, {1, 3}) \cup UNION {Damaged(g) : g \in Foreign(Functions, {1})},
                 !.steps = 1]}
=============================================================================
