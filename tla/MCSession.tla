----------------------------- MODULE MCSession ------------------------------
(***************************************************************************)
(* Session for TLC: many programs that make one call each, and a few that  *)
(* make several calls and changes in a row.                                *)
(***************************************************************************)
EXTENDS Session

x(v)  == Ithvar(v)
nx(v) == Nithvar(v)

AllCubes == {x(0), nx(1), x(0) \cap nx(1), nx(0) \cap x(2), x(1) \cap x(2)}
AllSets  == {One, x(0), x(1), x(0) \cap x(2), x(0) \cap x(1) \cap x(2)}
AllOprs  == {"and", "xor", "or", "nand", "nor", "diff"}

Small ==
  [f |-> x(0) \cap nx(1), g |-> Opr("xor", x(0), x(1)), vars |-> 2, steps |-> 3, ops |-> {},
   handles |-> {1}, sets |-> {x(0), x(1)}, cubes |-> {x(0), nx(1)},
   oprs |-> [appex |-> {"and"}, appall |-> {"or"}, appuni |-> {"xor"}]]

Runs(n, ops) == [Small EXCEPT !.steps = n, !.ops = ops]

Once(f, g, ops) ==
  [Runs(1, ops) EXCEPT !.f = f, !.g = g, !.vars = 3, !.sets = AllSets, !.cubes = AllCubes,
                       !.oprs = [appex |-> AllOprs, appall |-> AllOprs, appuni |-> AllOprs]]

(* Every function of two variables and more of three.                      *)
Unary == {Once(f, One, (Operations \ (Binary \cup {"anodecount"})) \cup {"support"}) :
            f \in {Ite(x(v), a, b) : v \in {0, 2}, a, b \in
                      {Zero, One, x(1), nx(2), x(1) \cap x(2), Opr("xor", x(0), x(1))}}}

Pairwise == {Once(f, g, Binary \cup {"anodecount"}) :
               f \in {Zero, x(2), x(0) \cap x(1), Ite(x(0), x(1), x(2)), Opr("xor", x(0), x(2)),
                       nx(0) \cup x(1)},
               g \in {Zero, One, x(1) \cup x(2), nx(0), Opr("xor", x(0), x(1)), x(0) \cap nx(2)}}

Long ==
  {Runs(4, {"exist", "restrict"}),
   Runs(6, {"exist"}),
   Runs(3, {"forall", "restrict", "setvarnum", "reorder"}),
   [Runs(3, AppQuants \cup {"exist"}) EXCEPT !.oprs.appex = {"and", "or"}],
   [Runs(5, {"newpair", "setpair", "replace", "reorder"}) EXCEPT !.handles = {1, 2}],
   Runs(7, {"newpair", "setpair", "replace"}),
   [Runs(5, {"newpair", "setbddpair", "veccompose", "compose", "freepair"}) EXCEPT !.handles = {1, 2}],
   Runs(5, {"newpair", "setpair", "replace", "resetpair", "setvarnum"}),
   Runs(3, Counting \cup {"setvarnum", "reorder", "constrain"}),
   Runs(4, {"support", "setvarnum", "reorder"}),
   Runs(4, {"restart", "exist", "newpair", "setpair", "replace"}),
   Runs(3, {"disable_reorder", "exist", "satone", "fullsatone"}),
   [Runs(3, {"printset", "scanset", "varprofile", "buildcube", "reorder"}) EXCEPT
      !.sets = {x(0), x(0) \cap x(1)}],
   [Runs(2, {"constrain", "simplify", "compose", "restrict", "exist"}) EXCEPT
      !.f = Ite(x(0), x(1), x(2)), !.g = x(1) \cup x(2), !.vars = 3]}

MCPrograms == Unary \cup Pairwise \cup Long

(* bdd_appall and bdd_appuni with the same operator.                       *)
MCAppUni == {[Runs(2, {"appall", "appuni"}) EXCEPT !.oprs.appuni = {"or"}]}
=============================================================================
