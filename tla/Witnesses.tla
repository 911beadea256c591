----------------------------- MODULE Witnesses ------------------------------
(***************************************************************************)
(* The satisfying assignments bddop.c picks or lists and bddio.c prints,   *)
(* the support of a diagram, its nodes, and sets of variables as cubes:    *)
(* recursions without a cache.                                             *)
(***************************************************************************)
EXTENDS Recursions, SequencesExt

(* An edge of a cube: f below the variable at a level, true or false.      *)
Literal(level, value, f, g, m) ==
  IF value THEN MakeNode(level, Zero, f, g, m) ELSE MakeNode(level, f, Zero, g, m)

-----------------------------------------------------------------------------
(* satone_rec goes low if it can.                                          *)
RECURSIVE SatOneRec(_, _, _)
SatOneRec(r, g, m) ==
  LET value == Low(g.order, r) = Zero
      below == SatOneRec(Child(g.order, r, value), g, m)
  IN  IF IsConst(r) THEN Returns(r, m)
      ELSE Literal(Level(g.order, r), value, below.res, g, below.m)

(* bdd_satone.                                                             *)
SatOne(r, g, m) == SatOneRec(r, g, m)

RECURSIVE SatOneSetRec(_, _, _, _)

(* satoneset_rec: variables of the set that r skips take the polarity.     *)
SatOneSetRec(r, var, g, m) ==
  LET level == TopLevel(r, var, g)
      rTop  == Level(g.order, r) = level
      vTop  == Level(g.order, var) = level
      value == IF rTop THEN Low(g.order, r) = Zero ELSE g.polarity
      below == SatOneSetRec(IF rTop THEN Child(g.order, r, value) ELSE r,
                            IF vTop THEN High(g.order, var) ELSE var, g, m)
  IN  IF IsConst(r) /\ IsConst(var) THEN Returns(r, m)
      ELSE Literal(level, value, below.res, g, below.m)

(* bdd_satoneset.                                                          *)
SatOneSet(r, var, g, m) ==
  IF r = Zero THEN Returns(r, m) ELSE SatOneSetRec(r, var, g, m)

-----------------------------------------------------------------------------
(* False at every level from first down to, but not including, last.       *)
RECURSIVE Filled(_, _, _, _)
Filled(below, first, last, g) ==
  LET here == Literal(first, FALSE, below.res, g, below.m)
  IN  IF first <= last THEN below ELSE Filled(here, first - 1, last, g)

RECURSIVE FullSatOneRec(_, _, _)
FullSatOneRec(r, g, m) ==
  LET level == Level(g.order, r)
      value == Low(g.order, r) = Zero
      child == Child(g.order, r, value)
      below == Filled(FullSatOneRec(child, g, m), Level(g.order, child) - 1, level, g)
  IN  IF IsConst(r) THEN Returns(r, m)
      ELSE Literal(level, value, below.res, g, below.m)

(* bdd_fullsatone.                                                         *)
FullSatOne(r, g, m) ==
  IF r = Zero THEN Returns(r, m)
  ELSE Filled(FullSatOneRec(r, g, m), Level(g.order, r) - 1, -1, g)

-----------------------------------------------------------------------------
(* bdd_allsat. The profile is one array for the whole walk: a value for    *)
(* each variable, 0, 1 or -1 for both, Unset until something is written.   *)
(* The walk is the array and the profiles the handler was shown.           *)

Unset == 9

(* -1 for the levels between two nodes.                                    *)
Skipped(profile, above, below, g) ==
  [v \in DOMAIN profile |->
     IF LevelOf(g.order, v) > above /\ LevelOf(g.order, v) < below THEN -1 ELSE profile[v]]

RECURSIVE AllSatRec(_, _, _)

AllSatBranch(r, value, walk, g) ==
  LET child   == Child(g.order, r, value)
      level   == Level(g.order, r)
      profile == [walk.profile EXCEPT ![g.order[level]] = IF value THEN 1 ELSE 0]
  IN  IF child = Zero THEN walk
      ELSE AllSatRec(child, [walk EXCEPT !.profile = Skipped(profile, level, Level(g.order, child), g)], g)

AllSatRec(r, walk, g) ==
  CASE r = One  -> [walk EXCEPT !.shown = Append(@, walk.profile)]
    [] r = Zero -> walk
    [] OTHER    -> AllSatBranch(r, TRUE, AllSatBranch(r, FALSE, walk, g), g)

AllSat(r, g) ==
  LET unset == [v \in VarsOf(g.order) |-> Unset]
  IN  AllSatRec(r, [profile |-> Skipped(unset, -1, Level(g.order, r), g), shown |-> << >>], g).shown

-----------------------------------------------------------------------------
(* bdd_support: support_rec stamps the levels of r's nodes with supportID, *)
(* and the set is read back from the lowest level stamped to the highest.  *)

Stamped(stamps, r, id, g) ==
  [l \in DOMAIN stamps |->
     IF l \in DOMAIN g.order /\ DependsOn(r, g.order[l]) THEN id ELSE stamps[l]]

RECURSIVE StampedSet(_, _, _, _)
StampedSet(stamps, id, level, below) ==
  IF level < below.min THEN Returns(below.res, below.m)
  ELSE LET node == MakeNode(level, Zero, below.res, below.g, below.m)
       IN  StampedSet(stamps, id, level - 1,
             IF stamps[level] = id THEN [below EXCEPT !.res = node.res, !.m = node.m] ELSE below)

SupportOf(stamps, r, id, g, m) ==
  LET levels == {l \in DOMAIN g.order : DependsOn(r, g.order[l])}
  IN  StampedSet(stamps, id, Max(levels),
                 [res |-> One, m |-> m, g |-> g, min |-> Level(g.order, r)])

-----------------------------------------------------------------------------
(* bdd_printset and the << of the C++ interface. One array for the walk    *)
(* again, by level: 0 for a variable that is not on the path, 1 for false, *)
(* 2 for true. F is a list of no terms, T of one that names no variable.   *)

RECURSIVE PrintSetRec(_, _, _, _)

(* A term as a profile: what is not printed is -1.                         *)
Term(set, g) == [v \in VarsOf(g.order) |-> set[LevelOf(g.order, v)] - 1]

PrintSetRec(r, set, terms, g) ==
  LET level == Level(g.order, r)
      low   == PrintSetRec(Low(g.order, r), [set EXCEPT ![level] = 1], terms, g)
      high  == PrintSetRec(High(g.order, r), [low.set EXCEPT ![level] = 2], low.terms, g)
  IN  CASE r = Zero -> [set |-> set, terms |-> terms]
        [] r = One  -> [set |-> set, terms |-> Append(terms, Term(set, g))]
        [] OTHER    -> [high EXCEPT !.set[level] = 0]

PrintSet(r, g) == PrintSetRec(r, [l \in DOMAIN g.order |-> 0], << >>, g).terms

-----------------------------------------------------------------------------
(* The nodes of a diagram. bdd_markcount sets the mark in every node it    *)
(* counts and stops at one that has it, bdd_unmark stops at one that has   *)
(* not: a mark that stays behind is missing in the next count.             *)

RECURSIVE MarkCount(_, _, _)
MarkCount(r, marked, g) ==
  IF IsConst(r) \/ r \in marked THEN marked
  ELSE MarkCount(High(g.order, r), MarkCount(Low(g.order, r), marked \cup {r}, g), g)

RECURSIVE Unmark(_, _, _)
Unmark(r, marked, g) ==
  IF IsConst(r) \/ r \notin marked THEN marked
  ELSE Unmark(High(g.order, r), Unmark(Low(g.order, r), marked \ {r}, g), g)

(* bdd_nodecount and bdd_anodecount: each node once, however many of the   *)
(* diagrams it is in.                                                      *)
NodeCount(rs, g) ==
  LET marked == FoldLeft(LAMBDA m, r : MarkCount(r, m, g), {}, rs)
  IN  [num |-> Cardinality(marked), left |-> FoldLeft(LAMBDA m, r : Unmark(r, m, g), marked, rs)]

(* bdd_varprofile: the nodes of each variable.                             *)
VarProfile(r, g) ==
  LET marked == MarkCount(r, {}, g)
  IN  [num  |-> [v \in VarsOf(g.order) |->
                   Cardinality({n \in marked : g.order[Level(g.order, n)] = v})],
       left |-> Unmark(r, marked, g)]

-----------------------------------------------------------------------------
(* Sets of variables and cubes from arrays, and back.                      *)

(* bdd_buildcube and bdd_ibuildcube: the first variable is the highest bit.*)
BuildCube(value, variables) ==
  LET width   == Len(variables)
      bit(z)  == (value \div 2 ^ z) % 2 = 1
      lit(z)  == LET v == variables[width - z]
                 IN  IF bit(z) THEN Ithvar(v) ELSE Nithvar(v)
  IN  FoldFunction(LAMBDA v, f : Opr("and", f, v), One, [z \in 0..(width - 1) |-> lit(z)])

(* bdd_makeset.                                                            *)
MakeSet(varset) == FoldRight(LAMBDA v, f : Opr("and", f, Ithvar(v)), varset, One)

(* bdd_scanset goes by the high branches, from level to level.             *)
RECURSIVE ScanSet(_, _)
ScanSet(r, g) ==
  IF IsConst(r) THEN << >>
  ELSE <<g.order[Level(g.order, r)]>> \o ScanSet(High(g.order, r), g)
=============================================================================
