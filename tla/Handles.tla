------------------------------ MODULE Handles -------------------------------
(***************************************************************************)
(* A C++ program: the classes bdd and bvec (src/src/bdd.h, bvec.h and      *)
(* cppext.cxx) count the references of the nodes they name, and a          *)
(* collection may take every node that has none. Diagrams are also saved   *)
(* and loaded, one entry of the file after the other.                      *)
(*                                                                         *)
(* table is the set of nodes there are: what an operation makes stays      *)
(* there until a collection or a reordering drops all that no reference    *)
(* leads to. Both may come with any operation, that is between any two     *)
(* actions here, since constructors, destructors and assignments, which    *)
(* make no node, are never split.                                          *)
(***************************************************************************)
EXTENDS SaveLoad

CONSTANTS
  Objects,    (* bdd variables of the program                              *)
  Vectors,    (* bvec variables of the program                             *)
  Programs    (* bound: what it starts with, the calls it makes            *)

NoFile    == [of |-> "no file"]
Operators == {"&", "^", "|", ">>", "-", ">", "<", "<<"}

(* Programs start with diagrams, call operators there are, and files have  *)
(* a number of nodes in their first line, which is 0 for a constant only   *)
(* (bdd_load writes in front of lh_table when a file says otherwise).      *)
IsProgram(p) ==
  /\ \A o \in DOMAIN p.start : p.start[o] \in SUBSET Assignments
  /\ \A v \in DOMAIN p.bits : p.bits[v] \in Seq(SUBSET Assignments)
  /\ p.operators \subseteq Operators
  /\ p.lengths \subseteq Nat
  /\ DOMAIN p.maps \subseteq {1, 2, 3} /\ (2 \in DOMAIN p.maps => p.maps[2] \subseteq Operators)
  /\ \A f \in p.files : f = NoFile \/ (f.nodenum \in Nat /\ (f.nodenum = 0 => f.varnum = 0))

ASSUME HandlesPlaces   == IsFiniteSet(Objects) /\ IsFiniteSet(Vectors)
ASSUME HandlesPrograms == \A p \in Programs : IsProgram(p)

VARIABLES
  program,
  phase,      (* bddrunning: before bdd_init, running, after bdd_done      *)
  order,      (* bddlevel2var                                              *)
  table,      (* the nodes in the table                                    *)
  refs,       (* their reference counts                                    *)
  object,     (* root of each bdd variable, Undeclared if it is not alive  *)
  temps,      (* roots of the temporaries of the running statement         *)
  vector,     (* roots of each bvec variable, NoVector if it is not alive  *)
  map,        (* the bvec_map1, 2 or 3 that runs                           *)
  load,       (* the bdd_load that runs: lh_table and its local variables  *)
  file,       (* the file                                                  *)
  spoiled,    (* history: a reference was given back that was never taken  *)
  loaded,     (* history: the last bdd_load and what it returned           *)
  steps       (* bound: what the program has done so far                   *)

tableVars == <<order, table>>
handles   == <<object, temps, vector>>
io        == <<load, file, spoiled, loaded>>
vars      == <<program, phase, tableVars, refs, handles, map, io, steps>>

Undeclared == {{-1}}
NoVector   == [gone |-> TRUE]
Nothing    == [of |-> "nothing"]

Running  == phase = "running"
Quiet    == map = Nothing /\ load = Nothing
Asks(op) == Quiet /\ steps < program.steps /\ op \in program.ops
Step     == steps' = steps + 1 /\ UNCHANGED program

-----------------------------------------------------------------------------
(* Nodes and references.                                                   *)

Referenced(m) == UNION {Below(order, f) : f \in BagToSet(m.count)}

(* bdd_addref and bdd_delref, which do nothing unless bddrunning.          *)
Take(f, m)      == IF Running THEN AddRef(f, m) ELSE m
Give(f, m)      == IF Running THEN DelRef(f, m) ELSE m

TakeAll(s, m) ==
  LET taken[n \in 0..Len(s)] == IF n = 0 THEN m ELSE Take(s[n], taken[n - 1]) IN taken[Len(s)]

GiveAll(s, m) ==
  LET given[n \in 0..Len(s)] == IF n = 0 THEN m ELSE Give(s[n], given[n - 1]) IN given[Len(s)]

(* An operation: f is in the table now.                                    *)
Made(f) == table' = table \cup Below(order, f)

-----------------------------------------------------------------------------
(* class bdd.                                                              *)

Declared == {o \in Objects : object[o] # Undeclared}

(* Destructors of the temporaries, at the end of a statement.              *)
EndStatement ==
  /\ temps # <<>> /\ Quiet
  /\ refs' = GiveAll(temps, refs)
  /\ temps' = <<>>
  /\ UNCHANGED <<program, phase, tableVars, object, vector, map, io, steps>>

(* bdd(void).                                                              *)
Declare ==
  /\ Asks("declare") /\ temps = <<>>
  /\ \E o \in Objects \ Declared : object' = [object EXCEPT ![o] = Zero]
  /\ Step
  /\ UNCHANGED <<phase, tableVars, refs, temps, vector, map, io>>

Copied(f, m) == Take(f, m)

(* bdd(const bdd &).                                                       *)
CopyConstruct ==
  /\ Asks("copy")
  /\ \E o \in Objects \ Declared, f \in {object[p] : p \in Declared} \cup ToSet(temps) :
       /\ object' = [object EXCEPT ![o] = f]
       /\ refs' = Copied(f, refs)
  /\ Step
  /\ UNCHANGED <<phase, tableVars, temps, vector, map, io>>

(* ~bdd(void).                                                             *)
Destroy ==
  /\ Asks("destroy") /\ temps = <<>>
  /\ \E o \in Declared :
       /\ refs' = Give(object[o], refs)
       /\ object' = [object EXCEPT ![o] = Undeclared]
  /\ Step
  /\ UNCHANGED <<phase, tableVars, temps, vector, map, io>>

(* bdd::operator=, from a variable or a temporary. It returns a copy.      *)
AssignedLeaking(old, f, m) == IF old = f THEN m ELSE Take(f, m)
Assigned(old, f, m) == IF old = f THEN m ELSE Take(f, Give(old, m))

Assign ==
  /\ Asks("assign")
  /\ \E o \in Declared, f \in {object[p] : p \in Declared} \cup ToSet(temps) :
       /\ refs' = Copied(f, Assigned(object[o], f, refs))
       /\ object' = [object EXCEPT ![o] = f]
       /\ temps' = Append(temps, f)
  /\ Step
  /\ UNCHANGED <<phase, tableVars, vector, map, io>>

(* The C++ operators.                                                      *)
OprOf(operator) ==
  CASE operator = "&"  -> "and"
    [] operator = "^"  -> "xor"
    [] operator = "|"  -> "or"
    [] operator = ">>" -> "imp"
    [] operator = "-"  -> "diff"
    [] operator = ">"  -> "diff"
    [] operator = "<"  -> "less"
    [] operator = "<<" -> "invimp"

(* An operation on variables, temporaries and BDD variables, whose result  *)
(* becomes a temporary by bdd(BDD). It may fail for want of nodes and      *)
(* return the constant false. With operator= and the end of the statement  *)
(* this is operator&= and its like.                                        *)
Evaluate ==
  /\ Asks("evaluate") /\ Running /\ Len(temps) < program.temps
  /\ \E operator \in program.operators,
        l, r \in {object[p] : p \in Declared} \cup ToSet(temps)
                  \cup {Ithvar(v) : v \in program.literals \cap VarsOf(order)} :
       \E f \in {Opr(OprOf(operator), l, r), Zero} :
         /\ Made(f)
         /\ refs' = Take(f, refs)
         /\ temps' = Append(temps, f)
  /\ Step
  /\ UNCHANGED <<phase, order, object, vector, map, io>>

-----------------------------------------------------------------------------
(* class bvec.                                                             *)

Built == {v \in Vectors : vector[v] # NoVector}
Bits(v) == vector[v].bits
Roots(bits) == [bits |-> bits]

(* bvec(int), which is all false.                                          *)
VecFalse ==
  /\ Asks("bvec") /\ temps = <<>>
  /\ \E v \in Vectors \ Built, n \in program.lengths :
       vector' = [vector EXCEPT ![v] = Roots([i \in 1..n |-> Zero])]
  /\ Step
  /\ UNCHANGED <<phase, tableVars, refs, object, temps, map, io>>

(* bvec(const bvec &).                                                     *)
VecCopy ==
  /\ Asks("bvec") /\ temps = <<>>
  /\ \E v \in Vectors \ Built, w \in Built :
       /\ vector' = [vector EXCEPT ![v] = vector[w]]
       /\ refs' = TakeAll(Bits(w), refs)
  /\ Step
  /\ UNCHANGED <<phase, tableVars, object, temps, map, io>>

(* ~bvec(void).                                                            *)
VecDestroy ==
  /\ Asks("bvec") /\ temps = <<>>
  /\ \E v \in Built :
       /\ refs' = GiveAll(Bits(v), refs)
       /\ vector' = [vector EXCEPT ![v] = NoVector]
  /\ Step
  /\ UNCHANGED <<phase, tableVars, object, temps, map, io>>

(* bvec::operator=. The copy it returns is one more temporary, bit by bit. *)
VecAssigned(v, w) == IF v = w THEN refs ELSE TakeAll(Bits(w), GiveAll(Bits(v), refs))

VecAssign ==
  /\ Asks("bvec") /\ temps = <<>>
  /\ \E v, w \in Built :
       /\ refs' = TakeAll(Bits(w), VecAssigned(v, w))
       /\ vector' = [vector EXCEPT ![v] = vector[w]]
       /\ temps' = Bits(w)
  /\ Step
  /\ UNCHANGED <<phase, tableVars, object, map, io>>

(* bvec::set.                                                              *)
VecSet(old, f, m) == Take(f, Give(old, m))

SetBit ==
  /\ Asks("set")
  /\ \E v \in Built : \E i \in DOMAIN Bits(v), f \in {object[o] : o \in Declared} \cup ToSet(temps) :
       /\ refs' = VecSet(Bits(v)[i], f, refs)
       /\ vector' = [vector EXCEPT ![v].bits[i] = f]
  /\ Step
  /\ UNCHANGED <<phase, tableVars, object, temps, map, io>>

(* bvec::operator[].                                                       *)
BitAt ==
  /\ Asks("at") /\ Len(temps) < program.temps
  /\ \E v \in Built : \E i \in DOMAIN Bits(v) :
       /\ temps' = Append(temps, Bits(v)[i])
       /\ refs' = Take(Bits(v)[i], refs)
  /\ Step
  /\ UNCHANGED <<phase, tableVars, object, vector, map, io>>

(* bvec_map1, bvec_map2 and bvec_map3: a local vector res, filled bit by   *)
(* bit with what fun returns for the bits of one, two or three vectors. It *)
(* stays empty, after a call of the error handler, if they are not as long.*)
MapBegin ==
  /\ Asks("map") /\ Running /\ temps = <<>>
  /\ \E args \in UNION {[1..n -> Built] : n \in DOMAIN program.maps} :
       \E fun \in program.maps[Len(args)] :
         map' = [of |-> "map", args |-> args, fun |-> fun, n |-> 1,
                 res |-> IF \A i \in DOMAIN args : Len(Bits(args[i])) = Len(Bits(args[1]))
                         THEN [i \in DOMAIN Bits(args[1]) |-> Zero] ELSE << >>]
  /\ Step
  /\ UNCHANGED <<phase, tableVars, refs, handles, io>>

Applied(fun, bits) ==
  CASE Len(bits) = 1 -> Not(bits[1])
    [] Len(bits) = 2 -> Opr(OprOf(fun), bits[1], bits[2])
    [] Len(bits) = 3 -> Ite(bits[1], bits[2], bits[3])

(* The temporaries a[n] and fun's result come and go with the round.       *)
MapBit ==
  /\ map # Nothing /\ map.n <= Len(map.res)
  /\ LET bits == [i \in DOMAIN map.args |-> Bits(map.args[i])[map.n]]
         f == Applied(map.fun, bits)
     IN  /\ Made(f)
         /\ refs' = GiveAll(<<f>> \o bits, VecSet(map.res[map.n], f, TakeAll(Append(bits, f), refs)))
         /\ map' = [map EXCEPT !.res[map.n] = f, !.n = @ + 1]
  /\ UNCHANGED <<program, phase, order, handles, io, steps>>

(* The program makes a new vector of the result, or drops it.              *)
MapEnd ==
  /\ map # Nothing /\ map.n > Len(map.res)
  /\ \/ /\ \E v \in Vectors \ Built : vector' = [vector EXCEPT ![v] = Roots(map.res)]
        /\ UNCHANGED refs
     \/ refs' = GiveAll(map.res, refs) /\ UNCHANGED vector
  /\ map' = Nothing
  /\ UNCHANGED <<program, phase, tableVars, object, temps, io, steps>>

-----------------------------------------------------------------------------
(* Saving and loading.                                                     *)

(* bdd_fnsave, to a disk that may be full.                                 *)
Save ==
  /\ Asks("save") /\ Running /\ temps = <<>>
  /\ \E o \in Declared, stride \in program.strides :
       LET whole == Saved(order, object[o], stride)
       IN  file' \in {whole} \cup (IF program.faults THEN Damaged(whole) ELSE {})
  /\ Step
  /\ UNCHANGED <<phase, tableVars, refs, handles, map, load, spoiled, loaded>>

(* r = bdd(lr), at the end of the C++ bdd_fnload.                          *)
AssignRoot(o, f, m) ==
  /\ refs' = Give(f, Assigned(object[o], f, Take(f, m)))
  /\ object' = [object EXCEPT ![o] = f]

(* zero: bdd_load returned 0; erred: a call in it called the handler.      *)
Ended(o, f, zero, erred) ==
  loaded' = [into |-> o, res |-> f, zero |-> zero, erred |-> erred, of |-> file.of, cut |-> file.cut,
              const |-> file.nodenum = 0, whole |-> file.header = 3 /\ Len(file.entries) = file.nodenum]

(* A file is opened for r = bdd_fnload(...).                               *)
LoadCalled(opened) == Asks("load") /\ Running /\ temps = <<>> /\ (file # NoFile <=> opened)

(* lr of the C++ bdd_fnload, as long as bdd_load has not written to it.    *)
Uninitialised == {Zero} \cup table

(* The file cannot be opened.                                              *)
LoadMissing ==
  /\ LoadCalled(FALSE)
  /\ \E o \in Declared, lr \in Uninitialised : AssignRoot(o, lr, refs)
  /\ Step
  /\ UNCHANGED <<phase, tableVars, temps, vector, map, io>>

(* BDD_FORMAT, for a file without its two first numbers.                   *)
LoadNoHeader ==
  /\ LoadCalled(TRUE) /\ file.header < 2
  /\ \E o \in Declared, lr \in Uninitialised : AssignRoot(o, lr, refs) /\ Ended(o, lr, FALSE, TRUE)
  /\ Step
  /\ UNCHANGED <<phase, tableVars, temps, vector, map, load, file, spoiled>>

IsConstFile == file.nodenum = 0 /\ file.varnum = 0

(* What the fscanf of the root returns is not looked at.                   *)
LoadConst ==
  /\ LoadCalled(TRUE) /\ file.header >= 2 /\ IsConstFile
  /\ \E o \in Declared :
       \E lr \in IF file.header = 2 THEN Uninitialised ELSE {IF file.root = 0 THEN Zero ELSE One} :
         AssignRoot(o, lr, refs) /\ Ended(o, lr, TRUE, FALSE)
  /\ Step
  /\ UNCHANGED <<phase, tableVars, temps, vector, map, load, file, spoiled>>

(* What follows the header. What bdd_setvarnum returns is not looked at;   *)
(* when it fails, it has called the error handler.                         *)
LoadBegin ==
  /\ LoadCalled(TRUE) /\ file.header >= 2 /\ ~ IsConstFile
  /\ \E o \in Declared, room \in BOOLEAN :
       /\ load' = [of |-> "load", into |-> o, hash |-> EmptyHash(file.nodenum), n |-> 0,
                   root |-> Zero, erred |-> file.varnum > VarNum(order) /\ ~ room]
       /\ order' = IF file.varnum > VarNum(order) /\ room
                   THEN [l \in 0..(file.varnum - 1) |-> IF l \in DOMAIN order THEN order[l] ELSE l]
                   ELSE order
  /\ Step
  /\ UNCHANGED <<phase, table, refs, handles, map, file, spoiled, loaded>>

Entry   == file.entries[load.n + 1]
MoreToDo == load # Nothing /\ load.n < file.nodenum
Readable ==
  /\ load.n < Len(file.entries)
  /\ NotFound \notin {Operand(load.hash, Entry.low), Operand(load.hash, Entry.high)}

(* bdd_addref(bdd_ite(...)) in bdd_loaddata.                               *)
LoadedUnreferenced(f, m) == m
LoadedRef(f, m) == Take(f, m)

(* One entry of bdd_loaddata. bdd_ithvar of a variable there is not, and a *)
(* bdd_ite that finds no room, call the error handler and return false.    *)
LoadEntry ==
  /\ MoreToDo /\ Readable
  /\ \E room \in IF program.faults THEN BOOLEAN ELSE {TRUE} :
       LET known == Entry.var \in VarsOf(order)
           var   == IF known THEN Ithvar(Entry.var) ELSE Zero
           f     == IF room THEN Ite(var, Operand(load.hash, Entry.high), Operand(load.hash, Entry.low))
                    ELSE Zero
       IN  /\ Made(f)
           /\ refs' = LoadedRef(f, refs)
           /\ load' = [load EXCEPT !.n = @ + 1, !.root = f, !.erred = @ \/ ~ known \/ ~ room,
                                   !.hash = LoadHashAdd(@, Entry.key, f)]
  /\ UNCHANGED <<program, phase, order, handles, map, file, spoiled, loaded, steps>>

(* bdd_load releases all of lh_table, which has been filled from its first *)
(* slot on. Only then does the program get hold of the root.               *)
ReleaseAll(m) == GiveAll([i \in 1..load.n |-> load.hash.slot[i - 1].data], m)

LoadEnd ==
  /\ load # Nothing /\ ~ MoreToDo
  /\ AssignRoot(load.into, load.root, ReleaseAll(refs))
  /\ Ended(load.into, load.root, TRUE, load.erred)
  /\ load' = Nothing
  /\ UNCHANGED <<program, phase, tableVars, temps, vector, map, file, spoiled, steps>>

(* BDD_FORMAT. The data of the slots not reached is what malloc found      *)
(* there, and is released as well: nothing, or some node.                  *)
LoadFails ==
  /\ MoreToDo /\ ~ Readable
  /\ \E junk \in Uninitialised :
       /\ AssignRoot(load.into, Zero, Give(junk, ReleaseAll(refs)))
       /\ spoiled' = (spoiled \/ ~ Pinned(junk))
  /\ Ended(load.into, Zero, FALSE, TRUE)
  /\ load' = Nothing
  /\ UNCHANGED <<program, phase, tableVars, temps, vector, map, file, steps>>

-----------------------------------------------------------------------------
(* What holds a node: a place in the memory of the program or of a call    *)
(* that runs, and the node it names.                                       *)

ObjectsHold == {<<"object", o, object[o]>> : o \in Declared}
TempsHold   == {<<"temps", i, temps[i]>> : i \in DOMAIN temps}
VectorsHold == UNION {{<<"vector", <<v, i>>, Bits(v)[i]>> : i \in DOMAIN Bits(v)} : v \in Built}
MapHolds    == IF map = Nothing THEN {} ELSE {<<"map", i, map.res[i]>> : i \in DOMAIN map.res}
LoadHolds   ==
  IF load = Nothing THEN {}
  ELSE {<<"load", i, load.hash.slot[i].data>> : i \in LoadedBy(load.hash)}

Holding == ObjectsHold \cup TempsHold \cup VectorsHold \cup MapHolds \cup LoadHolds

Held == {h[3] : h \in Holding}

HoldersIn(places, f) == Cardinality({h \in places : h[3] = f})

(* The ledger in which each of the places has one reference.               *)
Counted(places) ==
  [count |-> [f \in {h[3] : h \in {p \in places : ~ Pinned(p[3])}} |-> HoldersIn(places, f)],
   broken |-> FALSE]

-----------------------------------------------------------------------------
(* The package.                                                            *)

(* bdd_init and bdd_setvarnum, and what the program begins with.           *)
BddInit ==
  /\ phase = "before" /\ Quiet /\ temps = <<>>
  /\ phase' = "running"
  /\ order' = [l \in 0..(program.vars - 1) |-> l]
  /\ object' = [o \in Objects |-> IF o \in DOMAIN program.start THEN program.start[o] ELSE object[o]]
  /\ vector' = [v \in Vectors |-> IF v \in DOMAIN program.bits THEN Roots(program.bits[v]) ELSE vector[v]]
  /\ UNCHANGED <<program, temps, map, io, steps>>
  /\ refs' = Counted(Holding')
  /\ table' = UNION {Below(order', f) : f \in Held'}

(* bdd_done, which destructors of global variables come after.             *)
BddDone ==
  /\ Asks("done") /\ Running /\ temps = <<>>
  /\ phase' = "after"
  /\ table' = {} /\ refs' = NoReferences
  /\ Step
  /\ UNCHANGED <<order, handles, map, io>>

(* bdd_gbc, within any operation.                                          *)
Collect ==
  /\ Running /\ table # Referenced(refs)
  /\ table' = Referenced(refs)
  /\ UNCHANGED <<program, phase, order, refs, handles, map, io, steps>>

(* An exchange of two levels, within any operation.                        *)
Reorder ==
  /\ program.reorder /\ Running
  /\ \E l \in DOMAIN order :
       /\ l + 1 \in DOMAIN order
       /\ order' = [order EXCEPT ![l] = order[l + 1], ![l + 1] = order[l]]
       /\ table' = UNION {Below(order', f) : f \in BagToSet(refs.count)}
  /\ UNCHANGED <<program, phase, refs, handles, map, io, steps>>

Init ==
  /\ program \in Programs
  /\ phase = "before"
  /\ order = << >>
  /\ table = {}
  /\ refs = NoReferences
  /\ object = [o \in Objects |-> Undeclared]
  /\ temps = <<>>
  /\ vector = [v \in Vectors |-> NoVector]
  /\ map = Nothing /\ load = Nothing
  /\ file \in program.files
  /\ spoiled = FALSE
  /\ loaded = Nothing
  /\ steps = 0

Next ==
  \/ Declare \/ CopyConstruct \/ Destroy \/ Assign \/ Evaluate \/ EndStatement
  \/ VecFalse \/ VecCopy \/ VecDestroy \/ VecAssign \/ SetBit \/ BitAt
  \/ MapBegin \/ MapBit \/ MapEnd
  \/ Save \/ LoadMissing \/ LoadNoHeader \/ LoadConst \/ LoadBegin \/ LoadEntry \/ LoadEnd \/ LoadFails
  \/ BddInit \/ BddDone \/ Collect \/ Reorder

Spec == Init /\ [][Next]_vars

-----------------------------------------------------------------------------
(* Properties.                                                             *)

(* No collection and no reordering takes a node that an object, a          *)
(* temporary or a vector names, or that bdd_load has built and may still   *)
(* be asked for, whatever order constructors, assignments and operations   *)
(* come in, and also when an operation or a load fails on the way.         *)
HeldAlive == Running /\ ~ spoiled => \A f \in Held : Pinned(f) \/ f \in table

(* A node has one reference for each of them and no more, so that what the *)
(* last of them lets go can be collected, and no destructor gives back     *)
(* what another has.                                                       *)
CountsAreHolders ==
  Running /\ ~ spoiled =>
    /\ ~ refs.broken
    /\ \A f \in Held \cup BagToSet(refs.count) : Pinned(f) \/ Count(f, refs) = HoldersIn(Holding, f)

(* Where the code does not do what the doc of bdd_load says, "Zero on      *)
(* succes" (bddio.c:473): it returns 0, and leaves the root alone, for a   *)
(* constant whose root is not in the file (499); it goes on when           *)
(* bdd_setvarnum, bdd_ithvar or bdd_ite has failed in it (509, 557); and a *)
(* number short of a digit is a number.                                    *)
MeetsCutConstant == loaded.const /\ ~ loaded.whole
MeetsFailedCall  == loaded.erred
MeetsCutNumber   == loaded.cut

(* When bdd_load returns 0 the file had all its entries, also if a call    *)
(* has failed on the way, and the root is the function that was saved,     *)
(* under whatever order and number of variables there is now, and however  *)
(* the slots of the saved nodes collide in its hash table, save for what   *)
(* is named above.                                                         *)
LoadRestores ==
  loaded # Nothing /\ loaded.zero /\ ~ MeetsCutConstant =>
    loaded.whole /\ (loaded.res = loaded.of \/ MeetsFailedCall \/ MeetsCutNumber)
=============================================================================
