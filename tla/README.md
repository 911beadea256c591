# A verification development of BuDDy (pbdd)

BuDDy is a C library for reduced ordered binary decision diagrams (ROBDDs).
A program builds nodes with `bdd_ithvar`, `bdd_apply` and their relatives,
keeps them alive with `bdd_addref` and `bdd_delref`, and compares functions by
comparing node numbers. This directory has TLA+ models of the library's
kernel, its recursive operators, the caches and tables that calls leave to each
other, its variable reordering down to the single exchange and up to the searches,
its integers as vectors and blocks of variables, its files and its C++ classes, the
TLC runs that check them, and TLAPS proofs about the kernel, its lists, the
operators `bdd_not`, `bdd_apply` and `bdd_ite`, the exchange of variables, the
searches for an order with the blocks they move, the variables of finite domain blocks, and the
references of vectors, blocks and C++ programs.

Paths below are relative to the repository; the library is in `src/`
(`src/src/` from the root of the checkout that `PROJECT.json` names).

## 1. The system

### Components, their state and operations

| component | code | state | operations | modelled by |
|---|---|---|---|---|
| node table | `kernel.c`, `kernel.h` | `bddnodes[]` (reference count, level, low, high), free list, size and limit, error flag, `bddrefstack`, `bddvarset[]` | `bdd_makenode`, `bdd_gbc`, `bdd_noderesize`, `bdd_addref`, `bdd_delref`, `bdd_setvarnum`, `bdd_setmaxnodenum`, `bdd_clear_error` | `NodeTable` |
| hash chains, free list | `kernel.c` | the `hash` and `next` fields, `bddfreepos`, `bddfreenum` | the same, and `bdd_gbc_rehash` | `HashedTable` |
| operators | `bddop.c`, `cache.c` | `applycache`, `itecache`, `firstReorder`, `applyop`, the C stack | `bdd_not`, `bdd_apply`, `bdd_ite` | `Apply` |
| reordering: exchanges | `reorder.c`, `imatrix.c` | `extroots`, `iactmtx`, `levels[]`, `bddvar2level[]`, full reference counts | `reorder_init`, `reorder_vardown`, `reorder_done` | `Reorder` |
| reordering: searches, blocks | `reorder.c`, `tree.c` | `vartree`, `blockid`, `reorder_nodenum`, `bddreordermethod`, `bddreordertimes` | `bdd_reorder` with window, sifting and random searches, `bdd_addvarblock`, `bdd_varblockall`, `bdd_clrvarblocks`, `bdd_setvarorder`, `bdd_swapvar`, `bdd_autoreorder_times`, `bdd_reorder_probe` | `BlockTree`, `BlockOrder` |
| automatic reordering | `kernel.c`, `reorder.c`, `bddop.c` | threshold, method, on/off switch | `bdd_autoreorder`, `bdd_enable_reorder`, `bdd_disable_reorder`, the `longjmp` of `bdd_makenode`, `bdd_checkreorder` | `NodeTable`, `Apply`; `BlockOrder` for method and number of times |
| quantification, cofactors, substitution | `bddop.c` | `quantcache`, `appexcache`, `replacecache`, `misccache` and the ids in them; `quantvarset` and `quantvarsetID` | `bdd_exist`, `bdd_forall`, `bdd_unique`, `bdd_appex`, `bdd_appall`, `bdd_appuni`, `bdd_restrict`, `bdd_constrain`, `bdd_simplify`, `bdd_replace`, `bdd_compose`, `bdd_veccompose` | `BddAlgebra`, `Recursions`, `Session` |
| assignments, support, counts, sets | `bddop.c`, `kernel.c`, `bddio.c` | `misccache`; `supportSet`, `supportID`, the static `supportSize`; mark bits | `bdd_satone`, `bdd_satoneset`, `bdd_fullsatone`, `bdd_allsat`, `bdd_printset`, `bdd_support`, `bdd_satcount`, `bdd_satcountset`, `bdd_pathcount`, `bdd_nodecount`, `bdd_anodecount`, `bdd_varprofile`, `bdd_buildcube`, `bdd_makeset`, `bdd_scanset` | `Witnesses`, `Recursions`, `Session` |
| pairs | `pairs.c` | the list of tables, `pairsid` | `bdd_newpair`, `bdd_setpair`, `bdd_setbddpair`, `bdd_resetpair`, `bdd_freepair`, `bdd_pairs_vardown`, `bdd_pairs_resize` | `Pairs`, `Session` |
| finite domains | `fdd.c` | `domain[]`, `fdvarnum`, `firstbddvar` | `fdd_extdomain`, `fdd_overlapdomain`, `fdd_clearall`, `fdd_ithvar`, `fdd_scanvar`, `fdd_domain`, `fdd_equals`, `fdd_makeset`, `fdd_scanset`, `fdd_setpair`, `fdd_intaddvarblock`, `fdd_printset` | `FiniteDomains`, `VectorSession` |
| boolean vectors | `bvec.c` | none, but for the references of the vectors it returns | arithmetic, comparisons, shifts, `bvec_map1` to `bvec_map3`, `bvec_coerce`, `bvec_copy`, `bvec_free` | `References`, `BitVectors`, `VectorSession` |
| saving, loading | `bddio.c` | a file; while loading, `lh_table` | `bdd_save`, `bdd_load` | `SaveLoad`, `Handles` |
| C++ interface | `cppext.cxx`, `bdd.h`, `bvec.h` | `root` of each `bdd`, `bitvec` of each `bvec` | constructors, destructors, assignments, operators, `bvec_map1` to `bvec_map3`, `bdd_fnload` | `Handles` |
| primes | `prime.c` | none | `bdd_prime_gte`, `bdd_prime_lte` | by their result |

### How they interact

Everything meets in the node table. A recursion of `bddop.c` calls
`bdd_makenode`, which on an empty free list collects garbage, grows the table,
fails, or leaves the recursion by `longjmp` to have the variables reordered.
What the recursion has computed so far survives only on the reference stack;
what it has cached is lost with every collection. Reordering takes the table
over: it gives counts and the level field another meaning, changes nodes in
place so that node numbers keep their functions, and gives both their old
meaning back at its end.

Calls meet each other in the caches. An entry is a question (operands, and an
id made of the operation, the variable set, the combining operator or the table of
pairs) with its answer; nothing but the id keeps the questions of
different functions apart. Collections and reorderings empty the caches,
`bdd_setvarnum` and `bdd_resetpair` do not. A set of variables is a stamp on
levels that earlier calls have stamped as well. A table of pairs is kept by
level: reordering and `bdd_setvarnum` have to rewrite every one of them.

`bvec.c` and `fdd.c` are clients of all this. They own references: a vector has one for
each of its bits until `bvec_free`, a block one for its set of variables until
`fdd_clearall`. The table of blocks numbers variables by itself and asks the kernel for
more when it has too few. The C++ classes own references too: an object has one for its
root, and so has every temporary of an expression until the end of its statement.
`bdd_load` is a client as well; while it builds, its hash table owns what it has built.

`bdd_reorder` goes down the tree of variable blocks. Each search moves whole blocks by
exchanges of variables, reads the number of nodes after each, and hands back the first
block of its list, from which the tree is then read.

### What is hard here

* A collection, a resize, an error or a jump may come out of any
  `bdd_makenode`, between any two steps of a recursion.
* A slot is reclaimed and filled again under whoever still names it: caches,
  stack entries, dead nodes that a lookup hands out again.
* Two lists share one link field; a chain number is computed before a resize
  and used after it.
* Counts saturate and then lose their meaning; reordering counts edges in
  the same field.
* An operation is retried once after a jump, with reordering switched off, and
  everything it set up by level before the jump is then wrong.
* Cache ids, stamps and table ids are counters that wrap, under entries and
  tables that are still in use.
* The table has a limit, and the greatest prime below the limit is a second one.
* An exchange works on a table that is half rewritten, and may meet a full
  table there.
* A vector operation makes several vectors on the way, shares nodes with its operands
  and overwrites what it holds; one reference too many or too few shows only at a
  later collection.
* A search holds pointers into a list that it rearranges, and trusts each
  block's own record of the order of its variables, which it does not keep up to date.
* A search that goes through worse orders has to find its way back by counting.
* An assignment gives back a reference before it takes one, between objects that may
  share nodes with each other and with temporaries.
* A file may stop anywhere, while what was loaded so far is referenced.
* There are no threads in the default build. With OpenMP, `apply_rec` forks its two
  halves over unlocked shared state.

`PROJECT.json` lists each as a hazard at its line, with the properties aimed
at it.

### What makes each component correct

* Node table: canonical (no two slots hold one node), closed (no child is a
  free slot), ordered, its free list exact; what is held or stacked is never
  reclaimed or changed; a count is the number of references and of the edges that reorderings
  have left in it, or saturated; an error means there really is no room.
* Hash chains: every node on the chain of its hash code, and nothing else.
* Operators: the result is the function asked for, every cache entry is true,
  the stack is balanced, every operation returns.
* Calls in a row: every call returns the function its name promises, and the
  one it would return with empty caches; no recursion asks for a node out of order;
  two tables of pairs never share an id; a table holds nothing below its last level.
* Vectors: every operation computes what its documentation says of the numbers, modulo the width, or is
  off by what section 5 says;
  a node has one reference for each vector and block that has it.
* Blocks: they encode their numbers over variables of their own, whatever the order.
* Searches: variables of a block stay together, no block is lost, a fixed block keeps its
  order, the order is never worse than before while no count saturates, and every search ends.
* Files: a load that returns 0 has restored what was saved, but for what section 5 says.
* C++ objects: a node has one reference for each object, temporary and vector that names it.
* Reordering: node numbers held by the program keep their functions, the table
  is canonical and ordered afterwards, counts cover all edges in between.

## 2. The models

### `NodeTable`

One variable per global of the kernel. `free` is the set of slots on the free
list, and the unique table is the set of slots in use. A call of
`bdd_makenode` is one action with five outcomes: `Found`, `Fresh`, `Refused`
(error flag set), `Recycled` (collection, perhaps a resize) and `Exhausted`
(`BDD_NODENUM`); `OpInterrupted` is the sixth, the jump. `bdd_setvarnum` is
cut at its `bdd_makenode` calls (`GrowPos`, `GrowNeg`, `GrowPin`), because each
may collect, and because it may be abandoned between two variables
(`GrowAbandon`).

The reordering that follows a jump adds to the count of every node the edges to it, and at its end clears
only the counts of nodes that had none before (`Reordered`). So counts are not the references of the
program any more, and a node may never be reclaimed. `raised` is a history
variable: what was added to each count. `CountsExact` is stated with it, and says that counts are off by nothing else.

The clients are the most general ones that obey the rules of the
library: operations ask for nodes over protected children, and a reference is
given back only by a holder. `held` is a history variable, the references the
program holds; the code has no such record, the properties need it.

`MarkedFrom` is `bdd_mark` as a least closed set rather than as a recursion,
so that the module has no recursive operator and can be proved about.
`bdd_reorder` inside `OpInterrupted` is one that finds the order good as
it is: what it does to the table is that everything without a counted
ancestor goes (`Survivors`), since `reorder_init` does not look at the
reference stack.

### `HashedTable`

The same kernel with chains and the linked free list, and with the slot and
the chain that the code really picks. `ImplementsNodeTable` is the refinement:
`NodeTable` with `free <- LinkedFrom(freepos)`. Actions that touch no link are
those of `NodeTable`, instantiated.

### `Apply`

Extends `NodeTable` with the recursions. The C stack is `frames`, one record
per call that has not returned: `enter` (shortcuts, cache lookup), `low` and
`high` (waiting for a recursive call), `make` (about to call `bdd_makenode`
on `READREF(2)` and `READREF(1)`). `Return` is the `PUSHREF` of the caller.
`Make` is `bdd_makenode`, `POPREF(2)` and the cache entry, also when
`bdd_makenode` has failed. `Interrupted` is the jump: `setjmp` returns 1,
`bdd_checkreorder` runs, and the operation starts again or, the second time,
gives up. `call.want` is a history variable, the function the operands had at
the call. Caches have `CacheSize` entries and the hash functions of the code;
`cacheratio` is 0 as `bdd_init` leaves it, so caches never change their size.

### `ParallelApply`

Two instances of the recursion of `Apply`, one for each thread of the
outermost parallel region of `apply_rec`, over one table, stack and cache. What
each thread returns is pushed by a step of its own, in either order. Steps
are whole, so the model has fewer interleavings than the code: it can show
what goes wrong, not that anything is right.

### `BddAlgebra`, `Pairs`, `Recursions`, `Witnesses`, `Session`

What one call leaves behind for the next. Here a node is the function it stands
for, a set of assignments: the table keeps one node a function
(`Canonical` and `FunctionsKept` of the modules above), so comparing numbers is
comparing functions, and `Level`, `Low` and `High` of `BddAlgebra` are what the
fields of the node would be under the order `bddlevel2var`.

`Recursions` has one operator for the body of each recursion of `bddop.c`,
with its shortcuts (`Shortcut`, `LeftToQuant`), cache key (`Key`) and cache
entry (`Looked`). `apply_rec` and `ite_rec`, called inside, are taken by
their result, which is what `Apply` checks. A cache never forgets: one of
the program's caches answers a subset of the questions this one answers, by the
same entries, so that a wrong answer that could be cached is found.
`Witnesses` has the recursions without a cache: choices, `bdd_allsat` and `bdd_printset` as
the list of what they show, the counts that mark nodes and unmark them (`MarkCount`,
`Unmark`, with the marks they leave in the result), cubes and sets. `m.ordered` records whether every
node asked for lies above its children, which `bdd_makenode` does not check.

`Session` is the program: it keeps a function, or two, and makes any calls of
its `ops` in any order. A call is one action (`Call`): early return, assignment of
the globals (`Globals`, with the stamps of `varset2vartable` and
`varset2svartable`), recursion, `disabled` switched off and on by the functions
that pick an assignment. `Interrupted` is a call out of which `bdd_makenode`
jumps: the first attempt has stamped its levels, two neighbouring levels are
exchanged, the caches are emptied and the call starts over with its globals
set again. `ChangePairs`, `Reset`, `AddVariable`, `KeepVariables`, `SwapVar`, `DisableReorder`,
`EnableReorder` and `Restart` are what happens between calls.

`last`, `grown`, `reset`, `skewed` and `failed` are history variables.
`last` is the latest call with its result and the result it has with empty
caches; the others say that something has happened which the code does not keep apart.
Three properties are conjunctions of named parts: `OperationsRight` (quantifiers, cofactors,
substitutions), `WitnessesRight` (choices, lists, support, cubes) and `TablesSound` (ids and
last levels of tables, and the types of what is kept by level).

The properties leave exactly these cases out, by name: `MeetsOldCount` (a
`bdd_satcount` answered from before `bdd_setvarnum`), `MeetsOldTable` (a table that
`bdd_resetpair` touched: it keeps its id, and under another order than 0, 1, 2, ... it
gets the variable n at level n), `MeetsOverflow` (`quantvarsetID` past its
end) and `failed` (a `bdd_replace` that could not be done has left its failure in the
cache). `bdd_unique` and `bdd_appuni` have no property of their own beyond
`AnswersAsIfFresh`: skipped variables are not combined, so that what they
return depends on the order.

### `References`, `BitVectors`, `FiniteDomains`, `VectorSession`

On `BddAlgebra` again: a node is a function. `References` is a ledger of the counts,
a bag of nodes, with a flag for a reference given back that nobody had
(`BDD_BREAK`). `BitVectors` has one operator for each operation of `bvec.c`, a vector being a
sequence of nodes with the lowest bit first; it takes the ledger and returns it
with the result. What is referenced and released within one round of a loop is
left out; the vectors that live longer (`added` and `leftshift` of `bvec_mul`, the carry
of `bvec_add`, the two results of a division) are referenced and released where
the code does, also where it should not. `bvec_div` releases what it finds in the
places for its results; the program has empty vectors there. `bvec_map1` to `bvec_map3`
take a function as a parameter; the program hands them not, xor and if-then-else.

`FiniteDomains` has the table of blocks. `ExtDomain` numbers the bits of the new blocks in the
interleaved order of the code's two loops (`BitsBefore` counts those
that come earlier), lets the kernel grow, and references each block's cube.
`ClearAll` gives the references back and sets `firstbddvar` to 0, while the variables
stay. `FddPrintSetRec` is what `fdd_printset` prints, as a list of the blocks' numbers, and
`FddSetPairs` the table that `fdd_setpairs` fills. `VectorSession` is the program: it makes the calls of its `ops` on the
vectors it holds, frees some of them, and has neighbouring levels exchanged, or a block of
variables made of an fdd block (`AddVarBlock`).
`last` is history, the last call and its result; `loose` is history too and
says that the program has called one of the operations that do not balance their
references (`Unbalanced`, and `fdd_domain`).

### `Reorder`

Self-contained, because the `level` field, the counts and the lookup mean
something else while reordering. Atomic steps: `reorder_init` (`Start`), the
take-down of a variable (`DownSimple`), the rewriting of one node
(`SwapNode`, with its two `reorder_makenode`), the local collection with the
exchange of levels (`LocalGbc`), the exchange of independent variables,
`reorder_done` (`Done`). Which exchanges are made is left open, so that every
search and `bdd_swapvar` is one of the behaviours. `meaning` and `held`
are history variables: what the program holds, and the function it was handed
out for. `lost` is one as well: whether `mark_roots` has missed an interaction
(see the findings).

### `BlockTree`, `BlockOrder`

`BlockTree` is `tree.c`: a record of blocks and of lists of blocks, with `bddtree_addrange`
as a function of it, `NULL` results included. A block carries `seq`, the order its
variables had when it was made or last sorted.

`BlockOrder` is the part of `reorder.c` above the exchange. `level` is the order; `Size`, the
number of nodes, depends on the order and on what exchanges have left behind: a node whose count
saturates on the way (`INCREF` and `DECREF` stop at `MAXREF`) is not released before `reorder_done` clears
the counts, and the same order then has another size. `kept` is the set of these nodes, which may grow at
every exchange, and `SizeOf` gives a size for each handler that `bdd_reorder_probe` may set, each such set
and each order. How a table gets that size is the business of `Reorder`.
`todo` is the C stack of `reorder_block`, `search` the search that runs with its local
variables. Each step is one exchange of two blocks (`blockdown`, its two loops
variable by variable) or one decision: `Win2Step`, `Win3Move`, `Win3Back` and `Win3Pair` move a
window, `SiftStart`, `SiftMove`, `SiftTurn` and `SiftBack` sift a block, `Win2Again`,
`Win3Again` and `SiftAgain` are the iterated forms. The `Ends` actions return the block that
the search takes for the first, and the list is what is reached from there (`Return`).
Sifting takes the blocks by the number of their nodes, which is left open: any sequence.
`RandomMove` is one turn of `reorder_random`: any block but the last goes down one place.

`Ready` and `AutoReorder` are `bdd_reorder_ready` and `bdd_reorder_auto`; `call.saved` are the settings
`bdd_reorder` overwrites. `asked`, `overlap`, `wanted` and `automatic` are history variables. Blocks are
added in the order the variables were declared in (`MayAdd`) and without a variable between
two blocks when a reordering runs (`Gaps` is `FALSE`): section 5 has what happens otherwise.

The loops of the code (`LeftPastRight`, `RightToStart`, `UpperDown`, `Exchanged`, `Place`) are recursive functions on the
state the loop works on, one argument a turn, so that they can be proved about; several calls of `blockdown` in a row
are `BlocksDown`, the function of all the orders on the way.

### `SaveLoad`, `Handles`

`SaveLoad` has the file as the numbers in it, with the node numbers at some distance from
each other so that they collide in the hash table in all ways (`stride`), and
`lh_table` with its chains, cell by cell. `Damaged` is what a full disk leaves, cut in its
first line (`header`), after a line or within its last number. `Below` has the nodes that
`bdd_mark` marks without the recursion: a node of a diagram is what is left of its function when the
variables above some level have values.

`Handles` is a C++ program. A node is a function as in `BddAlgebra`, `refs` the ledger of
`References`, and `table` the set of nodes that have not been collected. `object`, `temps` and
`vector` are what is alive. Constructors and assignments are one action each (they make no
node, so nothing comes between), an operation is `Evaluate`, whose result becomes a
temporary, and `EndStatement` destroys the temporaries. `MapBegin`, `MapBit`, `MapEnd`, and `LoadBegin`,
`LoadEntry`, `LoadEnd` and `LoadFails` take one bit or one entry of the file at a time; `LoadMissing`,
`LoadNoHeader` and `LoadConst` are the loads that end in the first line.
`Collect` and `Reorder` may come between any two actions. `BddDone` comes before the
destructors of global objects, which then must do nothing.
`spoiled` and `loaded` are history variables: whether `bdd_load` has released what it never
referenced, and the last load with what it returned and what was saved. `Holding` is the set of places that name a node (objects,
temporaries, bits of vectors and of the result of a map, filled slots of `lh_table`), each with its node.

### Correspondence

The `map` of `PROJECT.json` names the lines of every definition. Names
follow the code (`bdd_gbc` is `Gbc`, `bddrefstack` is `refstack`, `LOW(n) = -1`
is `FreeLow`).

## 3. The runs

| run | question | instance | states |
|---|---|---|---|
| `node_table` | does the kernel keep its table good under every order of calls? | 7 slots growing to 11, `MAXREF` 3, 2 or 3 variables, limits of 8 and 11, 2 handles | 65,296 |
| `hash_chains` | do chains and free list implement that? | the same table, 3 variables, limit 12 | 12,338 |
| `apply` | do operators return the right function, whatever happens on the way? | 11 or 13 slots, 3 variables, caches of 3 entries, 2 calls in a row | 75,576 |
| `reorder` | do exchanges keep functions, order, canonicity, counts? | 11 slots, growing, 2 or 3 variables, 4 calls, 2 reorderings of 2 exchanges | 99,327 |
| `reorder_lost` | are dependent variables always found? (no) | as `reorder`, 5 calls, 1 reordering | |
| `session` | are results right whatever was called before? | 76 programs of one call on three variables, 14 of up to 7 calls and changes | 19,118 |
| `appuni_cached` | are `bdd_appall` and `bdd_appuni` kept apart? (no) | one program, 2 steps | |
| `vectors` | do vectors compute with numbers, do blocks encode them, does every reference have an owner? | 21 programs of one call on 3 bits and on other lengths, 5 of up to 5 calls; 4 variables | 9,762 |
| `blocks` | do searches keep blocks together and in the tree, never worsen the order, and end? | 4 variables, the trees that 4 ranges (one too large) and `bdd_varblockall` make, 4 calls with 1 `bdd_reorder` or automatic ones among them, 1 count that may saturate | 231,387 |
| `block_split` | also with a variable between two blocks? (no) | 4 variables, two blocks, 3 calls | |
| `handles` | does every object keep its node, and does a load restore what was saved? | 7 programs of up to 4 calls on 2 objects, 2 vectors of 2 bits, 3 variables | 86,088 |
| `parallel_apply` | are results right in an OpenMP build? (no) | as `apply`, no reordering | |

Every property of a passing run has a mutant in `PROJECT.json`: a plausible
error in one definition that makes it fail under the same bounds.

### Bounds, and why they are enough

* Tables of 7 to 13 slots: two slots go to the constants and two to each
  variable, so 3 to 5 are left, and collections, resizes and errors all happen
  within a few calls. Growth is by the code's own rule (primes, at most
  `MaxIncrease` more); a first resize and a size at its limit both occur.
* `MAXREF` is 2, 3 or 5 instead of 1023: counts saturate and saturated nodes
  lose all their references. With 3 in `node_table` a reordering also raises counts that do not saturate by it,
  and these stay above the references.
* Two or three variables: three levels are what it takes for a partial result
  to lie on the stack while another is computed, and for an exchange to
  have nodes above, between and below.
* `LowChildren`, `MaxHandles`, `MaxHeld`, `MaxStack`, `Script`, `MaxCalls` and
  `MaxNext` bound what the program asks for and how much it holds; each is
  named as a bound where it is declared.
* `Script` names the operators of each call; the second works on the result of
  the first when that was kept, in a table that is full because of it.
* `Programs` of `session`: `Unary` and `Pairwise` make one call of every
  operation on every function of a few variables under sets, cubes and operators that differ in
  size, sign and level; `Long` makes several calls in a row around one thing they
  share (the stamps, the ids of `appex` and `appall`, two tables, a table
  and new variables, counts and reordering, a restart). They keep
  the operators of `bdd_appall` and `bdd_appuni` apart, which the code does not
  (`appuni_cached` has them together).
* `PairIdMax` 4 instead of `INT_MAX >> 2` with two tables, and `SetIdMax` 5 instead of
  `INT_MAX`: both counters wrap within four calls, with tables and stamps from before
  still there, and half of the range, where signed sets wrap, is passed by an
  unsigned one as well.
* `Programs` of `vectors`: `Numbers3` makes every operation on three variables and every constant
  of three bits, with numbers from 0 to 8, so that carries, borrows and shifts up to and
  past the width all occur; `Lengths` mixes lengths, the empty vector included; `Long`
  calls several in a row, so that vectors share nodes and are freed in any order, and defines,
  overlaps and clears blocks of sizes that are no powers of two, alone or interleaved,
  with reorderings between. `MaxBits` 6 is the length of a product.
* `blocks` has four variables: enough for two blocks of two, a block inside a block, a window
  of three with a block outside it, and a block that has to move two places to its best one. The
  sizes are those of a function with a best order in the middle of others, and of a rugged one with many
  local minima; with the first, the count of one function may saturate in any exchange (`Immortals`), and its
  nodes then add to the size of every order; `Caps` are the bounds on growth that stop sifting early, `MaxReorders` is 1 so
  that trees and calls before and after can vary, and `MaxTimes` is 1, which with -1 and 0 has every
  kind of number.
* `Programs` of `handles`: two objects are what it takes for assignment from itself, from the
  other one and from a temporary of the same root; two bits let vectors share nodes. Files hold
  up to five nodes with strides of 1 to 4, so that every chain of the load table is
  longer than one in some of them. A foreign file comes from a program with the reverse order, or with
  more variables than there are.
* `node_table` and `hash_chains` are checked for deadlock: a call is always
  possible there. The others say `CHECK_DEADLOCK FALSE`, because the program
  stops when its calls are used up.

### Fairness

`Returns` is checked under weak fairness of `RecursionStep` alone, `Terminates` under that of
`ReorderStep`: the library is sequential, and once called runs until it
returns. Nothing is assumed of the program that calls it, nor of which block sifting takes next.

## 4. What is proved

Eight modules hold proofs: `Induction` general lemmas, the others the theorems of
specifications that runs check, for every
value of its constants: any table size, limit, `MAXREF`, threshold, size of caches, number of
variables and any program that calls the library by its rules. What the
constants are assumed to be is named in the modules that declare them: the first size of the
table is a prime greater than 2, `MAXREF` is positive, the caches have a prime size, the others are
numbers or ranges, and, for `Apply`, the table starts with room for the variables (`RoomAssumption`,
which `bdd_setvarnum` before the first operator amounts to). Of a handler that gives the size of an order
`BlockOrder` assumes that it gives a number; of the programs of `Handles`, that they start with diagrams, that their
operators are among those of the class, that the length of a file is a number (`IsProgram`), and that
they have finitely many variables; of those of `VectorSession`, that they have a variable, that the
vectors they start with are of functions of the variables and the numbers they pass not negative, and that the sizes of
their blocks are positive (`IsProgram` again: a negative distance is an error in `bvec.c`, and any other size one in `Domain_allocate`).

| theorem | states | of |
|---|---|---|
| `TypeCorrect`, `CanonicalHolds`, `NoDanglingChildHolds`, `FreeListExactHolds`, `HeldNodesLiveHolds`, `CountsExactHolds`, `VariablesPinnedHolds`, `OrderedHolds` | all invariants of the `node_table` run | `NodeTable` |
| `ProtectedGraphKeptHolds`, `ErrorOnlyWhenFullHolds` | its action properties | `NodeTable` |
| `ChainsExactHolds`, `NodeTableImplemented` | all properties of the `hash_chains` run, the refinement among them | `HashedTable` |
| `ChainedTableSafe` | what the refinement carries over from `NodeTable` | `HashedTable` |
| `ResultRightHolds`, `CacheCoherentHolds`, `StackRightHolds` | all invariants of the `apply` run | `Apply` |
| `OneNodeAFunction`, `ResultUniqueHolds` | equal functions have equal node numbers | `Apply` |
| `ApplyTableSound` | the invariants of `NodeTable`, below the operators | `Apply` |
| `TableSoundHolds` | `TableSound` of the `reorder` run, while a resize finds a larger prime | `Reorder` |
| `FunctionsKeptTillError`, `FunctionsKeptHolds` | `FunctionsKept` of the `reorder` run: reordering is invisible to what the program holds | `Reorder` |
| `OrderedUnlessLostHolds` | `OrderedUnlessLost` of the `reorder` run: an exchange never breaks the order of the variables | `Reorder` |
| `CanonicalTillError`, `CanonicalHolds` | `Canonical` of the `reorder` run: an exchange leaves no node twice in the table | `Reorder` |
| `BlocksTogetherHolds`, `FixedKeptHolds`, `BlocksKeptHolds`, `NeverWorseHolds`, `OrdersAsAskedHolds`, `TimesRespectedHolds` | all invariants of the `blocks` run | `BlockOrder` |
| `HeldAliveHolds`, `CountsAreHoldersHolds` | `HeldAlive` and `CountsAreHolders` of the `handles` run: no object loses its node, and every node has one reference for each place that names it | `Handles` |
| `BlocksApartHolds` | `BlocksApart` of the `vectors` run: every finite domain block has variables of its own | `VectorSession` |
| `CountsMatchHolds` | `CountsMatch` of the `vectors` run: a node has one reference for each place in a vector and each block, unless the program has called what does not balance | `VectorSession` |

The inductive invariants are theorems too: `InvariantHolds` of `NodeTableProofs` and of
`HashedTableProofs`, `ApplyInvariant`, `ReorderInvariant`, `HandlesInvHolds`, and, as a lemma, `BlockInvHolds`; `VectorsInv` and `CountsInv` are shown next to
the theorems that use them.

### The node table (`NodeTableProofs`)

None of the properties is inductive alone: that a collection
keeps a child needs that the mark is closed under children, that a refilled
slot starts with count zero needs counts that are known, that `bdd_setvarnum` pins
the right nodes needs to know what is on the reference stack between two of
its steps. The inductive invariant `IInv` collects these: the table is good
(typed, canonical, closed, free slots blank and exactly the free list), counts
are what is held and what reorderings have added, or saturated (`GoodCounts`), stack and variables name used nodes, and `growing` says which node
the stack and `varset` hold. Lemmas state what one `bdd_makenode` does to a
good table (it is still good, the protected graph is kept, the answer is a used
node with the fields asked for, or the constant false with the error flag set),
and each action of a client then needs only those. The action properties
follow from the invariant in the state before the step.

`Ordered` is proved next to it, from an invariant of its own: a child handed to `bdd_makenode` is
protected, so that the collection inside the call leaves it its level; and the
constants, which stand below everything, only ever get a greater level.

### The lists (`HashedTableProofs`)

That a list holds exactly some set of slots does not survive the insertion of a slot by itself,
since nothing says that a link cannot lead back. The invariant gives every slot a
key and has each list sorted by it, greatest first. After `bdd_gbc` or `bdd_noderesize` the keys
follow the slot numbers, because both rebuild all lists from the last slot down; a
slot that `bdd_makenode` puts in front of its chain gets a key above all others. No
list can then have a cycle or share a slot with another, and following it gives exactly its
class. The slots that a collection and a resize leave in a chain depend on hash codes computed
with the new size: the lemmas about `SlotsFrom` say that every list the code rebuilds
has the slots of its class at that size. `NodeTableImplemented` maps each action to one of
`NodeTable` with `free <- LinkedFrom(freepos)`, the slot taken from the head of the free list being the least one.

### The operators (`ApplyProofs`)

`Function` of `Apply` is recursive over a graph that changes. That it exists is proved first
(an assignment makes a node true if the walk it takes from there ends at the terminal
true), then that it depends on nothing but the nodes below (`SameFunctions`): as
long as those stay, a node means what it meant.

`ResultRight` needs to know of every call that waits what it is waiting for, of
every entry of the stack what it stands for, and of all of them that no collection takes them
away. `ApplyInv` is the conjunction of

* `IInv` and `GoodTerminals`: the table is good, every node lies above its children and the constants below all;
* `ControlInv`: the operation can start again, because its operands have counted references and
  still have the functions they had at the call;
* `FramesInv`: operands of every call are `Safe`, that is, below a counted node. A node
  that is only on the stack may be collected by the reordering, one below an operand may not. Each call asks for
  the cofactors its caller waits for, strictly further down in the order; results lie on the stack at
  the place their call will read them from, lie below the top level of its operands and, while there is
  no error, have the function of the cofactors;
* `CachesInv`: an entry names nodes in use and is right about them, while there is no error. An
  entry is made after an error as well; `errorcond` stays set until the caches
  are empty again.

A step is looked at in the table before and after its `bdd_makenode`, so
these parts are operators over a table, its functions and a set of nodes. The lemmas carry each from the one
table to the other; `ApplyStep` has one lemma for each action. TLC has checked
`ApplyInv` on the instance of the `apply` run before it was proved.

The bound on the stack, `2 * num + 4` in `bdd_setvarnum`, comes from the levels: calls that wait
have strictly descending top levels, so there are at most `num` of them besides the innermost, and each has two
entries at most (`StackBounded`).

`OneNodeAFunction` is the reason why all this is worth having: functions of nodes do not depend on
variables above them (`Independent`), so the functions of the children are cofactors of the node's
(`ChildCofactors`), and the lowest two nodes with one function would be a duplicate the
unique table has not found (`SameFunctionSameNode`).

### The exchange of variables (`ReorderProofs`)

The claim is that what `reorder_localGbc` and `reorder_done` reclaim is dead, half way through
a reordering as well. The inductive invariant `Inv` has three parts.

* `Shape`: the table is typed and closed, the free list exact and its slots without a count, the order of
  the variables a permutation, and the graph acyclic. Acyclic is said with a rank that
  falls from a node to its children. The order of the variables would be the obvious rank, but an exchange that
  `mark_roots` has misled (`lost`, section 5) puts nodes above their children's variables; and half way
  through an exchange there is no order at all.
* `Records`: the variables of the reordering keep to their types; what waits to be rewritten is in use.
* `Counts`: outside of a reordering a count covers the references of the program; inside of one the edges
  from all nodes in use too (`Covers`: a count that is `MAXREF` covers everything), and
  the program holds nothing but roots.

`Below`, and the other recursions that mark, are functions on a graph; that they
exist is a fixed point in an acyclic table (`FixedPoint`, `BelowEquation`). What a set of
slots reaches is closed under children (`ReachClosed`), so the rest can be reclaimed (`Sweep`): this gives
`Gbc`, `Start` and `Done`. A rewritten node is followed through the two calls of
`reorder_makenode`. `Outcome` says what one call does to a table: used nodes stay as
they were but for the count of the answer, which is one greater; a new node counts its children; and after an error
nothing is promised of the answer but that it is the constant false. `SwapStep` gives the counts up
again that the rewritten node had on its old children. Its new rank is twice the old, and a node that the calls
made gets the number just below its parent's, so that the table stays acyclic.

The theorem has two hypotheses. `GrowsUpTo(Top)` says that `NextSize` finds a larger
prime than the present size up to `Top`, unless the table is at its limit, and the sizes stay up to `Top`. Read
`Top` as the width of an `int`: with the increase the library sets, 50000, there always is such
a prime below it. What they exclude is the case of section 5 in which the largest prime allowed is
the present size, and a new node is written past the end of the table. The instance of the run
`reorder` satisfies both with `Top` 22.

`FunctionsKept` is proved next to it, from `KeptInv`. Functions are looked at as any assignment of sets
to nodes that agrees with every row (`Denotes`): `Functions_` does (`FunctionsEquation`), and in an acyclic table
nothing else does (`OneDenotation`). A step then is right when the functions of before, with what the new nodes
are asked for to stand for added, agree with the rows of after. For a step that rewrites no row this is
`FunctionsLeft` or `FunctionsAdded`; that `reorder_init` and `reorder_done` leave a node its variable while
its `level` field changes its meaning is the inverse of `bddvar2level`. A rewritten node is
`ExpansionsExchanged`, the expansion of its function in two variables, and needs that what waits is of
the upper variable (`Waiting`). The order of the variables is needed nowhere, which is why an
interaction that `mark_roots` has missed costs canonicity and not functions. An error does: `reorder_swap`
stores the false of a `reorder_makenode` that has failed. So the theorem holds up to the first error
(`FunctionsKeptTillError`), and for ever in a table without a limit (`FunctionsKeptHolds`), where `MakeUnlimited` shows
that no error is set.

### The order half way through an exchange (`ReorderProofs`, second half)

Between exchanges children are below their parents (`Ordered`); this is what the next exchange relies on, and
while one is on it is false. `OrderInv` adds what holds then.

* `HalfExchanged`: what does not wait is in the order there will be (`DepthAfter`, the places with the
  two variables traded); what waits is of the upper variable, has a child of the lower one, and has its grandchildren
  below both; only nodes above both have a child that waits. `DownSimpleOrder` gets it from `Ordered`,
  `SwapOrder` keeps it for each node in any order of the chain, and `LocalGbcOrder` returns to `Ordered`
  when nothing waits.
* `Meeting`: the interaction matrix has every pair of variables that meet below a node in use. This is what makes
  `ExchangeIndependent` right, which trades places and looks at no node. `mark_roots` gives it
  for the nodes below roots unless it has missed a pair (`lost`, finding 1 of section 5), and a rewritten node must not
  put a variable below another where it was not before (`SwapMeeting`). That is an argument about all that is
  below a node. It is made without induction: `Meet` is the least of all assignments of variables to nodes that grow
  from child to parent (`MeetBounded`, by the node of least rank that would be an exception), so it suffices to
  give the new table one such assignment, and the old `Meet` is one.

The order is kept when errors are set too: the false that a failed `reorder_makenode` leaves is below everything.

For `Canonical` rows are unique at every moment (`Unique`), in the hash table or not. `reorder_makenode` looks
for a node before it makes one, but in the hash table only, and `reorder_swap` looks for nothing when it
puts the rewritten node back. So two things have to be shown. A new node of the upper variable is like none
that waits: those have a child of the lower variable, and a new one has none (`SwapFresh`,
`GrandchildrenBelow`). And the rewritten node is like no node of the lower variable that is there: `Apart` says that no such
node, taken apart by the upper variable, has the grandchildren of one that waits. At first it has no child
of the upper variable (`DownSimpleApart`); later it may be one that was rewritten before, and then the two would have had the same
grandchildren, so the same children (`HalvesGive`, `GrandchildrenGive`), so the same row. The theorem holds
up to the first error (`CanonicalTillError`): after one, two rewritten nodes may have got false in place of
different children. In a table without a limit it holds for ever (`CanonicalHolds`).

Both theorems have the two hypotheses of the last section. That the invariants `OrderInv` and `CanonInv` hold
was seen with TLC first, on the instances of `reorder` and `reorder_lost` and on one with `Limit = 11`, where errors
are set and `Canonical` alone fails.

### Loops and least sets (`Induction`)

The induction theorems of the library take an operator as a parameter, which the provers cannot give a value to. What
takes its place here are statements about sets. `LeastExists` is the least element of a set of numbers, and from it come
`LeastRank` (if anything is an exception, one of least rank is), `FixedPoint` (a monotone map of sets has a least
fixed point, which is what makes the functions of cyclic-looking tables and `Meet` well defined), and the two that loops need:
`LoopExists`, that a loop over a set of states with a set of exits is a function, even if there are states from which it
does not end, and `LoopEnds`, that it ends in an exit that satisfies the invariant when every turn keeps the invariant (a set of states) and
lowers a pair of measures in the lexicographic order (`GoesOn`).

### Blocks and orders (`BlockOrderProofs`, first half)

What the operators of `BlockTree` and `BlockOrder` do, for every tree and order. `Shape` is a tree: ranges are
apart or inside each other, a block is in one list and once, below the smallest block around it. `AddRangeFacts` is
`bddtree_addrange` on every tree of that shape in which lists are in the order of their ranges, with its descent (`PlaceFacts`) and the lists that an
overlap cuts off.

`BlockdownSlides` is `blockdown`: when the left block fills the levels `lo..mid` and the right one `mid + 1..hi`,
its two loops of single exchanges end in `Slid`, the order in which the two have changed places and nothing
else has moved. The measure of the first loop is how many pairs of variables have still to pass each other (`ToPass`), and, since a
turn may exchange nothing, how far the loop is from the variable that can move (`LeftPastRightSlides`). Which
variables the code takes for the ends of a block is `seq`; hence `Fresh`, that `seq` is the current order (`SortedPlaces`, `SortedSame`). `Exchange` is what this
does to the tree: every block still fills a range of levels, with the blocks of its list in a row (`Tight`). `SlidBack`
says that `blockdown` at the same place takes `blockdown` back.

### The searches (`BlockOrderProofs`, second half)

Every theorem has the hypothesis `~ Gaps`: the program reorders only when no variable lies between two
blocks of a list without being in one. Otherwise `BlocksTogether` is false (finding `block_split` of section 5).

`BlocksTogether` is not inductive. `BlockInv` adds what the steps rely on.

* `TreeInv`: between calls the tree is `Tight`, or the order is the declared one, in which variables may still be in no block; `seq` is
  the current order for every block but those that wait to be sorted.
* `TodoInv`: what `reorder_block` has still to do goes from the inside out, so that a block is sorted before the block around it moves.
* `SearchInv`: the local variables of the search that runs. The block a search returns as the first of its list
  is the first (`q.first` of the windows, which `reorder_swapwin3` sets by one of three ways), the place a window has moved its blocks to is the
  one that the exchanges so far lead to (`Offset`), the best place of a block that is sifted is a place in its list.
  A `blockdown` beyond the end of the list would be possible without this.
* `FixedInv`, `SettingsInv`, `TimesInv`, `WantedInv`: fixed lists are in the declared order; the number of automatic reorderings left and
  the one `bdd_reorder` has saved add up; the order is the one asked for until something is called that changes it.

`NeverWorse` is proved next to it, from `SizesInv`. When a search has tried orders, the present one may have more nodes than the first;
what is invariant is that the way back leads to the best (`NotWorse`): the calls of `blockdown` that `Win3Back`
and `SiftBack` would make from here (`WindowWay`, `WayFrom`), as a sequence of orders (`LeadsTo`), end in an order with the size `search.best`, and that
is not above the size at the beginning. A step lengthens the way by one call that takes it back (`LeadsBack`), or shortens it by
one, or finds a better order and starts a new way. All this holds while no count has saturated (`kept = {}`), which, since
nothing kept is released before the end (`KeptGrows`), is all the theorem is about. Nothing else is assumed of the sizes, nor of the sequence in
which sifting takes the blocks, nor whether `SiftMove` stops early.

`OrdersAsAsked` is about loops over the order: `bdd_setvarorder` raises variable after variable and keeps those it has placed, `bdd_swapvar` lets
one down and the other up. That they end is part of it, since a recursive function that does not end has no known value.

`BlockInv` and `SizesInv` were seen with TLC first, on all states of the run `blocks`.

### The references of a C++ program (`HandlesProofs`)

What is held is in the table (`Alive`) because every count is the number of places that hold the
node (`Matches`), and that is not inductive without knowing what the running calls hold. `HandlesInv` says, unless a
truncated file has made `bdd_load` release what it never had (`spoiled`):

* `NamesDiagrams`: what the program names are diagrams;
* `MapFits`: the result of a `bvec_map` is as long as its arguments;
* `LoadFits`: `lh_table` has been filled from its first slot on, `lh_freepos` is the next slot, the others have what
  `malloc` left, and `root` is false or in the table (`HashFits`, kept by `HashAdded` although head and cell of a chain may be one slot);
* while the package runs, `Matches(Holding, refs)` and `Alive`.

The proof is about places. `TakeMatches` and `GiveMatches` say that one place more or less is one reference more or less,
and that giving a reference back is no error, since the place it is given back for is one of those counted. `TakePlaces` and
`GivePlaces` do this for the loops of `bvec_addref` and `bvec_delref`, whose places are distinct even if their nodes are
not. Within a step there are places no variable of the model stands for: the temporaries of a round of
`bvec_map2` (`RoundPlaces`), the `bdd(lr)` of `bdd_fnload` (`RootMatches`); an assignment gives the old root back before it takes the new one
(`SwapMatches`); and the places of the result of a map become those of a vector of the program (`RenamedAllMatches`).
Each action then has a lemma (`AssignSound`, `MapBitSound`, `LoadEntrySound` and so on) that says what becomes of
`Holding`. A collection or an exchange keeps the nodes below those that are counted; `HeldCounted` says that these are the
ones that are held.

`HandlesInv` was seen with TLC first, on all states of the run `handles`.

### Finite domain blocks (`VectorProofs`, first part)

`fdd_extdomain` hands out variables by a counter that runs through two loops, bits outside and blocks inside; the model
says directly where a bit goes, `firstbddvar + Cardinality(BitsBefore(dom, b, n))`. That this numbers the new bits is proved for any
number of blocks of any sizes: a later bit has a greater number (`PlaceGrows`), hence different bits have different ones
(`PlacesDiffer`), and since each is below `ExtraVars(dom)`, none is left out (`PlacesTaken`).

`BlocksInv` is the invariant. `BlocksApart` relates blocks by the parts they were put together from, which says nothing of
two overlapping blocks; what `fdd_overlapdomain` and the later calls need is which variables those are. `TableFits` has the records of the table and that a
block's `parts` are numbers of blocks, `Apart` and `Handed` are the two halves of the property,
`Woven` the interleaving, and `OrderFits` that the levels are `0..bddvarnum - 1`, which exchanges keep. Cardinalities of `NewBits` are
where the kernel's number of variables comes in: `firstbddvar <= bddvarnum` needs `GrownTo` to have grown the order far enough.
`fdd_clearall` sets `firstbddvar` to 0 and keeps the variables, so that the next blocks get the same ones again.

### The references of vectors and blocks (`VectorProofs`, second part)

`CountsInv` says that as long as the program has called nothing of `Unbalanced` (`loose`), the count of every node that has one is
`Owns`: the number of its places in the vectors and of the blocks it belongs to; and that nothing has been given back that nobody had.
It also has `BlocksInv` and `firstbddvar <= MaxVars`, since the nodes of `bvec_varfdd` need no reference only if
they are variables of the kernel.

* Loops. The folds of the model are unrolled (`Unrolled`): there is a sequence `t` of states with `t[k]` made of `t[k - 1]` by one
  `Turn`, and the fold is the last of them. What a loop keeps is then an induction over its turns. The fold is one
  for all loops, with a case for each, since an operator cannot be a parameter of a lemma.
* What a loop keeps. `AddRefsCount` and `DelRefsCount`: a reference more or less for each place of the
  vector (`Occ`); that `bvec_delref` gives back only what there is needs the whole vector to be counted before its first turn.
  `Rippling`: after `k` turns of `bvec_add` or `bvec_sub` the `k` bits of the sum and the carry have a reference each.
  `Multiplying`: after a turn of `bvec_mul` the partial sum and the shifted operand have a reference for each bit, and nothing else has: the sum
  that was not taken, or the one it replaces, and the bit that is shifted out are given back in that turn (`MulTurnRight`).
* `Balanced` is what all operations but those of `Unbalanced` then have in common: one reference more for each place of the
  vector they return, and all other counts as they were. Operands may share nodes with the result and with each other.
* The program. `GetsVector`, `FreesVector`, `GetsBlocks` and `ClearsBlocks` say what `Owns` becomes; `PlacesRemove` is that
  `bvec_free` takes away the places of one vector, although it renumbers those after it.

Constants and variables are left out (`Pinned`): their counts are saturated. So is what a program does after an unbalanced call, or
after `fdd_domain` or `fdd_intaddvarblock`, which do not balance either: then `CountsMatch` is false in the code.

## 5. Findings

Each is a run that TLC ends with a counterexample, and has an entry in
`PROJECT.json` that quotes the line it contradicts.

1. `reorder_lost`: `mark_roots` builds the interaction matrix from rows that
   may be incomplete when they are read; two dependent variables are then
   exchanged as if independent, and a node ends up above its child.
2. `appuni_cached`: `bdd_appuni` has the cache ids of `bdd_appall`.
3. `parallel_apply`: with OpenMP the two halves of `apply_rec` push their
   results in either order, and the node made of them may have its children
   exchanged.
4. `block_split`: the second loop of `blockdown` ends when the first variable of the right block is
   where the left one started. With a variable of no block between the two, the rest of
   the right block is then still below it: blocks {0} and {2, 3} of four variables, and
   `bdd_reorder(BDD_REORDER_WIN2)` leaves the order 2 1 3 0.

Met on the way and described here, without a run of their own. Of the kernel and its
operators:

* `bdd_noderesize(0)` that cannot gain a slot, at the greatest prime below the limit, still
  sets `bddfreepos` to the old size (`kernel.c:1386`); without rehashing, as in an exchange,
  the first slot past the table is then used. `bdd_makenode` is spared, since
  `bdd_noderesize(1)` rebuilds the free list. `Reorder` has this outcome.
* `bdd_resetpair` keeps the id of the table, so that the replace cache still answers for the
  table as it was, though all substitutions are documented to be back at "no change". `Session` has this
  as `MeetsOldTable`; the library, compiled and run, does the same.
* `reorder_swap` ignores a `reorder_makenode` that has failed, and stores the false
  it returns as a child (`reorder.c`). `Reorder` has this outcome; its passing run
  has no limit on the table and so never meets it.
* `reorder_done` clears the counts of nodes that are no roots, but a root keeps the count
  `mark_roots` gave it, with the edges of its parents: when every holder has given it
  back it still is not reclaimed. `extroots` is there "to revert to the standard GBC mode".
  `NodeTable`, `Apply` and `Reorder` have this; `raised` counts it.
* `supportSize` outlives `bdd_done`, `supportSet` does not: the first `bdd_support` after
  `bdd_init` writes through a null pointer (`MeetsNoArray` in `Session`).
* While the error flag is set, calls that need no new node still return it.
* `bdd_setvarnum` leaves `misccache` alone, so that `bdd_satcount` may return a
  count over fewer variables (`MeetsOldCount`).
* `bdd_replace` caches the false it returns on `BDD_REPLACE` (`failed`).
* `bdd_satone`, `bdd_fullsatone`, `bdd_support` and `bdd_setvarnum` end with
  `bdd_enable_reorder`, also when the program had called `bdd_disable_reorder`;
  a `bdd_setvarnum` that returns early leaves reordering disabled.
* `quantvarsetID` can reach its end past the place where signed sets start it
  again, and overflows (`MeetsOverflow`).
* `bdd_scanset` is documented to list variables in ascending order (`kernel.c:1427-1428`); it lists them
  by level, so that exchanged variables come in another order. `WitnessesRight` asks for the documented order
  and exempts this case (`MeetsNewOrder`).

Of vectors and finite domain blocks:

* `bvec_divfixed` shifts the highest bit out of its remainder: `bvec_div_rec` ends each step with the
  remainder shifted left into as many bits, before `bvec_divfixed` shifts it back. 4 / 5 on
  three bits is 0, remainder 0, in the library as compiled. `VectorsRight` has the remainder without that bit (`WithoutTopBit`).
* `fdd_intaddvarblock` gives back a reference to its set that it has not taken.
* `fdd_printset_rec` prints each block's number with a `printf` to standard output while the rest goes to the stream
  it was given (`fdd.c:767`).
* `bvec_shr` asks for `m+n <= 2` where the length of the vector is meant: it is right for three
  bits, reads past shorter vectors and takes the lowest three bits of longer ones (`ShrBound`; so does `VectorsRight`). `bvec_shl` and
  `bvec_shr` compare with distances that `r` may have too few bits for.
* `bvec_mulfixed`, `bvec_div_rec`, `bvec_shl` and `bvec_shr` release nodes they have
  not referenced, which other vectors may hold; `bvec_div` keeps what is left of the
  divisor, and `fdd_domain` a reference to its result (`Unbalanced`, `loose`).
* `bvec_divfixed` cuts a divisor down to the bits of the vector, so that 5 / 9 on three bits is
  5 / 1, and a multiple of 8 divides by 0, with all bits of the quotient set (`CutDivisor`).
* `fdd_extdomain` takes variables from `firstbddvar` on, also when the program has such
  variables in use; its documentation says they "do not interfere with the BDD
  variables already in use".
* `fdd_equals` compares the sizes of two blocks and goes by the bits of the first; a block
  that overlaps two others may have the size of a plain block, but more bits.

Of reordering and variable blocks:

* A range that overlaps a block in part is not refused, as the documentation has it, unless it meets the
  first block of the outermost list: elsewhere it cuts its list off there, and an identifier is
  returned (`overlap`).
* `update_seq` puts a variable at its distance from the topmost of the block. A block
  added after the order has changed may have its variables scattered, and the write goes past
  `seq`, or leaves entries of it unwritten (`Unset`).
* `reorder_win2ite` starts each pass at the block that was first when it began, not at the one that is:
  the blocks that have moved before it are not looked at again. `reorder_win3ite` never tries the last two blocks as a pair.
* A count that saturates in an exchange keeps its node to the end of the reordering. A search that goes back to the
  best order it has met may then find more nodes there than it counted, and end with more than it began with
  (`MeetsSaturation`, the exception of `NeverWorse`; TLC meets it).
* `bdd_reorder_auto` tests `!bdd_reorder_ready`, the address of a function, which is never null; its
  callers happen to have asked already.
* `bddreordertimes`, which -1 makes unlimited, is counted down all the same.
* `bdd_reorder_probe(NULL)`, documented for when no handler is needed, keeps the handler there is:
  the default one cannot be had back but by keeping what the first call returned.

Of files and of the C++ classes:

* `bdd_save` looks at no result of `fprintf` and returns 0 on a full disk. A file that lacks
  the last digit of its last number loads without an error, as another function (`MeetsCutNumber`).
* When a file is truncated `bdd_load` releases every slot of `lh_table`, also those it has not
  reached, with what `malloc` found in them (`spoiled`).
* `bdd_load`, documented to return "Zero on succes" (bddio.c:473), goes on after a `bdd_setvarnum`,
  `bdd_ithvar` or `bdd_ite` that has failed and returns 0, with another function (`MeetsFailedCall`). For the file of a
  constant that ends after `0 0` it returns 0 and leaves `*root` as it was (`MeetsCutConstant`). `LoadRestores`
  leaves out these three cases by name; TLC meets each of them.
* The order `bdd_load` reads, `loadvar2level`, is used for nothing.
* The C++ `bdd_fnload` makes an object of an uninitialised variable when the file cannot be opened, when it has
  not even two numbers, and when it is that of a constant that has been cut (`Uninitialised`).
* `bvec_div` and `bvec_divfixed` of the C++ interface overwrite the `roots` of their results
  without freeing the vectors there.

## 6. What is only model-checked, and what is not modelled

Checked by TLC and not proved:

* `Returns` and `Terminates`: liveness, which the proof system does not do.
* Everything about `Session`. What its calls compute is defined by
  `RECURSIVE` operators in `Recursions` and `Witnesses`, which the provers do not take. What
  the loops of `BlockOrder` compute is proved by the sets of `Induction`; the same could be done for these, once
  they are recursive functions.
* `VectorsRight` and `DomainsRight` of `VectorSession`: what the loops of `bvec.c` compute from the bits, and what
  `fdd.c` finds along a path of a diagram, is induction over data.
* `LoadRestores` of `Handles`: it depends on what the recursion of `bdd_save_rec` writes and on where the chains of
  `lh_table` lead for any sequence of collisions; the theorems about `Handles` need only which slots are filled.
* The `level`s of nodes do not exist in `BlockOrder`, so nothing is proved about an exchange and a search together.
* `ParallelApply`, which is there for what goes wrong.

Left out: memory that cannot be allocated; handlers that call back into the
library, `bdd_allsat`'s among them; statistics, timing, printing of tables and graphs; the Rabin-Miller
test of `prime.c` (primes are primes here); the wrap-around of the 32-bit hash (the small
tables never reach it); `MAXVAR`; the code under `USERESIZE`, which is never compiled. Of the operators:
`bdd_satcountln` (real numbers), the wrap of `supportID`
at `0x0FFFFFFF`, the bits that the shifts in cache ids drop, the reference counts
of the entries of a table of pairs, and the early errors on arguments out of
range. A vector operation is one step of `VectorSession`: what a collection in
the middle of one does to a node it has not referenced is not in the model. `BlockOrder` takes the
size of the table for a function of the order and of the nodes whose count has saturated, and has no tables of its own: that an exchange
keeps the functions is `Reorder`, and the two are not composed. An exchange that meets a full table, or is left out
because `mark_roots` has missed an interaction, is not in `BlockOrder`: `NeverWorse` and `Terminates` say nothing of these. `Handles` has the C++ operations
by one pattern, `Evaluate`, and neither the stream formats nor the vectors passed by reference to
`bvec_div`. No run of `Reorder` has a limit on the table any more; what happens at one is
in section 5.

The example programs, the calculator's parser and lexer among them, are clients of the
library and not modelled.

## 7. Plan

The model is as wide as a dozen runs allow; what is left is to prove more.

1. `PairIdsDistinct` and `LastCovers` for any number of tables, of a specification of
   `Pairs` alone (it reaches no recursive operator).
2. `LoadRestores` of `Handles`: the chains of `lh_table` as lists of the slots of a class, as in `HashedTableProofs`.
3. The operators of `Recursions` as recursive functions on a finite set of nodes, and `OperationsRight` with `LoopEnds`.
