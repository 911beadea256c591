--------------------------- MODULE ParallelApply ---------------------------
(***************************************************************************)
(* bdd_apply as a build with OpenMP runs it ("#pragma omp parallel for" in *)
(* apply_rec, src/src/bddop.c). The outermost call that has to descend     *)
(* hands its low side to one thread and its high side to another; regions  *)
(* within a region run on the thread they are met by, as is the default of *)
(* OpenMP. Node table, reference stack and caches are shared and unlocked. *)
(*                                                                         *)
(* Steps of different threads are interleaved whole, so the races within   *)
(* bdd_makenode and PUSHREF are left out: what goes wrong here goes wrong  *)
(* without them. So is reordering (ReorderCalls is empty), which would     *)
(* jump out of the region.                                                 *)
(***************************************************************************)
EXTENDS Apply

VARIABLES
  lowFrames, highFrames,  (* the calls of each thread                      *)
  lowResult, highResult,  (* what its outermost call has returned          *)
  unpushed                (* the threads that have not pushed their result *)

threads == <<lowFrames, highFrames, lowResult, highResult, unpushed>>

LowThread  == INSTANCE Apply WITH frames <- lowFrames, result <- lowResult
HighThread == INSTANCE Apply WITH frames <- highFrames, result <- highResult

(* The outermost call neither answers at once nor finds its result cached. *)
Fork ==
  /\ At("enter") /\ Top.op \in Binary
  /\ Immediate(Top.op, Top.args) = {} /\ ~ Hit(Top.op, Top.args)
  /\ frames' = [frames EXCEPT ![1].step = "low"]
  /\ lowFrames'  = <<NewFrame(Top.op, Cofactor(Top.args, "low"))>>
  /\ highFrames' = <<NewFrame(Top.op, Cofactor(Top.args, "high"))>>
  /\ unpushed' = {"low", "high"}
  /\ UNCHANGED <<vars, result, cache, call, first, calls, lowResult, highResult>>

LowStep ==
  /\ LowThread!Answered \/ LowThread!Descend \/ LowThread!Make
  /\ UNCHANGED <<frames, result, highFrames, highResult, unpushed>>

HighStep ==
  /\ HighThread!Answered \/ HighThread!Descend \/ HighThread!Make
  /\ UNCHANGED <<frames, result, lowFrames, lowResult, unpushed>>

(* PUSHREF of what a thread's apply_rec has returned.                      *)
Push(side, res) ==
  /\ side \in unpushed
  /\ refstack' = Append(refstack, res)
  /\ unpushed' = unpushed \ {side}
  /\ UNCHANGED <<table, varnum, varset, growing, reorder, held, raised, machine,
                 lowFrames, highFrames, lowResult, highResult>>

PushLow  == lowFrames = << >> /\ Push("low", lowResult)
PushHigh == highFrames = << >> /\ Push("high", highResult)

(* Both threads are at the end of the parallel region.                     *)
Join ==
  /\ At("low") /\ unpushed = {}
  /\ frames' = [frames EXCEPT ![1].step = "make"]
  /\ UNCHANGED <<vars, result, cache, call, first, calls, threads>>

(* The steps outside the region are those of Apply.                        *)
Alone == (Answered \/ Make \/ Finish \/ CallStep) /\ UNCHANGED threads

ParallelInit ==
  /\ ApplyInit
  /\ lowFrames = << >> /\ highFrames = << >>
  /\ lowResult = FALSEBDD /\ highResult = FALSEBDD
  /\ unpushed = {}

ParallelNext == Fork \/ LowStep \/ HighStep \/ PushLow \/ PushHigh \/ Join \/ Alone

(* ResultRight of Apply is what the doc of bdd_apply promises ("The result *)
(* of the operation"), in whatever order the threads finish.               *)
ParallelSpec == ParallelInit /\ [][ParallelNext]_<<all, threads>>

============================================================================
