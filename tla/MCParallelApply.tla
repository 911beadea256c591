--------------------------- MODULE MCParallelApply ---------------------------
(* Instance of ParallelApply for TLC.                                       *)
EXTENDS ParallelApply

MCScript == <<{"and", "or"}, {"xor"}>>
==============================================================================
