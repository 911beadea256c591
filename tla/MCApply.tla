------------------------------- MODULE MCApply -------------------------------
(* Instance of Apply for TLC.                                               *)
EXTENDS Apply

MCReorderCalls == {[method |-> TRUE, disabled |-> FALSE]}

(* Second operations work on what the first returned, among others.         *)
MCScript == <<{"xor", "imp"}, {"ite", "biimp", "not", "and"}>>
=============================================================================
