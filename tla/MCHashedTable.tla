---------------------------- MODULE MCHashedTable ----------------------------
(* Instance of HashedTable for TLC.                                         *)
EXTENDS HashedTable

MCReorderCalls == {[method |-> TRUE, disabled |-> FALSE]}
=============================================================================
