----------------------------- MODULE MCNodeTable -----------------------------
(* Instance of NodeTable for TLC.                                           *)
EXTENDS NodeTable

(* The program switches automatic reordering on once.                       *)
MCReorderCalls == {[method |-> TRUE, disabled |-> FALSE]}
=============================================================================
