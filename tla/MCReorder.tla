------------------------------ MODULE MCReorder ------------------------------
(* Instance of Reorder for TLC.                                             *)
EXTENDS Reorder
=============================================================================
