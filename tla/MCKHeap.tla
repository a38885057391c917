------------------------------ MODULE MCKHeap ------------------------------
(***************************************************************************)
(* KHeap for TLC.                                                          *)
(***************************************************************************)
EXTENDS KHeap
=============================================================================
