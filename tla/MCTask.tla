------------------------------- MODULE MCTask -------------------------------
(***************************************************************************)
(* Task for TLC.  Pids are numbers with an order that id2task depends on,  *)
(* so no symmetry is used.                                                 *)
(***************************************************************************)
EXTENDS Task
=============================================================================
