-------------------------------- MODULE MCElf --------------------------------
(***************************************************************************)
(* Elf for TLC.                                                            *)
(***************************************************************************)
EXTENDS Elf
=============================================================================
