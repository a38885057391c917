---------------------------- MODULE MCInterrupt ----------------------------
(***************************************************************************)
(* Interrupt for TLC: timer, keyboard, a device at the last line of the    *)
(* master and devices at both ends of the slave; addresses of four          *)
(* six-bit bytes.                                                          *)
(***************************************************************************)
EXTENDS Interrupt

MCMasks == {{}, {2, 8}, {0, 15}}
=============================================================================
