------------------------------ MODULE MCPaging ------------------------------
(***************************************************************************)
(* Paging for TLC.  One user page is enough for sharing to be arbitrary    *)
(* among directories: pages of one directory never share a frame.          *)
(***************************************************************************)
EXTENDS Paging

CONSTANTS u1, h1
=============================================================================
