------------------------------ MODULE Ramdisk ------------------------------
(***************************************************************************)
(* File nodes of the RAM disk of JKOS (drv/ramdisk.cpp), as load_elf uses  *)
(* them.  A node is [size, cur_offset, closed]; a call yields the node it  *)
(* leaves and its return value.  Offsets have 64 bits in the code and do   *)
(* not overflow.                                                           *)
(***************************************************************************)
EXTENDS Integers

SEEK_SET == 0
SEEK_CUR == 1
SEEK_END == 2

\* ramdisk_get_file_node
NewNode(size) == [size |-> size, cur_offset |-> 0, closed |-> FALSE]

\* The offset a seek asks for; -1 for an unknown whence.
Wanted(node, offset, whence) ==
  CASE whence = SEEK_SET -> offset
    [] whence = SEEK_CUR -> offset + node.cur_offset
    [] whence = SEEK_END -> node.size + offset
    [] OTHER             -> -1

seek(node, offset, whence) ==
  LET off1 == Wanted(node, offset, whence) IN
  IF node.closed \/ off1 < 0 \/ off1 >= node.size THEN [node |-> node, ret |-> -1]
  ELSE [node |-> [node EXCEPT !.cur_offset = off1], ret |-> off1]

\* read copies ret bytes from the node's offset on.
read(node, cnt) ==
  LET left == node.size - node.cur_offset
      n    == IF cnt < left THEN cnt ELSE left
  IN
  IF node.closed THEN [node |-> node, ret |-> -1]
  ELSE [node |-> [node EXCEPT !.cur_offset = @ + n], ret |-> n]
=============================================================================
