----------------------------- MODULE Descriptors -----------------------------
(***************************************************************************)
(* Segment and gate descriptors of the i386 as core/descriptor_table.cpp   *)
(* packs them, and as the processor unpacks them.  Everything is scaled by *)
(* one number: a byte has B values (256), a half-byte HB with HB * HB = B, *)
(* an address four bytes, a limit five half-bytes.                         *)
(***************************************************************************)
EXTENDS Integers

CONSTANT HB

ASSUME DescriptorsAssumption == HB \in Nat /\ HB > 1

B == HB * HB
B2 == B * B
B3 == B2 * B
AddressSpaceSize == B2 * B2
LimitSize == B2 * HB

\* Mutant of GDT_entry_set: the third byte of the base is taken for both.
GDT_entry_set_twice(base, limit, access, flag) ==
  [base_low |-> base % B2, base_middle |-> (base \div B2) % B,
   base_high |-> (base \div B2) % B,
   limit_low |-> limit % B2,
   limit_high_and_flag |-> ((limit \div B2) % HB) + (flag % HB) * HB,
   access |-> access]

\* GDT_entry_t::set
GDT_entry_set(base, limit, access, flag) ==
  [base_low |-> base % B2, base_middle |-> (base \div B2) % B,
   base_high |-> (base \div B3) % B,
   limit_low |-> limit % B2,
   limit_high_and_flag |-> ((limit \div B2) % HB) + (flag % HB) * HB,
   access |-> access]

\* IDT_entry_t::set
IDT_entry_set(offset, sel, flag) ==
  [offset_low |-> offset % B2, offset_high |-> (offset \div B2) % B2,
   selector |-> sel, flag |-> flag]

----------------------------------------------------------------------------
\* How the processor reads a segment descriptor and a gate.
SegmentBase(d) == d.base_low + d.base_middle * B2 + d.base_high * B3

SegmentLimit(d) == d.limit_low + (d.limit_high_and_flag % HB) * B2

SegmentFlag(d) == d.limit_high_and_flag \div HB

GateOffset(g) == g.offset_low + g.offset_high * B2
=============================================================================
