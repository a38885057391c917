----------------------------- MODULE Allocator -----------------------------
(***************************************************************************)
(* What kmalloc and kfree promise (kheap.h): chunks of the requested size  *)
(* and alignment inside the heap that do not overlap, until they are freed.*)
(***************************************************************************)
EXTENDS Integers

CONSTANTS HeapBegin, HeapEnd, Sizes, Aligns

VARIABLE chunks     \* chunks in use, as [addr, size]

Apart(c, d) == c.addr + c.size <= d.addr \/ d.addr + d.size <= c.addr

Malloc ==
  \E a \in HeapBegin .. HeapEnd, s \in Sizes, al \in Aligns :
    LET c == [addr |-> a, size |-> s] IN
      /\ a % al = 0 /\ a + s <= HeapEnd
      /\ \A d \in chunks : Apart(c, d)
      /\ chunks' = chunks \cup {c}

Free == \E c \in chunks : chunks' = chunks \ {c}

ASpec == chunks = {} /\ [][Malloc \/ Free]_chunks
=============================================================================
