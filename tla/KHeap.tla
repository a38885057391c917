------------------------------- MODULE KHeap -------------------------------
(***************************************************************************)
(* The kernel heap of JKOS (core/kheap.cpp) after kheap_finish_init:       *)
(* kmalloc and kfree over two trees of free blocks, the block header in    *)
(* front of every chunk, the node pool of the trees, and the heap pages    *)
(* that kmalloc makes allocable and kfree gives back.                      *)
(*                                                                         *)
(* The trees are modelled by the sets they hold (find_ge, find_le, insert  *)
(* and erase of lib/rbtree.h keep an ordered set).  Addresses are counted  *)
(* in units of sizeof(Block_t).                                            *)
(***************************************************************************)
EXTENDS Integers, FiniteSets

CONSTANTS
  HeapBegin, HeapEnd,   \* KERNEL_HEAP_BEGIN and KERNEL_HEAP_END
  PageSize,             \* 4096 in the code
  Sizes, Aligns,        \* bound: requests kmalloc(size, palign), 2^palign
  MaxLive,              \* bound: chunks in use at a time
  NodeLimit             \* Tree_mm::STATIC_SIZE

HDR == 1                \* sizeof(Block_t)

ASSUME KHeapAssumption ==
  /\ HeapBegin \in Nat /\ HeapEnd \in Nat /\ HeapBegin < HeapEnd
  /\ PageSize \in Nat \ {0}
  /\ HeapBegin % PageSize = 0 /\ HeapEnd % PageSize = 0
  /\ Sizes \subseteq Nat \ {0} /\ Aligns \subseteq Nat \ {0}
  /\ MaxLive \in Nat /\ NodeLimit \in Nat /\ NodeLimit > 2   \* kheap_init takes two nodes

VARIABLES
  tree_size,    \* free blocks, by size and then by start
  tree_start,   \* the same blocks, by start
  live,         \* chunks handed out: address, size, and the block in the header
  allocable,    \* heap pages whose entry has the allocable bit
  present,      \* heap pages that have a frame
  nstatic,      \* tree nodes taken from static_mem (nstatic_mem)
  nfreed,       \* tree nodes on the list of freed ones
  panic         \* "none", or why the kernel has panicked

vars == <<tree_size, tree_start, live, allocable, present, nstatic, nfreed, panic>>

Blocks == [start : HeapBegin .. HeapEnd, size : 0 .. HeapEnd - HeapBegin]

End(b) == b.start + b.size

\* get_aligned and the mask & 0xFFFFF000.
get_aligned(x, a) == IF x = 0 THEN 0 ELSE ((x - 1) \div a + 1) * a

Floor(x) == (x \div PageSize) * PageSize

\* Pages are named by their first address.
PagesIn(from, to) == {g \in from .. to - 1 : g % PageSize = 0}

HeapPages == PagesIn(HeapBegin, HeapEnd)

----------------------------------------------------------------------------
(***************************************************************************)
(* The trees.                                                              *)
(***************************************************************************)
LessSize(b, c)  == b.size < c.size \/ (b.size = c.size /\ b.start < c.start)
LessStart(b, c) == b.start < c.start \/ (b.start = c.start /\ b.size < c.size)

\* Least element of a set of blocks that is not below b, in both orders;
\* find_le is the greatest not above b.
SizeGE(T, b)  == {c \in T : ~LessSize(c, b)  /\ \A e \in T : ~LessSize(e, b) => ~LessSize(e, c)}
StartGE(T, b) == {c \in T : ~LessStart(c, b) /\ \A e \in T : ~LessStart(e, b) => ~LessStart(e, c)}
StartLE(T, b) == {c \in T : ~LessStart(b, c) /\ \A e \in T : ~LessStart(b, e) => ~LessStart(c, e)}

(***************************************************************************)
(* Tree_mm: nodes come from the freed list first, then from static_mem,    *)
(* where the test >= leaves the last node unused.  kmalloc and kfree erase *)
(* e blocks (from both trees) before they insert i blocks.                 *)
(***************************************************************************)
\* Mutant of NodesFree: Tree_mm::free is called for one of the trees only.
NodesFreeOne(e) == nfreed + e

NodesFree(e) == nfreed + 2 * e

NewNodes(e, i) == IF 2 * i > NodesFree(e) THEN 2 * i - NodesFree(e) ELSE 0

NodesSuffice(e, i) == nstatic + NewNodes(e, i) <= NodeLimit - 1

TakeNodes(e, i) ==
  /\ nstatic' = nstatic + NewNodes(e, i)
  /\ nfreed' = NodesFree(e) + NewNodes(e, i) - 2 * i

Panic(why) ==
  /\ panic' = why
  /\ UNCHANGED <<tree_size, tree_start, live, allocable, present, nstatic, nfreed>>

----------------------------------------------------------------------------
(***************************************************************************)
(* kmalloc.                                                                *)
(***************************************************************************)

\* Address a chunk would get in block b.
Place(b, al) == get_aligned(b.start + HDR, al)

Fits(b, s, al) == Place(b, al) + s <= End(b)

\* The loop over find_ge in tree_size: the first block, from size + HDR on,
\* in which the aligned chunk fits.
Candidates(s, al) ==
  {b \in tree_size : ~LessSize(b, [start |-> 0, size |-> s + HDR]) /\ Fits(b, s, al)}

\* Mutant of TailSplit: the rest starts one unit early, inside the chunk.
TailSplitEarly(b, a, s) ==
  IF a + s + 2 * HDR < End(b)
  THEN {[start |-> a + s - 1, size |-> End(b) - (a + s - 1)]}
  ELSE {}

\* The rest of block b behind the chunk becomes a free block, unless it is
\* hardly bigger than a header.
TailSplit(b, a, s) ==
  IF a + s + 2 * HDR < End(b)
  THEN {[start |-> a + s, size |-> End(b) - (a + s)]}
  ELSE {}

\* Likewise for the part in front of the header of an aligned chunk.
FrontSplit(b, a) ==
  IF a - b.start > 3 * HDR
  THEN {[start |-> b.start, size |-> a - b.start - HDR]}
  ELSE {}

\* Mutant of Header: the header describes the block before the front split.
HeaderUncut(b, a, s) ==
  LET to == IF TailSplit(b, a, s) = {} THEN End(b) ELSE a + s
  IN  [start |-> b.start, size |-> to - b.start]

\* What is left of the block, as the header records it.
Header(b, a, s) ==
  LET from == IF FrontSplit(b, a) = {} THEN b.start ELSE a - HDR
      to   == IF TailSplit(b, a, s) = {} THEN End(b) ELSE a + s
  IN  [start |-> from, size |-> to - from]

\* Pages kmalloc makes allocable: header and chunk.
\* Mutant: the page of the header is forgotten.
ChunkPagesNoHeader(a, s) == PagesIn(Floor(a), get_aligned(a + s, PageSize))

ChunkPages(a, s) == PagesIn(Floor(a - HDR), get_aligned(a + s, PageSize))

\* An access to heap page g: a page without a frame gets one in page_fault if
\* it is allocable; otherwise the fault is fatal.
Access(g, ok) ==
  IF g \in ok \cup present
  THEN present' = present \cup {g} /\ UNCHANGED panic
  ELSE panic' = "page fault" /\ UNCHANGED present

kmalloc(s, al) ==
  /\ panic = "none"
  /\ Cardinality(live) < MaxLive
  /\ IF Candidates(s, al) = {} THEN Panic("kernel runs out of memory")
     ELSE \E b \in SizeGE(Candidates(s, al), [start |-> 0, size |-> 0]) :
       LET a    == Place(b, al)
           rest == TailSplit(b, a, s) \cup FrontSplit(b, a)
       IN
       IF ~NodesSuffice(1, Cardinality(rest)) THEN Panic("run out of kernel heap")
       ELSE /\ tree_size' = (tree_size \ {b}) \cup rest
            /\ tree_start' = (tree_start \ StartGE(tree_start, b)) \cup rest
            /\ TakeNodes(1, Cardinality(rest))
            /\ allocable' = allocable \cup ChunkPages(a, s)
            /\ Access(Floor(a - HDR), allocable')     \* the header is written
            /\ live' = live \cup {[addr |-> a, size |-> s, blk |-> Header(b, a, s)]}

----------------------------------------------------------------------------
(***************************************************************************)
(* kfree.                                                                  *)
(***************************************************************************)

\* The free neighbour in front, if it ends where the block begins, and the
\* block after that merge.
MergeLeft(blk) == {g \in StartLE(tree_start, blk) : End(g) = blk.start}

LeftMerged(blk) ==
  IF MergeLeft(blk) = {} THEN blk
  ELSE LET g == CHOOSE x \in MergeLeft(blk) : TRUE
       IN  [start |-> g.start, size |-> blk.size + g.size]

\* The free block behind, looked up after the merge in front.
Behind(blk) == StartGE(tree_start \ MergeLeft(blk), LeftMerged(blk))

\* Mutant of MergeRight: the neighbour behind is not merged.
MergeRightNever(blk) == {}

MergeRight(blk) == {g \in Behind(blk) : g.start = End(LeftMerged(blk))}

\* The block together with the free blocks it is merged with.
Merged(blk) ==
  LET m == LeftMerged(blk) IN
  IF MergeRight(blk) = {} THEN m
  ELSE LET g == CHOOSE x \in MergeRight(blk) : TRUE
       IN  [m EXCEPT !.size = m.size + g.size]

\* First address kfree gives back: the start of the page, if the neighbour
\* in front covers it.
FreeStart(blk) ==
  IF MergeLeft(blk) = {} THEN blk.start
  ELSE LET g == CHOOSE x \in MergeLeft(blk) : TRUE
       IN  IF Floor(blk.start) > g.start THEN Floor(blk.start) ELSE g.start

\* Mutant of FreeEnd: the page the block ends in is given back as well.
FreeEndRoundUp(blk) == get_aligned(End(blk), PageSize)

\* First address that is kept.  The bound in min(get_aligned(free_end, 12),
\* blk.start + blk.size) is the end of the block before the neighbour behind
\* is added to it.
FreeEnd(blk) ==
  LET up == get_aligned(End(blk), PageSize)
      to == End(LeftMerged(blk))
  IN  IF MergeRight(blk) = {} THEN End(blk) ELSE IF up < to THEN up ELSE to

FreedPages(blk) == PagesIn(get_aligned(FreeStart(blk), PageSize), Floor(FreeEnd(blk)))

\* The checks that end in a panic.
InvalidFree(blk) ==
  \/ blk.start < HeapBegin \/ End(blk) > HeapEnd
  \/ \E g \in StartLE(tree_start, blk) : End(g) > blk.start
  \/ \E g \in Behind(blk) : End(LeftMerged(blk)) > g.start

kfree(c) ==
  LET blk  == c.blk
      gone == MergeLeft(blk) \cup MergeRight(blk)
      put  == Merged(blk)
  IN
  /\ panic = "none"
  /\ IF InvalidFree(blk) THEN Panic("trying to free invalid memory")
     ELSE IF ~NodesSuffice(Cardinality(gone), 1) THEN Panic("run out of kernel heap")
     ELSE /\ tree_start' = (tree_start \ gone) \cup {put}
          /\ tree_size' = (tree_size \ UNION {SizeGE(tree_size, g) : g \in gone}) \cup {put}
          /\ TakeNodes(Cardinality(gone), 1)
          /\ LET P == FreedPages(blk) \cap present IN
               present' = present \ P /\ allocable' = allocable \ P
          /\ live' = live \ {c}
          /\ UNCHANGED panic

----------------------------------------------------------------------------
\* The owner of a chunk uses it.
Touch(c, g) ==
  /\ panic = "none"
  /\ g \in PagesIn(Floor(c.addr), c.addr + c.size)
  /\ Access(g, allocable)
  /\ UNCHANGED <<tree_size, tree_start, live, allocable, nstatic, nfreed>>

\* kheap_init
Init ==
  LET whole == [start |-> HeapBegin, size |-> HeapEnd - HeapBegin] IN
  /\ tree_size = {whole} /\ tree_start = {whole}
  /\ live = {}
  /\ allocable = {} /\ present = {}
  /\ nstatic = 2 /\ nfreed = 0
  /\ panic = "none"

Next ==
  \/ \E s \in Sizes, al \in Aligns : kmalloc(s, al)
  \/ \E c \in live : kfree(c)
  \/ \E c \in live, g \in HeapPages : Touch(c, g)

Spec == Init /\ [][Next]_vars

----------------------------------------------------------------------------
(***************************************************************************)
(* Properties.                                                             *)
(***************************************************************************)

\* Type correctness of the heap's state.
TypeOK ==
  /\ tree_size \subseteq Blocks /\ tree_start \subseteq Blocks
  /\ \A c \in live : c.addr \in HeapBegin .. HeapEnd /\ c.size \in Sizes /\ c.blk \in Blocks
  /\ allocable \subseteq HeapPages /\ present \subseteq HeapPages
  /\ nstatic \in 0 .. NodeLimit - 1 /\ nfreed \in 0 .. NodeLimit
  /\ panic \in {"none", "kernel runs out of memory", "run out of kernel heap",
                "trying to free invalid memory", "page fault"}

\* Free blocks and the blocks recorded in headers tile the heap: every
\* address belongs to exactly one of them, after any sequence of splits and
\* merges, both trees hold the same free blocks, and a chunk lies with its
\* header inside its own block and with its address inside the heap.
Tiled ==
  /\ TypeOK
  /\ tree_size = tree_start
  /\ \A x \in HeapBegin .. HeapEnd - 1 :
       Cardinality({b \in tree_start : b.start <= x /\ x < End(b)})
         + Cardinality({c \in live : c.blk.start <= x /\ x < End(c.blk)}) = 1
  /\ \A c \in live : c.blk.start <= c.addr - HDR /\ c.addr + c.size <= End(c.blk)

\* Free space is never split needlessly: no two free blocks touch, so a heap
\* with nothing in use is one block again.
Coalesced == \A b, c \in tree_start : End(b) # c.start

\* kfree never takes a page away under a chunk that is still in use, or under
\* its header, although pages are shared between chunks.
LivePagesUsable ==
  \A c \in live :
    /\ Floor(c.addr - HDR) \in present
    /\ PagesIn(Floor(c.addr), c.addr + c.size) \subseteq allocable \cup present

\* Tree nodes are neither lost nor used twice, and the list of freed nodes
\* stays inside its array.
NodesConserved ==
  /\ nstatic = Cardinality(tree_size) + Cardinality(tree_start) + nfreed
  /\ nfreed <= NodeLimit

\* A kernel that frees only what it allocated, and uses only that, panics
\* for lack of memory or of nodes and for nothing else.
OnlyExhaustionPanics ==
  panic \in {"none", "kernel runs out of memory", "run out of kernel heap"}

\* Chunks as their owners know them.
Handed == {[addr |-> c.addr, size |-> c.size] : c \in live}

\* kmalloc and kfree implement a plain allocator.
Abstract == INSTANCE Allocator WITH chunks <- Handed

ImplementsAllocator == Abstract!ASpec

\* kfree's comment "free used pages": a page wholly inside a free block has
\* no frame.
FreePagesReleased ==
  \A b \in tree_start : \A g \in PagesIn(get_aligned(b.start, PageSize), Floor(End(b))) :
    g \notin present
=============================================================================
