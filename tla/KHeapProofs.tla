----------------------------- MODULE KHeapProofs -----------------------------
(***************************************************************************)
(* Theorems about KHeap, for any heap, page size, sizes and alignments:    *)
(* free blocks and chunks tile the heap, free blocks are merged, tree      *)
(* nodes are conserved, pages in use stay usable, only exhaustion panics,  *)
(* and kmalloc and kfree implement a plain allocator.                      *)
(*                                                                         *)
(* The argument is about one set of blocks, the free ones and those of the *)
(* chunks, and is made address by address: kmalloc and kfree replace some  *)
(* of its blocks by others that cover the same addresses.                  *)
(***************************************************************************)
EXTENDS KHeap, FiniteSetTheorems, TLAPS

----------------------------------------------------------------------------
(***************************************************************************)
(* Rounding.                                                               *)
(***************************************************************************)

\* Multiples of a positive number are that far apart.
LEMMA Multiples ==
  ASSUME NEW a \in Nat \ {0}, NEW g \in Nat, NEW h \in Nat, g % a = 0, h % a = 0, g < h
  PROVE  g + a <= h
<1>1. g = a * (g \div a) + (g % a) /\ h = a * (h \div a) + (h % a)
  OBVIOUS
<1>2. g \div a \in Nat /\ h \div a \in Nat
  OBVIOUS
<1> DEFINE q == g \div a
           r == h \div a
<1>3. q \in Nat /\ r \in Nat /\ g = q * a /\ h = r * a
  BY <1>1, <1>2
<1> HIDE DEF q, r
<1>4. q * a < r * a => q * a + a <= r * a
  BY <1>3
<1> QED BY <1>3, <1>4

\* The mask & 0xFFFFF000 rounds down to a page.
LEMMA FloorIs ==
  ASSUME NEW x \in Nat
  PROVE  /\ Floor(x) \in Nat /\ Floor(x) % PageSize = 0
         /\ Floor(x) <= x /\ x < Floor(x) + PageSize
         /\ \A m \in Nat : m % PageSize = 0 /\ m <= x => m <= Floor(x)
<1>1. PageSize \in Nat \ {0}
  BY KHeapAssumption
<1> DEFINE q == x \div PageSize
<1>2. q \in Nat /\ x = PageSize * q + (x % PageSize) /\ x % PageSize \in 0 .. PageSize - 1
  BY <1>1
<1> HIDE DEF q
<1>3. /\ q * PageSize \in Nat /\ (q * PageSize) % PageSize = 0
      /\ q * PageSize <= x /\ x < q * PageSize + PageSize
  BY <1>1, <1>2
<1> DEFINE f == q * PageSize
<1>4. Floor(x) = f
  BY DEF Floor, q
<1> HIDE DEF f
<1>5. f \in Nat /\ f % PageSize = 0 /\ f <= x /\ x < f + PageSize
  BY <1>3 DEF f
<1>6. ASSUME NEW m \in Nat, m % PageSize = 0, m <= x PROVE m <= f
  <2> SUFFICES ASSUME f < m PROVE FALSE
    BY <1>5
  <2>1. f + PageSize <= m
    BY <1>1, <1>5, <1>6, Multiples
  <2> QED BY <1>1, <1>5, <1>6, <2>1
<1> QED BY <1>4, <1>5, <1>6

\* get_aligned rounds up to a multiple.
LEMMA AlignedIs ==
  ASSUME NEW x \in Nat, NEW a \in Nat \ {0}
  PROVE  /\ get_aligned(x, a) \in Nat /\ get_aligned(x, a) % a = 0
         /\ x <= get_aligned(x, a) /\ get_aligned(x, a) < x + a
         /\ \A m \in Nat : m % a = 0 /\ x <= m => get_aligned(x, a) <= m
<1> DEFINE q == (x - 1) \div a
           f == get_aligned(x, a)
<1>1. f \in Nat /\ f % a = 0 /\ x <= f /\ f < x + a
  <2>1. CASE x = 0
    BY <2>1 DEF get_aligned
  <2>2. CASE x # 0
    <3>1. x - 1 \in Nat
      BY <2>2
    <3>2. q \in Nat /\ x - 1 = a * q + ((x - 1) % a) /\ (x - 1) % a \in 0 .. a - 1
      BY <3>1
    <3>3. f = (q + 1) * a
      BY <2>2 DEF get_aligned
    <3> HIDE DEF q, f
    <3>4. f = q * a + a /\ q * a \in Nat
      BY <3>2, <3>3
    <3>5. f % a = 0
      <4>1. q + 1 \in Nat
        BY <3>2
      <4>2. \A r \in Nat : (r * a) % a = 0
        OBVIOUS
      <4> QED BY <3>3, <4>1, <4>2
    <3> QED BY <3>2, <3>4, <3>5
  <2> QED BY <2>1, <2>2
<1> HIDE DEF f
<1>2. ASSUME NEW m \in Nat, m % a = 0, x <= m PROVE f <= m
  <2> SUFFICES ASSUME m < f PROVE FALSE
    BY <1>1
  <2>1. m + a <= f
    BY <1>1, <1>2, Multiples
  <2> QED BY <1>1, <1>2, <2>1
<1> QED BY <1>1, <1>2 DEF f

----------------------------------------------------------------------------
(***************************************************************************)
(* Sets of blocks.                                                         *)
(***************************************************************************)
Addresses == HeapBegin .. HeapEnd - 1

\* Address x belongs to block b.
In(x, b) == b.start <= x /\ x < End(b)

GoodBlock(b) == b \in Blocks /\ b.size > 0 /\ End(b) <= HeapEnd

\* Every address belongs to exactly one block of T.
Tiling(T) ==
  /\ \A b \in T : GoodBlock(b)
  /\ \A x \in Addresses : \E b \in T : In(x, b)
  /\ \A x \in Addresses : \A b, c \in T : In(x, b) /\ In(x, c) => b = c

\* The numbers of a block.
LEMMA BlockNumbers ==
  ASSUME NEW b, GoodBlock(b)
  PROVE  /\ b.start \in Nat /\ b.size \in Nat /\ End(b) \in Nat
         /\ HeapBegin <= b.start /\ b.start < End(b) /\ End(b) <= HeapEnd
         /\ b.size > 0 /\ b = [start |-> b.start, size |-> b.size]
         /\ \A x \in Int : In(x, b) => x \in Addresses
BY KHeapAssumption DEF GoodBlock, Blocks, End, In, Addresses

\* A block, from its first address and the one behind it.
LEMMA NewBlock ==
  ASSUME NEW from \in Nat, NEW to \in Nat, HeapBegin <= from, from < to, to <= HeapEnd
  PROVE  LET b == [start |-> from, size |-> to - from]
         IN  GoodBlock(b) /\ b.start = from /\ b.size = to - from /\ End(b) = to
<1> DEFINE b == [start |-> from, size |-> to - from]
<1>1. b.start = from /\ b.size = to - from /\ End(b) = to
  BY DEF End
<1>2. from \in HeapBegin .. HeapEnd /\ to - from \in 0 .. HeapEnd - HeapBegin /\ to - from > 0
  BY KHeapAssumption
<1>3. b \in Blocks
  BY <1>2 DEF Blocks
<1> HIDE DEF b
<1> QED BY <1>1, <1>2, <1>3 DEF GoodBlock, b

\* Two blocks of a tiling are the same or apart.
LEMMA BlocksApart ==
  ASSUME NEW T, Tiling(T), NEW b \in T, NEW c \in T
  PROVE  b = c \/ End(b) <= c.start \/ End(c) <= b.start
<1> SUFFICES ASSUME End(b) > c.start, End(c) > b.start PROVE b = c
  <2>1. GoodBlock(b) /\ GoodBlock(c)
    BY DEF Tiling
  <2> QED BY <2>1, BlockNumbers
<1>1. GoodBlock(b) /\ GoodBlock(c)
  BY DEF Tiling
<1>2. /\ b.start \in Nat /\ End(b) \in Nat /\ b.start < End(b) /\ HeapBegin <= b.start /\ End(b) <= HeapEnd
      /\ c.start \in Nat /\ End(c) \in Nat /\ c.start < End(c) /\ HeapBegin <= c.start /\ End(c) <= HeapEnd
  BY <1>1, BlockNumbers
<1>3. PICK x \in Nat : b.start <= x /\ c.start <= x /\ (x = b.start \/ x = c.start)
  BY <1>2
<1>4. x \in Addresses /\ In(x, b) /\ In(x, c)
  BY <1>2, <1>3, KHeapAssumption DEF In, Addresses
<1> QED BY <1>4 DEF Tiling

\* Blocks of a tiling may be replaced by blocks that cover the same addresses.
LEMMA Replace ==
  ASSUME NEW T, Tiling(T), NEW S, S \subseteq T, NEW R, \A b \in R : GoodBlock(b),
         \A x \in Addresses : (\E b \in S : In(x, b)) <=> (\E b \in R : In(x, b)),
         \A x \in Addresses : \A b, c \in R : In(x, b) /\ In(x, c) => b = c
  PROVE  /\ Tiling((T \ S) \cup R)
         /\ (T \ S) \cap R = {}
<1>1. ASSUME NEW x \in Addresses PROVE \E b \in (T \ S) \cup R : In(x, b)
  BY DEF Tiling
<1>2. ASSUME NEW x \in Addresses, NEW b \in (T \ S) \cup R, NEW c \in (T \ S) \cup R, In(x, b), In(x, c)
      PROVE  b = c
  <2>1. ASSUME NEW d \in T \ S, NEW e \in R, In(x, d), In(x, e) PROVE FALSE
    BY <2>1 DEF Tiling
  <2> QED BY <1>2, <2>1 DEF Tiling
<1>3. ASSUME NEW b \in T \ S, b \in R PROVE FALSE
  <2>1. GoodBlock(b)
    BY DEF Tiling
  <2>2. b.start \in Addresses /\ In(b.start, b)
    BY <2>1, BlockNumbers, KHeapAssumption DEF Addresses, In
  <2> QED BY <1>3, <2>2 DEF Tiling
<1> QED BY <1>1, <1>2, <1>3 DEF Tiling

----------------------------------------------------------------------------
(***************************************************************************)
(* The trees.                                                              *)
(***************************************************************************)

\* Looking up a block that is in the tree finds it and nothing else.
LEMMA FindsMember ==
  ASSUME NEW T, \A c \in T : GoodBlock(c), NEW b \in T
  PROVE  StartGE(T, b) = {b} /\ SizeGE(T, b) = {b}
<1>1. ASSUME NEW c \in T
      PROVE  /\ ~LessStart(c, b) /\ ~LessStart(b, c) => c = b
             /\ ~LessSize(c, b) /\ ~LessSize(b, c) => c = b
             /\ ~LessStart(b, b) /\ ~LessSize(b, b)
  <2>1. GoodBlock(b) /\ GoodBlock(c)
    OBVIOUS
  <2>2. /\ b.start \in Nat /\ b.size \in Nat /\ c.start \in Nat /\ c.size \in Nat
        /\ b = [start |-> b.start, size |-> b.size] /\ c = [start |-> c.start, size |-> c.size]
    BY <2>1, BlockNumbers
  <2>3. b.start = c.start /\ b.size = c.size => b = c
    BY <2>2
  <2> QED BY <2>2, <2>3 DEF LessStart, LessSize
<1> HIDE DEF LessStart, LessSize
<1>2. StartGE(T, b) = {b}
  BY <1>1 DEF StartGE
<1>3. SizeGE(T, b) = {b}
  BY <1>1 DEF SizeGE
<1> QED BY <1>2, <1>3

----------------------------------------------------------------------------
(***************************************************************************)
(* The inductive invariant.                                                *)
(***************************************************************************)
Chunks == [addr : HeapBegin .. HeapEnd, size : Sizes, blk : Blocks]

\* Free blocks and those in the headers of chunks.
AllBlocks == tree_start \cup {c.blk : c \in live}

\* Every chunk owns its block and lies in it, behind its header.
Owned ==
  /\ \A c \in live : /\ c \in Chunks /\ c.blk \notin tree_start
                     /\ c.blk.start <= c.addr - HDR /\ c.addr + c.size <= End(c.blk)
  /\ \A c, d \in live : c.blk = d.blk => c = d

Partition ==
  /\ tree_size = tree_start /\ IsFiniteSet(tree_start)
  /\ Tiling(AllBlocks)
  /\ Owned
  /\ Coalesced

Nodes ==
  /\ nstatic \in Nat /\ nfreed \in Nat
  /\ nstatic <= NodeLimit - 1
  /\ nstatic = 2 * Cardinality(tree_start) + nfreed

Paged ==
  /\ allocable \subseteq HeapPages /\ present \subseteq HeapPages
  /\ LivePagesUsable

IInv == Partition /\ Nodes /\ Paged /\ OnlyExhaustionPanics

----------------------------------------------------------------------------
(***************************************************************************)
(* The neighbours of a block.                                              *)
(***************************************************************************)

\* Free blocks in numbers; they do not overlap.
LEMMA FreeBlocks ==
  ASSUME Partition
  PROVE  /\ \A g \in tree_start : /\ GoodBlock(g) /\ g.start \in Nat /\ g.size \in Nat /\ End(g) \in Nat
                                  /\ HeapBegin <= g.start /\ g.start < End(g) /\ End(g) <= HeapEnd
         /\ \A g, h \in tree_start : g = h \/ End(g) <= h.start \/ End(h) <= g.start
<1>1. \A g \in tree_start : g \in AllBlocks
  BY DEF AllBlocks
<1>2. \A g \in tree_start : GoodBlock(g)
  BY <1>1 DEF Partition, Tiling
<1>3. \A g, h \in tree_start : g = h \/ End(g) <= h.start \/ End(h) <= g.start
  BY <1>1, BlocksApart DEF Partition
<1> QED BY <1>2, <1>3, BlockNumbers

\* Likewise the block of a chunk.
LEMMA ChunkBlocks ==
  ASSUME Partition, NEW c \in live
  PROVE  /\ GoodBlock(c.blk) /\ c.blk.start \in Nat /\ c.blk.size \in Nat /\ End(c.blk) \in Nat
         /\ HeapBegin <= c.blk.start /\ c.blk.start < End(c.blk) /\ End(c.blk) <= HeapEnd
         /\ \A g \in tree_start : End(g) <= c.blk.start \/ End(c.blk) <= g.start
         /\ \A d \in live : d = c \/ End(d.blk) <= c.blk.start \/ End(c.blk) <= d.blk.start
<1>1. \A d \in live : d.blk \in AllBlocks
  BY DEF AllBlocks
<1>2. \A g \in tree_start : g \in AllBlocks
  BY DEF AllBlocks
<1>3. GoodBlock(c.blk)
  BY <1>1 DEF Partition, Tiling
<1>4. \A g \in tree_start : End(g) <= c.blk.start \/ End(c.blk) <= g.start
  <2> SUFFICES ASSUME NEW g \in tree_start PROVE End(g) <= c.blk.start \/ End(c.blk) <= g.start
    OBVIOUS
  <2>1. g # c.blk
    BY DEF Partition, Owned
  <2>2. g \in AllBlocks /\ c.blk \in AllBlocks /\ Tiling(AllBlocks)
    BY <1>1, <1>2 DEF Partition
  <2> QED BY <2>1, <2>2, BlocksApart
<1>5. \A d \in live : d = c \/ End(d.blk) <= c.blk.start \/ End(c.blk) <= d.blk.start
  <2> SUFFICES ASSUME NEW d \in live, d # c
               PROVE  End(d.blk) <= c.blk.start \/ End(c.blk) <= d.blk.start
    OBVIOUS
  <2>1. d.blk # c.blk
    BY DEF Partition, Owned
  <2>2. d.blk \in AllBlocks /\ c.blk \in AllBlocks /\ Tiling(AllBlocks)
    BY <1>1 DEF Partition
  <2> QED BY <2>1, <2>2, BlocksApart
<1> QED BY <1>3, <1>4, <1>5, BlockNumbers

\* kfree finds the neighbour in front of a chunk's block if there is one, and
\* the one behind; its checks never fail.
LEMMA Neighbours ==
  ASSUME Partition, NEW c \in live
  PROVE  LET blk == c.blk IN
         /\ \A g : g \in MergeLeft(blk) <=> g \in tree_start /\ End(g) = blk.start
         /\ \A g, h \in MergeLeft(blk) : g = h
         /\ End(LeftMerged(blk)) = End(blk)
         /\ MergeLeft(blk) = {} => LeftMerged(blk) = blk
         /\ \A g \in MergeLeft(blk) : LeftMerged(blk) = [start |-> g.start, size |-> blk.size + g.size]
         /\ \A g : g \in MergeRight(blk) <=> g \in tree_start /\ g.start = End(blk)
         /\ \A g, h \in MergeRight(blk) : g = h
         /\ ~InvalidFree(blk)
<1> DEFINE blk == c.blk
           T == tree_start
           ML == MergeLeft(blk)
           LM == LeftMerged(blk)
<1>1. /\ \A g \in T : /\ g.start \in Nat /\ g.size \in Nat /\ End(g) \in Nat /\ g.start < End(g)
                      /\ End(g) = g.start + g.size
      /\ \A g, h \in T : g = h \/ End(g) <= h.start \/ End(h) <= g.start
  BY FreeBlocks DEF End
<1>2. /\ blk.start \in Nat /\ blk.size \in Nat /\ End(blk) \in Nat /\ blk.start < End(blk)
      /\ End(blk) = blk.start + blk.size /\ HeapBegin <= blk.start /\ End(blk) <= HeapEnd
      /\ \A g \in T : End(g) <= blk.start \/ End(blk) <= g.start
  BY ChunkBlocks DEF End
<1> HIDE DEF blk, T
<1>3. \A g \in T : ~LessStart(blk, g) => End(g) <= blk.start
  BY <1>1, <1>2 DEF LessStart
<1>4. \A g \in StartLE(T, blk) : g \in T /\ End(g) <= blk.start
  BY <1>3 DEF StartLE
<1>5. ASSUME NEW g \in T, End(g) = blk.start PROVE g \in StartLE(T, blk)
  <2>1. ~LessStart(blk, g)
    BY <1>1, <1>2, <1>5 DEF LessStart
  <2>2. ASSUME NEW e \in T, ~LessStart(blk, e) PROVE ~LessStart(g, e)
    <3>1. End(e) <= End(g)
      BY <1>3, <1>5, <2>2
    <3>2. e = g \/ End(g) <= e.start \/ End(e) <= g.start
      BY <1>1
    <3>3. e = g \/ e.start < g.start
      BY <1>1, <3>1, <3>2
    <3> QED BY <1>1, <3>3 DEF LessStart
  <2> QED BY <2>1, <2>2 DEF StartLE
<1>6. \A g : g \in ML <=> g \in T /\ End(g) = blk.start
  BY <1>4, <1>5 DEF MergeLeft, T
<1>7. \A g, h \in ML : g = h
  BY <1>1, <1>6
<1>8. ASSUME NEW g \in ML PROVE LM = [start |-> g.start, size |-> blk.size + g.size]
  <2>1. (CHOOSE x \in ML : TRUE) = g
    BY <1>7
  <2> QED BY <2>1 DEF LeftMerged
<1>9. ML = {} => LM = blk
  BY DEF LeftMerged
<1> HIDE DEF ML, LM
<1>10. /\ End(LM) = End(blk) /\ LM.start \in Nat /\ LM.size \in Nat /\ LM.start < End(blk)
       /\ \A e \in T : e \notin ML /\ ~LessStart(e, LM) => End(blk) <= e.start
  <2>1. CASE ML = {}
    <3>1. LM = blk
      BY <1>9, <2>1
    <3> QED BY <1>1, <1>2, <3>1 DEF LessStart
  <2>2. CASE ML # {}
    <3>1. PICK g \in ML : TRUE
      BY <2>2
    <3>2. LM.start = g.start /\ LM.size = blk.size + g.size /\ g \in T /\ End(g) = blk.start
      BY <1>6, <1>8
    <3>3. End(LM) = End(blk) /\ LM.start \in Nat /\ LM.size \in Nat /\ LM.start < End(blk)
      <4>1. End(LM) = LM.start + LM.size
        BY DEF End
      <4> QED BY <1>1, <1>2, <3>2, <4>1
    <3>4. ASSUME NEW e \in T, e \notin ML, ~LessStart(e, LM) PROVE End(blk) <= e.start
      <4>1. e.start >= g.start /\ e # g
        BY <1>1, <3>1, <3>2, <3>3, <3>4 DEF LessStart
      <4>2. End(g) <= e.start
        BY <1>1, <3>2, <4>1
      <4> QED BY <1>1, <1>2, <3>2, <4>2
    <3> QED BY <3>3, <3>4
  <2> QED BY <2>1, <2>2
<1>11. \A e \in Behind(blk) : e \in T /\ End(blk) <= e.start
  <2>1. Behind(blk) = StartGE(T \ ML, LM)
    BY DEF Behind, T, ML, LM
  <2> QED BY <1>10, <2>1 DEF StartGE
<1>12. ASSUME NEW g \in T, g.start = End(blk) PROVE g \in Behind(blk)
  <2>1. g \notin ML
    BY <1>1, <1>2, <1>6, <1>12
  <2>2. ~LessStart(g, LM)
    BY <1>1, <1>2, <1>10, <1>12 DEF LessStart
  <2>3. ASSUME NEW e \in T \ ML, ~LessStart(e, LM) PROVE ~LessStart(e, g)
    <3>1. g.start <= e.start
      BY <1>10, <1>12, <2>3
    <3>2. e = g \/ End(g) <= e.start \/ End(e) <= g.start
      BY <1>1
    <3>3. e = g \/ g.start < e.start
      BY <1>1, <3>1, <3>2
    <3> QED BY <1>1, <3>3 DEF LessStart
  <2>4. g \in StartGE(T \ ML, LM)
    BY <2>1, <2>2, <2>3 DEF StartGE
  <2> QED BY <2>4 DEF Behind, T, ML, LM
<1>13. \A g : g \in MergeRight(blk) <=> g \in T /\ g.start = End(blk)
  BY <1>10, <1>11, <1>12 DEF MergeRight, LM
<1>14. \A g, h \in MergeRight(blk) : g = h
  BY <1>1, <1>13
<1>15. ~InvalidFree(blk)
  <2>1. ~(blk.start < HeapBegin) /\ ~(End(blk) > HeapEnd)
    BY <1>2, KHeapAssumption
  <2>2. \A g \in StartLE(T, blk) : ~(End(g) > blk.start)
    BY <1>1, <1>2, <1>4
  <2>3. \A g \in Behind(blk) : ~(End(LM) > g.start)
    BY <1>1, <1>2, <1>10, <1>11
  <2> QED BY <2>1, <2>2, <2>3 DEF InvalidFree, T, LM
<1> QED BY <1>6, <1>7, <1>8, <1>9, <1>10, <1>13, <1>14, <1>15 DEF ML, LM, T, blk

\* The block kfree puts back: the chunk's block and its free neighbours.
LEMMA MergedShape ==
  ASSUME Partition, NEW c \in live
  PROVE  LET blk == c.blk
             put == Merged(blk) IN
         /\ GoodBlock(put)
         /\ put.start <= blk.start /\ End(blk) <= End(put)
         /\ MergeLeft(blk) = {} => put.start = blk.start
         /\ \A g \in MergeLeft(blk) : put.start = g.start
         /\ MergeRight(blk) = {} => End(put) = End(blk)
         /\ \A g \in MergeRight(blk) : End(put) = End(g)
<1> DEFINE blk == c.blk
           put == Merged(blk)
           ML == MergeLeft(blk)
           MR == MergeRight(blk)
           LM == LeftMerged(blk)
<1>1. /\ \A g : g \in ML <=> g \in tree_start /\ End(g) = blk.start
      /\ \A g, h \in ML : g = h
      /\ End(LM) = End(blk)
      /\ ML = {} => LM = blk
      /\ \A g \in ML : LM = [start |-> g.start, size |-> blk.size + g.size]
      /\ \A g : g \in MR <=> g \in tree_start /\ g.start = End(blk)
      /\ \A g, h \in MR : g = h
  BY Neighbours
<1>2. /\ \A g \in tree_start : /\ g.start \in Nat /\ g.size \in Nat /\ End(g) \in Nat
                               /\ HeapBegin <= g.start /\ g.start < End(g) /\ End(g) <= HeapEnd
                               /\ End(g) = g.start + g.size
  BY FreeBlocks DEF End
<1>3. /\ blk.start \in Nat /\ blk.size \in Nat /\ End(blk) \in Nat /\ blk.start < End(blk)
      /\ End(blk) = blk.start + blk.size /\ HeapBegin <= blk.start /\ End(blk) <= HeapEnd
      /\ blk = [start |-> blk.start, size |-> blk.size]
  BY ChunkBlocks, BlockNumbers DEF End
<1>4. /\ MR = {} => put = LM
      /\ \A g \in MR : put = [LM EXCEPT !.size = LM.size + g.size]
  <2>1. MR = {} => put = LM
    BY DEF Merged
  <2>2. ASSUME NEW g \in MR PROVE put = [LM EXCEPT !.size = LM.size + g.size]
    <3>1. (CHOOSE x \in MR : TRUE) = g
      BY <1>1
    <3>2. MR # {} /\ (CHOOSE x \in MergeRight(blk) : TRUE) = g
      BY <3>1
    <3> QED BY <3>2 DEF Merged
  <2> QED BY <2>1, <2>2
<1> HIDE DEF blk, put, ML, MR, LM
<1>5. /\ LM = [start |-> LM.start, size |-> LM.size]
      /\ LM.start \in Nat /\ LM.size \in Nat /\ HeapBegin <= LM.start
      /\ LM.start <= blk.start /\ LM.start + LM.size = End(blk)
      /\ ML = {} => LM.start = blk.start
      /\ \A g \in ML : LM.start = g.start
  <2>1. CASE ML = {}
    BY <1>1, <1>3, <2>1 DEF End
  <2>2. CASE ML # {}
    <3>1. PICK g \in ML : TRUE
      BY <2>2
    <3>2. LM = [start |-> g.start, size |-> blk.size + g.size] /\ g \in tree_start /\ End(g) = blk.start
      BY <1>1
    <3>3. LM.start = g.start /\ LM.size = blk.size + g.size
      BY <3>2
    <3> QED BY <1>1, <1>2, <1>3, <3>1, <3>2, <3>3
  <2> QED BY <2>1, <2>2
<1>6. /\ put = [start |-> put.start, size |-> put.size]
      /\ put.start = LM.start /\ put.size \in Nat
      /\ End(blk) <= put.start + put.size /\ put.start + put.size <= HeapEnd
      /\ MR = {} => put.start + put.size = End(blk)
      /\ \A g \in MR : put.start + put.size = End(g)
  <2>1. CASE MR = {}
    BY <1>3, <1>4, <1>5, <2>1
  <2>2. CASE MR # {}
    <3>1. PICK g \in MR : TRUE
      BY <2>2
    <3>2. put = [LM EXCEPT !.size = LM.size + g.size] /\ g \in tree_start /\ g.start = End(blk)
      BY <1>1, <1>4
    <3>3. put = [start |-> LM.start, size |-> LM.size + g.size]
      BY <1>5, <3>2
    <3>4. put.start = LM.start /\ put.size = LM.size + g.size
      BY <3>3
    <3> QED BY <1>1, <1>2, <1>3, <1>5, <3>1, <3>2, <3>3, <3>4
  <2> QED BY <2>1, <2>2
<1>7. End(put) = put.start + put.size
  BY DEF End
<1>8. GoodBlock(put)
  <2> DEFINE to == put.start + put.size
  <2>1. put.start \in Nat /\ to \in Nat /\ HeapBegin <= put.start /\ put.start < to /\ to <= HeapEnd
        /\ to - put.start = put.size
    BY <1>3, <1>5, <1>6
  <2> HIDE DEF to
  <2>2. GoodBlock([start |-> put.start, size |-> to - put.start])
    BY <2>1, NewBlock
  <2> QED BY <1>6, <2>1, <2>2
<1> QED BY <1>5, <1>6, <1>7, <1>8 DEF blk, put, ML, MR

\* It covers what it is merged from.
LEMMA MergedCovers ==
  ASSUME Partition, NEW c \in live
  PROVE  LET blk  == c.blk
             gone == MergeLeft(blk) \cup MergeRight(blk)
         IN  /\ gone \subseteq tree_start
             /\ \A x \in Int : In(x, Merged(blk)) <=> In(x, blk) \/ \E g \in gone : In(x, g)
<1> DEFINE blk == c.blk
           put == Merged(blk)
           ML == MergeLeft(blk)
           MR == MergeRight(blk)
<1>1. /\ \A g : g \in ML <=> g \in tree_start /\ End(g) = blk.start
      /\ \A g : g \in MR <=> g \in tree_start /\ g.start = End(blk)
  BY Neighbours
<1>2. /\ put.start <= blk.start /\ End(blk) <= End(put)
      /\ ML = {} => put.start = blk.start
      /\ \A g \in ML : put.start = g.start
      /\ MR = {} => End(put) = End(blk)
      /\ \A g \in MR : End(put) = End(g)
      /\ put.start \in Nat /\ End(put) \in Nat
  BY MergedShape, BlockNumbers
<1>3. /\ \A g \in tree_start : g.start \in Nat /\ End(g) \in Nat /\ g.start < End(g)
      /\ blk.start \in Nat /\ End(blk) \in Nat /\ blk.start < End(blk)
  BY FreeBlocks, ChunkBlocks
<1> HIDE DEF blk, put, ML, MR
<1>4. ASSUME NEW x \in Int, In(x, put) PROVE In(x, blk) \/ \E g \in ML \cup MR : In(x, g)
  <2>1. CASE x < blk.start
    <3>1. ML # {}
      BY <1>2, <1>3, <1>4, <2>1 DEF In
    <3>2. PICK g \in ML : TRUE
      BY <3>1
    <3>3. In(x, g)
      BY <1>1, <1>2, <1>3, <1>4, <2>1, <3>2 DEF In
    <3> QED BY <3>2, <3>3
  <2>2. CASE x >= End(blk)
    <3>1. MR # {}
      BY <1>2, <1>3, <1>4, <2>2 DEF In
    <3>2. PICK g \in MR : TRUE
      BY <3>1
    <3>3. In(x, g)
      BY <1>1, <1>2, <1>3, <1>4, <2>2, <3>2 DEF In
    <3> QED BY <3>2, <3>3
  <2>3. CASE blk.start <= x /\ x < End(blk)
    BY <2>3 DEF In
  <2> QED BY <1>3, <2>1, <2>2, <2>3
<1>5. ASSUME NEW x \in Int, In(x, blk) PROVE In(x, put)
  BY <1>2, <1>3, <1>5 DEF In
<1>6. ASSUME NEW x \in Int, NEW g \in ML, In(x, g) PROVE In(x, put)
  BY <1>1, <1>2, <1>3, <1>6 DEF In
<1>7. ASSUME NEW x \in Int, NEW g \in MR, In(x, g) PROVE In(x, put)
  BY <1>1, <1>2, <1>3, <1>7 DEF In
<1>8. ML \cup MR \subseteq tree_start
  BY <1>1
<1> QED BY <1>4, <1>5, <1>6, <1>7, <1>8 DEF blk, put, ML, MR

----------------------------------------------------------------------------
(***************************************************************************)
(* Nodes and pages.                                                        *)
(***************************************************************************)

\* N is T with the members of S replaced by those of R.
Swapped(T, S, R, N) ==
  /\ IsFiniteSet(T) /\ IsFiniteSet(R)
  /\ S \subseteq T /\ \A x \in R : x \notin T \ S
  /\ N = (T \ S) \cup R

\* Counting it.
LEMMA Replaced ==
  ASSUME NEW T, NEW S, NEW R, NEW N, Swapped(T, S, R, N)
  PROVE  /\ IsFiniteSet(N)
         /\ Cardinality(N) = Cardinality(T) - Cardinality(S) + Cardinality(R)
         /\ Cardinality(T) \in Nat /\ Cardinality(S) \in Nat /\ Cardinality(R) \in Nat
         /\ Cardinality(S) <= Cardinality(T)
<1>1. /\ IsFiniteSet(T) /\ IsFiniteSet(R) /\ S \in SUBSET T /\ \A x \in R : x \notin T \ S
      /\ N = (T \ S) \cup R
  BY DEF Swapped
<1>2. IsFiniteSet(S) /\ Cardinality(S) <= Cardinality(T)
  BY <1>1, FS_Subset
<1>3. Cardinality(T) \in Nat /\ Cardinality(S) \in Nat /\ Cardinality(R) \in Nat
  BY <1>1, <1>2, FS_CardinalityType
<1> DEFINE D == T \ S
<1>4. IsFiniteSet(D) /\ Cardinality(D) = Cardinality(T) - Cardinality(S)
  <2>1. T \cap S = S
    BY <1>1
  <2>2. IsFiniteSet(D) /\ Cardinality(D) = Cardinality(T) - Cardinality(T \cap S)
    BY <1>1, <1>2, FS_Difference
  <2> QED BY <2>1, <2>2
<1>5. D \cap R = {} /\ N = D \cup R
  BY <1>1
<1> HIDE DEF D
<1>6. /\ IsFiniteSet(D \cup R)
      /\ Cardinality(D \cup R) = Cardinality(D) + Cardinality(R) - Cardinality(D \cap R)
  BY <1>1, <1>4, FS_Union
<1>7. Cardinality(D \cap R) = 0
  BY <1>5, FS_EmptySet
<1>8. Cardinality(D \cup R) = Cardinality(T) - Cardinality(S) + Cardinality(R)
  BY <1>3, <1>4, <1>6, <1>7
<1> QED BY <1>2, <1>3, <1>5, <1>6, <1>8

\* Tree_mm keeps account of the nodes of both trees.
LEMMA NodesStep ==
  ASSUME Nodes, NEW e \in Nat, NEW i \in Nat, NodesSuffice(e, i), TakeNodes(e, i),
         Cardinality(tree_start) \in Nat, e <= Cardinality(tree_start),
         Cardinality(tree_start') = Cardinality(tree_start) - e + i
  PROVE  Nodes'
<1> DEFINE n == NewNodes(e, i)
           F == NodesFree(e)
<1>1. nstatic \in Nat /\ nfreed \in Nat /\ nstatic = 2 * Cardinality(tree_start) + nfreed
  BY DEF Nodes
<1>2. F = nfreed + 2 * e /\ F \in Nat
  BY <1>1 DEF NodesFree
<1>3. n = (IF 2 * i > F THEN 2 * i - F ELSE 0) /\ nstatic + n <= NodeLimit - 1
      /\ nstatic' = nstatic + n /\ nfreed' = F + n - 2 * i
  BY DEF NewNodes, NodesSuffice, TakeNodes
<1> HIDE DEF n, F
<1>4. n \in Nat /\ F + n >= 2 * i
  BY <1>2, <1>3
<1> QED BY <1>1, <1>2, <1>3, <1>4 DEF Nodes

\* A page kfree gives back lies wholly in the block it puts back.
LEMMA FreedInside ==
  ASSUME Partition, NEW c \in live, NEW g \in FreedPages(c.blk)
  PROVE  g \in Nat /\ Merged(c.blk).start <= g /\ g + PageSize <= End(Merged(c.blk))
<1> DEFINE blk == c.blk
           put == Merged(blk)
           from == FreeStart(blk)
           to == FreeEnd(blk)
           ML == MergeLeft(blk)
           LM == LeftMerged(blk)
<1>1. /\ GoodBlock(put) /\ put.start <= blk.start /\ End(blk) <= End(put)
      /\ \A h \in ML : put.start = h.start
  BY MergedShape
<1>2. /\ blk.start \in Nat /\ End(blk) \in Nat /\ End(LM) = End(blk)
      /\ put.start \in Nat /\ End(put) \in Nat
  BY <1>1, ChunkBlocks, BlockNumbers, Neighbours
<1>3. PageSize \in Nat \ {0}
  BY KHeapAssumption
<1>4. from \in Nat /\ put.start <= from
  <2>1. CASE ML = {}
    BY <1>1, <1>2, <2>1 DEF FreeStart
  <2>2. CASE ML # {}
    <3> DEFINE h == CHOOSE x \in ML : TRUE
    <3>1. h \in ML
      BY <2>2
    <3>2. from = IF Floor(blk.start) > h.start THEN Floor(blk.start) ELSE h.start
      BY <2>2 DEF FreeStart
    <3>3. Floor(blk.start) \in Nat /\ h.start = put.start
      BY <1>1, <1>2, <3>1, FloorIs
    <3> HIDE DEF h, from, put
    <3> QED BY <1>2, <3>2, <3>3
  <2> QED BY <2>1, <2>2
<1>5. to \in Nat /\ to <= End(put)
  <2> DEFINE up == get_aligned(End(blk), PageSize)
  <2>1. up \in Nat
    BY <1>2, <1>3, AlignedIs
  <2>2. to = End(blk) \/ (to = up /\ up < End(LM)) \/ to = End(LM)
    BY DEF FreeEnd
  <2> HIDE DEF up, to, put, LM
  <2> QED BY <1>1, <1>2, <2>1, <2>2
<1> HIDE DEF from, to, put
<1>6. get_aligned(from, PageSize) \in Nat /\ from <= get_aligned(from, PageSize)
  BY <1>3, <1>4, AlignedIs
<1>7. Floor(to) \in Nat /\ Floor(to) <= to /\ Floor(to) % PageSize = 0
  BY <1>5, FloorIs
<1>8. g \in get_aligned(from, PageSize) .. Floor(to) - 1 /\ g % PageSize = 0
  BY DEF FreedPages, PagesIn, from, to
<1>9. g \in Nat /\ from <= g /\ g < Floor(to)
  BY <1>4, <1>6, <1>7, <1>8
<1>10. g + PageSize <= Floor(to)
  BY <1>3, <1>7, <1>8, <1>9, Multiples
<1>11. put.start <= g /\ g + PageSize <= End(put)
  BY <1>2, <1>3, <1>4, <1>5, <1>7, <1>9, <1>10
<1> QED BY <1>9, <1>11 DEF put

\* A page in use has an address of the chunk's block in it.
LEMMA UsedPage ==
  ASSUME Partition, NEW d \in live, NEW g,
         g = Floor(d.addr - HDR) \/ g \in PagesIn(Floor(d.addr), d.addr + d.size)
  PROVE  g \in Nat /\ \E x \in Nat : g <= x /\ x < g + PageSize /\ In(x, d.blk)
<1>1. /\ d.blk.start \in Nat /\ End(d.blk) \in Nat /\ d.blk.start <= d.addr - 1
      /\ d.addr + d.size <= End(d.blk) /\ d.addr \in Nat /\ d.size \in Nat /\ d.size > 0
  <2>1. d \in Chunks /\ d.blk.start <= d.addr - 1 /\ d.addr + d.size <= End(d.blk)
    BY DEF Partition, Owned, HDR
  <2>2. d.addr \in HeapBegin .. HeapEnd /\ d.size \in Sizes
    BY <2>1 DEF Chunks
  <2>3. d.blk.start \in Nat /\ End(d.blk) \in Nat
    BY ChunkBlocks
  <2>4. d.addr \in Nat
    BY <2>2, KHeapAssumption
  <2>5. d.size \in Nat /\ d.size > 0
    <3>1. d.size \in Nat \ {0}
      BY <2>2, KHeapAssumption
    <3> QED BY <3>1
  <2> QED BY <2>1, <2>3, <2>4, <2>5
<1>2. PageSize \in Nat \ {0}
  BY KHeapAssumption
<1>3. CASE g = Floor(d.addr - HDR)
  <2> DEFINE x == d.addr - 1
  <2>1. x \in Nat
    BY <1>1
  <2>2. Floor(x) \in Nat /\ Floor(x) <= x /\ x < Floor(x) + PageSize
    BY <2>1, FloorIs
  <2>3. g = Floor(x)
    BY <1>3 DEF HDR
  <2>4. In(x, d.blk)
    BY <1>1, <2>1 DEF In
  <2> HIDE DEF x
  <2> QED BY <2>1, <2>2, <2>3, <2>4
<1>4. CASE g \in PagesIn(Floor(d.addr), d.addr + d.size)
  <2>1. Floor(d.addr) \in Nat /\ Floor(d.addr) <= d.addr /\ d.addr < Floor(d.addr) + PageSize
    BY <1>1, FloorIs
  <2>2. g \in Floor(d.addr) .. (d.addr + d.size) - 1
    BY <1>4 DEF PagesIn
  <2>3. g \in Nat /\ Floor(d.addr) <= g /\ g < d.addr + d.size
    BY <1>1, <2>1, <2>2
  <2>4. CASE g >= d.addr
    <3>1. In(g, d.blk)
      BY <1>1, <2>3, <2>4 DEF In
    <3> QED BY <1>2, <2>3, <3>1
  <2>5. CASE g < d.addr
    <3>1. In(d.addr, d.blk)
      BY <1>1 DEF In
    <3> QED BY <1>1, <1>2, <2>1, <2>3, <2>5, <3>1
  <2> QED BY <1>1, <2>3, <2>4, <2>5
<1> QED BY <1>3, <1>4

----------------------------------------------------------------------------
(***************************************************************************)
(* kfree.                                                                  *)
(***************************************************************************)
Gone(c) == MergeLeft(c.blk) \cup MergeRight(c.blk)

\* A kfree that does not panic, in terms of one tree.
Freed(c) ==
  LET put == Merged(c.blk)
      P   == FreedPages(c.blk) \cap present
  IN  /\ NodesSuffice(Cardinality(Gone(c)), 1) /\ TakeNodes(Cardinality(Gone(c)), 1)
      /\ tree_start' = (tree_start \ Gone(c)) \cup {put} /\ tree_size' = tree_start'
      /\ present' = present \ P /\ allocable' = allocable \ P
      /\ live' = live \ {c} /\ panic' = panic

\* kfree of a chunk succeeds or runs out of nodes.
LEMMA FreeCases ==
  ASSUME Partition, NEW c \in live, kfree(c)
  PROVE  Freed(c) \/ Panic("run out of kernel heap")
<1> DEFINE blk == c.blk
           gone == MergeLeft(blk) \cup MergeRight(blk)
<1>1. ~InvalidFree(blk)
  BY Neighbours
<1>2. gone \subseteq tree_start /\ tree_size = tree_start
  BY MergedCovers DEF Partition
<1>3. \A g \in tree_start : GoodBlock(g)
  BY FreeBlocks
<1>4. UNION {SizeGE(tree_size, g) : g \in gone} = gone
  <2>1. \A g \in gone : SizeGE(tree_size, g) = {g}
    BY <1>2, <1>3, FindsMember
  <2> HIDE DEF gone
  <2> QED BY <2>1
<1>5. Gone(c) = gone
  BY DEF Gone
<1>6. CASE ~NodesSuffice(Cardinality(gone), 1)
  BY <1>1, <1>6 DEF kfree
<1>7. CASE NodesSuffice(Cardinality(gone), 1)
  <2>1. /\ tree_start' = (tree_start \ gone) \cup {Merged(blk)}
        /\ tree_size' = (tree_size \ UNION {SizeGE(tree_size, g) : g \in gone}) \cup {Merged(blk)}
        /\ TakeNodes(Cardinality(gone), 1)
        /\ present' = present \ (FreedPages(blk) \cap present)
        /\ allocable' = allocable \ (FreedPages(blk) \cap present)
        /\ live' = live \ {c} /\ panic' = panic
    BY <1>1, <1>7 DEF kfree
  <2>2. tree_size' = tree_start'
    BY <1>2, <1>4, <2>1
  <2> QED BY <1>5, <1>7, <2>1, <2>2 DEF Freed
<1> QED BY <1>6, <1>7

\* kfree keeps the heap tiled and merges all it can.
LEMMA FreePartition ==
  ASSUME Partition, NEW c \in live, Freed(c)
  PROVE  /\ Partition'
         /\ Cardinality(tree_start) \in Nat /\ Cardinality(Gone(c)) \in Nat
         /\ Cardinality(Gone(c)) <= Cardinality(tree_start)
         /\ Cardinality(tree_start') = Cardinality(tree_start) - Cardinality(Gone(c)) + 1
<1>1. PICK blk : blk = c.blk
  OBVIOUS
<1>2. PICK put : put = Merged(c.blk)
  OBVIOUS
<1>3. PICK gone : gone = Gone(c)
  OBVIOUS
<1>4. /\ tree_start' = (tree_start \ gone) \cup {put} /\ tree_size' = tree_start'
      /\ live' = live \ {c}
  BY <1>2, <1>3 DEF Freed
<1>5. /\ gone \subseteq tree_start
      /\ \A x \in Int : In(x, put) <=> In(x, blk) \/ \E g \in gone : In(x, g)
  BY <1>1, <1>2, <1>3, MergedCovers DEF Gone
<1>6. /\ \A g : g \in gone <=> g \in tree_start /\ (End(g) = blk.start \/ g.start = End(blk))
  BY <1>1, <1>3, Neighbours DEF Gone
<1>7. /\ GoodBlock(put)
      /\ put.start = blk.start \/ \E g \in tree_start : put.start = g.start /\ End(g) = blk.start
      /\ End(put) = End(blk) \/ \E g \in tree_start : End(put) = End(g) /\ g.start = End(blk)
  <2>1. put.start = blk.start \/ \E g \in MergeLeft(c.blk) : put.start = g.start
    BY <1>1, <1>2, MergedShape
  <2>2. End(put) = End(blk) \/ \E g \in MergeRight(c.blk) : End(put) = End(g)
    BY <1>1, <1>2, MergedShape
  <2>3. /\ \A g \in MergeLeft(c.blk) : g \in tree_start /\ End(g) = blk.start
        /\ \A g \in MergeRight(c.blk) : g \in tree_start /\ g.start = End(blk)
    BY <1>1, Neighbours
  <2> QED BY <1>2, <2>1, <2>2, <2>3, MergedShape
<1>8. /\ Tiling(AllBlocks) /\ Coalesced /\ IsFiniteSet(tree_start)
      /\ \A d \in live : /\ d \in Chunks /\ d.blk \notin tree_start
                         /\ d.blk.start <= d.addr - HDR /\ d.addr + d.size <= End(d.blk)
      /\ \A d, e \in live : d.blk = e.blk => d = e
  BY DEF Partition, Owned
<1>9. PICK A : A = AllBlocks
  OBVIOUS
<1>10. \A b : b \in A <=> b \in tree_start \/ \E d \in live : b = d.blk
  BY <1>9 DEF AllBlocks
<1>11. PICK S : S = {blk} \cup gone
  OBVIOUS
<1>12. AllBlocks' = (A \ S) \cup {put}
  <2>1. \A b : b \in AllBlocks' <=> b \in tree_start' \/ \E d \in live' : b = d.blk
    BY DEF AllBlocks
  <2>2. ASSUME NEW b PROVE b \in AllBlocks' <=> b \in (A \ S) \cup {put}
    <3>1. b \in AllBlocks' <=> b = put \/ (b \in tree_start /\ b \notin gone) \/ \E d \in live : d # c /\ b = d.blk
      BY <1>4, <2>1
    <3>2. b \in A \ S <=> (b \in tree_start \/ \E d \in live : b = d.blk) /\ b # blk /\ b \notin gone
      BY <1>10, <1>11
    <3>3. blk = c.blk /\ blk \notin tree_start /\ gone \subseteq tree_start
      BY <1>1, <1>5, <1>8
    <3>4. \A d \in live : d.blk \notin gone /\ (d # c <=> d.blk # blk)
      BY <1>1, <1>5, <1>8
    <3> QED BY <3>1, <3>2, <3>3, <3>4
  <2> QED BY <2>2
<1>13. Tiling((A \ S) \cup {put}) /\ (A \ S) \cap {put} = {}
  <2>1. PICK R : R = {put}
    OBVIOUS
  <2>2. S \subseteq A
    BY <1>1, <1>5, <1>10, <1>11
  <2>3. \A b \in R : GoodBlock(b)
    BY <1>7, <2>1
  <2>4. \A x \in Addresses : x \in Int
    BY KHeapAssumption DEF Addresses
  <2>5. \A x \in Addresses : (\E b \in S : In(x, b)) <=> (\E b \in R : In(x, b))
    <3> SUFFICES ASSUME NEW x \in Addresses PROVE (\E b \in S : In(x, b)) <=> In(x, put)
      BY <2>1
    <3>1. (\E b \in S : In(x, b)) <=> In(x, blk) \/ \E g \in gone : In(x, g)
      BY <1>11
    <3> QED BY <1>5, <2>4, <3>1
  <2>6. \A x \in Addresses : \A b, e \in R : In(x, b) /\ In(x, e) => b = e
    BY <2>1
  <2>7. Tiling(A)
    BY <1>8, <1>9
  <2>8. Tiling((A \ S) \cup R) /\ (A \ S) \cap R = {}
    BY <2>2, <2>3, <2>5, <2>6, <2>7, Replace
  <2> QED BY <2>1, <2>8
<1>14. Tiling(AllBlocks)'
  <2>1. Tiling(AllBlocks')
    BY <1>12, <1>13
  <2> QED BY <2>1 DEF Tiling
<1>15. put \notin tree_start \ gone
  <2>1. blk \notin tree_start
    BY <1>1, <1>8
  <2>2. tree_start \ gone \subseteq A \ S
    BY <1>10, <1>11, <2>1
  <2> QED BY <1>13, <2>2
<1>16. Owned'
  <2>1. ASSUME NEW d \in live' PROVE d.blk \notin tree_start'
    <3>1. d \in live /\ d # c
      BY <1>4
    <3>2. d.blk \in A \ S
      BY <1>1, <1>5, <1>8, <1>10, <1>11, <3>1
    <3>3. d.blk # put
      BY <1>13, <3>2
    <3> QED BY <1>4, <1>8, <3>1, <3>3
  <2>2. ASSUME NEW d \in live'
        PROVE d \in Chunks /\ d.blk.start <= d.addr - HDR /\ d.addr + d.size <= End(d.blk)
    BY <1>4, <1>8
  <2>3. ASSUME NEW d \in live', NEW e \in live', d.blk = e.blk PROVE d = e
    BY <1>4, <1>8, <2>3
  <2> QED BY <2>1, <2>2, <2>3 DEF Owned
<1>17. Coalesced'
  <2>1. ASSUME NEW b \in tree_start', NEW e \in tree_start' PROVE End(b) # e.start
    <3>1. CASE b # put /\ e # put
      BY <1>4, <1>8, <3>1 DEF Coalesced
    <3>2. CASE b = put /\ e = put
      BY <1>7, <3>2, BlockNumbers
    <3>3. CASE b = put /\ e # put
      <4>1. e \in tree_start /\ e \notin gone
        BY <1>4, <3>3
      <4>2. End(put) # e.start
        BY <1>6, <1>7, <1>8, <4>1 DEF Coalesced
      <4> QED BY <3>3, <4>2
    <3>4. CASE b # put /\ e = put
      <4>1. b \in tree_start /\ b \notin gone
        BY <1>4, <3>4
      <4>2. End(b) # put.start
        BY <1>6, <1>7, <1>8, <4>1 DEF Coalesced
      <4> QED BY <3>4, <4>2
    <3> QED BY <3>1, <3>2, <3>3, <3>4
  <2> QED BY <2>1 DEF Coalesced
<1>18. /\ IsFiniteSet(tree_start')
       /\ Cardinality(tree_start') = Cardinality(tree_start) - Cardinality(gone) + 1
       /\ Cardinality(tree_start) \in Nat /\ Cardinality(gone) \in Nat
       /\ Cardinality(gone) <= Cardinality(tree_start)
  <2>1. PICK R : R = {put}
    OBVIOUS
  <2>2. IsFiniteSet(R) /\ Cardinality(R) = 1
    BY <2>1, FS_Singleton
  <2>3. IsFiniteSet(tree_start) /\ \A x \in R : x \notin tree_start \ gone
    BY <1>8, <1>15, <2>1
  <2>4. tree_start' = (tree_start \ gone) \cup R
    BY <1>4, <2>1
  <2>5. /\ IsFiniteSet(tree_start')
        /\ Cardinality(tree_start') = Cardinality(tree_start) - Cardinality(gone) + Cardinality(R)
        /\ Cardinality(tree_start) \in Nat /\ Cardinality(gone) \in Nat
        /\ Cardinality(gone) <= Cardinality(tree_start)
    <3>1. Swapped(tree_start, gone, R, tree_start')
      BY <1>5, <2>2, <2>3, <2>4 DEF Swapped
    <3> QED BY <3>1, Replaced
  <2> QED BY <2>2, <2>5
<1> QED BY <1>3, <1>4, <1>14, <1>16, <1>17, <1>18 DEF Partition

\* kfree takes no page away under another chunk.
LEMMA FreePaged ==
  ASSUME Partition, Paged, NEW c \in live, Freed(c)
  PROVE  Paged'
<1>1. PICK put : put = Merged(c.blk)
  OBVIOUS
<1>2. PICK F : F = FreedPages(c.blk)
  OBVIOUS
<1>3. /\ tree_start' = (tree_start \ Gone(c)) \cup {put} /\ live' = live \ {c}
      /\ present' = present \ (F \cap present) /\ allocable' = allocable \ (F \cap present)
  BY <1>1, <1>2 DEF Freed
<1>4. Partition'
  BY FreePartition
<1>5. ASSUME NEW d \in live', NEW g, g \in F,
             g = Floor(d.addr - HDR) \/ g \in PagesIn(Floor(d.addr), d.addr + d.size)
      PROVE  FALSE
  <2>1. d \in live
    BY <1>3
  <2>2. PICK x \in Nat : g <= x /\ x < g + PageSize /\ In(x, d.blk)
    BY <1>5, <2>1, UsedPage
  <2>3. g \in Nat /\ put.start <= g /\ g + PageSize <= End(put)
    BY <1>1, <1>2, <1>5, FreedInside
  <2>4. GoodBlock(put) /\ put.start \in Nat /\ End(put) \in Nat /\ PageSize \in Nat
    BY <1>1, MergedShape, BlockNumbers, KHeapAssumption
  <2>5. In(x, put)
    BY <2>2, <2>3, <2>4 DEF In
  <2>6. x \in Addresses
    BY <2>4, <2>5, BlockNumbers
  <2>7. put \in AllBlocks' /\ d.blk \in AllBlocks'
    BY <1>3 DEF AllBlocks
  <2>8. d.blk = put
    BY <1>4, <2>2, <2>5, <2>6, <2>7 DEF Partition, Tiling
  <2>9. d.blk \notin tree_start'
    BY <1>4 DEF Partition, Owned
  <2> QED BY <1>3, <2>8, <2>9
<1>6. ASSUME NEW d \in live'
      PROVE  /\ Floor(d.addr - HDR) \in present'
             /\ PagesIn(Floor(d.addr), d.addr + d.size) \subseteq allocable' \cup present'
  <2>1. d \in live
    BY <1>3
  <2>2. /\ Floor(d.addr - HDR) \in present
        /\ PagesIn(Floor(d.addr), d.addr + d.size) \subseteq allocable \cup present
    BY <2>1 DEF Paged, LivePagesUsable
  <2>3. Floor(d.addr - HDR) \in present'
    BY <1>3, <1>5, <2>2
  <2>4. ASSUME NEW g \in PagesIn(Floor(d.addr), d.addr + d.size) PROVE g \in allocable' \cup present'
    BY <1>3, <1>5, <2>2
  <2> QED BY <2>3, <2>4
<1>7. LivePagesUsable'
  BY <1>6 DEF LivePagesUsable
<1>8. allocable' \subseteq HeapPages /\ present' \subseteq HeapPages
  BY <1>3 DEF Paged
<1> QED BY <1>7, <1>8 DEF Paged, HeapPages, PagesIn

\* A panic leaves the heap alone.
LEMMA PanicStep ==
  ASSUME IInv, NEW why, Panic(why), why \in {"kernel runs out of memory", "run out of kernel heap"}
  PROVE  IInv'
BY DEF IInv, Panic, Partition, Tiling, AllBlocks, Owned, Coalesced, Nodes, Paged, LivePagesUsable,
       HeapPages, PagesIn, OnlyExhaustionPanics

\* kfree.
LEMMA FreeStep ==
  ASSUME IInv, NEW c \in live, kfree(c)
  PROVE  IInv'
<1>1. Partition /\ Nodes /\ Paged /\ OnlyExhaustionPanics
  BY DEF IInv
<1>2. CASE Panic("run out of kernel heap")
  BY <1>2, PanicStep
<1>3. CASE Freed(c)
  <2>1. Partition'
    BY <1>1, <1>3, FreePartition
  <2>2. Nodes'
    <3> DEFINE e == Cardinality(Gone(c))
    <3>1. /\ e \in Nat /\ Cardinality(tree_start) \in Nat /\ e <= Cardinality(tree_start)
          /\ Cardinality(tree_start') = Cardinality(tree_start) - e + 1
      BY <1>1, <1>3, FreePartition
    <3>2. NodesSuffice(e, 1) /\ TakeNodes(e, 1)
      BY <1>3 DEF Freed
    <3> HIDE DEF e
    <3>3. PICK i \in Nat : i = 1
      OBVIOUS
    <3> QED BY <1>1, <3>1, <3>2, <3>3, NodesStep
  <2>3. Paged'
    BY <1>1, <1>3, FreePaged
  <2>4. OnlyExhaustionPanics'
    BY <1>1, <1>3 DEF Freed, OnlyExhaustionPanics
  <2> QED BY <2>1, <2>2, <2>3, <2>4 DEF IInv
<1> QED BY <1>1, <1>2, <1>3, FreeCases

----------------------------------------------------------------------------
(***************************************************************************)
(* kmalloc.                                                                *)
(***************************************************************************)
Rest(b, a, s) == TailSplit(b, a, s) \cup FrontSplit(b, a)

\* A chunk of size s at address a fits in block b, behind its header.
Inside(b, a, s) == a \in Nat /\ s \in Nat \ {0} /\ b.start + 1 <= a /\ a + s <= End(b)

\* The parts kmalloc puts back: one in front of the header, one behind the
\* chunk.
LEMMA RestShape ==
  ASSUME NEW b, GoodBlock(b), NEW a, NEW s, Inside(b, a, s)
  PROVE  /\ \A g : g \in TailSplit(b, a, s) => GoodBlock(g) /\ g.start = a + s /\ End(g) = End(b)
         /\ \A g : g \in FrontSplit(b, a) => GoodBlock(g) /\ g.start = b.start /\ End(g) = a - 1
         /\ \A g, h \in TailSplit(b, a, s) : g = h
         /\ \A g, h \in FrontSplit(b, a) : g = h
         /\ IsFiniteSet(Rest(b, a, s)) /\ Cardinality(Rest(b, a, s)) \in Nat
<1>1. /\ b.start \in Nat /\ End(b) \in Nat /\ HeapBegin <= b.start /\ End(b) <= HeapEnd
  BY BlockNumbers
<1>2. a \in Nat /\ s \in Nat /\ s > 0 /\ b.start + 1 <= a /\ a + s <= End(b)
  BY DEF Inside
<1>3. HeapBegin \in Nat /\ HeapEnd \in Nat
  BY KHeapAssumption
<1>4. /\ \A g : g \in TailSplit(b, a, s) => GoodBlock(g) /\ g.start = a + s /\ End(g) = End(b)
      /\ \A g, h \in TailSplit(b, a, s) : g = h
      /\ IsFiniteSet(TailSplit(b, a, s))
  <2>1. CASE a + s + 2 * HDR < End(b)
    <3>1. PICK from \in Nat : from = a + s
      BY <1>2
    <3>2. PICK to \in Nat : to = End(b)
      BY <1>1
    <3>3. HeapBegin <= from /\ from < to /\ to <= HeapEnd
      BY <1>1, <1>2, <1>3, <2>1, <3>1, <3>2 DEF HDR
    <3>4. PICK t : t = [start |-> from, size |-> to - from]
      OBVIOUS
    <3>5. GoodBlock(t) /\ t.start = from /\ End(t) = to
      BY <3>3, <3>4, NewBlock
    <3>6. TailSplit(b, a, s) = {t}
      BY <2>1, <3>1, <3>2, <3>4 DEF TailSplit
    <3> QED BY <3>1, <3>2, <3>5, <3>6, FS_Singleton
  <2>2. CASE ~(a + s + 2 * HDR < End(b))
    <3>1. TailSplit(b, a, s) = {}
      BY <2>2 DEF TailSplit
    <3> QED BY <3>1, FS_EmptySet
  <2> QED BY <2>1, <2>2
<1>5. /\ \A g : g \in FrontSplit(b, a) => GoodBlock(g) /\ g.start = b.start /\ End(g) = a - 1
      /\ \A g, h \in FrontSplit(b, a) : g = h
      /\ IsFiniteSet(FrontSplit(b, a))
  <2>1. CASE a - b.start > 3 * HDR
    <3>1. PICK from \in Nat : from = b.start
      BY <1>1
    <3>2. PICK to \in Nat : to = a - 1
      BY <1>1, <1>2
    <3>3. HeapBegin <= from /\ from < to /\ to <= HeapEnd
      BY <1>1, <1>2, <1>3, <2>1, <3>1, <3>2 DEF HDR
    <3>4. PICK t : t = [start |-> from, size |-> to - from]
      OBVIOUS
    <3>5. GoodBlock(t) /\ t.start = from /\ End(t) = to
      BY <3>3, <3>4, NewBlock
    <3>6. a - b.start - HDR = to - from
      BY <1>1, <1>2, <3>1, <3>2 DEF HDR
    <3>7. FrontSplit(b, a) = {t}
      BY <2>1, <3>1, <3>4, <3>6 DEF FrontSplit
    <3> QED BY <3>1, <3>2, <3>5, <3>7, FS_Singleton
  <2>2. CASE ~(a - b.start > 3 * HDR)
    <3>1. FrontSplit(b, a) = {}
      BY <2>2 DEF FrontSplit
    <3> QED BY <3>1, FS_EmptySet
  <2> QED BY <2>1, <2>2
<1>6. IsFiniteSet(Rest(b, a, s)) /\ Cardinality(Rest(b, a, s)) \in Nat
  <2>1. IsFiniteSet(TailSplit(b, a, s) \cup FrontSplit(b, a))
    BY <1>4, <1>5, FS_Union
  <2> QED BY <2>1, FS_CardinalityType DEF Rest
<1> QED BY <1>4, <1>5, <1>6

\* The header's block: all of b but those parts.
LEMMA HeaderShape ==
  ASSUME NEW b, GoodBlock(b), NEW a, NEW s, Inside(b, a, s)
  PROVE  LET h == Header(b, a, s) IN
         /\ GoodBlock(h)
         /\ h.start = IF FrontSplit(b, a) = {} THEN b.start ELSE a - 1
         /\ End(h) = IF TailSplit(b, a, s) = {} THEN End(b) ELSE a + s
         /\ h.start <= a - HDR /\ a + s <= End(h)
<1>1. /\ b.start \in Nat /\ End(b) \in Nat /\ HeapBegin <= b.start /\ End(b) <= HeapEnd
  BY BlockNumbers
<1>2. a \in Nat /\ s \in Nat /\ s > 0 /\ b.start + 1 <= a /\ a + s <= End(b)
  BY DEF Inside
<1>3. HeapBegin \in Nat /\ HeapEnd \in Nat
  BY KHeapAssumption
<1>4. PICK from : from = IF FrontSplit(b, a) = {} THEN b.start ELSE a - 1
  OBVIOUS
<1>5. PICK to : to = IF TailSplit(b, a, s) = {} THEN End(b) ELSE a + s
  OBVIOUS
<1>6. Header(b, a, s) = [start |-> from, size |-> to - from]
  BY <1>4, <1>5 DEF Header, HDR
<1>7. from \in Nat /\ HeapBegin <= from /\ from <= a - 1
  BY <1>1, <1>2, <1>3, <1>4
<1>8. to \in Nat /\ a + s <= to /\ to <= HeapEnd
  BY <1>1, <1>2, <1>3, <1>5
<1>9. from < to
  BY <1>2, <1>7, <1>8
<1>10. PICK h : h = Header(b, a, s)
  OBVIOUS
<1>11. GoodBlock(h) /\ h.start = from /\ End(h) = to
  BY <1>6, <1>7, <1>8, <1>9, <1>10, NewBlock
<1> QED BY <1>4, <1>5, <1>7, <1>8, <1>10, <1>11 DEF HDR

\* kmalloc cuts block b into the header's block and the parts it puts back.
LEMMA CutCovers ==
  ASSUME NEW b, GoodBlock(b), NEW a, NEW s, Inside(b, a, s),
         NEW R, R = Rest(b, a, s) \cup {Header(b, a, s)}
  PROVE  /\ \A g \in R : GoodBlock(g)
         /\ \A x \in Int : In(x, b) <=> \E g \in R : In(x, g)
         /\ \A x \in Int : \A g, h \in R : In(x, g) /\ In(x, h) => g = h
         /\ \A g \in Rest(b, a, s) : g # Header(b, a, s)
<1>1. /\ b.start \in Nat /\ End(b) \in Nat
  BY BlockNumbers
<1>2. a \in Nat /\ s \in Nat /\ s > 0 /\ b.start + 1 <= a /\ a + s <= End(b)
  BY DEF Inside
<1>3. PICK h : h = Header(b, a, s)
  OBVIOUS
<1>4. PICK ts : ts = TailSplit(b, a, s)
  OBVIOUS
<1>5. PICK fs : fs = FrontSplit(b, a)
  OBVIOUS
<1>6. /\ GoodBlock(h) /\ h.start \in Nat /\ End(h) \in Nat
      /\ h.start = IF fs = {} THEN b.start ELSE a - 1
      /\ End(h) = IF ts = {} THEN End(b) ELSE a + s
      /\ h.start <= a - 1 /\ a + s <= End(h)
  BY <1>3, <1>4, <1>5, HeaderShape, BlockNumbers DEF HDR
<1>7. /\ \A g \in ts : GoodBlock(g) /\ g.start = a + s /\ End(g) = End(b) /\ End(h) = a + s
      /\ \A g \in fs : GoodBlock(g) /\ g.start = b.start /\ End(g) = a - 1 /\ h.start = a - 1
      /\ \A g, k \in ts : g = k
      /\ \A g, k \in fs : g = k
  BY <1>4, <1>5, <1>6, RestShape
<1>8. \A g : g \in R <=> g \in ts \/ g \in fs \/ g = h
  BY <1>3, <1>4, <1>5 DEF Rest
<1>9. \A g \in R : GoodBlock(g)
  BY <1>6, <1>7, <1>8
<1>10. ASSUME NEW x \in Int, In(x, b) PROVE \E g \in R : In(x, g)
  <2>1. CASE x < h.start
    <3>1. fs # {}
      BY <1>1, <1>6, <1>10, <2>1 DEF In
    <3>2. PICK g \in fs : TRUE
      BY <3>1
    <3>3. In(x, g)
      BY <1>1, <1>2, <1>6, <1>7, <1>10, <2>1, <3>2 DEF In
    <3> QED BY <1>8, <3>2, <3>3
  <2>2. CASE x >= End(h)
    <3>1. ts # {}
      BY <1>1, <1>6, <1>10, <2>2 DEF In
    <3>2. PICK g \in ts : TRUE
      BY <3>1
    <3>3. In(x, g)
      BY <1>1, <1>2, <1>6, <1>7, <1>10, <2>2, <3>2 DEF In
    <3> QED BY <1>8, <3>2, <3>3
  <2>3. CASE h.start <= x /\ x < End(h)
    BY <1>8, <2>3 DEF In
  <2> QED BY <1>6, <2>1, <2>2, <2>3
<1>11. ASSUME NEW x \in Int, NEW g \in R, In(x, g) PROVE In(x, b)
  <2>1. b.start <= h.start /\ End(h) <= End(b)
    BY <1>1, <1>2, <1>6
  <2>2. CASE g = h
    BY <1>1, <1>6, <1>11, <2>1, <2>2 DEF In
  <2>3. CASE g \in ts
    BY <1>1, <1>2, <1>7, <1>11, <2>3 DEF In
  <2>4. CASE g \in fs
    BY <1>1, <1>2, <1>7, <1>11, <2>4 DEF In
  <2> QED BY <1>8, <1>11, <2>2, <2>3, <2>4
<1>12. ASSUME NEW x \in Int, NEW g \in R, NEW k \in R, In(x, g), In(x, k) PROVE g = k
  <2>1. \A u \in ts : In(x, u) => x >= a + s /\ x >= End(h)
    BY <1>1, <1>2, <1>7 DEF In
  <2>2. \A u \in fs : In(x, u) => x < a - 1 /\ x < h.start
    BY <1>1, <1>2, <1>7 DEF In
  <2>3. In(x, h) => x >= h.start /\ x < End(h)
    BY DEF In
  <2> QED BY <1>2, <1>6, <1>7, <1>8, <1>12, <2>1, <2>2, <2>3
<1>13. ASSUME NEW g \in Rest(b, a, s) PROVE g # h
  <2>1. g \in ts \/ g \in fs
    BY <1>4, <1>5 DEF Rest
  <2> QED BY <1>1, <1>2, <1>6, <1>7, <2>1
<1> QED BY <1>3, <1>9, <1>10, <1>11, <1>12, <1>13

\* A kmalloc that does not panic, in terms of one tree: the chunk is cut from
\* block b at address a.
Got(s, al, b, a) ==
  /\ b \in tree_start /\ a = Place(b, al) /\ Fits(b, s, al)
  /\ NodesSuffice(1, Cardinality(Rest(b, a, s))) /\ TakeNodes(1, Cardinality(Rest(b, a, s)))
  /\ tree_start' = (tree_start \ {b}) \cup Rest(b, a, s) /\ tree_size' = tree_start'
  /\ allocable' = allocable \cup ChunkPages(a, s)
  /\ Access(Floor(a - HDR), allocable')
  /\ live' = live \cup {[addr |-> a, size |-> s, blk |-> Header(b, a, s)]}

\* kmalloc finds a block, or runs out of memory or of nodes.
LEMMA MallocCases ==
  ASSUME Partition, NEW s \in Sizes, NEW al \in Aligns, kmalloc(s, al)
  PROVE  \/ Panic("kernel runs out of memory") \/ Panic("run out of kernel heap")
         \/ \E b, a : Got(s, al, b, a)
<1>1. tree_size = tree_start /\ \A g \in tree_start : GoodBlock(g)
  BY FreeBlocks DEF Partition
<1>2. CASE Candidates(s, al) = {}
  BY <1>2 DEF kmalloc
<1>3. CASE Candidates(s, al) # {}
  <2>1. PICK b \in SizeGE(Candidates(s, al), [start |-> 0, size |-> 0]) :
          LET a    == Place(b, al)
              rest == TailSplit(b, a, s) \cup FrontSplit(b, a)
          IN
          IF ~NodesSuffice(1, Cardinality(rest)) THEN Panic("run out of kernel heap")
          ELSE /\ tree_size' = (tree_size \ {b}) \cup rest
               /\ tree_start' = (tree_start \ StartGE(tree_start, b)) \cup rest
               /\ TakeNodes(1, Cardinality(rest))
               /\ allocable' = allocable \cup ChunkPages(a, s)
               /\ Access(Floor(a - HDR), allocable')
               /\ live' = live \cup {[addr |-> a, size |-> s, blk |-> Header(b, a, s)]}
    BY <1>3 DEF kmalloc
  <2>2. b \in Candidates(s, al)
    BY DEF SizeGE
  <2>3. b \in tree_start /\ Fits(b, s, al)
    BY <1>1, <2>2 DEF Candidates
  <2>4. StartGE(tree_start, b) = {b}
    BY <1>1, <2>3, FindsMember
  <2>5. PICK a : a = Place(b, al)
    OBVIOUS
  <2>6. CASE ~NodesSuffice(1, Cardinality(Rest(b, a, s)))
    BY <2>1, <2>5, <2>6 DEF Rest
  <2>7. CASE NodesSuffice(1, Cardinality(Rest(b, a, s)))
    <3>1. /\ tree_size' = (tree_size \ {b}) \cup Rest(b, a, s)
          /\ tree_start' = (tree_start \ StartGE(tree_start, b)) \cup Rest(b, a, s)
          /\ TakeNodes(1, Cardinality(Rest(b, a, s)))
          /\ allocable' = allocable \cup ChunkPages(a, s)
          /\ Access(Floor(a - HDR), allocable')
          /\ live' = live \cup {[addr |-> a, size |-> s, blk |-> Header(b, a, s)]}
      BY <2>1, <2>5, <2>7 DEF Rest
    <3>2. tree_start' = (tree_start \ {b}) \cup Rest(b, a, s) /\ tree_size' = tree_start'
      BY <1>1, <2>4, <3>1
    <3>3. Got(s, al, b, a)
      BY <2>3, <2>5, <2>7, <3>1, <3>2 DEF Got
    <3> QED BY <3>3
  <2> QED BY <2>6, <2>7
<1> QED BY <1>2, <1>3

\* The chunk lies in the block, aligned.
LEMMA GotPlace ==
  ASSUME Partition, NEW s \in Sizes, NEW al \in Aligns, NEW b, NEW a, Got(s, al, b, a)
  PROVE  /\ GoodBlock(b) /\ Inside(b, a, s) /\ a % al = 0
         /\ a \in Nat /\ s \in Nat /\ s > 0 /\ HeapBegin <= b.start /\ b.start + 1 <= a
         /\ a + s <= End(b) /\ End(b) <= HeapEnd
         /\ b.start \in Nat /\ End(b) \in Nat
<1>1. b \in tree_start /\ a = get_aligned(b.start + 1, al) /\ a + s <= End(b)
  BY DEF Got, Place, Fits, HDR
<1>2. /\ GoodBlock(b) /\ b.start \in Nat /\ End(b) \in Nat /\ HeapBegin <= b.start /\ End(b) <= HeapEnd
  BY <1>1, FreeBlocks
<1>3. al \in Nat \ {0} /\ s \in Nat \ {0}
  BY KHeapAssumption
<1>4. PICK x \in Nat : x = b.start + 1
  BY <1>2
<1>5. a \in Nat /\ a % al = 0 /\ x <= a
  BY <1>1, <1>3, <1>4, AlignedIs
<1>6. s \in Nat /\ s > 0
  BY <1>3
<1> QED BY <1>1, <1>2, <1>3, <1>4, <1>5, <1>6 DEF Inside

\* kmalloc keeps the heap tiled and leaves no two free blocks side by side.
LEMMA MallocPartition ==
  ASSUME Partition, NEW s \in Sizes, NEW al \in Aligns, NEW b, NEW a, Got(s, al, b, a)
  PROVE  /\ Partition'
         /\ Cardinality(tree_start) \in Nat /\ 1 <= Cardinality(tree_start)
         /\ Cardinality(Rest(b, a, s)) \in Nat
         /\ Cardinality(tree_start') = Cardinality(tree_start) - 1 + Cardinality(Rest(b, a, s))
<1>1. /\ GoodBlock(b) /\ Inside(b, a, s)
      /\ a \in Nat /\ s \in Nat /\ s > 0 /\ b.start + 1 <= a /\ a + s <= End(b)
      /\ b.start \in Nat /\ End(b) \in Nat /\ HeapBegin <= b.start /\ End(b) <= HeapEnd
  BY GotPlace
<1>2. PICK h : h = Header(b, a, s)
  OBVIOUS
<1>3. PICK rest : rest = Rest(b, a, s)
  OBVIOUS
<1>4. PICK c : c = [addr |-> a, size |-> s, blk |-> h]
  OBVIOUS
<1>5. /\ tree_start' = (tree_start \ {b}) \cup rest /\ tree_size' = tree_start'
      /\ live' = live \cup {c} /\ b \in tree_start
  BY <1>2, <1>3, <1>4 DEF Got
<1>6. c.addr = a /\ c.size = s /\ c.blk = h
  BY <1>4
<1>7. PICK R : R = rest \cup {h}
  OBVIOUS
<1>8. /\ \A g \in R : GoodBlock(g)
      /\ \A x \in Int : In(x, b) <=> \E g \in R : In(x, g)
      /\ \A x \in Int : \A g, k \in R : In(x, g) /\ In(x, k) => g = k
      /\ h \notin rest
  BY <1>1, <1>2, <1>3, <1>7, CutCovers
<1>9. /\ Tiling(AllBlocks) /\ Coalesced /\ IsFiniteSet(tree_start)
      /\ \A d \in live : /\ d \in Chunks /\ d.blk \notin tree_start
                         /\ d.blk.start <= d.addr - HDR /\ d.addr + d.size <= End(d.blk)
      /\ \A d, e \in live : d.blk = e.blk => d = e
  BY DEF Partition, Owned
<1>10. PICK A : A = AllBlocks
  OBVIOUS
<1>11. \A g : g \in A <=> g \in tree_start \/ \E d \in live : g = d.blk
  BY <1>10 DEF AllBlocks
<1>12. PICK S : S = {b}
  OBVIOUS
<1>13. Tiling((A \ S) \cup R) /\ (A \ S) \cap R = {}
  <2>1. S \subseteq A
    BY <1>5, <1>11, <1>12
  <2>2. \A x \in Addresses : x \in Int
    BY KHeapAssumption DEF Addresses
  <2>3. \A x \in Addresses : (\E g \in S : In(x, g)) <=> (\E g \in R : In(x, g))
    BY <1>8, <1>12, <2>2
  <2>4. \A x \in Addresses : \A g, k \in R : In(x, g) /\ In(x, k) => g = k
    BY <1>8, <2>2
  <2>5. Tiling(A)
    BY <1>9, <1>10
  <2> QED BY <1>8, <2>1, <2>3, <2>4, <2>5, Replace
<1>14. AllBlocks' = (A \ S) \cup R
  <2>1. \A g : g \in AllBlocks' <=> g \in tree_start' \/ \E d \in live' : g = d.blk
    BY DEF AllBlocks
  <2>2. ASSUME NEW g PROVE g \in AllBlocks' <=> g \in (A \ S) \cup R
    <3>1. g \in AllBlocks' <=> g = h \/ g \in rest \/ (g \in tree_start /\ g # b) \/ \E d \in live : g = d.blk
      BY <1>5, <1>6, <2>1
    <3>2. g \in A \ S <=> (g \in tree_start \/ \E d \in live : g = d.blk) /\ g # b
      BY <1>11, <1>12
    <3>3. \A d \in live : d.blk # b
      BY <1>5, <1>9
    <3> QED BY <1>7, <3>1, <3>2, <3>3
  <2> QED BY <2>2
<1>15. Tiling(AllBlocks)'
  <2>1. Tiling(AllBlocks')
    BY <1>13, <1>14
  <2> QED BY <2>1 DEF Tiling
<1>16. \A d \in live : d.blk \notin R
  <2>1. \A d \in live : d.blk \in A \ S
    BY <1>5, <1>9, <1>11, <1>12
  <2> QED BY <1>13, <2>1
<1>17. \A g \in R : g \notin tree_start \ {b}
  <2>1. \A g \in tree_start \ {b} : g \in A \ S
    BY <1>11, <1>12
  <2> QED BY <1>13, <2>1
<1>18. Owned'
  <2>1. c \in Chunks /\ c.blk.start <= c.addr - HDR /\ c.addr + c.size <= End(c.blk)
    <3>1. GoodBlock(h) /\ h.start <= a - HDR /\ a + s <= End(h)
      BY <1>1, <1>2, HeaderShape
    <3>2. a \in HeapBegin .. HeapEnd /\ h \in Blocks
      BY <1>1, <3>1, KHeapAssumption DEF GoodBlock
    <3>3. c \in Chunks
      BY <1>4, <3>2 DEF Chunks
    <3> QED BY <1>6, <3>1, <3>3
  <2>2. c.blk \notin tree_start'
    BY <1>5, <1>6, <1>7, <1>8, <1>17
  <2>3. \A d \in live : d.blk \notin tree_start' /\ d.blk # c.blk
    BY <1>5, <1>6, <1>7, <1>9, <1>16
  <2>4. ASSUME NEW d \in live'
        PROVE  /\ d \in Chunks /\ d.blk \notin tree_start'
               /\ d.blk.start <= d.addr - HDR /\ d.addr + d.size <= End(d.blk)
    BY <1>5, <1>9, <2>1, <2>2, <2>3
  <2>5. ASSUME NEW d \in live', NEW e \in live', d.blk = e.blk PROVE d = e
    BY <1>5, <1>9, <2>3, <2>5
  <2> QED BY <2>4, <2>5 DEF Owned
<1>19. Coalesced'
  <2>1. ASSUME NEW g \in rest
        PROVE  /\ g.start = b.start \/ g.start = a + s
               /\ End(g) = End(b) \/ End(g) = a - 1
               /\ g.start = b.start => End(g) = a - 1
    <3>1. g \in TailSplit(b, a, s) \/ g \in FrontSplit(b, a)
      BY <1>3 DEF Rest
    <3> QED BY <1>1, <3>1, RestShape
  <2>2. ASSUME NEW g \in tree_start, g # b
        PROVE  /\ g.start \in Nat /\ End(g) \in Nat /\ g.start < End(g)
               /\ End(g) < b.start \/ End(b) < g.start
    <3>1. g.start \in Nat /\ End(g) \in Nat /\ g.start < End(g) /\ (End(g) <= b.start \/ End(b) <= g.start)
      BY <1>5, <2>2, FreeBlocks
    <3>2. End(g) # b.start /\ End(b) # g.start
      BY <1>5, <1>9 DEF Coalesced
    <3> QED BY <1>1, <3>1, <3>2
  <2>3. ASSUME NEW g \in tree_start', NEW k \in tree_start' PROVE End(g) # k.start
    <3>1. CASE g \in rest /\ k \in rest
      <4>1. GoodBlock(g) /\ GoodBlock(k)
        BY <1>7, <1>8, <3>1
      <4>2. g.start < End(g) /\ k.start < End(k) /\ g.start \in Nat /\ End(g) \in Nat
        BY <4>1, BlockNumbers
      <4> QED BY <1>1, <2>1, <3>1, <4>2
    <3>2. CASE g \in rest /\ k \notin rest
      <4>1. k \in tree_start /\ k # b
        BY <1>5, <3>2
      <4> QED BY <1>1, <2>1, <2>2, <3>2, <4>1
    <3>3. CASE g \notin rest /\ k \in rest
      <4>1. g \in tree_start /\ g # b
        BY <1>5, <3>3
      <4> QED BY <1>1, <2>1, <2>2, <3>3, <4>1
    <3>4. CASE g \notin rest /\ k \notin rest
      BY <1>5, <1>9, <3>4 DEF Coalesced
    <3> QED BY <3>1, <3>2, <3>3, <3>4
  <2> QED BY <2>3 DEF Coalesced
<1>20. /\ IsFiniteSet(tree_start')
       /\ Cardinality(tree_start') = Cardinality(tree_start) - 1 + Cardinality(rest)
       /\ Cardinality(tree_start) \in Nat /\ 1 <= Cardinality(tree_start)
       /\ Cardinality(rest) \in Nat
  <2>1. IsFiniteSet(rest) /\ Cardinality(rest) \in Nat
    BY <1>1, <1>3, RestShape
  <2>2. Swapped(tree_start, S, rest, tree_start')
    BY <1>5, <1>7, <1>9, <1>12, <1>17, <2>1 DEF Swapped
  <2>3. Cardinality(S) = 1
    BY <1>12, FS_Singleton
  <2>4. /\ IsFiniteSet(tree_start')
        /\ Cardinality(tree_start') = Cardinality(tree_start) - Cardinality(S) + Cardinality(rest)
        /\ Cardinality(tree_start) \in Nat /\ Cardinality(S) <= Cardinality(tree_start)
    BY <2>2, Replaced
  <2> QED BY <2>1, <2>3, <2>4
<1> QED BY <1>3, <1>5, <1>15, <1>18, <1>19, <1>20 DEF Partition

\* kmalloc makes the pages of the chunk usable and its header's page present.
LEMMA MallocPaged ==
  ASSUME Partition, Paged, NEW s \in Sizes, NEW al \in Aligns, NEW b, NEW a, Got(s, al, b, a)
  PROVE  Paged' /\ panic' = panic
<1>1. /\ a \in Nat /\ s \in Nat /\ s > 0 /\ b.start + 1 <= a /\ a + s <= End(b)
      /\ b.start \in Nat /\ End(b) \in Nat /\ HeapBegin <= b.start /\ End(b) <= HeapEnd
  BY GotPlace
<1>2. /\ PageSize \in Nat \ {0} /\ HeapBegin \in Nat /\ HeapEnd \in Nat
      /\ HeapBegin % PageSize = 0 /\ HeapEnd % PageSize = 0
  BY KHeapAssumption
<1>3. PICK low : low = Floor(a - HDR)
  OBVIOUS
<1>4. low \in Nat /\ low % PageSize = 0 /\ low <= a - 1 /\ HeapBegin <= low
  <2>1. PICK x \in Nat : x = a - 1
    BY <1>1
  <2>2. low = Floor(x) /\ HeapBegin <= x
    BY <1>1, <1>2, <1>3, <2>1 DEF HDR
  <2> QED BY <1>2, <2>1, <2>2, FloorIs
<1>5. PICK high : high = get_aligned(a + s, PageSize)
  OBVIOUS
<1>6. high \in Nat /\ a + s <= high /\ high <= HeapEnd
  <2>1. PICK x \in Nat : x = a + s
    BY <1>1
  <2>2. x <= HeapEnd
    BY <1>1, <1>2, <2>1
  <2> QED BY <1>2, <1>5, <2>1, <2>2, AlignedIs
<1>7. \A g : g \in ChunkPages(a, s) <=> g \in low .. high - 1 /\ g % PageSize = 0
  BY <1>3, <1>5 DEF ChunkPages, PagesIn
<1>8. low \in ChunkPages(a, s)
  BY <1>1, <1>4, <1>6, <1>7
<1>9. ChunkPages(a, s) \subseteq HeapPages
  <2>1. \A g : g \in HeapPages <=> g \in HeapBegin .. HeapEnd - 1 /\ g % PageSize = 0
    BY DEF HeapPages, PagesIn
  <2>2. \A g \in low .. high - 1 : g \in HeapBegin .. HeapEnd - 1
    BY <1>2, <1>4, <1>6
  <2> QED BY <1>7, <2>1, <2>2
<1>10. /\ allocable' = allocable \cup ChunkPages(a, s)
       /\ present' = present \cup {low} /\ panic' = panic
  <2>1. allocable' = allocable \cup ChunkPages(a, s) /\ Access(low, allocable')
    BY <1>3 DEF Got
  <2> QED BY <1>8, <2>1 DEF Access
<1>11. PagesIn(Floor(a), a + s) \subseteq ChunkPages(a, s)
  <2>1. Floor(a) \in Nat /\ low <= Floor(a)
    BY <1>1, <1>4, FloorIs
  <2>2. \A g \in PagesIn(Floor(a), a + s) : g \in Floor(a) .. (a + s) - 1 /\ g % PageSize = 0
    BY DEF PagesIn
  <2>3. \A g \in Floor(a) .. (a + s) - 1 : g \in low .. high - 1
    BY <1>1, <1>4, <1>6, <2>1
  <2> QED BY <1>7, <2>2, <2>3
<1>12. ASSUME NEW d \in live'
       PROVE  /\ Floor(d.addr - HDR) \in present'
              /\ PagesIn(Floor(d.addr), d.addr + d.size) \subseteq allocable' \cup present'
  <2>1. CASE d \in live
    BY <1>10, <2>1 DEF Paged, LivePagesUsable
  <2>2. CASE d = [addr |-> a, size |-> s, blk |-> Header(b, a, s)]
    <3>1. d.addr = a /\ d.size = s
      BY <2>2
    <3> QED BY <1>3, <1>10, <1>11, <3>1
  <2> QED BY <2>1, <2>2 DEF Got
<1>13. LivePagesUsable'
  BY <1>12 DEF LivePagesUsable
<1>14. allocable' \subseteq HeapPages /\ present' \subseteq HeapPages
  BY <1>8, <1>9, <1>10 DEF Paged
<1> QED BY <1>10, <1>13, <1>14 DEF Paged, HeapPages, PagesIn

\* kmalloc.
LEMMA MallocStep ==
  ASSUME IInv, NEW s \in Sizes, NEW al \in Aligns, kmalloc(s, al)
  PROVE  IInv'
<1>1. Partition /\ Nodes /\ Paged /\ OnlyExhaustionPanics
  BY DEF IInv
<1>2. CASE Panic("kernel runs out of memory") \/ Panic("run out of kernel heap")
  BY <1>2, PanicStep
<1>3. ASSUME NEW b, NEW a, Got(s, al, b, a) PROVE IInv'
  <2>1. Partition'
    BY <1>1, <1>3, MallocPartition
  <2>2. Nodes'
    <3> DEFINE i == Cardinality(Rest(b, a, s))
    <3>1. PICK e \in Nat : e = 1
      OBVIOUS
    <3>2. /\ i \in Nat /\ Cardinality(tree_start) \in Nat /\ e <= Cardinality(tree_start)
          /\ Cardinality(tree_start') = Cardinality(tree_start) - e + i
      BY <1>1, <1>3, <3>1, MallocPartition
    <3>3. NodesSuffice(e, i) /\ TakeNodes(e, i)
      BY <1>3, <3>1 DEF Got
    <3> HIDE DEF i
    <3> QED BY <1>1, <3>2, <3>3, NodesStep
  <2>3. Paged' /\ panic' = panic
    BY <1>1, <1>3, MallocPaged
  <2>4. OnlyExhaustionPanics'
    BY <1>1, <2>3 DEF OnlyExhaustionPanics
  <2> QED BY <2>1, <2>2, <2>3, <2>4 DEF IInv
<1> QED BY <1>1, <1>2, <1>3, MallocCases

----------------------------------------------------------------------------
(***************************************************************************)
(* The invariant holds.                                                    *)
(***************************************************************************)

\* kheap_init: one free block, the whole heap.
LEMMA InitIInv == Init => IInv
<1> SUFFICES ASSUME Init PROVE IInv
  OBVIOUS
<1>1. HeapBegin \in Nat /\ HeapEnd \in Nat /\ HeapBegin < HeapEnd
      /\ NodeLimit \in Nat /\ NodeLimit > 2
  BY KHeapAssumption
<1>2. PICK w : w = [start |-> HeapBegin, size |-> HeapEnd - HeapBegin]
  OBVIOUS
<1>3. GoodBlock(w) /\ w.start = HeapBegin /\ End(w) = HeapEnd
  BY <1>1, <1>2, NewBlock
<1>4. /\ tree_size = {w} /\ tree_start = {w} /\ live = {} /\ allocable = {} /\ present = {}
      /\ nstatic = 2 /\ nfreed = 0 /\ panic = "none"
  BY <1>2 DEF Init
<1>5. AllBlocks = {w}
  BY <1>4 DEF AllBlocks
<1>6. \A x \in Addresses : In(x, w)
  BY <1>1, <1>3 DEF Addresses, In
<1>7. Tiling(AllBlocks)
  BY <1>3, <1>5, <1>6 DEF Tiling
<1>8. IsFiniteSet(tree_start) /\ Cardinality(tree_start) = 1
  BY <1>4, FS_Singleton
<1>9. Coalesced
  BY <1>1, <1>3, <1>4 DEF Coalesced
<1>10. Owned
  BY <1>4 DEF Owned
<1>11. Partition
  BY <1>4, <1>7, <1>8, <1>9, <1>10 DEF Partition
<1>12. Nodes
  BY <1>1, <1>4, <1>8 DEF Nodes
<1>13. Paged /\ OnlyExhaustionPanics
  BY <1>4 DEF Paged, LivePagesUsable, OnlyExhaustionPanics
<1> QED BY <1>11, <1>12, <1>13 DEF IInv

\* Use of a chunk: it never faults on a page that is not allocable.
LEMMA TouchStep ==
  ASSUME IInv, NEW c \in live, NEW g \in HeapPages, Touch(c, g)
  PROVE  IInv' /\ UNCHANGED live
<1>1. Partition /\ Nodes /\ Paged /\ OnlyExhaustionPanics
  BY DEF IInv
<1>2. g \in allocable \cup present
  BY <1>1 DEF Touch, Paged, LivePagesUsable
<1>3. /\ present' = present \cup {g} /\ panic' = panic
      /\ UNCHANGED <<tree_size, tree_start, live, allocable, nstatic, nfreed>>
  BY <1>2 DEF Touch, Access
<1>4. Partition'
  BY <1>1, <1>3 DEF Partition, Tiling, AllBlocks, Owned, Coalesced
<1>5. Nodes' /\ OnlyExhaustionPanics'
  BY <1>1, <1>3 DEF Nodes, OnlyExhaustionPanics
<1>6. LivePagesUsable'
  BY <1>1, <1>3 DEF Paged, LivePagesUsable
<1>7. allocable' \subseteq HeapPages /\ present' \subseteq HeapPages
  BY <1>1, <1>3 DEF Paged
<1>8. Paged'
  BY <1>6, <1>7 DEF Paged, HeapPages, PagesIn
<1> QED BY <1>3, <1>4, <1>5, <1>8 DEF IInv

\* Every step keeps the invariant.
LEMMA NextIInv == IInv /\ [Next]_vars => IInv'
<1> SUFFICES ASSUME IInv, [Next]_vars PROVE IInv'
  OBVIOUS
<1>1. CASE \E s \in Sizes, al \in Aligns : kmalloc(s, al)
  BY <1>1, MallocStep
<1>2. CASE \E c \in live : kfree(c)
  BY <1>2, FreeStep
<1>3. CASE \E c \in live, g \in HeapPages : Touch(c, g)
  BY <1>3, TouchStep
<1>4. CASE UNCHANGED vars
  BY <1>4 DEF vars, IInv, Partition, Tiling, AllBlocks, Owned, Coalesced, Nodes, Paged,
              LivePagesUsable, HeapPages, PagesIn, OnlyExhaustionPanics
<1> QED BY <1>1, <1>2, <1>3, <1>4 DEF Next

\* The inductive invariant of the heap.
THEOREM Invariance == Spec => []IInv
<1> QED BY InitIInv, NextIInv, PTL DEF Spec

----------------------------------------------------------------------------
(***************************************************************************)
(* The properties.                                                         *)
(***************************************************************************)

\* The invariant bounds the state.
LEMMA Typed == ASSUME IInv PROVE TypeOK
<1>1. Partition /\ Nodes /\ Paged /\ OnlyExhaustionPanics
  BY DEF IInv
<1>2. tree_size \subseteq Blocks /\ tree_start \subseteq Blocks
  <2>1. \A g \in tree_start : GoodBlock(g)
    BY <1>1, FreeBlocks
  <2> QED BY <1>1, <2>1 DEF Partition, GoodBlock
<1>3. \A c \in live : c.addr \in HeapBegin .. HeapEnd /\ c.size \in Sizes /\ c.blk \in Blocks
  BY <1>1 DEF Partition, Owned, Chunks
<1>4. nstatic \in 0 .. NodeLimit - 1 /\ nfreed \in 0 .. NodeLimit
  <2>1. Cardinality(tree_start) \in Nat
    BY <1>1, FS_CardinalityType DEF Partition
  <2> QED BY <1>1, <2>1, KHeapAssumption DEF Nodes
<1> QED BY <1>1, <1>2, <1>3, <1>4 DEF TypeOK, Paged, OnlyExhaustionPanics

\* Every address of the heap belongs to one block.
LEMMA OneBlock ==
  ASSUME Partition, NEW x \in HeapBegin .. HeapEnd - 1
  PROVE  Cardinality({b \in tree_start : b.start <= x /\ x < End(b)})
           + Cardinality({c \in live : c.blk.start <= x /\ x < End(c.blk)}) = 1
<1>1. PICK B : B = {b \in tree_start : b.start <= x /\ x < End(b)}
  OBVIOUS
<1>2. PICK C : C = {c \in live : c.blk.start <= x /\ x < End(c.blk)}
  OBVIOUS
<1>3. /\ \A b : b \in B <=> b \in tree_start /\ In(x, b)
      /\ \A c : c \in C <=> c \in live /\ In(x, c.blk)
  BY <1>1, <1>2 DEF In
<1>4. /\ \A b \in tree_start : b \in AllBlocks
      /\ \A c \in live : c.blk \in AllBlocks
      /\ \A b \in AllBlocks : b \in tree_start \/ \E c \in live : b = c.blk
  BY DEF AllBlocks
<1>5. /\ \E b \in AllBlocks : In(x, b)
      /\ \A b, c \in AllBlocks : In(x, b) /\ In(x, c) => b = c
  BY DEF Partition, Tiling, Addresses
<1>6. /\ \A c \in live : c.blk \notin tree_start
      /\ \A c, d \in live : c.blk = d.blk => c = d
  BY DEF Partition, Owned
<1>7. PICK b \in AllBlocks : In(x, b)
  BY <1>5
<1>8. CASE b \in tree_start
  <2>1. B = {b} /\ C = {}
    BY <1>3, <1>4, <1>5, <1>6, <1>7, <1>8
  <2>2. Cardinality(B) = 1 /\ Cardinality(C) = 0
    BY <2>1, FS_Singleton, FS_EmptySet
  <2> QED BY <1>1, <1>2, <2>2
<1>9. CASE b \notin tree_start
  <2>1. PICK c \in live : b = c.blk
    BY <1>4, <1>7, <1>9
  <2>2. B = {} /\ C = {c}
    BY <1>3, <1>4, <1>5, <1>6, <1>7, <1>9, <2>1
  <2>3. Cardinality(B) = 0 /\ Cardinality(C) = 1
    BY <2>2, FS_Singleton, FS_EmptySet
  <2> QED BY <1>1, <1>2, <2>3
<1> QED BY <1>8, <1>9

\* After any sequence of splits and merges in kmalloc and kfree the free
\* blocks and the chunks' blocks tile the heap.
THEOREM HeapStaysTiled == Spec => []Tiled
<1>1. IInv => Tiled
  <2> SUFFICES ASSUME IInv PROVE Tiled
    OBVIOUS
  <2>1. Partition
    BY DEF IInv
  <2>2. TypeOK
    BY Typed
  <2>3. tree_size = tree_start
        /\ \A c \in live : c.blk.start <= c.addr - HDR /\ c.addr + c.size <= End(c.blk)
    BY <2>1 DEF Partition, Owned
  <2> QED BY <2>1, <2>2, <2>3, OneBlock DEF Tiled
<1> QED BY <1>1, Invariance, PTL

\* kfree merges a block with both free neighbours, and kmalloc's splits are
\* never adjacent: no two free blocks touch.
THEOREM FreeBlocksCoalesce == Spec => []Coalesced
<1>1. IInv => Coalesced
  BY DEF IInv, Partition
<1> QED BY <1>1, Invariance, PTL

\* No kfree takes a page from under a chunk in use or from under its header.
THEOREM PagesStayUsable == Spec => []LivePagesUsable
<1>1. IInv => LivePagesUsable
  BY DEF IInv, Paged
<1> QED BY <1>1, Invariance, PTL

\* Tree_mm loses no node and the list of freed nodes stays in its array.
THEOREM ConservesNodes == Spec => []NodesConserved
<1>1. IInv => NodesConserved
  <2> SUFFICES ASSUME IInv PROVE NodesConserved
    OBVIOUS
  <2>1. tree_size = tree_start /\ Cardinality(tree_start) \in Nat
    BY FS_CardinalityType DEF IInv, Partition
  <2>2. /\ nstatic \in Nat /\ nfreed \in Nat /\ nstatic <= NodeLimit - 1
        /\ nstatic = 2 * Cardinality(tree_start) + nfreed
    BY DEF IInv, Nodes
  <2> QED BY <2>1, <2>2, KHeapAssumption DEF NodesConserved
<1> QED BY <1>1, Invariance, PTL

\* kfree's checks never reject a chunk of kmalloc, and no access to one is a
\* fatal page fault.
THEOREM PanicsOnlyWhenExhausted == Spec => []OnlyExhaustionPanics
<1>1. IInv => OnlyExhaustionPanics
  BY DEF IInv
<1> QED BY <1>1, Invariance, PTL

\* Two chunks are told apart by their addresses.
LEMMA ChunksApart ==
  ASSUME Partition, NEW c \in live, NEW d \in live, c # d
  PROVE  [addr |-> c.addr, size |-> c.size] # [addr |-> d.addr, size |-> d.size]
<1>1. /\ c.blk.start \in Nat /\ End(c.blk) \in Nat /\ d.blk.start \in Nat /\ End(d.blk) \in Nat
      /\ End(d.blk) <= c.blk.start \/ End(c.blk) <= d.blk.start
  BY ChunkBlocks
<1>2. /\ c.blk.start <= c.addr - 1 /\ c.addr + c.size <= End(c.blk) /\ c.addr \in HeapBegin .. HeapEnd
      /\ d.blk.start <= d.addr - 1 /\ d.addr + d.size <= End(d.blk) /\ d.addr \in HeapBegin .. HeapEnd
      /\ c.size \in Sizes /\ d.size \in Sizes
  BY DEF Partition, Owned, Chunks, HDR
<1>3. c.size \in Nat \ {0} /\ d.size \in Nat \ {0}
  BY <1>2, KHeapAssumption
<1>4. c.addr \in Nat /\ d.addr \in Nat
  BY <1>2, KHeapAssumption
<1>5. c.addr # d.addr
  BY <1>1, <1>2, <1>3, <1>4
<1> QED BY <1>5

\* kmalloc hands out a chunk of the requested size and alignment that
\* overlaps no other.
LEMMA MallocRefines ==
  ASSUME Partition, NEW s \in Sizes, NEW al \in Aligns, NEW b, NEW a, Got(s, al, b, a)
  PROVE  Abstract!Malloc
<1>1. /\ a % al = 0 /\ a \in Nat /\ s \in Nat /\ s > 0 /\ b.start + 1 <= a /\ a + s <= End(b)
      /\ b.start \in Nat /\ End(b) \in Nat /\ HeapBegin <= b.start /\ End(b) <= HeapEnd
  BY GotPlace
<1>2. b \in tree_start
  BY DEF Got
<1>3. PICK n : n = [addr |-> a, size |-> s]
  OBVIOUS
<1>4. n.addr = a /\ n.size = s
  BY <1>3
<1>5. Handed' = Handed \cup {n}
  <2>1. PICK c : c = [addr |-> a, size |-> s, blk |-> Header(b, a, s)]
    OBVIOUS
  <2>2. live' = live \cup {c} /\ [addr |-> c.addr, size |-> c.size] = n
    BY <1>3, <2>1 DEF Got
  <2> QED BY <2>2 DEF Handed
<1>6. ASSUME NEW d \in Handed PROVE Abstract!Apart(n, d)
  <2>1. PICK c \in live : d = [addr |-> c.addr, size |-> c.size]
    BY DEF Handed
  <2>2. /\ c.blk.start \in Nat /\ End(c.blk) \in Nat
        /\ End(b) <= c.blk.start \/ End(c.blk) <= b.start
    BY <1>2, ChunkBlocks
  <2>3. c.blk.start <= c.addr - 1 /\ c.addr + c.size <= End(c.blk) /\ c.addr \in HeapBegin .. HeapEnd
        /\ c.size \in Sizes
    BY DEF Partition, Owned, Chunks, HDR
  <2>4. c.size \in Nat \ {0}
    BY <2>3, KHeapAssumption
  <2>5. c.addr \in Nat
    BY <2>3, KHeapAssumption
  <2>6. d.addr = c.addr /\ d.size = c.size
    BY <2>1
  <2> QED BY <1>1, <1>4, <2>2, <2>3, <2>4, <2>5, <2>6 DEF Abstract!Apart
<1>7. a \in HeapBegin .. HeapEnd /\ a + s <= HeapEnd
  BY <1>1, KHeapAssumption
<1> QED BY <1>1, <1>3, <1>5, <1>6, <1>7 DEF Abstract!Malloc

\* kfree gives back exactly one chunk.
LEMMA FreeRefines ==
  ASSUME Partition, NEW c \in live, Freed(c)
  PROVE  Abstract!Free
<1>1. PICK n : n = [addr |-> c.addr, size |-> c.size]
  OBVIOUS
<1>2. n \in Handed
  BY <1>1 DEF Handed
<1>3. live' = live \ {c}
  BY DEF Freed
<1>4. \A d \in live : d # c => [addr |-> d.addr, size |-> d.size] # n
  BY <1>1, ChunksApart
<1>5. Handed' = Handed \ {n}
  BY <1>1, <1>3, <1>4 DEF Handed
<1> QED BY <1>2, <1>5 DEF Abstract!Free

\* kmalloc and kfree implement a plain allocator.
THEOREM HeapRefines == Spec => ImplementsAllocator
<1>1. Init => Handed = {}
  BY DEF Init, Handed
<1>2. IInv /\ [Next]_vars => [Abstract!Malloc \/ Abstract!Free]_Handed
  <2> SUFFICES ASSUME IInv, [Next]_vars
               PROVE  Abstract!Malloc \/ Abstract!Free \/ UNCHANGED Handed
    OBVIOUS
  <2>1. Partition
    BY DEF IInv
  <2>2. ASSUME UNCHANGED live PROVE UNCHANGED Handed
    BY <2>2 DEF Handed
  <2>3. ASSUME NEW s \in Sizes, NEW al \in Aligns, kmalloc(s, al)
        PROVE  Abstract!Malloc \/ UNCHANGED Handed
    <3>1. CASE \E b, a : Got(s, al, b, a)
      BY <2>1, <3>1, MallocRefines
    <3>2. CASE Panic("kernel runs out of memory") \/ Panic("run out of kernel heap")
      <4>1. UNCHANGED live
        BY <3>2 DEF Panic
      <4> QED BY <2>2, <4>1
    <3> QED BY <2>1, <2>3, <3>1, <3>2, MallocCases
  <2>4. ASSUME NEW c \in live, kfree(c) PROVE Abstract!Free \/ UNCHANGED Handed
    <3>1. CASE Freed(c)
      BY <2>1, <3>1, FreeRefines
    <3>2. CASE Panic("run out of kernel heap")
      <4>1. UNCHANGED live
        BY <3>2 DEF Panic
      <4> QED BY <2>2, <4>1
    <3> QED BY <2>1, <2>4, <3>1, <3>2, FreeCases
  <2>5. ASSUME NEW c \in live, NEW g \in HeapPages, Touch(c, g) PROVE UNCHANGED Handed
    BY <2>2, <2>5, TouchStep
  <2>6. CASE UNCHANGED vars
    BY <2>2, <2>6 DEF vars
  <2> QED BY <2>3, <2>4, <2>5, <2>6 DEF Next
<1> QED BY <1>1, <1>2, Invariance, PTL DEF Spec, ImplementsAllocator, Abstract!ASpec
=============================================================================
