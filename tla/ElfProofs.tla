------------------------------ MODULE ElfProofs ------------------------------
(***************************************************************************)
(* Theorems about Elf, for any program headers, page size and layout of    *)
(* the user's memory: load_elf gives the program exactly the pages of its  *)
(* segments, their space behind the file bytes reads as zeros, and the     *)
(* file bytes are in place where nothing later shares their page.          *)
(*                                                                         *)
(* The argument is about one segment: the pages it touches are the pages   *)
(* it lies in, and it leaves every other page alone.                       *)
(***************************************************************************)
EXTENDS Elf, TLAPS

----------------------------------------------------------------------------
(***************************************************************************)
(* Pages.                                                                  *)
(***************************************************************************)

\* A byte and the page it is in.
LEMMA PageIs ==
  ASSUME NEW x \in Nat
  PROVE  /\ PageOf(x) \in Nat /\ Floor(x) \in Nat /\ Floor(x) = PageOf(x) * PageSize
         /\ Floor(x) <= x /\ x < Floor(x) + PageSize
<1>1. PageSize \in Nat \ {0}
  BY ElfAssumption
<1> DEFINE q == x \div PageSize
<1>2. q \in Nat /\ x = PageSize * q + (x % PageSize) /\ x % PageSize \in 0 .. PageSize - 1
  BY <1>1
<1>3. PageOf(x) = q /\ Floor(x) = q * PageSize
  BY DEF PageOf, Floor
<1> HIDE DEF q
<1>4. q * PageSize \in Nat /\ q * PageSize <= x /\ x < q * PageSize + PageSize
  BY <1>1, <1>2
<1> QED BY <1>2, <1>3, <1>4

\* A page holds PageSize bytes, from a multiple of PageSize on.
LEMMA InPage ==
  ASSUME NEW q \in Nat, NEW x \in Nat, q * PageSize <= x, x < q * PageSize + PageSize
  PROVE  PageOf(x) = q
<1>1. PageSize \in Nat /\ PageSize > 0
  BY ElfAssumption
<1>2. PICK p : p = PageOf(x)
  OBVIOUS
<1>3. p \in Nat /\ p * PageSize <= x /\ x < p * PageSize + PageSize
  BY <1>2, PageIs
<1>4. ~(p < q)
  <2> SUFFICES ASSUME p < q PROVE FALSE
    OBVIOUS
  <2>1. p * PageSize + PageSize <= q * PageSize
    BY <1>1, <1>3
  <2>2. p * PageSize \in Nat /\ q * PageSize \in Nat
    BY <1>1, <1>3
  <2> QED BY <1>1, <1>3, <2>1, <2>2
<1>5. ~(q < p)
  <2> SUFFICES ASSUME q < p PROVE FALSE
    OBVIOUS
  <2>1. q * PageSize + PageSize <= p * PageSize
    BY <1>1, <1>3
  <2>2. p * PageSize \in Nat /\ q * PageSize \in Nat
    BY <1>1, <1>3
  <2> QED BY <1>1, <1>3, <2>1, <2>2
<1> QED BY <1>2, <1>3, <1>4, <1>5

\* get_aligned rounds up to the beginning of a page.
LEMMA AlignedIs ==
  ASSUME NEW a \in Nat
  PROVE  /\ get_aligned(a) \in Nat /\ a <= get_aligned(a)
         /\ a # get_aligned(a) => get_aligned(a) = Floor(a) + PageSize
         /\ \E q \in Nat : get_aligned(a) = q * PageSize
<1>1. PageSize \in Nat /\ PageSize > 0
  BY ElfAssumption
<1>2. CASE a = 0
  <2>1. get_aligned(a) = 0 /\ 0 = 0 * PageSize
    BY <1>1, <1>2 DEF get_aligned
  <2> QED BY <1>2, <2>1
<1>3. CASE a # 0
  <2>1. PICK y \in Nat : y = a - 1
    BY <1>3
  <2>2. PICK q : q = PageOf(y)
    OBVIOUS
  <2>3. q \in Nat /\ q * PageSize <= y /\ y < q * PageSize + PageSize
    BY <2>2, PageIs
  <2>4. get_aligned(a) = (q + 1) * PageSize
    BY <1>3, <2>1, <2>2 DEF get_aligned, PageOf
  <2>5. q * PageSize \in Nat /\ (q + 1) * PageSize = q * PageSize + PageSize
    BY <1>1, <2>3
  <2>6. a <= get_aligned(a) /\ get_aligned(a) \in Nat
    BY <1>1, <2>1, <2>3, <2>4, <2>5
  <2>7. ASSUME a # get_aligned(a) PROVE get_aligned(a) = Floor(a) + PageSize
    <3>1. q * PageSize <= a /\ a < q * PageSize + PageSize
      BY <1>1, <2>1, <2>3, <2>4, <2>5, <2>7
    <3>2. PageOf(a) = q
      BY <2>3, <3>1, InPage
    <3> QED BY <2>4, <2>5, <3>2, PageIs
  <2>8. q + 1 \in Nat
    BY <2>3
  <2> QED BY <2>4, <2>6, <2>7, <2>8
<1> QED BY <1>2, <1>3

\* A page's beginning separates the pages before it from those behind it.
LEMMA Boundary ==
  ASSUME NEW a \in Nat, NEW x \in Nat, NEW y \in Nat, x < get_aligned(a), get_aligned(a) <= y
  PROVE  PageOf(x) # PageOf(y)
<1>1. PageSize \in Nat /\ PageSize > 0
  BY ElfAssumption
<1>2. PICK q \in Nat : get_aligned(a) = q * PageSize
  BY AlignedIs
<1> SUFFICES ASSUME PageOf(x) = PageOf(y) PROVE FALSE
  OBVIOUS
<1>3. PICK p : p = PageOf(x)
  OBVIOUS
<1>4. p \in Nat /\ p * PageSize <= x /\ x < p * PageSize + PageSize /\ y < p * PageSize + PageSize
  BY <1>3, PageIs
<1>5. p * PageSize < q * PageSize /\ q * PageSize < p * PageSize + PageSize
  <2>1. p * PageSize \in Nat /\ q * PageSize \in Nat
    BY <1>1, <1>2, <1>4
  <2> QED BY <1>1, <1>2, <1>4, <2>1
<1>6. p < q => p * PageSize + PageSize <= q * PageSize
  BY <1>1, <1>4
<1>7. q <= p => q * PageSize <= p * PageSize
  BY <1>1, <1>4
<1>8. p * PageSize \in Nat /\ q * PageSize \in Nat
  BY <1>1, <1>4
<1> QED BY <1>1, <1>4, <1>5, <1>6, <1>7, <1>8

\* Bytes in front of the next boundary are in the page of a, and bytes from
\* the last boundary on in the page of b.
LEMMA HeadPage ==
  ASSUME NEW a \in Nat, NEW x \in Nat, a <= x, x < get_aligned(a)
  PROVE  PageOf(x) = PageOf(a)
<1>1. PageSize \in Nat /\ PageSize > 0
  BY ElfAssumption
<1>2. get_aligned(a) = Floor(a) + PageSize
  BY AlignedIs
<1>3. PICK q : q = PageOf(a)
  OBVIOUS
<1>4. q \in Nat /\ Floor(a) = q * PageSize /\ Floor(a) <= a /\ Floor(a) \in Nat
  BY <1>3, PageIs
<1>5. q * PageSize <= x /\ x < q * PageSize + PageSize
  BY <1>1, <1>2, <1>4
<1> QED BY <1>3, <1>4, <1>5, InPage

\* See HeadPage.
LEMMA TailPage ==
  ASSUME NEW b \in Nat, NEW x \in Nat, Floor(b) <= x, x < b
  PROVE  PageOf(x) = PageOf(b) /\ PageOf(Floor(b)) = PageOf(b) /\ Floor(b) # b
<1>1. PageSize \in Nat /\ PageSize > 0
  BY ElfAssumption
<1>2. PICK q : q = PageOf(b)
  OBVIOUS
<1>3. q \in Nat /\ Floor(b) = q * PageSize /\ b < Floor(b) + PageSize /\ Floor(b) \in Nat
  BY <1>2, PageIs
<1>4. q * PageSize <= x /\ x < q * PageSize + PageSize
  BY <1>1, <1>3
<1>5. PageOf(x) = q
  BY <1>3, <1>4, InPage
<1>6. PICK f \in Nat : f = Floor(b)
  BY <1>3
<1>7. q * PageSize <= f /\ f < q * PageSize + PageSize
  BY <1>1, <1>3, <1>6
<1>8. PageOf(f) = q
  BY <1>3, <1>6, <1>7, InPage
<1> QED BY <1>2, <1>3, <1>5, <1>6, <1>8

\* The pages of an interval: the one it begins in, the one it ends in, and
\* those between, as alloc_interval and lazy_alloc_interval take them.
LEMMA Cover ==
  ASSUME NEW a \in Nat, NEW b \in Nat, a < b
  PROVE  PagesOf(a, b) = (IF a # get_aligned(a) THEN {PageOf(a)} ELSE {})
                         \cup (IF Floor(b) # b THEN {PageOf(Floor(b))} ELSE {})
                         \cup PagesOf(get_aligned(a), Floor(b))
<1>1. get_aligned(a) \in Nat /\ a <= get_aligned(a) /\ Floor(b) \in Nat /\ Floor(b) <= b
  BY AlignedIs, PageIs
<1>2. PICK g \in Nat : g = get_aligned(a)
  BY <1>1
<1>3. PICK f \in Nat : f = Floor(b)
  BY <1>1
<1>4. /\ \A p : p \in PagesOf(a, b) <=> \E x \in a .. b - 1 : p = PageOf(x)
      /\ \A p : p \in PagesOf(g, f) <=> \E x \in g .. f - 1 : p = PageOf(x)
  BY DEF PagesOf
<1>5. ASSUME NEW x \in a .. b - 1
      PROVE  \/ a # g /\ PageOf(x) = PageOf(a)
             \/ f # b /\ PageOf(x) = PageOf(f)
             \/ x \in g .. f - 1
  <2>1. x \in Nat /\ a <= x /\ x < b
    OBVIOUS
  <2>2. CASE x < g
    BY <1>2, <2>1, <2>2, HeadPage
  <2>3. CASE f <= x
    BY <1>3, <2>1, <2>3, TailPage
  <2> QED BY <1>2, <1>3, <2>1, <2>2, <2>3
<1>6. PageOf(a) \in PagesOf(a, b)
  BY <1>4
<1>7. f # b => PageOf(f) \in PagesOf(a, b)
  <2> SUFFICES ASSUME f # b PROVE PageOf(f) \in PagesOf(a, b)
    OBVIOUS
  <2>1. PICK x \in Nat : x = b - 1
    OBVIOUS
  <2>2. Floor(b) <= x /\ x < b
    BY <1>1, <1>3, <2>1
  <2>3. PageOf(x) = PageOf(f)
    BY <1>3, <2>2, TailPage
  <2>4. x \in a .. b - 1
    BY <2>1
  <2> QED BY <1>4, <2>3, <2>4
<1>8. \A x \in g .. f - 1 : x \in a .. b - 1
  BY <1>1, <1>2, <1>3
<1>9. ASSUME NEW p
      PROVE  p \in PagesOf(a, b) <=> \/ a # g /\ p = PageOf(a)
                                     \/ f # b /\ p = PageOf(f)
                                     \/ p \in PagesOf(g, f)
  BY <1>4, <1>5, <1>6, <1>7, <1>8
<1> QED BY <1>2, <1>3, <1>9

----------------------------------------------------------------------------
(***************************************************************************)
(* One segment.                                                            *)
(***************************************************************************)

\* A program header that is loaded.
Good(h) == h \in Phdrs /\ h.memsz # 0 /\ End(h) <= USER_MEM_HIGH

Pages(h) == PagesOf(h.vaddr, End(h))

Bss(h) == Start(h) < End(h)

\* Pages that get a frame at once.
Now(h) == FilePages(h) \cup (IF Bss(h) THEN HeadPages(h) \cup TailPages(h) ELSE {})

\* The numbers of a program header.
LEMMA Numbers ==
  ASSUME NEW h, Good(h)
  PROVE  /\ h.vaddr \in Nat /\ h.filesz \in Nat /\ h.memsz \in Nat /\ h.offset \in Nat
         /\ FileBytes(h) \in Nat /\ Start(h) \in Nat /\ End(h) \in Nat
         /\ Start(h) = h.vaddr + FileBytes(h)
         /\ h.vaddr <= Start(h) /\ Start(h) <= End(h) /\ h.vaddr < End(h)
         /\ End(h) <= USER_MEM_HIGH
         /\ h.filesz = 0 => FileBytes(h) = 0 /\ Start(h) = h.vaddr
         /\ \A x \in Nat : x < End(h) => x \in Addrs
<1>1. h.vaddr \in Vaddrs /\ h.filesz \in Filesz /\ h.memsz \in Memsz /\ h.offset \in Offsets
      /\ h.memsz # 0 /\ End(h) <= USER_MEM_HIGH
  BY DEF Good, Phdrs
<1>2. Vaddrs \subseteq Nat /\ Filesz \subseteq Nat /\ Memsz \subseteq Nat /\ Offsets \subseteq Nat
  BY ElfAssumption
<1>3. h.vaddr \in Nat /\ h.filesz \in Nat /\ h.memsz \in Nat /\ h.offset \in Nat
  BY <1>1, <1>2
<1>4. FileBytes(h) \in Nat /\ FileBytes(h) <= h.memsz /\ (h.filesz = 0 => FileBytes(h) = 0)
  BY <1>3 DEF FileBytes
<1>5. Start(h) = h.vaddr + FileBytes(h) /\ End(h) = h.vaddr + h.memsz
  BY DEF Start, End
<1>6. PageSize \in Nat /\ USER_MEM_HIGH \in Nat
  BY ElfAssumption
<1>7. \A x \in Nat : x < End(h) => x \in Addrs
  BY <1>1, <1>3, <1>5, <1>6 DEF Addrs
<1> QED BY <1>1, <1>3, <1>4, <1>5, <1>7

\* Whatever the alignment of its ends, a segment takes the pages it lies in.
LEMMA SegmentPages ==
  ASSUME NEW h, Good(h)
  PROVE  /\ Now(h) \cup (IF Bss(h) THEN LazyPages(h) ELSE {}) = Pages(h)
         /\ Bss(h) => HeadPages(h) \cup TailPages(h) \cup LazyPages(h) = PagesOf(Start(h), End(h))
         /\ PagesOf(Start(h), End(h)) \subseteq Pages(h)
         /\ h.filesz # 0 => FilePages(h) = Pages(h)
<1>1. /\ h.vaddr \in Nat /\ Start(h) \in Nat /\ End(h) \in Nat
      /\ h.vaddr <= Start(h) /\ Start(h) <= End(h) /\ h.vaddr < End(h)
      /\ h.filesz = 0 => Start(h) = h.vaddr
  BY Numbers
<1>2. Bss(h) => HeadPages(h) \cup TailPages(h) \cup LazyPages(h) = PagesOf(Start(h), End(h))
  <2> SUFFICES ASSUME Bss(h) PROVE HeadPages(h) \cup TailPages(h) \cup LazyPages(h) = PagesOf(Start(h), End(h))
    OBVIOUS
  <2>1. PICK a \in Nat : a = Start(h)
    BY <1>1
  <2>2. PICK b \in Nat : b = End(h)
    BY <1>1
  <2>3. a < b
    BY <2>1, <2>2 DEF Bss
  <2>4. PagesOf(a, b) = (IF a # get_aligned(a) THEN {PageOf(a)} ELSE {})
                         \cup (IF Floor(b) # b THEN {PageOf(Floor(b))} ELSE {})
                         \cup PagesOf(get_aligned(a), Floor(b))
    BY <2>3, Cover
  <2> QED BY <2>1, <2>2, <2>4 DEF HeadPages, TailPages, LazyPages
<1>3. PagesOf(Start(h), End(h)) \subseteq Pages(h)
  <2>1. \A x \in Start(h) .. End(h) - 1 : x \in h.vaddr .. End(h) - 1
    BY <1>1
  <2> QED BY <2>1 DEF PagesOf, Pages
<1>4. h.filesz # 0 => FilePages(h) = Pages(h)
  BY DEF FilePages, Pages, End
<1>5. h.filesz = 0 => FilePages(h) = {} /\ Bss(h) /\ PagesOf(Start(h), End(h)) = Pages(h)
  BY <1>1 DEF FilePages, Bss, Pages
<1>6. Now(h) \cup (IF Bss(h) THEN LazyPages(h) ELSE {}) = Pages(h)
  <2>1. CASE h.filesz # 0
    BY <1>2, <1>3, <1>4, <2>1 DEF Now
  <2>2. CASE h.filesz = 0
    BY <1>2, <1>5, <2>2 DEF Now
  <2> QED BY <2>1, <2>2
<1> QED BY <1>2, <1>3, <1>4, <1>6

\* What loading a segment does to a byte.
LEMMA SegmentBytes ==
  ASSUME NEW h, Good(h), NEW o, LoadSegment(h, o)
  PROVE  /\ present' = present \cup Now(h)
         /\ lazy' = (lazy \cup (IF Bss(h) THEN LazyPages(h) ELSE {})) \ present'
         /\ \A x \in Addrs :
              mem'[x] = IF Bss(h) /\ (x \in Cleared(h) \/ PageOf(x) \in BssPages(h)) THEN 0
                        ELSE IF x \in InFile(h) THEN o + (x - h.vaddr) + 1
                        ELSE IF PageOf(x) \in Now(h) \ present THEN Junk
                        ELSE mem[x]
<1>1. /\ present' = present \cup Now(h)
      /\ lazy' = (IF Bss(h) THEN lazy \cup LazyPages(h) ELSE lazy) \ present'
      /\ mem' = IF Bss(h)
                THEN [x \in Addrs |-> IF x \in Cleared(h) \/ PageOf(x) \in BssPages(h)
                                      THEN 0 ELSE Copied(h, o, FileBytes(h), Now(h))[x]]
                ELSE Copied(h, o, FileBytes(h), Now(h))
  BY DEF LoadSegment, Now, Bss
<1>2. \A x \in Addrs : Copied(h, o, FileBytes(h), Now(h))[x] =
        IF x \in InFile(h) THEN o + (x - h.vaddr) + 1
        ELSE IF PageOf(x) \in Now(h) \ present THEN Junk ELSE mem[x]
  BY DEF Copied, Fresh, InFile
<1>3. lazy' = (lazy \cup (IF Bss(h) THEN LazyPages(h) ELSE {})) \ present'
  BY <1>1
<1>4. ASSUME NEW x \in Addrs
      PROVE mem'[x] = IF Bss(h) /\ (x \in Cleared(h) \/ PageOf(x) \in BssPages(h)) THEN 0
                      ELSE Copied(h, o, FileBytes(h), Now(h))[x]
  BY <1>1
<1> QED BY <1>1, <1>2, <1>3, <1>4

\* Bytes that are cleared or copied lie in the segment's pages.
LEMMA TouchedPages ==
  ASSUME NEW h, Good(h), NEW x \in Nat
  PROVE  /\ Bss(h) /\ x \in Cleared(h) => PageOf(x) \in Pages(h)
         /\ Bss(h) /\ PageOf(x) \in BssPages(h) => PageOf(x) \in Pages(h)
         /\ x \in InFile(h) => PageOf(x) \in Pages(h)
<1>1. /\ h.vaddr \in Nat /\ Start(h) \in Nat /\ End(h) \in Nat /\ FileBytes(h) \in Nat
      /\ Start(h) = h.vaddr + FileBytes(h)
      /\ h.vaddr <= Start(h) /\ Start(h) <= End(h) /\ h.vaddr < End(h)
  BY Numbers
<1>2. \A y \in Nat : h.vaddr <= y /\ y < End(h) => PageOf(y) \in Pages(h)
  BY <1>1 DEF Pages, PagesOf
<1>3. ASSUME Bss(h), x \in Cleared(h) PROVE PageOf(x) \in Pages(h)
  <2>1. PICK a \in Nat : a = Start(h)
    BY <1>1
  <2>2. PICK b \in Nat : b = End(h)
    BY <1>1
  <2>3. a < b /\ ((a <= x /\ x < get_aligned(a)) \/ (Floor(b) <= x /\ x < b))
    BY <1>3, <2>1, <2>2 DEF Bss, Cleared
  <2>4. CASE a <= x /\ x < get_aligned(a)
    <3>1. PageOf(x) = PageOf(a)
      BY <2>4, HeadPage
    <3> QED BY <1>1, <1>2, <2>1, <2>2, <2>3, <3>1
  <2>5. CASE Floor(b) <= x /\ x < b
    <3>1. PICK y \in Nat : y = b - 1
      BY <2>3
    <3>2. Floor(b) <= y /\ y < b
      BY <2>5, <3>1, PageIs
    <3>3. PageOf(x) = PageOf(y)
      BY <2>5, <3>2, TailPage
    <3> QED BY <1>1, <1>2, <2>1, <2>2, <2>3, <3>1, <3>3
  <2> QED BY <2>3, <2>4, <2>5
<1>4. ASSUME Bss(h), PageOf(x) \in BssPages(h) PROVE PageOf(x) \in Pages(h)
  BY <1>4, SegmentPages DEF BssPages
<1>5. ASSUME x \in InFile(h) PROVE PageOf(x) \in Pages(h)
  BY <1>1, <1>2, <1>5 DEF InFile
<1> QED BY <1>3, <1>4, <1>5

\* Loading a segment leaves every page alone that it does not lie in.
LEMMA Untouched ==
  ASSUME NEW h, Good(h), NEW o, LoadSegment(h, o),
         NEW x \in Nat, x \in Addrs, PageOf(x) \notin Pages(h)
  PROVE  Byte(x)' = Byte(x)
<1>1. PageOf(x) \notin Now(h)
  BY SegmentPages
<1>2. PageOf(x) \in present' <=> PageOf(x) \in present
  BY <1>1, SegmentBytes
<1>3. ~(Bss(h) /\ (x \in Cleared(h) \/ PageOf(x) \in BssPages(h))) /\ x \notin InFile(h)
  BY TouchedPages
<1>4. mem'[x] = mem[x]
  BY <1>1, <1>3, SegmentBytes
<1> QED BY <1>2, <1>4 DEF Byte, PageOf

\* The space behind the file bytes: three ways of clearing leave no gap.
LEMMA SpaceCleared ==
  ASSUME NEW h, Good(h), NEW o, LoadSegment(h, o), NEW x \in Start(h) .. End(h) - 1
  PROVE  Byte(x)' = 0
<1>1. /\ Start(h) \in Nat /\ End(h) \in Nat /\ \A y \in Nat : y < End(h) => y \in Addrs
  BY Numbers
<1>2. x \in Nat /\ Start(h) <= x /\ x < End(h) /\ x \in Addrs /\ Bss(h)
  BY <1>1 DEF Bss
<1>3. ASSUME PageOf(x) \in present' PROVE mem'[x] = 0
  <2>1. get_aligned(Start(h)) \in Nat /\ Floor(End(h)) \in Nat
    BY <1>1, AlignedIs, PageIs
  <2>2. CASE x < get_aligned(Start(h)) \/ Floor(End(h)) <= x
    <3>1. x \in Cleared(h)
      BY <1>2, <2>2 DEF Cleared
    <3> QED BY <1>2, <3>1, SegmentBytes
  <2>3. CASE get_aligned(Start(h)) <= x /\ x < Floor(End(h))
    <3>1. PageOf(x) \in LazyPages(h)
      BY <1>2, <2>1, <2>3 DEF LazyPages, PagesOf
    <3>2. PageOf(x) \in present \/ PageOf(x) \in Now(h)
      BY <1>3, SegmentBytes
    <3>3. PageOf(x) \in BssPages(h)
      BY <1>2, <3>1, <3>2 DEF BssPages, Now
    <3> QED BY <1>2, <3>3, SegmentBytes
  <2> QED BY <1>2, <2>1, <2>2, <2>3
<1> QED BY <1>3 DEF Byte, PageOf

\* The file bytes, unless the space behind them ends in their page.
LEMMA FileBytesPlaced ==
  ASSUME NEW h, Good(h), NEW o, LoadSegment(h, o), NEW x \in InFile(h),
         Bss(h) => PageOf(x) \notin TailPages(h)
  PROVE  Byte(x)' = o + (x - h.vaddr) + 1
<1>1. /\ h.vaddr \in Nat /\ FileBytes(h) \in Nat /\ Start(h) \in Nat /\ End(h) \in Nat
      /\ Start(h) = h.vaddr + FileBytes(h) /\ Start(h) <= End(h)
      /\ \A y \in Nat : y < End(h) => y \in Addrs
      /\ h.filesz = 0 => FileBytes(h) = 0
  BY Numbers
<1>2. x \in h.vaddr .. (h.vaddr + FileBytes(h)) - 1
  BY <1>1 DEF InFile
<1>3. x \in Nat /\ h.vaddr <= x /\ x < Start(h) /\ x < End(h) /\ x \in Addrs /\ h.filesz # 0
  BY <1>1, <1>2
<1>4. PageOf(x) \in present'
  <2>1. PageOf(x) \in Pages(h)
    BY <1>3, TouchedPages
  <2>2. PageOf(x) \in FilePages(h)
    BY <1>3, <2>1, SegmentPages
  <2> QED BY <2>2, SegmentBytes DEF Now
<1>5. PICK a \in Nat : a = Start(h)
  BY <1>1
<1>6. PICK b \in Nat : b = End(h)
  BY <1>1
<1>7. Bss(h) => x \notin Cleared(h)
  <2> SUFFICES ASSUME Bss(h), x \in Cleared(h) PROVE FALSE
    OBVIOUS
  <2>1. Floor(b) <= x /\ x < b
    BY <1>1, <1>3, <1>6 DEF Cleared
  <2>2. PageOf(x) = PageOf(Floor(b)) /\ Floor(b) # b
    BY <1>3, <2>1, TailPage
  <2> QED BY <1>6, <2>2 DEF TailPages
<1>8. PageOf(x) \notin BssPages(h)
  <2> SUFFICES ASSUME PageOf(x) \in LazyPages(h) PROVE FALSE
    BY DEF BssPages
  <2>1. PICK y \in get_aligned(a) .. Floor(b) - 1 : PageOf(x) = PageOf(y)
    BY <1>5, <1>6 DEF LazyPages, PagesOf
  <2>2. get_aligned(a) \in Nat /\ a <= get_aligned(a) /\ Floor(b) \in Nat
    BY AlignedIs, PageIs
  <2>3. y \in Nat /\ get_aligned(a) <= y /\ x < get_aligned(a)
    BY <1>3, <1>5, <2>1, <2>2
  <2> QED BY <1>3, <2>1, <2>3, Boundary
<1>9. mem'[x] = o + (x - h.vaddr) + 1
  BY <1>3, <1>7, <1>8, SegmentBytes
<1> QED BY <1>4, <1>9 DEF Byte, PageOf

----------------------------------------------------------------------------
(***************************************************************************)
(* The file.                                                               *)
(***************************************************************************)
FileNodes == {n \in [size : Nat, cur_offset : Nat, closed : {FALSE}] : n.cur_offset <= n.size}

\* seek of the RAM disk.
LEMMA SeekIs ==
  ASSUME NEW n \in FileNodes, NEW off \in Nat
  PROVE  LET r == seek(n, off, SEEK_SET) IN
         /\ r.node \in FileNodes /\ r.node.size = n.size
         /\ r.ret # -1 => r.node.cur_offset = off
<1>1. n \in [size : Nat, cur_offset : Nat, closed : {FALSE}] /\ n.cur_offset <= n.size
  BY DEF FileNodes
<1>2. n.size \in Nat /\ n.cur_offset \in Nat /\ n.closed = FALSE
  BY <1>1
<1>3. Wanted(n, off, SEEK_SET) = off
  BY DEF Wanted, SEEK_SET, SEEK_CUR, SEEK_END
<1>4. CASE off >= n.size
  <2>1. seek(n, off, SEEK_SET) = [node |-> n, ret |-> -1]
    BY <1>2, <1>3, <1>4 DEF seek
  <2> QED BY <2>1
<1>5. CASE off < n.size
  <2>1. PICK m : m = [n EXCEPT !.cur_offset = off]
    OBVIOUS
  <2>2. seek(n, off, SEEK_SET) = [node |-> m, ret |-> off]
    BY <1>2, <1>3, <1>5, <2>1 DEF seek
  <2>3. m \in [size : Nat, cur_offset : Nat, closed : {FALSE}] /\ m.cur_offset = off /\ m.size = n.size
    BY <1>1, <2>1
  <2>4. m.cur_offset <= m.size
    BY <1>2, <1>5, <2>3
  <2>5. m \in FileNodes
    BY <2>3, <2>4 DEF FileNodes
  <2> QED BY <2>2, <2>3, <2>5
<1> QED BY <1>2, <1>4, <1>5

\* read of the RAM disk.
LEMMA ReadIs ==
  ASSUME NEW n \in FileNodes, NEW cnt \in Nat
  PROVE  LET r == read(n, cnt) IN
         /\ r.node \in FileNodes /\ r.node.size = n.size
         /\ r.ret = cnt => n.cur_offset + cnt <= n.size
<1>1. n \in [size : Nat, cur_offset : Nat, closed : {FALSE}] /\ n.cur_offset <= n.size
  BY DEF FileNodes
<1>2. n.size \in Nat /\ n.cur_offset \in Nat /\ n.closed = FALSE
  BY <1>1
<1>3. PICK d : d = IF cnt < n.size - n.cur_offset THEN cnt ELSE n.size - n.cur_offset
  OBVIOUS
<1>4. d \in Nat /\ n.cur_offset + d <= n.size
  BY <1>1, <1>2, <1>3
<1>5. PICK e \in Nat : e = n.cur_offset + d
  BY <1>2, <1>4
<1>6. PICK m : m = [n EXCEPT !.cur_offset = e]
  OBVIOUS
<1>7. read(n, cnt) = [node |-> m, ret |-> d]
  BY <1>2, <1>3, <1>5, <1>6 DEF read
<1>8. m \in [size : Nat, cur_offset : Nat, closed : {FALSE}] /\ m.cur_offset = e /\ m.size = n.size
  BY <1>1, <1>6
<1>9. m \in FileNodes
  BY <1>2, <1>4, <1>5, <1>8 DEF FileNodes
<1> QED BY <1>4, <1>7, <1>8, <1>9

----------------------------------------------------------------------------
(***************************************************************************)
(* The inductive invariant.                                                *)
(***************************************************************************)

\* The file as load_elf finds it; behind its first read the program headers
\* are those that lie in the file.
Headers ==
  /\ ehdr.e_phoff \in Nat /\ ehdr.e_phnum \in Nat
  /\ node \in FileNodes
  /\ \A j \in DOMAIN phdrs : j \in Nat /\ phdrs[j] \in Phdrs
  /\ i = 0 => node.cur_offset = 0
  /\ ehdr.file /\ EhdrSize <= node.size /\ is_header_valid(ehdr) =>
       DOMAIN phdrs = InTheFile(ehdr, node.size)
  /\ i > 0 => ehdr.file /\ EhdrSize <= node.size /\ is_header_valid(ehdr)

\* What the segments so far have left, as the properties say it of the end.
Placed ==
  /\ \A j \in Segments : Good(phdrs[j])
  /\ \A p : p \in present \cup lazy <=> \E j \in Segments : p \in Pages(phdrs[j])
  /\ \A j \in Segments : \A x \in Start(phdrs[j]) .. End(phdrs[j]) - 1 : Last(j, x) => Byte(x) = 0
  /\ \A j \in Segments : \A x \in InFile(phdrs[j]) :
       Last(j, x) /\ (Bss(phdrs[j]) => PageOf(x) \notin TailPages(phdrs[j])) =>
         Byte(x) = phdrs[j].offset + (x - phdrs[j].vaddr) + 1

\* Nothing is said of a load that has failed.
IInv == i \in Nat /\ (ret \in {"none", "entry"} => Headers /\ Placed)

\* A header that loads nothing leaves all that as it is.
LEMMA PlacedSame ==
  ASSUME Placed, Segments' = Segments, UNCHANGED <<phdrs, present, lazy, mem>>
  PROVE  Placed'
<1>1. \A j, x : (Last(j, x)' <=> Last(j, x)) /\ Byte(x)' = Byte(x)
  BY DEF Last, Byte, PageOf, PagesOf, End
<1> HIDE DEF Last, Byte, Segments
<1> QED BY <1>1 DEF Placed, Good, Phdrs, Pages, PagesOf, PageOf, Start, End, FileBytes, InFile, Bss,
                    TailPages, Floor

\* A segment is loaded.
LEMMA PlacedLoad ==
  ASSUME Placed, i \in Nat, i \in DOMAIN phdrs, NEW h, h = phdrs[i], Good(h), h.load,
         NEW o, LoadSegment(h, o), h.filesz # 0 => o = h.offset,
         Segments' = Segments \cup {i}, UNCHANGED phdrs,
         \A j \in Segments : j \in Nat /\ j < i
  PROVE  Placed'
<1>1. PICK seg : seg = Segments
  OBVIOUS
<1>2. PICK n \in Nat : n = i
  OBVIOUS
<1>3. Segments' = seg \cup {n} /\ h = phdrs[n] /\ phdrs' = phdrs /\ \A j \in seg : j \in Nat /\ j < n
  BY <1>1, <1>2
<1>4. \A j, x : Last(j, x) <=> \A m \in seg : m > j => PageOf(x) \notin Pages(phdrs[m])
  BY <1>1 DEF Last, Pages
<1>5. \A j, x : Last(j, x)' <=> \A m \in seg \cup {n} : m > j => PageOf(x) \notin Pages(phdrs[m])
  BY <1>3 DEF Last, Pages, PagesOf, PageOf, End
<1>6. \A j \in seg : Good(phdrs[j])
  BY <1>1 DEF Placed
<1>7. ASSUME NEW j \in seg, NEW x \in Nat, x < End(phdrs[j]), Last(j, x)'
      PROVE  Last(j, x) /\ Byte(x)' = Byte(x)
  <2>1. Last(j, x) /\ PageOf(x) \notin Pages(h)
    BY <1>3, <1>4, <1>5, <1>7
  <2>2. x \in Addrs
    BY <1>6, <1>7, Numbers
  <2> QED BY <2>1, <2>2, Untouched
<1>8. \A j \in seg \cup {n} : Good(phdrs[j])
  BY <1>3, <1>6
<1>9. \A p : p \in present' \cup lazy' <=> \E j \in seg \cup {n} : p \in Pages(phdrs[j])
  <2>1. present' \cup lazy' = present \cup lazy \cup Pages(h)
    BY SegmentBytes, SegmentPages
  <2>2. \A p : p \in present \cup lazy <=> \E j \in seg : p \in Pages(phdrs[j])
    BY <1>1 DEF Placed
  <2> QED BY <1>3, <2>1, <2>2
<1>10. ASSUME NEW j \in seg \cup {n}, NEW x \in Start(phdrs[j]) .. End(phdrs[j]) - 1, Last(j, x)'
       PROVE  Byte(x)' = 0
  <2>1. CASE j = n
    <3>1. x \in Start(h) .. End(h) - 1
      BY <1>3, <2>1
    <3> QED BY <3>1, SpaceCleared
  <2>2. CASE j \in seg
    <3>1. Start(phdrs[j]) \in Nat /\ End(phdrs[j]) \in Nat
      BY <1>6, <2>2, Numbers
    <3>2. x \in Nat /\ x < End(phdrs[j])
      BY <3>1
    <3>3. Last(j, x) /\ Byte(x)' = Byte(x)
      BY <1>7, <1>10, <2>2, <3>2
    <3> QED BY <1>1, <2>2, <3>3 DEF Placed
  <2> QED BY <2>1, <2>2
<1>11. ASSUME NEW j \in seg \cup {n}, NEW x \in InFile(phdrs[j]), Last(j, x)',
              Bss(phdrs[j]) => PageOf(x) \notin TailPages(phdrs[j])
       PROVE  Byte(x)' = phdrs[j].offset + (x - phdrs[j].vaddr) + 1
  <2>1. CASE j = n
    <3>1. x \in InFile(h) /\ (Bss(h) => PageOf(x) \notin TailPages(h))
      BY <1>3, <1>11, <2>1
    <3>2. h.filesz # 0
      <4>1. h.vaddr \in Nat /\ FileBytes(h) \in Nat /\ (h.filesz = 0 => FileBytes(h) = 0)
        BY Numbers
      <4>2. x \in h.vaddr .. (h.vaddr + FileBytes(h)) - 1
        BY <3>1, <4>1 DEF InFile
      <4> QED BY <4>1, <4>2
    <3>3. Byte(x)' = o + (x - h.vaddr) + 1
      BY <3>1, FileBytesPlaced
    <3> QED BY <1>3, <2>1, <3>2, <3>3
  <2>2. CASE j \in seg
    <3>1. /\ phdrs[j].vaddr \in Nat /\ FileBytes(phdrs[j]) \in Nat /\ End(phdrs[j]) \in Nat
          /\ Start(phdrs[j]) = phdrs[j].vaddr + FileBytes(phdrs[j]) /\ Start(phdrs[j]) <= End(phdrs[j])
      BY <1>6, <2>2, Numbers
    <3>2. x \in phdrs[j].vaddr .. (phdrs[j].vaddr + FileBytes(phdrs[j])) - 1
      BY <3>1 DEF InFile
    <3>3. x \in Nat /\ x < End(phdrs[j])
      BY <3>1, <3>2
    <3>4. Last(j, x) /\ Byte(x)' = Byte(x)
      BY <1>7, <1>11, <2>2, <3>3
    <3> QED BY <1>1, <1>11, <2>2, <3>4 DEF Placed
  <2> QED BY <2>1, <2>2
<1> QED BY <1>3, <1>8, <1>9, <1>10, <1>11 DEF Placed, Good, Pages, PagesOf, PageOf, Start, End, FileBytes,
                                           InFile, Bss, TailPages, Floor, Phdrs

----------------------------------------------------------------------------
(***************************************************************************)
(* The invariant holds.                                                    *)
(***************************************************************************)

\* Nothing is loaded yet.
LEMMA InitIInv == Init => IInv
<1> SUFFICES ASSUME Init PROVE IInv
  OBVIOUS
<1>1. /\ i = 0 /\ present = {} /\ lazy = {} /\ ehdr \in Ehdrs
      /\ i \in Nat
  BY DEF Init
<1>2. PICK size \in FileSizes :
        /\ node = NewNode(size)
        /\ phdrs \in [IF ehdr.file /\ EhdrSize <= size /\ is_header_valid(ehdr)
                      THEN InTheFile(ehdr, size) ELSE {} -> Phdrs]
  BY DEF Init
<1>3. size \in Nat
  BY ElfAssumption
<1>4. node = [size |-> size, cur_offset |-> 0, closed |-> FALSE]
  BY <1>2 DEF NewNode
<1>5. node.size = size /\ node.cur_offset = 0
  BY <1>4
<1>6. node \in FileNodes
  <2>1. node \in [size : Nat, cur_offset : Nat, closed : {FALSE}]
    BY <1>3, <1>4
  <2>2. node.cur_offset <= node.size
    BY <1>3, <1>5
  <2> QED BY <2>1, <2>2 DEF FileNodes
<1>7. ehdr.e_phoff \in Nat /\ ehdr.e_phnum \in Nat
  <2>1. ehdr.e_phoff \in Phoffs /\ ehdr.e_phnum \in 0 .. MaxSegments + 1
    BY <1>1 DEF Ehdrs
  <2>2. Phoffs \subseteq Nat
    BY ElfAssumption
  <2>3. ehdr.e_phnum \in Nat
    BY <2>1, ElfAssumption
  <2> QED BY <2>1, <2>2, <2>3
<1>8. \A j \in DOMAIN phdrs : j \in Nat /\ phdrs[j] \in Phdrs
  <2>1. DOMAIN phdrs \subseteq InTheFile(ehdr, size) /\ \A j \in DOMAIN phdrs : phdrs[j] \in Phdrs
    BY <1>2
  <2>2. \A j \in InTheFile(ehdr, size) : j \in Nat
    BY <1>7 DEF InTheFile
  <2> QED BY <2>1, <2>2
<1>9. Headers
  <2>1. ehdr.file /\ EhdrSize <= node.size /\ is_header_valid(ehdr) =>
          DOMAIN phdrs = InTheFile(ehdr, node.size)
    BY <1>2, <1>5
  <2> QED BY <1>1, <1>5, <1>6, <1>7, <1>8, <2>1 DEF Headers
<1>10. Segments = {}
  BY <1>1, <1>8 DEF Segments
<1>11. Placed
  BY <1>1, <1>10 DEF Placed
<1> QED BY <1>1, <1>9, <1>11 DEF IInv

\* The checks before the loop.
LEMMA CheckStep ==
  ASSUME IInv, CheckHeader
  PROVE  IInv'
<1>1. ret = "none" /\ i = 0 /\ UNCHANGED <<phdrs, ehdr, present, lazy, mem>>
  BY DEF CheckHeader
<1>2. Headers /\ Placed
  BY <1>1 DEF IInv
<1>3. CASE i' = 0 /\ ret' \notin {"none", "entry"}
  BY <1>3 DEF IInv
<1>4. CASE /\ i' = 1 /\ ehdr.file /\ is_header_valid(ehdr)
           /\ node' = read(node, EhdrSize).node /\ read(node, EhdrSize).ret = EhdrSize
  <2>1. EhdrSize \in Nat
    BY ElfAssumption
  <2>2. node' \in FileNodes /\ node'.size = node.size /\ node.cur_offset + EhdrSize <= node.size
    BY <1>2, <1>4, <2>1, ReadIs DEF Headers
  <2>3. node.cur_offset = 0
    BY <1>1, <1>2 DEF Headers
  <2>4. EhdrSize <= node'.size
    BY <2>1, <2>2, <2>3
  <2>5. DOMAIN phdrs = InTheFile(ehdr, node'.size)
    BY <1>2, <1>4, <2>2, <2>4 DEF Headers
  <2>6. Headers'
    <3>1. /\ ehdr.e_phoff \in Nat /\ ehdr.e_phnum \in Nat
          /\ \A j \in DOMAIN phdrs : j \in Nat /\ phdrs[j] \in Phdrs
      BY <1>2 DEF Headers
    <3> HIDE DEF is_header_valid, InTheFile, FileNodes, Phdrs
    <3> QED BY <1>1, <1>4, <2>2, <2>4, <2>5, <3>1 DEF Headers
  <2>7. Segments = {}
    BY <1>1, <1>2 DEF Segments, Headers
  <2>8. Segments' = {}
    <3>1. \A j \in DOMAIN phdrs : j \in Nat /\ j >= 1
      BY <1>2, <2>5 DEF InTheFile, Headers
    <3> QED BY <1>1, <1>4, <3>1 DEF Segments
  <2>9. Placed'
    BY <1>1, <1>2, <2>7, <2>8, PlacedSame
  <2> QED BY <1>4, <2>6, <2>9 DEF IInv
<1>5. \/ i' = 0 /\ ret' \notin {"none", "entry"}
      \/ /\ i' = 1 /\ ehdr.file /\ is_header_valid(ehdr)
         /\ node' = read(node, EhdrSize).node /\ read(node, EhdrSize).ret = EhdrSize
  BY <1>1 DEF CheckHeader, Fail
<1> QED BY <1>3, <1>4, <1>5

\* A program header that was read completely lies in the file.
LEMMA HeaderInFile ==
  ASSUME Headers, i \in Nat, i \in 1 .. ehdr.e_phnum, PhdrAt.ret # -1, read(PhdrAt.node, PhdrSize).ret = PhdrSize
  PROVE  i \in DOMAIN phdrs
<1>1. PhdrSize \in Nat /\ PhdrSize > 0 /\ ehdr.e_phoff \in Nat /\ ehdr.e_phnum \in Nat /\ node \in FileNodes
  BY ElfAssumption DEF Headers
<1>2. PICK off \in Nat : off = (i - 1) * PhdrSize + ehdr.e_phoff
  <2>1. (i - 1) * PhdrSize \in Nat
    BY <1>1
  <2> QED BY <1>1, <2>1
<1>3. PICK n : n = PhdrAt.node
  OBVIOUS
<1>4. n \in FileNodes /\ n.size = node.size /\ n.cur_offset = off
  BY <1>1, <1>2, <1>3, SeekIs DEF PhdrAt
<1>5. off + PhdrSize <= node.size
  BY <1>1, <1>3, <1>4, ReadIs
<1>6. ehdr.e_phoff + i * PhdrSize = off + PhdrSize
  <2>1. (i - 1) * PhdrSize + PhdrSize = i * PhdrSize /\ (i - 1) * PhdrSize \in Nat /\ i * PhdrSize \in Nat
    BY <1>1
  <2> QED BY <1>1, <1>2, <2>1
<1>7. i \in InTheFile(ehdr, node.size)
  BY <1>5, <1>6 DEF InTheFile
<1>8. DOMAIN phdrs = InTheFile(ehdr, node.size)
  BY DEF Headers
<1> QED BY <1>7, <1>8

\* The next header leaves the file as it is but for the offset.
LEMMA HeadersNext ==
  ASSUME Headers, i \in Nat, i > 0, i' = i + 1, UNCHANGED <<phdrs, ehdr>>,
         node' \in FileNodes, node'.size = node.size
  PROVE  /\ Headers'
         /\ i \in DOMAIN phdrs =>
              Segments' = Segments \cup (IF phdrs[i].load /\ phdrs[i].memsz # 0 THEN {i} ELSE {})
         /\ \A j \in Segments : j \in Nat /\ j < i
<1>1. Headers'
  <2>1. i' > 0 /\ i' # 0
    OBVIOUS
  <2> QED BY <2>1 DEF Headers
<1>2. \A j \in DOMAIN phdrs : j \in Nat
  BY DEF Headers
<1>3. \A j \in DOMAIN phdrs : j < i' <=> j < i \/ j = i
  BY <1>2
<1>4. ASSUME i \in DOMAIN phdrs
      PROVE  Segments' = Segments \cup (IF phdrs[i].load /\ phdrs[i].memsz # 0 THEN {i} ELSE {})
  BY <1>3, <1>4 DEF Segments
<1>5. \A j \in Segments : j \in Nat /\ j < i
  BY <1>2 DEF Segments
<1> QED BY <1>1, <1>4, <1>5

\* One program header.
LEMMA ProgramStep ==
  ASSUME IInv, ProgramHeader
  PROVE  IInv'
<1>1. ret = "none" /\ i \in 1 .. ehdr.e_phnum /\ UNCHANGED <<phdrs, ehdr>>
  BY DEF ProgramHeader
<1>2. Headers /\ Placed /\ i \in Nat
  BY <1>1 DEF IInv
<1>3. i > 0 /\ PhdrSize \in Nat /\ node \in FileNodes
  BY <1>1, <1>2, ElfAssumption DEF Headers
<1>4. PICK off \in Nat : off = (i - 1) * PhdrSize + ehdr.e_phoff
  <2>1. (i - 1) * PhdrSize \in Nat
    BY <1>2, <1>3
  <2> QED BY <1>2, <2>1 DEF Headers
<1>5. PICK n : n = PhdrAt.node
  OBVIOUS
<1>6. PICK r : r = read(n, PhdrSize)
  OBVIOUS
<1>7. PICK h : h = phdrs[i]
  OBVIOUS
<1>8. PICK at : at = FileAt(r.node, h)
  OBVIOUS
<1>9. PICK data : data = read(at.node, FileBytes(h))
  OBVIOUS
<1>10. n \in FileNodes /\ n.size = node.size
  BY <1>3, <1>4, <1>5, SeekIs DEF PhdrAt
<1>11. r.node \in FileNodes /\ r.node.size = node.size
  BY <1>3, <1>6, <1>10, ReadIs
<1>12. CASE i' = i /\ ret' \notin {"none", "entry"}
  BY <1>2, <1>12 DEF IInv
<1>13. ASSUME PhdrAt.ret # -1, r.ret = PhdrSize PROVE i \in DOMAIN phdrs
  BY <1>1, <1>2, <1>5, <1>6, <1>13, HeaderInFile
<1>14. CASE /\ PhdrAt.ret # -1 /\ r.ret = PhdrSize
            /\ ~h.load \/ h.memsz = 0
            /\ i' = i + 1 /\ node' = r.node /\ UNCHANGED <<ret, present, lazy, mem>>
  <2>1. /\ Headers'
        /\ Segments' = Segments \cup (IF phdrs[i].load /\ phdrs[i].memsz # 0 THEN {i} ELSE {})
    BY <1>1, <1>2, <1>3, <1>11, <1>13, <1>14, HeadersNext
  <2>2. Segments' = Segments
    BY <1>7, <1>14, <2>1
  <2>3. Placed'
    BY <1>1, <1>2, <1>14, <2>2, PlacedSame
  <2>4. i' \in Nat
    BY <1>2, <1>14
  <2> QED BY <2>1, <2>3, <2>4 DEF IInv
<1>15. CASE /\ PhdrAt.ret # -1 /\ r.ret = PhdrSize /\ h.load /\ h.memsz # 0
            /\ ~(h.vaddr < USER_MEM_LOW \/ End(h) > USER_MEM_HIGH)
            /\ h.filesz # 0 => at.ret # -1
            /\ LoadSegment(h, at.node.cur_offset)
            /\ node' = IF h.filesz # 0 THEN data.node ELSE r.node
            /\ i' = i + 1
  <2>1. i \in DOMAIN phdrs
    BY <1>13, <1>15
  <2>2. h \in Phdrs
    BY <1>2, <1>7, <2>1 DEF Headers
  <2>3. Good(h)
    <3>1. h.vaddr \in Vaddrs /\ h.memsz \in Memsz
      BY <2>2 DEF Phdrs
    <3>2. h.vaddr \in Nat /\ h.memsz \in Nat
      BY <3>1, ElfAssumption
    <3>3. End(h) \in Nat /\ USER_MEM_HIGH \in Nat
      BY <3>2, ElfAssumption DEF End
    <3> QED BY <1>15, <2>2, <3>3 DEF Good
  <2>4. h.offset \in Nat /\ FileBytes(h) \in Nat
    BY <2>3, Numbers
  <2>5. /\ at.node \in FileNodes /\ at.node.size = node.size
        /\ at.ret # -1 => at.node.cur_offset = h.offset
    BY <1>8, <1>11, <2>4, SeekIs DEF FileAt
  <2>6. data.node \in FileNodes /\ data.node.size = node.size
    BY <1>9, <2>4, <2>5, ReadIs
  <2>7. node' \in FileNodes /\ node'.size = node.size
    BY <1>11, <1>15, <2>6
  <2>8. /\ Headers'
        /\ Segments' = Segments \cup (IF phdrs[i].load /\ phdrs[i].memsz # 0 THEN {i} ELSE {})
        /\ \A j \in Segments : j \in Nat /\ j < i
    BY <1>1, <1>2, <1>3, <1>15, <2>1, <2>7, HeadersNext
  <2>9. Segments' = Segments \cup {i}
    BY <1>7, <1>15, <2>8
  <2>10. PICK o : o = at.node.cur_offset
    OBVIOUS
  <2>11. LoadSegment(h, o) /\ (h.filesz # 0 => o = h.offset)
    BY <1>15, <2>5, <2>10
  <2>12. Placed'
    BY <1>1, <1>2, <1>7, <1>15, <2>1, <2>3, <2>8, <2>9, <2>11, PlacedLoad
  <2>13. i' \in Nat
    BY <1>2, <1>15
  <2> QED BY <2>8, <2>12, <2>13 DEF IInv
<1>16. \/ i' = i /\ ret' \notin {"none", "entry"}
       \/ /\ PhdrAt.ret # -1 /\ r.ret = PhdrSize
          /\ ~h.load \/ h.memsz = 0
          /\ i' = i + 1 /\ node' = r.node /\ UNCHANGED <<ret, present, lazy, mem>>
       \/ /\ PhdrAt.ret # -1 /\ r.ret = PhdrSize /\ h.load /\ h.memsz # 0
          /\ ~(h.vaddr < USER_MEM_LOW \/ End(h) > USER_MEM_HIGH)
          /\ h.filesz # 0 => at.ret # -1
          /\ LoadSegment(h, at.node.cur_offset)
          /\ node' = IF h.filesz # 0 THEN data.node ELSE r.node
          /\ i' = i + 1
  BY <1>1, <1>5, <1>6, <1>7, <1>8, <1>9 DEF ProgramHeader, Error, Fail
<1> QED BY <1>12, <1>14, <1>15, <1>16

\* Every step keeps the invariant.
LEMMA NextIInv == IInv /\ [Next]_vars => IInv'
<1> SUFFICES ASSUME IInv, [Next]_vars PROVE IInv'
  OBVIOUS
<1>1. CASE CheckHeader
  BY <1>1, CheckStep
<1>2. CASE ProgramHeader
  BY <1>2, ProgramStep
<1>3. ASSUME UNCHANGED <<phdrs, ehdr, node, i, present, lazy, mem>>, ret \in {"none", "entry"}
      PROVE  IInv'
  <2>1. Headers /\ Placed
    BY <1>3 DEF IInv
  <2>2. Headers'
    BY <1>3, <2>1 DEF Headers, InTheFile, is_header_valid, FileNodes, Phdrs
  <2>3. Segments' = Segments
    BY <1>3 DEF Segments
  <2>4. Placed'
    BY <1>3, <2>1, <2>3, PlacedSame
  <2> QED BY <1>3, <2>2, <2>4 DEF IInv
<1>4. CASE Finish
  BY <1>3, <1>4 DEF Finish
<1>5. CASE UNCHANGED vars
  <2>1. CASE ret \in {"none", "entry"}
    BY <1>3, <1>5, <2>1 DEF vars
  <2>2. CASE ret \notin {"none", "entry"}
    BY <1>5, <2>2 DEF vars, IInv
  <2> QED BY <2>1, <2>2
<1> QED BY <1>1, <1>2, <1>4, <1>5 DEF Next

\* The inductive invariant of the loader.
THEOREM Invariance == Spec => []IInv
<1> QED BY InitIInv, NextIInv, PTL DEF Spec

----------------------------------------------------------------------------
(***************************************************************************)
(* The properties.                                                         *)
(***************************************************************************)

\* The program gets the pages its segments lie in and no others.
THEOREM LoadsExactPages == Spec => []PagesExact
<1>1. IInv => PagesExact
  <2> SUFFICES ASSUME IInv, ret = "entry"
               PROVE  present \cup lazy = UNION {PagesOf(phdrs[j].vaddr, End(phdrs[j])) : j \in Segments}
    BY DEF PagesExact
  <2>1. \A p : p \in present \cup lazy <=> \E j \in Segments : p \in PagesOf(phdrs[j].vaddr, End(phdrs[j]))
    BY DEF IInv, Placed, Pages
  <2> QED BY <2>1
<1> QED BY <1>1, Invariance, PTL

\* The space of a segment behind its file bytes reads as zeros.
THEOREM BssReadsZero == Spec => []BssZero
<1>1. IInv => BssZero
  BY DEF IInv, Placed, BssZero
<1> QED BY <1>1, Invariance, PTL

\* The file bytes of a segment are in place where no later segment and no
\* end of the space behind them shares their page.
THEOREM KeepsFileBytes == Spec => []FileBytesKept
<1>1. IInv => FileBytesKept
  BY DEF IInv, Placed, FileBytesKept, Bss
<1> QED BY <1>1, Invariance, PTL
=============================================================================
