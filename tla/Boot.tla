-------------------------------- MODULE Boot --------------------------------
(***************************************************************************)
(* kmain of JKOS from the boot loader's jump to the first task: Page::init *)
(* with init_frames and the static heap that serves kmalloc until          *)
(* kheap_finish_init, global constructors, and move_stack.  Nothing runs   *)
(* beside it: interrupts are off until all of this is done.                *)
(*                                                                         *)
(* Addresses are numbers below Word (2^32 in the kernel), PageSize stands  *)
(* for 4096 bytes and TablePages for the 1024 pages of a page table; an    *)
(* array element of four bytes has size 1.  A memory region of the boot    *)
(* loader's map is [avail, addr, len].                                     *)
(***************************************************************************)
EXTENDS Cxx, FiniteSets

CONSTANTS
  Word, PageSize, TablePages,
  KernelStart, ImageEnds,   \* where the kernel image begins, and may end
  ModuleEnds,               \* where a boot module may end; 0 is no module
  HeapBegin, HeapEnd,       \* KERNEL_HEAP_BEGIN, KERNEL_HEAP_END
  Maps,                     \* bound: memory maps of the boot loader
  StackTop, StackWords,     \* initial_stack_pointer, and words below it
  KERNEL_STACK_POS

ASSUME BootAssumption ==
  /\ {Word, PageSize, TablePages, KernelStart, StackTop, StackWords} \subseteq Nat \ {0}
  /\ ImageEnds \cup ModuleEnds \cup {HeapBegin, HeapEnd, KERNEL_STACK_POS} \subseteq Nat
  /\ \A end \in ImageEnds : KernelStart <= end
  /\ StackWords < StackTop /\ StackTop < KERNEL_STACK_POS
  /\ Maps \subseteq Seq([avail : BOOLEAN, addr : Nat, len : Nat])

VARIABLES
  mmap, mod_end,      \* what the boot loader hands over
  stage, k,           \* where kmain is, and the loop variable there
  kheap_static_end,
  memsize,
  frames,             \* frames[0 .. nframes - 1]
  frame_ref_cnt,      \* [base, len]: first index and number of counts
  tables,             \* indices of page tables that exist
  identity,           \* pages mapped to the frame of their own number
  kernel_low_ntable,
  USER_MEM_LOW,
  stack,              \* [esp, ebp, old, new]: the stack before and after move_stack
  panic

\* What the kernel reads of Multiboot_info_t.
mbd == <<mmap, mod_end>>

pagevars == <<mbd, kheap_static_end, memsize, frames, frame_ref_cnt, tables,
              identity, kernel_low_ntable, USER_MEM_LOW>>

vars == <<pagevars, stage, k, stack, panic, cxxvars>>

----------------------------------------------------------------------------
PageOf(x) == x \div PageSize

get_aligned(x, a) == IF x = 0 THEN 0 ELSE ((x - 1) \div a + 1) * a

RegionEnd(m) == m.addr + m.len

\* kmalloc_pre_init(size, palign) takes the memory from here ...
Base(end, a) == get_aligned(end, a)

\* ... and leaves the end of the static heap there.
kmalloc_pre_init(end, size, a) == (Base(end, a) + size) % Word

\* kheap_preserve_mem(addr)
kheap_preserve_mem(end, addr) == IF addr > end THEN addr ELSE end

\* USER_MEM_LOW as kheap_finish_init sets it.
kheap_finish_init(end) == get_aligned(end, PageSize * TablePages)

\* get_page(.., true) for the pages whose tables are T, in order, one table
\* of a page's size for each that is missing.
WithTables(end, T) ==
  LET new == Cardinality(T \ tables)
  IN  IF new = 0 THEN end ELSE kmalloc_pre_init(end, new * PageSize, PageSize)

TableOf(page) == page \div TablePages

Go(s) == stage' = s /\ k' = 1

Panic(why) == panic' = why /\ stage' = "halt" /\ UNCHANGED k

----------------------------------------------------------------------------
(***************************************************************************)
(* Page::init up to init_frames.                                           *)
(***************************************************************************)

\* kmain checks the magic number and returns if it is wrong; Page::init
\* asserts that there is a memory map.
Magic ==
  /\ stage = "magic"
  /\ \/ Go("halt") /\ UNCHANGED panic
     \/ Panic("no memory map")
     \/ Go("preserve") /\ UNCHANGED panic
  /\ UNCHANGED <<pagevars, stack, cxxvars>>

\* kheap_preserve_mem keeps the boot module, and the directory is allocated:
\* two arrays of a page's size and phyaddr.
Preserve ==
  LET kept == IF mod_end = 0 THEN kheap_static_end
              ELSE kheap_preserve_mem(kheap_static_end, mod_end + 1)
  IN
  /\ stage = "preserve"
  /\ kheap_static_end' = kmalloc_pre_init(kept, 2 * PageSize + 1, PageSize)
  /\ Go("scan")
  /\ UNCHANGED <<mbd, memsize, frames, frame_ref_cnt, tables, identity,
                 kernel_low_ntable, USER_MEM_LOW, stack, panic, cxxvars>>

\* A region that 32 bits do not hold.
TooLarge(m) == m.addr >= Word - 1 \/ m.len >= Word - 1 \/ RegionEnd(m) > Word - 1

\* The first loop of init_frames, one region a step, and new uint32_t[].
Scan ==
  /\ stage = "scan"
  /\ IF k > Len(mmap)
     THEN /\ kheap_static_end' = kmalloc_pre_init(kheap_static_end, PageOf(memsize), 1)
          /\ Go("fill")
          /\ UNCHANGED <<memsize, panic>>
     ELSE LET m == mmap[k] IN
     IF m.avail /\ TooLarge(m)
     THEN Panic("physical memory too large") /\ UNCHANGED <<memsize, kheap_static_end>>
     ELSE /\ memsize' = IF m.avail /\ RegionEnd(m) > memsize THEN RegionEnd(m) ELSE memsize
          /\ k' = k + 1
          /\ UNCHANGED <<stage, panic, kheap_static_end>>
  /\ UNCHANGED <<mbd, frames, frame_ref_cnt, tables, identity, kernel_low_ntable,
                 USER_MEM_LOW, stack, cxxvars>>

\* The frames of a region that the second loop pushes, from the highest one.
\* i starts at end - 1 and is decremented before it is compared; it is
\* unsigned, so it wraps around if the region ends in the first two pages.
RegionFrames(m) ==
  LET start == get_aligned(m.addr, PageSize) \div PageSize
      high  == (PageOf(RegionEnd(m)) - 2) % Word
      kend  == PageOf(kheap_static_end)
      low   == IF start > kend THEN start ELSE kend + 1
  IN  IF high < low THEN <<>> ELSE [j \in 1 .. high - low + 1 |-> high - j + 1]

\* The second loop of init_frames.
Fill ==
  /\ stage = "fill"
  /\ IF k > Len(mmap) THEN Go("heap") /\ UNCHANGED frames
     ELSE /\ frames' = IF mmap[k].avail THEN frames \o RegionFrames(mmap[k]) ELSE frames
          /\ k' = k + 1
          /\ UNCHANGED stage
  /\ UNCHANGED <<mbd, kheap_static_end, memsize, frame_ref_cnt, tables, identity,
                 kernel_low_ntable, USER_MEM_LOW, stack, panic, cxxvars>>

----------------------------------------------------------------------------
(***************************************************************************)
(* The rest of Page::init.                                                 *)
(***************************************************************************)

\* The next constructor, of an object with or without a destructor.
NextObject ==
  \E dtor \in BOOLEAN :
    IF dtor /\ AtexitFull THEN Panic("too many functions") /\ UNCHANGED cxxvars
    ELSE Construct(dtor) /\ UNCHANGED <<stage, k, panic>>

\* kheap_init: the constructors of the heap's trees, then the tables of all
\* heap pages.
KheapInit ==
  LET T == {TableOf(PageOf(a)) : a \in HeapBegin .. HeapEnd - 1} IN
  /\ stage = "heap"
  /\ IF Len(built) < HeapObjects
     THEN NextObject /\ UNCHANGED <<tables, kheap_static_end>>
     ELSE /\ tables' = tables \cup T
          /\ kheap_static_end' = WithTables(kheap_static_end, T)
          /\ Go("refcnt")
          /\ UNCHANGED <<panic, cxxvars>>
  /\ UNCHANGED <<mbd, memsize, frames, frame_ref_cnt, identity, kernel_low_ntable,
                 USER_MEM_LOW, stack>>

\* The number of counts, from the first and the last frame of the stack.
RefCounts == (frames[1] - frames[Len(frames)] + 1) % Word

\* frame_ref_cnt = new uint32_t[..], indexed by frame number.  Without any
\* frame the code reads frames[-1]; nothing is known from there on.
AllocRefCnt ==
  /\ stage = "refcnt"
  /\ IF frames = <<>> THEN Panic("no frame") /\ UNCHANGED <<frame_ref_cnt, kheap_static_end>>
     ELSE /\ frame_ref_cnt' = [base |-> frames[Len(frames)], len |-> RefCounts]
          /\ kheap_static_end' = kmalloc_pre_init(kheap_static_end, RefCounts, 1)
          /\ Go("map")
          /\ UNCHANGED panic
  /\ UNCHANGED <<mbd, memsize, frames, tables, identity, kernel_low_ntable,
                 USER_MEM_LOW, stack, cxxvars>>

\* Mutant of MoreToMap: the limit is the end of the static heap in front of the
\* loop, so without the tables that the loop has allocated.
MoreToMapOnce(page) ==
  page * PageSize < kheap_static_end - PageSize * Cardinality({TableOf(p) : p \in identity})

\* The loop's condition; the limit moves while the loop allocates tables.
MoreToMap(page) == page * PageSize < kheap_static_end

\* Mutant of Dropped: frames taken over by the static heap stay.
DroppedNone(end) == frames

\* while (frames[nframes - 1] <= (kheap_get_size_pre_init() >> 12)) nframes --
Dropped(end) ==
  LET above == {j \in 1 .. Len(frames) : frames[j] > PageOf(end)}
  IN  IF above = {} THEN <<>>
      ELSE SubSeq(frames, 1, CHOOSE j \in above : \A l \in above : l <= j)

\* One page of static memory mapped to itself, or the end of that loop and
\* what follows it up to kheap_finish_init.
MapLow ==
  /\ stage = "map"
  /\ IF MoreToMap(k)
     THEN /\ tables' = tables \cup {TableOf(k)}
          /\ kheap_static_end' = WithTables(kheap_static_end, {TableOf(k)})
          /\ identity' = identity \cup {k}
          /\ k' = k + 1
          /\ UNCHANGED <<stage, frames, kernel_low_ntable, USER_MEM_LOW, panic>>
     ELSE /\ frames' = Dropped(kheap_static_end)
          /\ kernel_low_ntable' = TableOf(PageOf(kheap_static_end - 1)) + 1
          /\ USER_MEM_LOW' = kheap_finish_init(kheap_static_end)
          /\ IF Dropped(kheap_static_end) = <<>> THEN Panic("no frame")
             ELSE Go("ctors") /\ UNCHANGED panic
          /\ UNCHANGED <<tables, kheap_static_end, identity>>
  /\ UNCHANGED <<mbd, memsize, frame_ref_cnt, stack, cxxvars>>

----------------------------------------------------------------------------
(***************************************************************************)
(* The rest of kmain.                                                      *)
(***************************************************************************)

\* cxxsupport_init: the other constructors.
Constructors ==
  /\ stage = "ctors"
  /\ \/ Go("stack") /\ UNCHANGED <<panic, cxxvars>>
     \/ Len(built) < MaxObjects /\ NextObject
  /\ UNCHANGED <<pagevars, stack>>

OldStack(esp) == esp .. StackTop - 1

Offset == KERNEL_STACK_POS - StackTop

\* The words of the stack that are walked, from the top down.
\* Mutant: the walk ends above the current frame.
RelocatedWordsEbp(esp, ebp) == {a \in OldStack(esp) : a > ebp}

RelocatedWords(esp, ebp) == {a \in OldStack(esp) : a > esp}

\* move_stack, called by Task::init: the words are copied to the kernel stack
\* page, and those that look like pointers into the old stack are moved.
MoveStack ==
  LET esp == StackTop - StackWords IN
  /\ stage = "stack"
  /\ \E ebp \in esp + 1 .. StackTop - 1, old \in [OldStack(esp) -> {0} \cup esp .. StackTop] :
       stack' = [esp |-> esp, ebp |-> ebp, old |-> old,
                 new |-> [a \in {x + Offset : x \in OldStack(esp)} |->
                            LET x == a - Offset IN
                            IF x \in RelocatedWords(esp, ebp) /\ old[x] < StackTop /\ old[x] > esp
                            THEN old[x] + Offset ELSE old[x]]]
  /\ Go("run")
  /\ UNCHANGED <<pagevars, panic, cxxvars>>

\* If the test that kmain calls returns, cxxsupport_finalize follows, and
\* then loader.S halts the machine.
Finalize ==
  /\ \/ stage = "run" /\ RunDtor /\ UNCHANGED <<stage, k>>
     \/ stage = "run" /\ FinalizeEnter /\ Go("finalize")
     \/ stage = "finalize" /\ FinalizeStep /\ UNCHANGED <<stage, k>>
     \/ stage = "finalize" /\ FinalizeEnd /\ Go("done")
  /\ UNCHANGED <<pagevars, stack, panic>>

\* The boot loader puts the kernel image into available memory, and its map
\* has no overlaps.
Loaded(m, end) ==
  /\ \E r \in DOMAIN m : m[r].avail /\ m[r].addr <= KernelStart /\ end < RegionEnd(m[r])
  /\ \A r, s \in DOMAIN m : r # s => RegionEnd(m[r]) <= m[s].addr \/ RegionEnd(m[s]) <= m[r].addr

Init ==
  /\ mmap \in Maps
  /\ mod_end \in ModuleEnds
  /\ \E end \in ImageEnds :
       /\ Loaded(mmap, IF mod_end > end THEN mod_end ELSE end)
       /\ kheap_static_end = end + 1
  /\ stage = "magic" /\ k = 1
  /\ memsize = 0
  /\ frames = <<>>
  /\ frame_ref_cnt = [base |-> 0, len |-> 0]
  /\ tables = {} /\ identity = {}
  /\ kernel_low_ntable = 0
  /\ USER_MEM_LOW = 0
  /\ stack = [esp |-> 0, ebp |-> 0, old |-> <<>>, new |-> <<>>]
  /\ panic = "none"
  /\ CxxInit

Next ==
  \/ Magic \/ Preserve \/ Scan \/ Fill \/ KheapInit \/ AllocRefCnt \/ MapLow
  \/ Constructors \/ MoveStack \/ Finalize

Spec == Init /\ [][Next]_vars

----------------------------------------------------------------------------
(***************************************************************************)
(* Properties.                                                             *)
(***************************************************************************)
Booted == stage \in {"ctors", "stack", "run", "finalize", "done"}

\* Only one available region reaches behind the kernel image, and none ends
\* in the first two pages, where the loop's counter would wrap around.
OrdinaryMap ==
  /\ Cardinality({r \in DOMAIN mmap : mmap[r].avail /\ RegionEnd(mmap[r]) > KernelStart}) = 1
  /\ \A r \in DOMAIN mmap : mmap[r].avail => PageOf(RegionEnd(mmap[r])) >= 2

\* The frames on the stack.
Usable == {frames[j] : j \in DOMAIN frames}

\* The comment "stack of usable frames" (core/page.cpp): on an ordinary map
\* the frames are distinct, lie wholly inside available memory, and hold
\* nothing of the kernel image, the boot module or the static heap, although
\* the static heap goes on growing after the frames were collected; and each
\* has its count inside the array that Page::init sizes from the two ends of
\* the frame stack.
FramesUsable ==
  Booted /\ OrdinaryMap =>
    /\ Cardinality(Usable) = Len(frames)
    /\ \A f \in Usable :
         /\ f * PageSize >= kheap_static_end
         /\ f >= frame_ref_cnt.base /\ f < frame_ref_cnt.base + frame_ref_cnt.len
         /\ \E r \in DOMAIN mmap : /\ mmap[r].avail
                                   /\ mmap[r].addr <= f * PageSize
                                   /\ (f + 1) * PageSize <= RegionEnd(mmap[r])

\* When paging is switched on every page of static memory but the first is
\* mapped to itself, the tables allocated by the mapping loop included; the
\* tables clone_directory links are those of static memory, and no program
\* can be loaded into one of them.
StaticMapped ==
  Booted /\ OrdinaryMap =>
    /\ identity = 1 .. PageOf(kheap_static_end - 1)
    /\ {TableOf(p) : p \in identity} \subseteq 0 .. kernel_low_ntable - 1
    /\ TableOf(PageOf(USER_MEM_LOW)) >= kernel_low_ntable

\* The static heap does not wrap around the end of the address space, which
\* kmalloc_pre_init does not test.
Grows == OrdinaryMap => kheap_static_end' >= kheap_static_end

HeapGrows == [][Grows]_vars

\* The addresses of the saved frame pointers on the old stack: ebp's, and with
\* every address the one it points up to.
Chain ==
  LET Stack == OldStack(stack.esp)
      Closed(T) == \A b \in T : stack.old[b] \in Stack /\ stack.old[b] > b => stack.old[b] \in T
  IN  {a \in Stack : \A T \in SUBSET Stack : stack.ebp \in T /\ Closed(T) => a \in T}

\* The chain of frame pointers survives move_stack: a saved frame pointer that
\* leads up the old stack leads to the same frame on the new one, so the
\* functions below Task::init return there, and one that leads out of the
\* stack (the boot loader's) is kept.
FramesFollow ==
  stage \in {"run", "finalize"} =>
    \A a \in Chain :
      /\ stack.old[a] \in a + 1 .. StackTop - 1 => stack.new[a + Offset] = stack.old[a] + Offset
      /\ stack.old[a] \notin OldStack(stack.esp) => stack.new[a + Offset] = stack.old[a]

\* The objects with a destructor, and those of them that are destroyed.
Destructible == {obj \in DOMAIN built : built[obj]}
Destroyed == {destroyed[j] : j \in DOMAIN destroyed}

\* Only objects with a destructor are destroyed, each once and in the reverse
\* order of construction over both phases: never before one constructed
\* later; and when kmain returns all of them are.
DestroyedInReverse ==
  /\ \A i, j \in DOMAIN destroyed : i < j => destroyed[i] > destroyed[j]
  /\ Destroyed \subseteq Destructible
  /\ \A obj \in Destroyed, later \in Destructible : later > obj => later \in Destroyed
  /\ stage = "done" => Destroyed = Destructible
=============================================================================
