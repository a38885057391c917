# A TLA+ verification project for JKOS

JKOS is a small x86 kernel in C++: multitasking, paging with copy-on-write fork,
a kernel heap, interrupts, a ramdisk, an ELF loader and system calls.  This
directory holds TLA+ models of its core, the TLC configurations that check them
and TLAPS proofs.  `PROJECT.json` maps every definition to the lines it models.
Paths below are relative to the root of the repository (`src/core/task.cpp` is
the kernel's task manager).

To repeat the checks: `tlc -config MCTask.cfg MCTask` for a run (each run's
module and cfg are listed below) and `tlapm RbTreeProofs.tla` for the proofs of a
module (the eight modules with proofs are listed in section 4).

## 1. Inventory

| Component | State it keeps | Operations | Hard part | Correct when |
|---|---|---|---|---|
| Task management (`core/task.cpp`) | task table (red-black tree keyed by pid), running and sleeping rings through the tasks, current task, saved esp/ebp/eip, errno, uid | init, fork, schedule, sleep, wakeup, switch_to_user_mode, is_kernel, getpid, exit (stub) | preemption between a check and its use; contexts saved and resumed in four places; the interrupt flag across them | rings are rings, a switch lands on a runnable task with a context, tasks stay preemptible, runnable tasks run |
| System calls (`core/syscall.cpp`, `asm/syscall.S`) | table of five functions | puts, fork, getpid, sleep, wakeup through int 0x80 | interrupt flag through the gate; three lists of numbers that must agree | each number calls its function and the caller's flags come back |
| Paging (`core/page.cpp`) | stack of free frames, frame reference counts, page tables, current directory, the processor's TLB | alloc, lazy_alloc, free and their intervals, clone_directory, page_fault, enable, init | sharing, reference counts, TLB staleness, exhaustion | no frame lost or doubled, tasks have private memories |
| Kernel heap (`core/kheap.cpp`) | two trees of free blocks, block header before every chunk, node pool, heap pages | kmalloc, kfree, bump allocator before init | splits and merges; pages shared by chunks | blocks tile the heap, live chunks keep their pages |
| Interrupts, descriptor tables (`core/descriptor_table.cpp`, `asm/interrupt.S`) | GDT, IDT, TSS, callback table; masks, requests and in-service lines of both controllers | init_gdt, init_idt, remap_PIC, isr_register, isr_unhandled, isr_eoi | EOI against a task switch, masks and vectors during initialisation, spurious requests | nothing stays in service, no line looks like an exception, every request is served |
| Kernel main (`core/main.cpp`) | last key, tick counter | kmain, timer_tick, isr_kbd, tests | order of initialisation | each part finds the parts it needs |
| ELF loader (`core/elf.cpp`) | - | load_elf | file data and bss in one page; one file offset for headers and data | memory is file data, then zeros |
| Ramdisk, Fs (`drv/ramdisk.cpp`, `fs/base.cpp`) | cur_offset, closed | seek, read, write, close | count computed before interrupts are disabled | offset stays in the file |
| Red-black tree (`include/lib/rbtree.h`) | nodes, parent/colour words | insert, erase, clear, find_ge, find_le, walk | rebalancing | an ordered set, balanced |
| Log (`core/klog.cpp`) | video memory, position, colour stack | init, printf, puts, log, cls, push_color, pop_color | wrapping and scrolling several times a call, limits of the stack and of numbers | the screen shows the end of the text |
| Boot (`asm/loader.S`, `Page::init`, `kheap_init`, `move_stack`) | static heap, frame stack under construction, the boot stack | init_frames, kmalloc_pre_init, mapping of static memory, move_stack | memory is handed out while it is being counted | frames are free memory, static memory is mapped |
| C++ support (`lib/cxxsupport.cpp`) | atexit table | constructors, __cxa_atexit, functions of .dtors, __cxa_finalize | two phases of construction, a fixed table | destruction in reverse |
| User program (`initrd.cpp`) | pid, i of each task | _start, test_sleep, printf | two tasks that sleep and wake each other under preemption | both go on |
| Signals (`core/signal.cpp`) | a set of bits | clear, fill, add, del, test | - | not used yet |

How they interact: kmain initialises descriptor tables, log, paging (which
initialises the heap on the way), C++ support and tasks, starts the timer,
loads the ELF program from the ramdisk and switches to user mode.  From then on
user tasks enter by int 0x80 and by faults, and the timer calls
`Task::schedule`.  fork clones the page directory; page tables, tasks and tree
nodes come from the heap; heap pages get frames in the page fault handler.  A
task switch loads cr3.  The machine has one processor, so concurrency is
preemption by the timer while IF is set, and the processor's TLB.

The hazards (what a test would hardly reach, with file and line) are listed in
`PROJECT.json`.

## 2. Modules

| Module | Models | State and actions |
|---|---|---|
| `TaskQueue` | `Task_queue::insert`, `remove` | operators on `links`, a record of queue_next, queue_prev and the queues' pointers; `Ring` says what a queue should be |
| `Task` | `core/task.cpp` with the parts of `asm/syscall.S`, `asm/interrupt.S`, `descriptor_table.cpp` and `user.cpp` it depends on | one variable per field of `Task_t` and per static variable, `pc`/`target` for calls that passed their checks, `intr` for IF; actions `TimerTick`, `Fork`, `SleepEnter`, `SleepBody`, `WakeupEnter`, `WakeupBody`, `SwitchToUserMode` |
| `AddressSpace` | abstract | private memories, copied at fork |
| `Paging` | `core/page.cpp` after `Page::init` | frame stack, counts, entries, contents, TLB; actions `LoadPage`, `LazyPage`, `HeapLazy`, `HeapFree`, `ReadPage`, `WritePage`, `PageFault`, `CloneDirectory`, `SwitchDirectory` |
| `Allocator` | abstract | chunks that do not overlap |
| `KHeap` | `core/kheap.cpp` after `kheap_finish_init` | both trees, live chunks with their headers, page bits, node pool; actions `kmalloc`, `kfree`, `Touch` |
| `RbTree` | `include/lib/rbtree.h` | the tree as one value with the shared NIL node; actions `Insert`, `InsertFix`, `Erase`, `EraseFix`, `Clear`; searches and walk as recursive functions |
| `Ramdisk` | `drv/ramdisk.cpp` | operators `seek` and `read` on a node, each yielding the node and the result |
| `Elf` | `core/elf.cpp`, composed with `Ramdisk` | ELF header, program headers, file node, pages and bytes of user memory; actions `CheckHeader`, `ProgramHeader`, `Finish` |
| `Cxx` | `lib/cxxsupport.cpp` | objects built and destroyed, the atexit table; actions `Construct`, `RunDtor`, `FinalizeEnter`, `FinalizeStep`, `FinalizeEnd` used by `Boot` |
| `Boot` | kmain up to the first task: `Page::init`, `init_frames`, `kheap_init`, `kheap_finish_init`, `move_stack`, composed with `Cxx` | memory map, end of the static heap, frames, counts, tables, identity-mapped pages, stack; one action per stretch of kmain |
| `Format` | the conversions of `Klog::vprintf` and its copy in `initrd.cpp` | operators, and the numerals they are compared with |
| `Klog` | `core/klog.cpp` | the console as one record `con`; one operator per function, `KlogCall` for any call of the kernel |
| `UserProgram` | `initrd.cpp`, `lib/include/syscall.h`, `core/syscall.cpp`, `asm/syscall.S`; composes `Task` and `Klog` | place and variables of each task in the program; one action per system call, and the steps of `Task` |
| `Descriptors` | `GDT_entry_t::set`, `IDT_entry_t::set` | operators, and how the processor unpacks what they pack |
| `Interrupt` | `core/descriptor_table.cpp`, `asm/interrupt.S`, the handlers of `main.cpp`; both controllers, timer, keyboard and other devices as environment | tables, callbacks, masked, requested and in-service lines, effects the handler of each task has still to carry out; actions `InitGdt`, `Callbacks`, `Remap`, `Gates`, `Register`, `Deliver`, `Spurious`, `Exception`, `HandlerStep`, `Raise`, `Key` |
| `PagingProofs`, `KHeapProofs`, `RbTreeProofs`, `ElfProofs`, `InterruptProofs`, `BootProofs` | - | TLAPS proofs about the module each is named after |
| `UserProgramProofs` | - | TLAPS proofs about `TaskQueue`, `Task`, `Format`, `Klog` and `UserProgram`, which composes them |
| `NatLemmas` | - | lemmas about `\div` and `%`, induction over the natural numbers, existence of recursive functions |
| `MC...` | - | instances for TLC |

### Task

A step is a stretch of code nothing can interleave with.  `fork` clears IF
first and is one step.  `sleep` and `wakeup` find their target and check
permissions before they clear it, so each is two steps and the timer may come
between them when the caller is kernel code; when it is user code the gate has
already cleared IF.  A context (`ctx`) is the place a switch resumes a task
(inside schedule, fork or sleep) and the two copies of IF on its stack: the
`old_eflags` of that function and the frame of the outermost iret.  The flag a
task gets back is computed from them, never assumed.  Stale esp/ebp/eip values
of a task that runs are not kept: nothing reads them before they are
overwritten.  uid is 0 for every task because nothing assigns another; the
permission check is translated all the same.  The register contents and bytes
of stacks are left out, as is `exit`, a stub nothing calls.

`switch_task` pops the flags of the task it leaves one instruction before it
jumps.  A tick exactly there saves the resumed task at the jump instruction; the
model has that tick right after the switch, with the same effect on every
variable.

### Paging

A directory's own pages are user pages, which `clone_directory` shares
copy-on-write, and the kernel stack page, which it copies.  Heap pages are in
tables all directories link.  An entry keeps addr, present, rw, user, allocable
and alloc_fill.  A frame's contents are one value; a page of zeros is 0.  The
TLB may hold a translation of any page that was accessed since it was last
invalidated; an access uses the cached translation or a walk, so eviction at
any moment is covered.  `frame_ref_cnt` starts with arbitrary (0 or 1) values,
as `new uint32_t[]` leaves it.  Loading of user pages (`alloc_interval`,
`lazy_alloc_interval` in load_elf) is possible only before the first fork, as
in `test_elf`.  A panic ends the run; assignments a handler made just before it
are not kept.

### KHeap

The trees are the sets of blocks they hold; find_ge and find_le are least and
greatest elements in the code's orders.  Addresses are in units of
`sizeof(Block_t)`, with 4-unit pages.  kmalloc includes the search loop, both
splits, the lazy allocation of the pages and the write of the header (which
faults its page in); kfree includes both merges, the panics, and
`free_interval`.  Chunks are used through `Touch`, so an access to a page that
was taken away shows up as a panic.

### RbTree

Node and key fields, the root pointer, and `Node*&` references (a slot: the root
or a child pointer) are kept, and so is the parent pointer of NIL, which rotate
and remove_bottom overwrite and the erase loop reads.  A call up to its
rebalancing loop is one step and every round of the loop is another.  `KHeap`
and `Task` use the tree as an ordered set; `FindExact` and `KeysExact` are what
they rely on.  What a free node holds is dropped, because insert writes every
field of a new node.  Callers never insert a key twice (blocks are disjoint,
pids are new), and neither does the model.

### Elf

Each program header is one round of the loop in load_elf: file bytes, the page
in which the bss starts, the page in which it ends, lazy pages in between, and
each error return with what it leaves mapped.  The file is a node of `Ramdisk`
and every access moves its offset; the byte at offset o is o + 1, so reading from
a wrong place shows.  The ELF header may count more program headers than the
file holds.  The fields of the header that is_header_valid compares with one
constant each are one Boolean.  Frames start with junk.

### Boot

Addresses are numbers below `Word`; a page has four of them and a page table
four pages, so a few tables are allocated and the limit of the mapping loop
moves while it runs.  The boot loader's memory map is any of a set of maps with
missing, reserved, unaligned and several regions; the only things assumed of it
are that regions do not overlap and that the image lies in available memory.
Whether a global object has a destructor is left open: the code is written for any
objects, although none of the kernel's present ones has one, so that __cxa_atexit is
not reached by them and `DestroyedInReverse` is about what cxxsupport.cpp offers.
The counter of init_frames is unsigned and wraps around.  Without any frame the
code reads frames[-1]; the model stops there.  `move_stack` gets every content
of a small stack, not only those a compiler produces: `FramesFollow` follows the
chain of saved frame pointers (`Chain`, the least set of words closed under
following one) and says nothing of words that merely look like
pointers, which the code changes too (its comment admits it).

`FramesUsable` and `StaticMapped` hold for *ordinary* maps:
one available region reaches behind the kernel and none ends in the first two
pages.  Two available regions behind the kernel leave frames without
a count (frame_ref_cnt is sized from the two ends of a stack that is then not sorted),
and a region ending below 8 KiB makes the loop's counter wrap around.

### Klog and Format

A character is its code, a format a sequence of literals and conversions with
their arguments.  `ScreenExact` compares the screen after any of a set of texts,
in every reachable state of the console, with a roll of paper that neither wraps
around nor scrolls, and numbers with numerals defined by their weights.  The
console is changed by the kernel's calls before the program and by the program.

### UserProgram

One step is one system call with the computation in front of it; int 0x80 is an
interrupt gate, so ticks come between calls.  The program's `i` is capped behind
the last value it is compared with.  `sleep` of another task may catch it
anywhere outside a system call.  `BothPrint` has one exception, which is a
property of the program and not of the model: if the child runs ten lines before
the parent has reached its first sleep, its wakeup(0) is forgotten and the
parent sleeps for ever (`WokenEarly`).

### Interrupt

A handler is the sequence of its effects (EOI, read of the keyboard, schedule,
panic), carried out one by one with IF clear.  `schedule` leaves for the next
task in the middle, and the rest of the handler is done when its task is resumed;
this is what makes the place of the EOI matter.  Setting up is word by word with
requests coming at any time.  The controllers are modelled from how the code
programs them: edge-triggered requests, a mask, fixed priorities, in-service lines,
a cascade on line 2, end of interrupt for the most urgent line in service,
spurious interrupts on the last vector, and an initialisation sequence whose first
word clears the mask and the requests.  Addresses in descriptors have four
six-bit bytes, so that every field of a descriptor is cut somewhere.

## 3. Runs

| Run | Config | Result | Shows |
|---|---|---|---|
| task_safety | `MCTask.cfg` | passes | TypeOK, QueuesAreRings, LookupExact, Resumable, Preemptible, SwitchToRunnable and, under fairness, RoundRobin with 3 tasks |
| task_forked_child | `MCTaskFork.cfg` | violation | a child of a lone sleeper starves |
| paging_cow | `MCPagingCow.cfg` | passes | FramesConserved, SharedIsReadOnly, FaultServes, refinement of AddressSpace with 3 directories |
| paging_heap | `MCPagingHeap.cfg` | passes | FramesConserved, TlbCoherent, refinement with a heap page |
| heap | `MCKHeap.cfg` | passes | Tiled, Coalesced, LivePagesUsable, NodesConserved, OnlyExhaustionPanics, refinement of Allocator |
| heap_frames_released | `MCKHeapLeak.cfg` | violation | a page that became free by a merge keeps its frame |
| rbtree | `MCRbTree.cfg` | passes | SearchTree, RedBlack, FindExact, KeysExact on 8 keys with 2 calls of erase or clear |
| elf | `MCElf.cfg` | passes | PagesExact, BssZero, FileBytesKept for one or two program headers |
| boot | `MCBoot.cfg` | passes | FramesUsable, StaticMapped, FramesFollow, DestroyedInReverse over 162 memory maps |
| user_program | `MCUserProgram.cfg` | passes | ScreenExact, LogKeepsColor, SleeperSilent and, under fairness, BothPrint |
| interrupts | `MCInterrupt.cfg` | passes | EoiExact, RemapExact, DescriptorsExact and, under fairness, RequestServed, KeysRead |
| elf_loaded | `MCElfLoaded.cfg` | violation | bss ending in the page of the last file bytes clears them |

The violations are disagreements between the code and one of its own comments;
`PROJECT.json` quotes the comment of each.

Three smaller disagreements are visible in the models and have no run of their
own: the gate of int 0x80 is an interrupt gate, so the scheduler does not work in a
system call, where a comment in syscall.S expects it to; `Task!is_kernel` reads one flag for all tasks, where task.h speaks of the
current task (no code calls it), and in `KHeap` a page that kmalloc made allocable
and nobody touched stays allocable after kfree, where page.h says free() marks it
unallocable.

### Bounds

- `MaxTasks` = 3: a ring of three has a removed task, a neighbour before and a
  different one behind; both queues can be non-empty with two tasks in one.
  Two tasks suffice for the violations.
- Paging: three directories give reference counts 1, 2 and 3 and a chain of
  forks; one user page is enough because two pages of a directory never share
  a frame.  Five (four) frames let copies be made and the stack run empty.  Two
  values tell a write from what was there.
- RbTree: eight keys are the fewest for which an insert's recolouring meets a
  second red pair further up; one erase then reaches both shapes of every case
  of remove_bottom's loop, second rounds included, and the second one starts
  from trees that inserts alone do not build.
- Elf: four-byte pages in a user area of four pages; start addresses and sizes
  put file bytes and bss in the same page, in neighbouring pages and across
  whole pages, aligned and not; offsets reach behind the end of the file.
- Boot: pages of four addresses in a space of 256, 162 maps.  Ends of regions are
  chosen around page boundaries, the end of the static heap, and the largest
  address; one map is too large only by a region's length, one only by its
  address.  The atexit table has two places for up to three objects, so that it
  overflows when all have a destructor.  Three words of stack hold a chain of two frames and a word beside it.
- UserProgram: three columns and two rows, so that most texts wrap and scroll; a
  colour stack of two; ints of eight bits; the loop's 10 and 20 are 1 and 2, with
  every position of the ticks in between.
- Interrupt: lines at both ends of both controllers, of which two may glitch,
  three masks, two tasks, a registered, an unregistered and an exception vector.
- Heap: five pages of four units, sizes 1 and 4 (less than a page, a page),
  alignment 1 and 4 (none, page): chunks share pages, straddle them, and both
  splits and both merges happen; three live chunks leave free neighbours on
  both sides.  `NodeLimit` = 8 lets the node pool run out.  `CHECK_DEADLOCK
  FALSE` in Paging and KHeap because a panic halts the machine, in Elf
  because loading ends, in Boot because the machine halts, and in RbTree because
  of the bound on erases.

### Fairness

`Task`: `WF(SleepBody)` and `WF(WakeupBody)`: the processor keeps executing the
current task, so a call past its checks is carried out.  `SF(TimerTick)`: the
interrupt controller keeps IRQ0 pending while IF is clear, so a tick that is
possible again and again is delivered.  Nothing is assumed about what tasks call.

`UserProgram`: the same for ticks, weak fairness of the start, and for each task
strong fairness of its program: a tick is short beside the timer's period, so a
task that gets the processor again and again also gets to its next call.

`Interrupt`: `WF` of setting up and of handlers (the processor keeps executing) and
`SF(Deliver(l))` for each line (between two instructions the processor
acknowledges what the controller asks for).  Priorities are fixed, so a fast timer
may legitimately keep the other lines waiting; `RequestServed` and `KeysRead` are
therefore about lines whose turn comes again and again (`TurnOf`), and say that
nothing forgotten stands in front of them.

## 4. Proofs

The theorems hold for every value of the constants that satisfies the named
assumption of the module; TLC evaluates the assumptions in every run.

| Module | Theorems (the property each states) |
|---|---|
| `UserProgramProofs`, tasks | Invariance, TypeCorrect (TypeOK), RingsHold (QueuesAreRings), LookupHolds (LookupExact), ResumableHolds (Resumable), PreemptibleHolds (Preemptible), SwitchHolds (SwitchToRunnable) |
| `UserProgramProofs`, program and console | PhasesHold, SilentHolds (SleeperSilent), ConsoleHolds, LogColorHolds (LogKeepsColor), ScreenHolds (ScreenExact) |
| `RbTreeProofs` | SearchHolds (SearchTree), BalanceHolds (RedBlack), FindHolds (FindExact), KeysHold (KeysExact) |
| `PagingProofs` | Invariance, ConservesFrames (FramesConserved), SharedFramesAreReadOnly (SharedIsReadOnly), TlbStaysCoherent (TlbCoherent), OneFaultServes (FaultServes), PagingRefines (ImplementsPrivateMemory) |
| `KHeapProofs` | Invariance, HeapStaysTiled (Tiled), FreeBlocksCoalesce (Coalesced), PagesStayUsable (LivePagesUsable), ConservesNodes (NodesConserved), PanicsOnlyWhenExhausted (OnlyExhaustionPanics), HeapRefines (ImplementsAllocator) |
| `ElfProofs` | Invariance, LoadsExactPages (PagesExact), BssReadsZero (BssZero), KeepsFileBytes (FileBytesKept) |
| `InterruptProofs` | Invariance, EndsEveryInterrupt (EoiExact), RemapsExactly (RemapExact), DescriptorsReadBack (DescriptorsExact) |
| `BootProofs` | DestroysInReverse (DestroyedInReverse), FramePointersFollow (FramesFollow), Invariance, MapsStaticMemory (StaticMapped), CollectsUsableFrames (FramesUsable) |
| `NatLemmas` | lemmas: quotient and remainder, uniqueness, monotonicity, division twice; induction for sets; functions defined by recursion exist and are unique |

In each module an inductive invariant is proved once (`Invariance` for `IInv`,
`PhasesHold` for `PInv`, `ConsoleHolds` for `CInv`; `InitRb` and `NextRb` for
`RbInv`) and the properties follow from it.  TLC checked every inductive invariant
on the instance of the module's run before the proof, RbInv with the bounds and black
heights computed from the tree instead of quantified.

### Recursive functions

Searches, walks, numerals and texts are recursive functions, `f[n \in S] == ...`,
which stand for `CHOOSE f : f = [n \in S |-> ...]`: nothing can be said of such a
function before one is known to exist.  The library's theorems on this have an
operator as a parameter, which the installed provers do not instantiate.  The
project's own lemmas take sets and functions instead.  `LeastNatural` and `NatSet`
are induction over the natural numbers for a set; `ObeysExists` and `RoundsExist`
say that a function that is computed from its values at smaller numbers, by a step
given as a function on pairs, exists; `TreeRecursion` and `TreeInduction` are the same
along the children of a tree.  What each recursive definition of the models returns
is then one lemma per definition (`WalkIs`, `FindGeIs`, `BottomFound`,
`BlackHeightsIs` and so on in `RbTreeProofs`; those on digits, formats and the roll in
`UserProgramProofs`).

### Task

Assumption: `MaxTasks` is a positive natural number.  The inductive invariant is
`TypeOK /\ PidsDense /\ QueuesAreRings /\ FlagsSaved`.
`PidsDense` (the pids in use are 0 .. next_pid - 1) is what makes the inexact
search of id2task exact; it would fail as soon as tasks could disappear.
`FlagsSaved` says what every saved context brings back: a task inside a call has
an enabled flag in its frame, the current task has IF set when it runs its own
code or is kernel code, and each suspended task has a context whose relevant
copy of IF is set.  `Preemptible` alone is not inductive: a switch resumes
another task's flag.

The first part of `UserProgramProofs` proves that `Insert` turns a ring through M into a ring through
M and the new task (`InsertRing`) and that `Remove` does the converse
(`RemoveRing`).  "One ring" is stated as: a nonempty subset closed under next is
everything.  That form is preserved by purely set-theoretic arguments, without
induction along the ring.

### Program and console

`SleeperSilent` needs to know where both tasks are.  `PInv` adds to the invariant of
`Task`, which every step of the program keeps because it is a step of `Task`
(`TaskSteps`), that there are at most two tasks and that pid 0 is in one of six phases
(`Fresh`, `Resting`, `Counting`, `Stopping`, `Solo`, `Past`), each with what pid 1 may
be doing.  The phases are separated by the calls of pid 0 and by nothing else; the
steps of pid 1 and the ticks stay inside a phase.  Assumed of the constants is that the
program sleeps before it wakes (`Sleep < Wake`, 10 and 20 in the code).

`ScreenExact` compares two computations.  `Sees(c, r, color)` relates the console to the
roll of paper: the same column, a row that differs by the rows scrolled away, and video
memory equal to the last `NROW` rows of the roll.  It is kept by every character (line
end, carriage return, other control characters, a line that becomes full), hence by
every piece a conversion hands on and by every item of a format.  On the other side the
loop of u2s, which divides until nothing is left, yields the numeral, whose length and
digits are defined by powers of the base (`Power`, a recursive function, because the
provers know nothing of `^`), the least int and zero included.  The constants are
assumed to be what the hardware and the C types give: a screen of at most 65536
positions, since the cursor has 16 bits; a colour stack of more than one place, since
the code never pops the last colour; and arguments in the range of the type that va_arg
is told (`Items`).  The statements are about any set of formats (`Probes`, `Formats`).
Working on this proof showed that two guards of a CASE in `Typed` overlapped; they are
disjoint now, and TLC's results have not changed.

### Red-black tree

Assumption: the number of keys is a positive natural number.  The inductive invariant is
`RbInv`, `LoopIs(tree, used, pc, cur)`: between calls the tree is `Idle`; at the
head of insert's loop it is `Inserting` (as `Idle`, but cur is red and its parent may be);
at the head of erase's loop it is `Erasing` (as `Idle`, but one pointer leads to one black
node too few).  None of the four properties is inductive: a walk or a black height says
nothing about how a rotation changes it.  `RbInv` is local instead.

- *Shape* (`Formed`): parent pointers mirror child pointers (`Linked`), and each node n has
  bounds lo[n] < key[n] < hi[n], of which a child inherits one and gets its parent's key
  as the other (`Ordered`).  A rotation moves the bounds of two nodes, a new leaf gets the
  gap it was put in, and when a node leaves, the gap it leaves closes (`Squeezes`).  The
  distance hi[n] - lo[n] shrinks along the children, so there are no cycles, and it is
  what the recursion over the tree descends on.  Two nodes of which neither is below the
  other have bounds that do not meet (`Apart`); hence every node in use is reached and
  `walk` lists them all once.
- *Colour* (`Coloured`): no red node has a red child except at the node the loop is at.
- *Black height* (`Balanced`): there is a function bh with bh[n] = bh[child] + 1 for black
  n, plus one more at the pointers in a set L, which is empty except in erase's loop.

Every round of a loop is a composition of recolourings (`Blackened`, `Reddened`, `Matched`)
and rotations (`Turned`), and one lemma for each shape of the round shows that it ends or
takes the exception up.  `EraseCall` follows the node that leaves, which need not be
the one erase was called for, to the pointer that then lacks a black node; there NIL's
parent pointer is what the next round reads, and it is right because `Spliced` says that
erase has just written it.

### Paging

Assumption: there are a frame and a directory, the sets of pages are finite and
disjoint, and the values contain a zero and not the mark for "no memory".
`IInv` has three parts.  `Tables` is about the entries: directories are created
in order and those not created yet are empty (`DirsDense`, `UnusedEmpty`), the bits
of an entry hang together (`EntriesOK`), entries that name one frame are those of
one user page in several directories and none is writable (`Sharing`), and a cached
translation is what a walk finds (`TlbExact`).  `Counted` says that a frame is
either on the stack, once, or named by as many entries as `frame_ref_cnt` says.
`ValueTypes` is about contents.  The parts need each other: a fault makes a page
private by its count alone, so the count must be exact, and it stays exact only
because the frame a fault takes from the stack is nobody's.
`PagingRefines` maps the memory of each directory to what its entries
and frames make of it: a fork is a copy, a write changes one page of one task,
and faults, switches and cache fills are stutters.

### Kernel heap

Assumption: the heap begins and ends at a page, sizes and alignments are positive,
and the node limit is more than the two nodes that kheap_init takes.  `IInv` is
`Partition` (both trees hold the same blocks, free blocks and those of chunks tile
the heap, no two free blocks touch), `Nodes` (a node is in a tree or on the list of
freed ones), `Paged` (the pages of a chunk can be used) and `OnlyExhaustionPanics`.
The proof works address by address: kmalloc and kfree replace some blocks by
others that cover the same addresses.  The code finds the neighbours of a freed
block by two searches; that they are neighbours follows from the tiling, and that
no third block has to be merged from `Coalesced`.  `HeapRefines` maps the chunks to
what the abstract allocator has handed out (`Handed`).

### ELF loader

Assumption: sizes and offsets are natural numbers, and pages and headers are not
empty.  `IInv` says, as long as no error was returned, what is known of headers and
file (`Headers`) and what the segments so far have left in memory (`Placed`): the
pages in use are exactly theirs, zeros behind the file bytes, and file bytes where
no later segment shares the page.  `FileBytesKept` and `Placed` except the page in
which the segment's own bss ends, because there the code clears file bytes (the
run elf_loaded).

### Interrupts

Assumption: the vectors that the remapped controllers send are vectors of the
table, and TSS addresses fit in four bytes.  `IInv` describes the controllers
before each word that remap_PIC writes (`Remapped`), the tables between the steps
of init_idt (`Filled`), and, for each point of a handler, exactly which lines are
in service (`Running`, `Serving`).  `EoiExact` alone is not inductive: it speaks
of moments with IF set, and a handler that schedule interrupted is finished by
another entry into the kernel.  `DescriptorsExact` is arithmetic: each field of a
descriptor is a quotient or remainder of the address, put together again by the
lemmas of `NatLemmas`.

### Boot

Assumption: the image does not end in front of its start, the old stack lies below
the new one, and a memory map is a sequence of regions.  `DestroysInReverse` needs
the invariant `Objects`: until it is emptied the table of destructors is ascending
and holds exactly the objects that have one, and those destroyed so far are its end,
read backwards; `FramePointersFollow` needs none.  Neither has a hypothesis.

The other theorems are about ordinary maps (see section 2) and have the hypothesis
`HeapGrows`: kheap_static_end never wraps around the end of the address space.  The
code does not test this.  It is true of the machine, where image and static heap are
a few MiB in 4 GiB; and in the run boot it is true of every step on an ordinary map.
`IInv` has `Static` (what of static memory is mapped before each round of the
mapping loop) and `Stacked`: the stack of frames is one descending interval inside
the one region that reaches behind the kernel, each of its frames has a count, and
at the end all are above the static heap.  The last point is the one that matters:
counts and tables are taken from the static heap after the frames were collected, and
the frames they overgrow have to be the ones the code takes off the stack.

### Only model-checked

- Liveness: RoundRobin, BothPrint, RequestServed, KeysRead (fairness is out of the
  prover's reach).
- The three violations, which are counterexamples.

## 5. Not modelled

- `%f` and unknown conversions of printf: no caller uses them.
- Sigset: passed to sleep and read by nothing.
- `write` and `close` of the ramdisk, directories and mounting in `fs/base.cpp`
  (defaults that return ENOTSUP): no caller.
- `Task::exit` (a stub), the test functions kmain has commented out, `wait_key`,
  `kheap_output_debug_msg`, `__cxa_finalize` of one function, and what rbtree.h
  compiles only under RBT_SIZE and RBT_DEBUG.
- Register contents; stack contents outside move_stack; the rate of the timer.
- The 32-bit width of heap sizes: all come from sizeof expressions of the kernel.
- Printing by an unhandled interrupt while kmain itself prints (see the hazard at
  klog.cpp:257), and preemption of kernel tasks inside the heap or paging: kmain
  creates no second kernel task.

## 6. Plan

Every invariant and every action property that a run checks is stated by a theorem.
What is left is liveness, which this prover cannot treat, and one link between
components: `KHeap` uses a tree as the set of its blocks and `Task` as the set of its pids,
which is what SearchHolds, FindHolds and KeysHold say of `RbTree`, but the composition
itself is not stated as a refinement.
