------------------------------- MODULE Paging -------------------------------
(***************************************************************************)
(* Paging of JKOS (core/page.cpp): the stack of free frames and the frame  *)
(* reference counts, page table entries, lazy allocation, copy-on-write    *)
(* cloning of directories, the page fault handler, and the processor's TLB *)
(* between the tables and every access.                                    *)
(*                                                                         *)
(* The pages of a directory are user pages, which clone_directory shares   *)
(* copy-on-write, and the kernel stack page, which it copies.  Heap pages  *)
(* belong to tables that all directories link.  Page faults and fork run   *)
(* with interrupts off, and kmain loads the program before it forks, so    *)
(* each is one step.  A panic halts the machine; what a handler assigned  *)
(* just before it is not kept.                                             *)
(***************************************************************************)
EXTENDS Integers, Sequences, FiniteSets

CONSTANTS
  NFrames,      \* frames on the stack when Page::init is done
  NDirs,        \* bound: directories ever created
  UserPages,
  HeapPages,
  KStack,       \* the page below KERNEL_STACK_POS
  Values,       \* contents of a page; 0 is a zero-filled one
  NoEntry,      \* not in the TLB
  Unmapped      \* no memory at a page, in the abstract view

ASSUME PagingAssumption ==
  /\ NFrames \in Nat \ {0} /\ NDirs \in Nat \ {0}
  /\ IsFiniteSet(UserPages) /\ IsFiniteSet(HeapPages)
  /\ 0 \in Values
  /\ UserPages \cap HeapPages = {} /\ KStack \notin UserPages \cup HeapPages
  /\ Unmapped \notin Values

Frames == 1 .. NFrames      \* frame number 0 means "none" to the code
Dirs   == 1 .. NDirs
Pages  == UserPages \cup {KStack}

VARIABLES
  frames,         \* the stack frames[0 .. nframes - 1]
  frame_ref_cnt,
  pte,            \* pte[d][p]: Table_entry_t of a directory's own page
  heap,           \* heap[p]: Table_entry_t of a heap page
  content,        \* what each frame holds
  dirs,           \* directories created so far
  cur,            \* current_page_dir
  tlb,            \* cached translations of the current directory
  out,            \* the value the last access to a directory's page moved
  panic           \* "none", or why the kernel has panicked

vars == <<frames, frame_ref_cnt, pte, heap, content, dirs, cur, tlb, out, panic>>

Entries == [addr : 0 .. NFrames, present : BOOLEAN, rw : BOOLEAN,
            user : BOOLEAN, allocable : BOOLEAN, fill : BOOLEAN]

NullEntry == [addr |-> 0, present |-> FALSE, rw |-> FALSE, user |-> FALSE,
              allocable |-> FALSE, fill |-> FALSE]

\* The entry of page p in the current directory, wherever its table is.
Entry(p) == IF p \in HeapPages THEN heap[p] ELSE pte[cur][p]

SetEntry(p, e) ==
  IF p \in HeapPages
  THEN heap' = [heap EXCEPT ![p] = e] /\ UNCHANGED pte
  ELSE pte' = [pte EXCEPT ![cur][p] = e] /\ UNCHANGED heap

invlpg(P) == tlb' = [p \in Pages \cup HeapPages |-> IF p \in P THEN NoEntry ELSE tlb[p]]

----------------------------------------------------------------------------
(***************************************************************************)
(* Table_entry_t.                                                          *)
(***************************************************************************)

\* frames[nframes - 1], the frame the next allocation takes.
TopFrame == frames[Len(frames)]

PopFrame == SubSeq(frames, 1, Len(frames) - 1)

\* What alloc makes of an entry without a frame.
Allocated(e, usr, w) ==
  [e EXCEPT !.addr = TopFrame, !.rw = w, !.user = usr, !.allocable = TRUE,
            !.present = TRUE]

AllocCounts == [frame_ref_cnt EXCEPT ![TopFrame] = 1]

\* alloc(user, writable) on page p of the current directory.
Alloc(p, usr, w) ==
  LET e == Entry(p) IN
  IF e.addr # 0
  THEN /\ SetEntry(p, [e EXCEPT !.rw = w, !.user = usr])
       /\ UNCHANGED <<frames, frame_ref_cnt, panic>>
  ELSE IF frames = <<>>
  THEN /\ panic' = "no free frame"
       /\ UNCHANGED <<frames, frame_ref_cnt, pte, heap>>
  ELSE /\ SetEntry(p, Allocated(e, usr, w))
       /\ frames' = PopFrame
       /\ frame_ref_cnt' = AllocCounts
       /\ UNCHANGED panic

\* The contents of memory once the frame p has after alloc is filled with v.
Filled(p, v) ==
  IF Entry(p).addr # 0 THEN [content EXCEPT ![Entry(p).addr] = v]
  ELSE IF frames # <<>> THEN [content EXCEPT ![TopFrame] = v]
  ELSE content

\* lazy_alloc
LazyAllocated(e, usr, w, zero) ==
  IF e.addr = 0
  THEN [e EXCEPT !.rw = w, !.user = usr, !.allocable = TRUE, !.fill = zero]
  ELSE [e EXCEPT !.rw = w, !.user = usr]

\* Mutant of Freed: the frame number stays in the entry.
FreedKeepsAddr(e) == [e EXCEPT !.present = FALSE, !.allocable = FALSE]

\* The entry after free().
Freed(e) == [e EXCEPT !.addr = 0, !.present = FALSE, !.allocable = FALSE]

----------------------------------------------------------------------------
(***************************************************************************)
(* The kernel prepares the first directory (load_elf and test_elf) before  *)
(* anything is forked.                                                     *)
(***************************************************************************)
Loading == panic = "none" /\ dirs = {1}

\* alloc_interval, then file->read into the page.
LoadPage ==
  /\ Loading
  /\ \E p \in UserPages, v \in Values :
       /\ Alloc(p, TRUE, TRUE) /\ content' = Filled(p, v) /\ invlpg({p})
       /\ out' = IF panic' = "none" THEN v ELSE out
  /\ UNCHANGED <<dirs, cur>>

\* lazy_alloc_interval with fill_zero, for the bss.
LazyPage ==
  /\ Loading
  /\ \E p \in UserPages :
       LET e == Entry(p) IN
       /\ SetEntry(p, LazyAllocated(e, TRUE, TRUE, TRUE))
       /\ content' = IF e.addr = 0 THEN content ELSE [content EXCEPT ![e.addr] = 0]
       /\ invlpg({p})
  /\ out' = 0
  /\ UNCHANGED <<frames, frame_ref_cnt, dirs, cur, panic>>

----------------------------------------------------------------------------
(***************************************************************************)
(* The heap's use of paging: kmalloc calls lazy_alloc_interval, and kfree  *)
(* calls free_interval, which leaves pages alone that are not present.     *)
(***************************************************************************)
HeapLazy ==
  /\ panic = "none"
  /\ \E p \in HeapPages :
       SetEntry(p, LazyAllocated(Entry(p), FALSE, TRUE, FALSE)) /\ invlpg({p})
  /\ UNCHANGED <<frames, frame_ref_cnt, content, dirs, cur, out, panic>>

\* Mutant of FreeInvlpg: free_interval does not call invlpg.
FreeInvlpgNone(p) == {}

FreeInvlpg(p) == {p}

HeapFree(p) ==
  LET e == Entry(p)
      left == frame_ref_cnt[e.addr] - 1 IN
  /\ panic = "none"
  /\ IF e.present /\ e.addr # 0
     THEN /\ frame_ref_cnt' = [frame_ref_cnt EXCEPT ![e.addr] = left]
          /\ frames' = IF left = 0 THEN Append(frames, e.addr) ELSE frames
          /\ SetEntry(p, Freed(e))
          /\ invlpg(FreeInvlpg(p))
     ELSE UNCHANGED <<frames, frame_ref_cnt, pte, heap, tlb>>
  /\ UNCHANGED <<content, dirs, cur, out, panic>>

----------------------------------------------------------------------------
(***************************************************************************)
(* Accesses.  The processor uses a cached translation or walks the tables  *)
(* and caches what it finds; entries can be evicted at any time, so both   *)
(* are possible whenever there is one.                                     *)
(***************************************************************************)
Walk(p) == [addr |-> Entry(p).addr, rw |-> Entry(p).rw, user |-> Entry(p).user]

Translations(p) ==
  (IF tlb[p] # NoEntry THEN {tlb[p]} ELSE {})
    \cup (IF Entry(p).present THEN {Walk(p)} ELSE {})

\* The processor lets code of this mode access through translation x; CR0.WP
\* is set, so the kernel too is stopped by a read-only page.
Allows(x, usr, w) == (usr => x.user) /\ (w => x.rw)

ReadPage ==
  /\ panic = "none"
  /\ \E p \in Pages, usr \in BOOLEAN :
       \E x \in Translations(p) :
         /\ Allows(x, usr, FALSE)
         /\ tlb' = [tlb EXCEPT ![p] = x]
         /\ out' = content[x.addr]
  /\ UNCHANGED <<frames, frame_ref_cnt, pte, heap, content, dirs, cur, panic>>

WritePage ==
  /\ panic = "none"
  /\ \E p \in Pages \cup HeapPages, usr \in BOOLEAN, v \in Values :
       \E x \in Translations(p) :
         /\ Allows(x, usr, TRUE)
         /\ tlb' = [tlb EXCEPT ![p] = x]
         /\ content' = [content EXCEPT ![x.addr] = v]
         /\ out' = IF p \in HeapPages THEN out ELSE v
  /\ UNCHANGED <<frames, frame_ref_cnt, pte, heap, dirs, cur, panic>>

----------------------------------------------------------------------------
(***************************************************************************)
(* page_fault, after the processor has dropped the translation that        *)
(* faulted.  Parameters are the page and the error code's bits: present,   *)
(* write and user.                                                         *)
(***************************************************************************)
Segfault ==
  /\ panic' = "page fault"
  /\ UNCHANGED <<frames, frame_ref_cnt, pte, heap, content>>

\* Mutant of Reclaimed: the last owner does not get write access back.
ReclaimedKeepsRo(e) == e

\* The entry of the last owner of a frame.
Reclaimed(e) == [e EXCEPT !.rw = TRUE]

\* Mutant of CowCounts: the count of the frame that is left is not lowered.
CowCountsKept(f) == [frame_ref_cnt EXCEPT ![TopFrame] = 1]

\* The counts after an owner of frame f has moved to a frame of its own.
CowCounts(f) == [frame_ref_cnt EXCEPT ![f] = @ - 1, ![TopFrame] = 1]

\* Mutant of CowCopied: copy_page_physical is not called.
CowNotCopied(f) == content

\* copy_page_physical from frame f to the frame just allocated.
CowCopied(f) == [content EXCEPT ![TopFrame] = content[f]]

\* The write half of page_fault: the last owner of a frame is given write
\* access, any other owner leaves the frame and gets a copy.
CopyOnWrite(p) ==
  LET e == Entry(p) IN
  IF e.addr = 0 \/ frame_ref_cnt[e.addr] = 0 THEN Segfault
  ELSE IF frame_ref_cnt[e.addr] = 1
  THEN /\ SetEntry(p, Reclaimed(e))
       /\ UNCHANGED <<frames, frame_ref_cnt, content, panic>>
  ELSE IF frames = <<>>
  THEN /\ panic' = "no free frame"
       /\ UNCHANGED <<frames, frame_ref_cnt, pte, heap, content>>
  ELSE /\ SetEntry(p, Allocated(e, TRUE, TRUE))
       /\ frames' = PopFrame
       /\ frame_ref_cnt' = CowCounts(e.addr)
       /\ content' = CowCopied(e.addr)
       /\ UNCHANGED panic

\* Mutant of LazyFilled: alloc_fill is ignored.
LazyUnfilled(p) == content

\* Memory after a lazily allocated page got its frame.
LazyFilled(p) == IF Entry(p).fill THEN Filled(p, 0) ELSE content

page_fault(p, present, w, usr) ==
  LET e == Entry(p) IN
  IF ~e.allocable \/ (~e.user /\ usr) THEN Segfault
  ELSE IF ~present
  THEN /\ Alloc(p, e.user, e.rw)
       /\ content' = LazyFilled(p)
  ELSE IF w /\ e.user THEN CopyOnWrite(p)
  ELSE Segfault

\* A faulting access: no translation at all, or one that forbids the access.
Fault(p, w, usr) ==
  /\ panic = "none"
  /\ \/ tlb[p] = NoEntry /\ ~Entry(p).present /\ page_fault(p, FALSE, w, usr)
     \/ /\ \E x \in Translations(p) : ~Allows(x, usr, w)
        /\ page_fault(p, TRUE, w, usr)
  /\ invlpg({p})
  /\ UNCHANGED <<dirs, cur, out>>

PageFault == \E p \in Pages \cup HeapPages, w \in BOOLEAN, usr \in BOOLEAN : Fault(p, w, usr)

----------------------------------------------------------------------------
(***************************************************************************)
(* Directories.                                                            *)
(***************************************************************************)

\* clone_table on the entries of user pages; the source's and the clone's
\* entries are the same afterwards.
clone_table(e) == IF e.addr # 0 THEN [e EXCEPT !.rw = FALSE] ELSE e

Shared == {p \in UserPages : pte[cur][p].addr # 0}

\* Mutant of CloneInvlpg: clone_table does not call invlpg.
CloneInvlpgNone == {}

CloneInvlpg == Shared

\* clone_directory of the current directory, called by fork.  The kernel
\* stack page is allocated with get_physical_addr(..., alloc = true) and
\* copied.  Heap memory for the new tables is taken by HeapLazy and PageFault
\* steps before.
CloneDirectory ==
  LET d == Cardinality(dirs) + 1 IN
  /\ panic = "none"
  /\ d \in Dirs
  /\ IF frames = <<>>
     THEN /\ panic' = "no free frame"
          /\ UNCHANGED <<frames, frame_ref_cnt, pte, content, dirs, tlb>>
     ELSE /\ dirs' = dirs \cup {d}
          /\ pte' = [pte EXCEPT
               ![cur] = [p \in Pages |-> IF p \in UserPages THEN clone_table(@[p]) ELSE @[p]],
               ![d] = [p \in Pages |-> IF p \in UserPages THEN clone_table(pte[cur][p])
                                       ELSE Allocated(NullEntry, FALSE, TRUE)]]
          /\ frames' = PopFrame
          /\ frame_ref_cnt' =
               [f \in Frames |->
                  IF f = TopFrame THEN 1
                  ELSE frame_ref_cnt[f] + Cardinality({p \in Shared : pte[cur][p].addr = f})]
          /\ content' = [content EXCEPT ![TopFrame] = content[pte[cur][KStack].addr]]
          /\ invlpg(CloneInvlpg)
          /\ UNCHANGED panic
  /\ UNCHANGED <<heap, cur, out>>

\* switch_task loads cr3, which empties the TLB.
SwitchDirectory ==
  /\ panic = "none"
  /\ cur' \in dirs
  /\ invlpg(Pages \cup HeapPages)
  /\ UNCHANGED <<frames, frame_ref_cnt, pte, heap, content, dirs, out, panic>>

----------------------------------------------------------------------------
(***************************************************************************)
(* Initially move_stack has allocated the kernel stack page of the first   *)
(* directory.  frame_ref_cnt comes from new uint32_t[] uninitialised.      *)
(***************************************************************************)
Init ==
  /\ frames = [i \in 1 .. NFrames - 1 |-> NFrames + 1 - i]
  /\ \E g \in {0, 1} : frame_ref_cnt = [f \in Frames |-> IF f = 1 THEN 1 ELSE g]
  /\ pte = [d \in Dirs |-> [p \in Pages |->
              IF d = 1 /\ p = KStack
              THEN [NullEntry EXCEPT !.addr = 1, !.present = TRUE, !.rw = TRUE, !.allocable = TRUE]
              ELSE NullEntry]]
  /\ heap = [p \in HeapPages |-> NullEntry]
  /\ content = [f \in Frames |-> 0]
  /\ dirs = {1}
  /\ cur = 1
  /\ tlb = [p \in Pages \cup HeapPages |-> NoEntry]
  /\ out = 0
  /\ panic = "none"

Next ==
  \/ LoadPage
  \/ LazyPage
  \/ HeapLazy
  \/ \E p \in HeapPages : HeapFree(p)
  \/ ReadPage
  \/ WritePage
  \/ PageFault
  \/ CloneDirectory
  \/ SwitchDirectory

Spec == Init /\ [][Next]_vars

----------------------------------------------------------------------------
(***************************************************************************)
(* Properties.                                                             *)
(***************************************************************************)

\* The entries of live tables, by directory and page; the tables all
\* directories link count once, as those of directory 0.
Places == (dirs \X Pages) \cup ({0} \X HeapPages)

EntryAt(m) == IF m[1] = 0 THEN heap[m[2]] ELSE pte[m[1]][m[2]]

\* The entries that name frame f.
MappingsOf(f) == {m \in Places : EntryAt(m).addr = f}

\* Type correctness of the paging state.
TypeOK ==
  /\ frames \in Seq(Frames) /\ Len(frames) < NFrames
  /\ frame_ref_cnt \in [Frames -> Nat]
  /\ pte \in [Dirs -> [Pages -> Entries]]
  /\ heap \in [HeapPages -> Entries]
  /\ content \in [Frames -> Values]
  /\ dirs \subseteq Dirs /\ cur \in dirs
  /\ tlb \in [Pages \cup HeapPages ->
               {NoEntry} \cup [addr : Frames, rw : BOOLEAN, user : BOOLEAN]]
  /\ out \in Values
  /\ panic \in {"none", "no free frame", "page fault"}

\* Frames are conserved: a frame is on the free stack exactly once and named
\* by no entry, or is off the stack, named by at least one entry and counted
\* exactly.  So no frame leaks, none is handed out twice, and page_fault
\* never meets its "frame reference count error".
FramesConserved ==
  /\ TypeOK
  /\ \A f \in Frames :
       LET onStack == Cardinality({i \in 1 .. Len(frames) : frames[i] = f})
           mapped  == Cardinality(MappingsOf(f)) IN
         \/ onStack = 1 /\ mapped = 0
         \/ onStack = 0 /\ mapped > 0 /\ frame_ref_cnt[f] = mapped

\* A frame that more than one entry names is writable through none of them,
\* neither by the tables nor by what the TLB still remembers.
SharedIsReadOnly ==
  \A d \in dirs, p \in Pages :
    LET f == pte[d][p].addr IN
      f # 0 /\ Cardinality(MappingsOf(f)) > 1 =>
        /\ ~pte[d][p].rw
        /\ d = cur /\ tlb[p] # NoEntry => ~tlb[p].rw

\* The TLB never translates to a frame the tables do not name, and never
\* grants more than they do: every change of an entry of the current
\* directory that takes something away is followed by invlpg, a fault or cr3.
TlbCoherent ==
  \A p \in Pages \cup HeapPages :
    tlb[p] # NoEntry =>
      /\ Entry(p).present
      /\ tlb[p].addr = Entry(p).addr
      /\ (tlb[p].rw => Entry(p).rw) /\ (tlb[p].user => Entry(p).user)

\* One fault is enough: when page_fault returns, the tables allow the access
\* that faulted, so the restarted instruction does not fault again.
FaultServes ==
  [][UNCHANGED <<dirs, cur, out>> /\ panic' = "none" =>
       \A p \in Pages \cup HeapPages, w, usr \in BOOLEAN :
         (Entry(p)'.present /\ Allows(Walk(p)', usr, w)) \/ ~Fault(p, w, usr)]_vars

\* Copy-on-write, lazy zero filling, reference counting and the TLB together
\* implement private, eagerly copied memories.
Memory ==
  [d \in Dirs |-> [p \in Pages |->
     LET e == pte[d][p] IN
       IF e.addr # 0 THEN content[e.addr]
       ELSE IF e.allocable /\ e.fill THEN 0 ELSE Unmapped]]

Abstract == INSTANCE AddressSpace WITH live <- dirs, mem <- Memory

ImplementsPrivateMemory == Abstract!ASpec
=============================================================================
