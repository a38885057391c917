--------------------------------- MODULE Elf ---------------------------------
(***************************************************************************)
(* The ELF loader of JKOS (core/elf.cpp, load_elf): which pages and bytes  *)
(* each program header writes, and how loading fails.  One step is one     *)
(* round of the loop over the program headers; no other task exists yet.   *)
(*                                                                         *)
(* The file is a node of the RAM disk, and every access to it goes through *)
(* seek and read.  A program header is [load, vaddr, filesz, memsz,        *)
(* offset]; the byte of the file at offset o is o + 1.  A frame that has   *)
(* just been allocated holds arbitrary bytes, here Junk.                   *)
(***************************************************************************)
EXTENDS Ramdisk, Sequences

CONSTANTS
  PageSize,
  USER_MEM_LOW, USER_MEM_HIGH,
  EhdrSize, PhdrSize,               \* sizes of both headers
  FileSizes, Phoffs,                \* bound: file sizes, e_phoff
  Vaddrs, Memsz, Filesz, Offsets,   \* bound: fields of program headers
  MaxSegments                       \* bound: program headers in the file

ASSUME ElfAssumption ==
  /\ {PageSize, EhdrSize, PhdrSize} \subseteq Nat \ {0}
  /\ USER_MEM_LOW \in Nat /\ USER_MEM_HIGH \in Nat /\ MaxSegments \in Nat
  /\ FileSizes \cup Phoffs \cup Vaddrs \cup Memsz \cup Filesz \cup Offsets \subseteq Nat

Junk == -1

\* The header of the file, if there is a file; plain stands for all the
\* fields that is_header_valid compares with one constant each.
Ehdrs == [file : BOOLEAN, plain : BOOLEAN, e_phoff : Phoffs, e_phnum : 0 .. MaxSegments + 1]

Addrs == 0 .. USER_MEM_HIGH + PageSize

Phdrs == [load : BOOLEAN, vaddr : Vaddrs, filesz : Filesz, memsz : Memsz, offset : Offsets]

VARIABLES
  phdrs,      \* the program headers that are in the file
  ehdr,       \* its ELF header
  node,       \* its node
  i,          \* loop variable
  load_done,
  present,    \* user pages with a frame
  lazy,       \* user pages to be zero-filled when first touched
  mem,        \* bytes of the present pages
  ret         \* "none" while it runs, "entry", or the error

vars == <<phdrs, ehdr, node, i, load_done, present, lazy, mem, ret>>

----------------------------------------------------------------------------
PageOf(x) == x \div PageSize

Floor(x) == PageOf(x) * PageSize

get_aligned(x) == IF x = 0 THEN 0 ELSE ((x - 1) \div PageSize + 1) * PageSize

\* The pages that hold the bytes from a up to, not including, b.
PagesOf(a, b) == {PageOf(x) : x \in a .. b - 1}

\* Memory after the pages P got frames where they had none.
Fresh(P) == [x \in Addrs |-> IF PageOf(x) \in P \ present THEN Junk ELSE mem[x]]

\* Bytes taken from the file.
FileBytes(h) == IF h.filesz < h.memsz THEN h.filesz ELSE h.memsz

InFile(h) == h.vaddr .. h.vaddr + FileBytes(h) - 1

\* alloc_interval over the whole segment, if it has bytes in the file.
FilePages(h) ==
  IF h.filesz = 0 THEN {} ELSE PagesOf(h.vaddr, h.vaddr + h.memsz)

----------------------------------------------------------------------------
(***************************************************************************)
(* The space of a segment behind its file bytes, from Start to End.        *)
(***************************************************************************)
Start(h) == h.vaddr + FileBytes(h)

End(h) == h.vaddr + h.memsz

\* The page in which the space starts, and the one in which it ends, are
\* allocated at once unless the space covers them from or to their boundary.
HeadPages(h) == IF Start(h) # get_aligned(Start(h)) THEN {PageOf(Start(h))} ELSE {}

\* Mutant of TailPages: the last page is left to lazy allocation.
TailPagesNone(h) == {}

TailPages(h) == IF Floor(End(h)) # End(h) THEN {PageOf(Floor(End(h)))} ELSE {}

\* lazy_alloc_interval
LazyPages(h) == PagesOf(get_aligned(Start(h)), Floor(End(h)))

\* Bytes the two memsets clear; the second starts at the page boundary, which
\* may lie before Start.
\* Mutant: the first memset starts at the page boundary too.
ClearedFromPage(h) ==
  {x \in Addrs : \/ Floor(Start(h)) <= x /\ x < get_aligned(Start(h))
                 \/ Floor(End(h)) <= x /\ x < End(h)}

Cleared(h) ==
  {x \in Addrs : \/ Start(h) <= x /\ x < get_aligned(Start(h))
                 \/ Floor(End(h)) <= x /\ x < End(h)}

\* Mutant of BssPages: lazy_alloc does not clear a page that has a frame.
BssPagesLazyOnly(h) == {}

\* Pages of the space that have frames already and are filled with zeros.
BssPages(h) == LazyPages(h) \cap (present \cup FilePages(h) \cup HeadPages(h) \cup TailPages(h))

\* Memory after n bytes of the file from offset o were read to the segment.
Copied(h, o, n, P) ==
  [x \in Addrs |-> IF x \in h.vaddr .. h.vaddr + n - 1 THEN o + (x - h.vaddr) + 1
                   ELSE Fresh(P)[x]]

\* A program header that is loaded completely, its bytes from offset o.
LoadSegment(h, o) ==
  LET bss == Start(h) < End(h)
      now == FilePages(h) \cup (IF bss THEN HeadPages(h) \cup TailPages(h) ELSE {})
      loaded == Copied(h, o, FileBytes(h), now)
  IN
  /\ present' = present \cup now
  /\ lazy' = (IF bss THEN lazy \cup LazyPages(h) ELSE lazy) \ present'
  /\ mem' = IF bss
            THEN [x \in Addrs |-> IF x \in Cleared(h) \/ PageOf(x) \in BssPages(h)
                                  THEN 0 ELSE loaded[x]]
            ELSE loaded

Fail(error) ==
  /\ ret' = error
  /\ UNCHANGED <<i, load_done>>

----------------------------------------------------------------------------
\* is_header_valid
is_header_valid(h) == h.plain /\ h.e_phoff # 0 /\ h.e_phnum # 0

\* Before the loop: the file, its header, and is_header_valid.
CheckHeader ==
  LET r == read(node, EhdrSize) IN
  /\ ret = "none" /\ i = 0
  /\ IF ~ehdr.file THEN Fail("ENOENT") /\ UNCHANGED node
     ELSE /\ node' = r.node
          /\ IF r.ret # EhdrSize THEN Fail("EIO")
             ELSE IF ~is_header_valid(ehdr) THEN Fail("ENOEXEC")
             ELSE i' = 1 /\ UNCHANGED <<load_done, ret>>
  /\ UNCHANGED <<phdrs, ehdr, present, lazy, mem>>

\* Mutant of FileAt: the segment is read from where the header ended.
FileAtNone(n, h) == [node |-> n, ret |-> 0]

\* file->seek(header.p_offset, SEEK_SET), in the node as the header's read
\* left it.
FileAt(n, h) == seek(n, h.offset, SEEK_SET)

\* file->seek to the i-th program header.
PhdrAt == seek(node, (i - 1) * PhdrSize + ehdr.e_phoff, SEEK_SET)

Error(error, n) ==
  /\ Fail(error)
  /\ node' = n
  /\ UNCHANGED <<present, lazy, mem>>

\* One program header.
ProgramHeader ==
  LET r == read(PhdrAt.node, PhdrSize) IN
  /\ ret = "none" /\ i \in 1 .. ehdr.e_phnum
  /\ IF PhdrAt.ret = -1 THEN Error("EIO", PhdrAt.node)
     ELSE IF r.ret # PhdrSize THEN Error("EIO", r.node)
     ELSE LET h    == phdrs[i]
              at   == FileAt(r.node, h)
              data == read(at.node, FileBytes(h))
     IN
     IF ~h.load \/ h.memsz = 0
     THEN i' = i + 1 /\ node' = r.node /\ UNCHANGED <<load_done, ret, present, lazy, mem>>
     ELSE IF h.vaddr < USER_MEM_LOW \/ End(h) > USER_MEM_HIGH
     THEN Error("ENOMEM", r.node)
     ELSE IF h.filesz # 0 /\ at.ret = -1
     THEN Error("EIO", at.node)
     ELSE IF h.filesz # 0 /\ data.ret # FileBytes(h)
     THEN /\ Fail("EIO")
          /\ node' = data.node
          /\ present' = present \cup FilePages(h)
          /\ lazy' = lazy \ FilePages(h)
          /\ mem' = Copied(h, at.node.cur_offset, data.ret, FilePages(h))
     ELSE /\ LoadSegment(h, at.node.cur_offset)
          /\ node' = IF h.filesz # 0 THEN data.node ELSE r.node
          /\ i' = i + 1
          /\ load_done' = TRUE
          /\ UNCHANGED ret
  /\ UNCHANGED <<phdrs, ehdr>>

\* Behind the loop.
Finish ==
  /\ ret = "none" /\ i = ehdr.e_phnum + 1
  /\ ret' = IF load_done THEN "entry" ELSE "ENOEXEC"
  /\ UNCHANGED <<phdrs, ehdr, node, i, load_done, present, lazy, mem>>

\* Program headers that lie in the file, of those the ELF header counts.
InTheFile(h, size) ==
  {j \in 1 .. h.e_phnum : h.e_phoff + j * PhdrSize <= size}

\* The kernel loads into a directory without user pages.  The ELF header may
\* count more program headers than the file has.
Init ==
  /\ \E size \in FileSizes :
       /\ ehdr \in Ehdrs
       /\ node = NewNode(size)
       /\ phdrs \in [IF ehdr.file /\ EhdrSize <= size /\ is_header_valid(ehdr)
                     THEN InTheFile(ehdr, size) ELSE {} -> Phdrs]
  /\ i = 0
  /\ load_done = FALSE
  /\ present = {} /\ lazy = {}
  /\ mem = [x \in Addrs |-> Junk]
  /\ ret = "none"

Next == CheckHeader \/ ProgramHeader \/ Finish

Spec == Init /\ [][Next]_vars

----------------------------------------------------------------------------
(***************************************************************************)
(* Properties.  They speak of what the program finds once it runs.         *)
(***************************************************************************)

\* The program headers that load something, up to the one the loop is at.
Segments == {k \in DOMAIN phdrs : k < i /\ phdrs[k].load /\ phdrs[k].memsz # 0}

\* What a first read of byte x finds; a page that is neither present nor lazy
\* would be a page fault.
Byte(x) == IF PageOf(x) \in present THEN mem[x] ELSE 0

\* No segment behind the k-th touches the page of x.
Last(k, x) ==
  \A m \in Segments : m > k =>
    PageOf(x) \notin PagesOf(phdrs[m].vaddr, End(phdrs[m]))

\* Every byte of every segment can be accessed, and no page outside the
\* segments is given to the program, whatever the alignment of their ends.
PagesExact ==
  ret = "entry" =>
    present \cup lazy = UNION {PagesOf(phdrs[k].vaddr, End(phdrs[k])) : k \in Segments}

\* The part of a segment behind its file bytes reads as zeros, unless a later
\* segment shares the page: three ways of clearing have to meet without gap.
BssZero ==
  ret = "entry" =>
    \A k \in Segments : \A x \in Start(phdrs[k]) .. End(phdrs[k]) - 1 :
      Last(k, x) => Byte(x) = 0

\* The file bytes of a segment are in place if no later segment shares the
\* page and the space behind them does not end in the page.
FileBytesKept ==
  ret = "entry" =>
    \A k \in Segments : LET h == phdrs[k] IN \A x \in InFile(h) :
      /\ Last(k, x)
      /\ Start(h) < End(h) => PageOf(x) \notin TailPages(h)
      => Byte(x) = h.offset + (x - h.vaddr) + 1

\* elf.h on load_elf: "load the elf file @file into current page directory":
\* the file bytes of a segment that shares no page with a later one are in
\* memory.
FileLoaded ==
  ret = "entry" =>
    \A k \in Segments : LET h == phdrs[k] IN \A x \in InFile(h) :
      Last(k, x) => Byte(x) = h.offset + (x - h.vaddr) + 1
=============================================================================
