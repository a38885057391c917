---------------------------- MODULE AddressSpace ----------------------------
(***************************************************************************)
(* What paging promises to tasks: every page directory is a private memory.*)
(* Forking a directory copies the memory at once; afterwards a write is    *)
(* seen through the directory that made it and through no other.  No       *)
(* frames, no sharing, no TLB.  Paging is shown to implement this.         *)
(***************************************************************************)
CONSTANTS Dirs, Pages, Values, Unmapped

VARIABLES
  live,     \* directories that exist
  cur,      \* the directory in cr3
  mem,      \* what each directory's pages hold
  out       \* the value the last access moved: nothing but an access may
            \* change memory

avars == <<live, cur, mem, out>>

AInit ==
  /\ \E d \in Dirs : live = {d} /\ cur = d
  /\ mem \in [Dirs -> [Pages -> Values \cup {Unmapped}]]
  /\ out \in Values

\* The kernel gives the only directory a page with some first contents.
Provide ==
  /\ live = {cur}
  /\ \E p \in Pages : mem' = [mem EXCEPT ![cur][p] = out']
  /\ out' \in Values
  /\ UNCHANGED <<live, cur>>

Store ==
  /\ \E p \in Pages :
       mem[cur][p] # Unmapped /\ mem' = [mem EXCEPT ![cur][p] = out']
  /\ out' \in Values
  /\ UNCHANGED <<live, cur>>

Load ==
  /\ \E p \in Pages : mem[cur][p] # Unmapped /\ out' = mem[cur][p]
  /\ UNCHANGED <<live, cur, mem>>

Copy ==
  /\ \E d \in Dirs \ live :
       /\ live' = live \cup {d}
       /\ mem' = [mem EXCEPT ![d] = mem[cur]]
  /\ UNCHANGED <<cur, out>>

Activate ==
  /\ cur' \in live
  /\ UNCHANGED <<live, mem, out>>

ANext == Provide \/ Store \/ Load \/ Copy \/ Activate

ASpec == AInit /\ [][ANext]_avars
=============================================================================
