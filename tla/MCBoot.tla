------------------------------- MODULE MCBoot -------------------------------
(***************************************************************************)
(* Boot for TLC.  Low memory, a second region with the kernel image, and a *)
(* third one behind a hole; each may be missing, reserved or unaligned.    *)
(***************************************************************************)
EXTENDS Boot

Region(avail, from, to) == [avail |-> avail, addr |-> from, len |-> to - from]

Low == {<<>>, <<Region(FALSE, 0, 6)>>} \cup {<<Region(TRUE, 0, e)>> : e \in {3, 6, 11}}

Mid == {<<Region(TRUE, 12, e)>> : e \in {52, 100, 162, 164, 255, 256}}
       \cup {<<Region(TRUE, 15, e)>> : e \in {100, 164}}

High == {<<>>, <<Region(FALSE, 170, 220)>>} \cup {<<Region(TRUE, s, 220)>> : s \in {164, 170}}

\* A region that is too large only by its length, and one only by its address.
Edges == {<<Region(TRUE, 0, 255)>>, <<Region(TRUE, 12, 100), Region(TRUE, 255, 255)>>}

MCMaps == {a \o b \o c : a \in Low, b \in Mid, c \in High} \cup Edges
=============================================================================
