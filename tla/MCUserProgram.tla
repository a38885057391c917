---------------------------- MODULE MCUserProgram ----------------------------
(***************************************************************************)
(* UserProgram for TLC: two tasks, a screen of two rows, bytes for ints.   *)
(***************************************************************************)
EXTENDS UserProgram

A == Lit(97)

MCColors == {<<4, 0>>}

MCFormats == {<<A>>, <<A, Lit(LF)>>}

MCHello == <<Lit(104), Lit(LF)>>

\* Every conversion, with the numbers at the ends of their ranges; wraps,
\* double scrolls, carriage returns, tabs.
MCProbes ==
  {<<Num(c, n)>> : c \in {"u", "x", "p"}, n \in {0, 9, 10, 255}}
  \cup {<<Num("d", n)>> : n \in {-128, -1, 127}}
  \cup {<<Num("c", 200), Num("c", 97), NullStr>>, <<Num("%", 0), Str(<<98, 9>>), Lit(LF)>>}
  \cup {<<A, A, A, A, A, Lit(x), Lit(y)>> : x, y \in {LF, CR, 9, 98}}
=============================================================================
