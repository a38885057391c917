----------------------------- MODULE RbTreeProofs -----------------------------
(***************************************************************************)
(* Theorems about the red-black tree, for every number of nodes.           *)
(*                                                                         *)
(* The inductive invariant RbInv relates the tree to the loop that runs.   *)
(* Order is local in it: every node n has bounds lo[n] and hi[n], which    *)
(* its children inherit, so that a rotation moves two of them; black       *)
(* height is a function bh that the children determine, off by one at the  *)
(* single pointer where erase has taken out a black node.  What walk, the  *)
(* searches and BlackHeights compute follows by induction on hi[n] - lo[n].*)
(***************************************************************************)
EXTENDS RbTree, NatLemmas, FiniteSetTheorems, SequenceTheorems, TLAPS

----------------------------------------------------------------------------
(***************************************************************************)
(* The shape of a tree.                                                    *)
(***************************************************************************)
All == Nodes \cup {NIL}

Sides == {0, 1}

Trees == [root : All, par : [All -> All], red : [All -> BOOLEAN],
          ch : [All -> [Sides -> All]], key : [Nodes -> Keys]]

\* The parent pointers of the nodes in U mirror the child pointers; all other
\* nodes have no children.
Linked(T, U) ==
  /\ T.root \in U \cup {NIL}
  /\ T.root = NIL => U = {}
  /\ T.root # NIL => T.par[T.root] = NIL
  /\ \A n \in U : \A i \in Sides :
       T.ch[n][i] \in U \cup {NIL} /\ (T.ch[n][i] # NIL => T.par[T.ch[n][i]] = n)
  /\ \A n \in U : n # T.root => T.par[n] \in U /\ \E i \in Sides : T.ch[T.par[n]][i] = n
  /\ \A n \in All \ U : \A i \in Sides : T.ch[n][i] = NIL

\* The keys below b are on one side of a.
Under(T, lo, hi, b, a) ==
  \/ lo[a] <= lo[b] /\ hi[b] <= T.key[a]
  \/ T.key[a] <= lo[b] /\ hi[b] <= hi[a]

\* The keys below a and those below b have nothing to do with each other, or
\* one of them is below the other.
Apart(T, lo, hi, a, b) ==
  \/ hi[a] <= lo[b]
  \/ hi[b] <= lo[a]
  \/ Under(T, lo, hi, a, b)
  \/ Under(T, lo, hi, b, a)

\* The keys below node n lie between lo[n] and hi[n].
Ordered(T, U, lo, hi) ==
  /\ lo \in [Nodes -> 0 .. NKeys + 1] /\ hi \in [Nodes -> 0 .. NKeys + 1]
  /\ \A n \in U : lo[n] < T.key[n] /\ T.key[n] < hi[n]
  /\ \A n \in U : T.ch[n][0] # NIL => lo[T.ch[n][0]] = lo[n] /\ hi[T.ch[n][0]] = T.key[n]
  /\ \A n \in U : T.ch[n][1] # NIL => lo[T.ch[n][1]] = T.key[n] /\ hi[T.ch[n][1]] = hi[n]
  /\ T.root # NIL => lo[T.root] = 0 /\ hi[T.root] = NKeys + 1
  /\ \A a, b \in U : a # b => Apart(T, lo, hi, a, b)

\* A tree of the nodes in U.
Formed(T, U, lo, hi) == T \in Trees /\ U \subseteq Nodes /\ Linked(T, U) /\ Ordered(T, U, lo, hi)

\* What the steps need to know of the constants.
LEMMA Numbers == /\ NKeys \in Nat /\ NKeys > 0 /\ Nodes \subseteq Int /\ Keys = Nodes
                 /\ NIL \notin Nodes /\ NIL \in All /\ Nodes \subseteq All
BY RbTreeAssumption DEF Nodes, Keys, NIL, All

\* The pointers and keys of a node in use.
LEMMA NodeIs ==
  ASSUME NEW T, NEW U, NEW lo, NEW hi, Formed(T, U, lo, hi), NEW n \in U
  PROVE  /\ n \in Nodes /\ n \in All /\ n # NIL
         /\ T.key[n] \in Int /\ T.key[n] \in 1 .. NKeys /\ lo[n] \in Int /\ hi[n] \in Int
         /\ lo[n] \in 0 .. NKeys + 1 /\ hi[n] \in 0 .. NKeys + 1
         /\ lo[n] < T.key[n] /\ T.key[n] < hi[n]
         /\ \A i \in Sides : /\ T.ch[n][i] \in U \cup {NIL}
                             /\ T.ch[n][i] # NIL => T.par[T.ch[n][i]] = n
         /\ T.ch[n][0] # NIL => lo[T.ch[n][0]] = lo[n] /\ hi[T.ch[n][0]] = T.key[n]
         /\ T.ch[n][1] # NIL => lo[T.ch[n][1]] = T.key[n] /\ hi[T.ch[n][1]] = hi[n]
         /\ n # T.root => T.par[n] \in U /\ \E i \in Sides : T.ch[T.par[n]][i] = n
<1>1. n \in Nodes
  BY DEF Formed
<1>2. n # NIL /\ n \in All
  BY <1>1, Numbers
<1>3. T.key[n] \in Keys
  BY <1>1 DEF Formed, Trees
<1>4. T.key[n] \in 1 .. NKeys /\ T.key[n] \in Int
  BY <1>3, Numbers DEF Keys
<1>5. lo[n] \in 0 .. NKeys + 1 /\ hi[n] \in 0 .. NKeys + 1 /\ lo[n] \in Int /\ hi[n] \in Int
  BY <1>1 DEF Formed, Ordered
<1>6. /\ lo[n] < T.key[n] /\ T.key[n] < hi[n]
      /\ T.ch[n][0] # NIL => lo[T.ch[n][0]] = lo[n] /\ hi[T.ch[n][0]] = T.key[n]
      /\ T.ch[n][1] # NIL => lo[T.ch[n][1]] = T.key[n] /\ hi[T.ch[n][1]] = hi[n]
  BY DEF Formed, Ordered
<1>7. /\ \A i \in Sides : T.ch[n][i] \in U \cup {NIL} /\ (T.ch[n][i] # NIL => T.par[T.ch[n][i]] = n)
      /\ n # T.root => T.par[n] \in U /\ \E i \in Sides : T.ch[T.par[n]][i] = n
  BY DEF Formed, Linked
<1> QED BY <1>1, <1>2, <1>4, <1>5, <1>6, <1>7

\* A child has fewer keys below it than its parent.
LEMMA ChildIs ==
  ASSUME NEW T, NEW U, NEW lo, NEW hi, Formed(T, U, lo, hi), NEW n \in U, NEW i \in Sides,
         NEW c, c = T.ch[n][i], c # NIL
  PROVE  /\ c \in U /\ T.par[c] = n /\ c # n /\ c # T.root
         /\ lo[n] <= lo[c] /\ hi[c] <= hi[n] /\ hi[c] - lo[c] < hi[n] - lo[n]
         /\ T.ch[n][1 - i] # c
<1>1. c \in U /\ T.par[c] = n /\ n # NIL
  BY NodeIs
<1>2. i = 0 \/ i = 1
  BY DEF Sides
<1>3. lo[n] <= lo[c] /\ hi[c] <= hi[n] /\ hi[c] - lo[c] < hi[n] - lo[n]
  <2>1. lo[n] \in Int /\ hi[n] \in Int /\ T.key[n] \in Int /\ lo[n] < T.key[n] /\ T.key[n] < hi[n]
    BY NodeIs
  <2>2. (lo[c] = lo[n] /\ hi[c] = T.key[n]) \/ (lo[c] = T.key[n] /\ hi[c] = hi[n])
    BY <1>2, NodeIs
  <2> QED BY <2>1, <2>2
<1>4. c # n
  <2>1. lo[n] \in Int /\ hi[n] \in Int
    BY NodeIs
  <2> QED BY <1>3, <2>1
<1>5. c # T.root
  BY <1>1 DEF Formed, Linked
<1>6. T.ch[n][1 - i] # c
  <2> SUFFICES ASSUME T.ch[n][1 - i] = c PROVE FALSE
    OBVIOUS
  <2>1. T.ch[n][0] = c /\ T.ch[n][1] = c
    BY <1>2
  <2>2. lo[c] = lo[n] /\ lo[c] = T.key[n] /\ lo[n] < T.key[n] /\ lo[n] \in Int
    BY <2>1, NodeIs
  <2> QED BY <2>2
<1> QED BY <1>1, <1>3, <1>4, <1>5, <1>6

----------------------------------------------------------------------------
(***************************************************************************)
(* Rotation.                                                               *)
(***************************************************************************)

\* ref is the place that points to n.
Refers(T, U, n, ref) ==
  \/ n = T.root /\ ref = <<NIL, 0>>
  \/ \E q \in U, i \in Sides : ref = <<q, i>> /\ T.ch[q][i] = n

\* Every child is smaller than its parent, and points back to it.
Nested(T, U, lo, hi) ==
  \A n \in U :
    /\ n # NIL /\ n \in All /\ lo[n] \in Int /\ hi[n] \in Int
    /\ \A i \in Sides :
         T.ch[n][i] # NIL =>
           /\ T.ch[n][i] \in U /\ T.par[T.ch[n][i]] = n /\ T.ch[n][i] # n /\ T.ch[n][i] # T.root
           /\ hi[T.ch[n][i]] - lo[T.ch[n][i]] < hi[n] - lo[n] /\ T.ch[n][1 - i] # T.ch[n][i]

\* It is so in a tree.
LEMMA NestedIs ==
  ASSUME NEW T, NEW U, NEW lo, NEW hi, Formed(T, U, lo, hi)
  PROVE  Nested(T, U, lo, hi)
<1> SUFFICES ASSUME NEW n \in U
             PROVE  /\ n # NIL /\ n \in All /\ lo[n] \in Int /\ hi[n] \in Int
                    /\ \A i \in Sides :
                         T.ch[n][i] # NIL =>
                           /\ T.ch[n][i] \in U /\ T.par[T.ch[n][i]] = n /\ T.ch[n][i] # n
                           /\ T.ch[n][i] # T.root /\ T.ch[n][1 - i] # T.ch[n][i]
                           /\ hi[T.ch[n][i]] - lo[T.ch[n][i]] < hi[n] - lo[n]
  BY DEF Nested
<1>1. n # NIL /\ n \in All /\ lo[n] \in Int /\ hi[n] \in Int
  BY NodeIs
<1>2. ASSUME NEW i \in Sides, NEW c, c = T.ch[n][i], c # NIL
      PROVE  /\ c \in U /\ T.par[c] = n /\ c # n /\ c # T.root
             /\ hi[c] - lo[c] < hi[n] - lo[n] /\ T.ch[n][1 - i] # c
  BY <1>2, ChildIs
<1> QED BY <1>1, <1>2

\* get_ref finds it.
LEMMA GetRefIs ==
  ASSUME NEW T, NEW U, NEW lo, NEW hi, Formed(T, U, lo, hi), NEW n \in U
  PROVE  Refers(T, U, n, get_ref(T, n))
<1>1. CASE n = T.root
  BY <1>1 DEF get_ref, Refers
<1>2. CASE n # T.root
  <2>1. T.par[n] \in U /\ (T.ch[T.par[n]][0] = n \/ T.ch[T.par[n]][1] = n)
    BY <1>2, NodeIs DEF Sides
  <2>2. PICK q \in U : q = T.par[n] /\ (T.ch[q][0] = n \/ T.ch[q][1] = n)
    BY <2>1
  <2>3. PICK i \in Sides : i = Bit(T.ch[q][1] = n) /\ T.ch[q][i] = n
    BY <2>2 DEF Bit, Sides
  <2>4. get_ref(T, n) = <<q, i>>
    BY <1>2, <2>2, <2>3 DEF get_ref
  <2> QED BY <2>3, <2>4 DEF Refers
<1> QED BY <1>1, <1>2

\* S is T with r turned down to the side dir.
Turned(S, T, r, dir) ==
  LET t == T.ch[r][1 - dir]
      m == T.ch[t][dir]
  IN  /\ S \in Trees /\ S.red = T.red /\ S.key = T.key
      /\ S.root = IF T.root = r THEN t ELSE T.root
      /\ \A n \in All : n # r /\ n # t =>
           \A i \in Sides : S.ch[n][i] = IF T.ch[n][i] = r THEN t ELSE T.ch[n][i]
      /\ S.ch[r][dir] = T.ch[r][dir] /\ S.ch[r][1 - dir] = m
      /\ S.ch[t][dir] = r /\ S.ch[t][1 - dir] = T.ch[t][1 - dir]
      /\ S.par[r] = t /\ S.par[t] = T.par[r] /\ S.par[m] = r
      /\ \A n \in All : n # r /\ n # t /\ n # m => S.par[n] = T.par[n]

\* rotate does that.
LEMMA RotateIs ==
  ASSUME NEW T, NEW U, NEW lo, NEW hi, Formed(T, U, lo, hi), NEW r \in U, NEW dir \in Sides,
         T.ch[r][1 - dir] # NIL, NEW ref, Refers(T, U, r, ref)
  PROVE  Turned(rotate(T, ref, dir), T, r, dir)
<1> DEFINE S == rotate(T, ref, dir)
<1>c. Nested(T, U, lo, hi)
  BY NestedIs
<1>1. PICK t \in U : t = T.ch[r][1 - dir] /\ t # r /\ T.par[t] = r
  <2>1. 1 - dir \in Sides
    BY DEF Sides
  <2> QED BY <2>1, ChildIs
<1>2. PICK m \in All : m = T.ch[t][dir] /\ m # t /\ m # r /\ (m # NIL => m \in U /\ T.par[m] = t)
  <2>1. T.ch[t][dir] \in U \cup {NIL}
    BY NodeIs
  <2>2. CASE T.ch[t][dir] = NIL
    BY <2>2, <1>1, NodeIs, Numbers
  <2>3. CASE T.ch[t][dir] # NIL
    <3>1. PICK c : c = T.ch[t][dir]
      OBVIOUS
    <3>2. c \in U /\ c # t /\ T.par[c] = t /\ hi[c] - lo[c] < hi[t] - lo[t]
      BY <2>3, <3>1, ChildIs
    <3>3. hi[t] - lo[t] < hi[r] - lo[r]
      <4>1. 1 - dir \in Sides
        BY DEF Sides
      <4> QED BY <1>1, <4>1, ChildIs
    <3>4. c # r
      <4>1. lo[r] \in Int /\ hi[r] \in Int /\ lo[t] \in Int /\ hi[t] \in Int
        BY NodeIs
      <4> QED BY <3>2, <3>3, <4>1
    <3>5. c \in All
      BY <3>2, NodeIs
    <3> QED BY <3>1, <3>2, <3>4, <3>5
  <2> QED BY <2>2, <2>3
<1>3. r \in All /\ t \in All /\ r # NIL /\ t # NIL /\ dir \in {0, 1} /\ 1 - dir \in Sides /\ 1 - dir # dir
  BY NodeIs DEF Sides
<1>4. At(T, ref) = r
  BY NodeIs, Numbers DEF At, Refers
<1>5. T \in Trees
  BY DEF Formed
<1>a. S = Put([T EXCEPT !.par = RotatePar(T, r, t, m), !.ch[r][1 - dir] = m, !.ch[t][dir] = r], ref, t)
  BY <1>1, <1>2, <1>4, ZenonT(60) DEF rotate
<1> DEFINE P == [T.par EXCEPT ![t] = T.par[r], ![m] = r, ![r] = t]
           C == [T.ch EXCEPT ![r][1 - dir] = m, ![t][dir] = r]
           X == [T EXCEPT !.par = P, !.ch = C]
<1>6. S = Put(X, ref, t)
  <2>1. S = Put([T EXCEPT !.par = P, !.ch[r][1 - dir] = m, !.ch[t][dir] = r], ref, t)
    BY <1>a, Zenon DEF RotatePar
  <2>2. [T EXCEPT !.par = P, !.ch[r][1 - dir] = m, !.ch[t][dir] = r] = X
    BY <1>5, ZenonT(60) DEF Trees
  <2> QED BY <2>1, <2>2
<1>7. /\ P \in [All -> All] /\ P[r] = t /\ P[t] = T.par[r] /\ P[m] = r
      /\ \A n \in All : n # r /\ n # t /\ n # m => P[n] = T.par[n]
  BY <1>1, <1>2, <1>3, <1>5 DEF Trees
<1>8. /\ C \in [All -> [Sides -> All]]
      /\ C[r][dir] = T.ch[r][dir] /\ C[r][1 - dir] = m
      /\ C[t][dir] = r /\ C[t][1 - dir] = T.ch[t][1 - dir]
      /\ \A n \in All : n # r /\ n # t => C[n] = T.ch[n]
  BY <1>1, <1>2, <1>3, <1>5 DEF Trees
<1>9. PICK p \in [All -> All], c \in [All -> [Sides -> All]] : p = P /\ c = C
  BY <1>7, <1>8
<1>10. X = [T EXCEPT !.par = p, !.ch = c]
  BY <1>9
<1>11. X \in Trees /\ X.par = p /\ X.ch = c /\ X.root = T.root /\ X.red = T.red /\ X.key = T.key
  BY <1>5, <1>10 DEF Trees
<1> HIDE DEF P, C, X
<1>12. CASE r = T.root /\ ref = <<NIL, 0>>
  <2>1. S = [X EXCEPT !.root = t]
    BY <1>6, <1>12 DEF Put
  <2>2. /\ S \in Trees /\ S.par = p /\ S.ch = c /\ S.root = t /\ S.red = T.red /\ S.key = T.key
    BY <1>3, <1>11, <2>1 DEF Trees
  <2>3. ASSUME NEW n \in All, NEW i \in Sides PROVE T.ch[n][i] # r
    <3>1. CASE n \in U
      <4>1. T.par[r] = NIL
        BY <1>3, <1>12 DEF Formed, Linked
      <4> SUFFICES ASSUME T.ch[n][i] = r PROVE FALSE
        OBVIOUS
      <4>2. T.par[T.ch[n][i]] = n /\ n # NIL
        BY <1>3, <1>c, <3>1 DEF Nested
      <4> QED BY <4>1, <4>2
    <3>2. CASE n \notin U
      BY <1>3, <3>2 DEF Formed, Linked
    <3> QED BY <3>1, <3>2
  <2>4. /\ \A n \in All : n # r /\ n # t =>
             \A i \in Sides : S.ch[n][i] = IF T.ch[n][i] = r THEN t ELSE T.ch[n][i]
        /\ S.ch[r][dir] = T.ch[r][dir] /\ S.ch[r][1 - dir] = m
        /\ S.ch[t][dir] = r /\ S.ch[t][1 - dir] = T.ch[t][1 - dir]
        /\ S.par[r] = t /\ S.par[t] = T.par[r] /\ S.par[m] = r
        /\ \A n \in All : n # r /\ n # t /\ n # m => S.par[n] = T.par[n]
    <3> HIDE DEF S
    <3>1. ASSUME NEW n \in All, n # r, n # t, NEW i \in Sides
          PROVE  S.ch[n][i] = IF T.ch[n][i] = r THEN t ELSE T.ch[n][i]
      <4>1. S.ch[n] = T.ch[n]
        BY <1>8, <1>9, <2>2, <3>1
      <4>2. T.ch[n][i] # r
        BY <2>3
      <4> QED BY <4>1, <4>2
    <3>2. /\ S.ch[r][dir] = T.ch[r][dir] /\ S.ch[r][1 - dir] = m
          /\ S.ch[t][dir] = r /\ S.ch[t][1 - dir] = T.ch[t][1 - dir]
      BY <1>8, <1>9, <2>2
    <3>3. /\ S.par[r] = t /\ S.par[t] = T.par[r] /\ S.par[m] = r
          /\ \A n \in All : n # r /\ n # t /\ n # m => S.par[n] = T.par[n]
      BY <1>7, <1>9, <2>2
    <3> QED BY <3>1, <3>2, <3>3
  <2> QED BY <1>1, <1>2, <1>12, <2>2, <2>4, Zenon DEF Turned
<1>13. CASE \E q \in U, i \in Sides : ref = <<q, i>> /\ T.ch[q][i] = r
  <2>1. PICK q \in U, i \in Sides : ref = <<q, i>> /\ T.ch[q][i] = r
    BY <1>13
  <2>2. q # NIL /\ q \in All /\ T.par[r] = q /\ q # r /\ q # t /\ r # T.root
    <3>1. q # NIL /\ q \in All /\ T.par[r] = q /\ q # r /\ r # T.root /\ hi[r] - lo[r] < hi[q] - lo[q]
      <4>1. /\ q # NIL /\ q \in All
            /\ T.ch[q][i] # NIL => /\ T.par[T.ch[q][i]] = q /\ T.ch[q][i] # q /\ T.ch[q][i] # T.root
                                   /\ hi[T.ch[q][i]] - lo[T.ch[q][i]] < hi[q] - lo[q]
        BY <1>c DEF Nested
      <4>2. T.ch[q][i] = r /\ r # NIL
        BY <1>3, <2>1
      <4> QED BY <4>1, <4>2, Zenon
    <3>2. hi[t] - lo[t] < hi[r] - lo[r]
      BY <1>1, <1>3, <1>c DEF Nested
    <3>3. lo[r] \in Int /\ hi[r] \in Int /\ lo[t] \in Int /\ hi[t] \in Int
      BY NodeIs
    <3> QED BY <3>1, <3>2, <3>3
  <2> DEFINE c1 == [c EXCEPT ![q][i] = t]
  <2>3. /\ c1 \in [All -> [Sides -> All]]
        /\ c1[q][i] = t /\ c1[q][1 - i] = T.ch[q][1 - i]
        /\ \A n \in All : n # q => c1[n] = c[n]
    <3>1. 1 - i \in Sides /\ 1 - i # i
      BY DEF Sides
    <3>2. c[q] = T.ch[q]
      BY <1>8, <1>9, <2>2
    <3> QED BY <1>3, <2>2, <3>1, <3>2
  <2>4. PICK d \in [All -> [Sides -> All]] : d = c1
    BY <2>3
  <2>5. S = [X EXCEPT !.ch = d]
    <3>1. S = [X EXCEPT !.ch[q][i] = t]
      BY <1>6, <2>1, <2>2 DEF Put
    <3>2. [X EXCEPT !.ch[q][i] = t] = [X EXCEPT !.ch = d]
      BY <1>11, <2>4 DEF Trees
    <3> QED BY <3>1, <3>2
  <2>6. /\ S \in Trees /\ S.par = p /\ S.ch = d /\ S.root = T.root /\ S.red = T.red /\ S.key = T.key
    BY <1>11, <2>5 DEF Trees
  <2>7. ASSUME NEW n \in All, n # r, n # t, NEW j \in Sides
        PROVE  d[n][j] = IF T.ch[n][j] = r THEN t ELSE T.ch[n][j]
    <3>1. CASE n = q
      <4>1. j = i \/ j = 1 - i
        BY DEF Sides
      <4>2. T.ch[q][1 - i] # r
        <5>1. T.ch[q][i] # NIL => T.ch[q][1 - i] # T.ch[q][i]
          BY <1>c DEF Nested
        <5> QED BY <1>3, <2>1, <5>1
      <4> HIDE DEF c1
      <4> QED BY <2>1, <2>3, <2>4, <3>1, <4>1, <4>2
    <3>2. CASE n # q
      <4>1. d[n] = T.ch[n]
        <5> HIDE DEF c1
        <5> QED BY <1>8, <1>9, <2>3, <2>4, <2>7, <3>2
      <4>2. T.ch[n][j] # r
        <5>1. CASE n \in U
          <6> SUFFICES ASSUME T.ch[n][j] = r PROVE FALSE
            OBVIOUS
          <6>1. T.par[T.ch[n][j]] = n
            BY <1>3, <1>c, <5>1 DEF Nested
          <6> QED BY <2>2, <3>2, <6>1
        <5>2. CASE n \notin U
          BY <1>3, <5>2 DEF Formed, Linked
        <5> QED BY <5>1, <5>2
      <4> QED BY <4>1, <4>2
    <3> QED BY <3>1, <3>2
  <2>8. d[r] = c[r] /\ d[t] = c[t]
    <3> HIDE DEF c1
    <3> QED BY <1>3, <2>2, <2>3, <2>4
  <2>9. /\ \A n \in All : n # r /\ n # t =>
             \A j \in Sides : S.ch[n][j] = IF T.ch[n][j] = r THEN t ELSE T.ch[n][j]
        /\ S.ch[r][dir] = T.ch[r][dir] /\ S.ch[r][1 - dir] = m
        /\ S.ch[t][dir] = r /\ S.ch[t][1 - dir] = T.ch[t][1 - dir]
        /\ S.par[r] = t /\ S.par[t] = T.par[r] /\ S.par[m] = r
        /\ \A n \in All : n # r /\ n # t /\ n # m => S.par[n] = T.par[n]
    <3> HIDE DEF S, c1
    <3> QED BY <1>7, <1>8, <1>9, <2>6, <2>7, <2>8
  <2> QED BY <1>1, <1>2, <2>2, <2>6, <2>9, Zenon DEF Turned
<1> QED BY <1>12, <1>13 DEF Refers

\* The links after a rotation.
LEMMA TurnedLinks ==
  ASSUME NEW T, NEW U, NEW lo, NEW hi, Formed(T, U, lo, hi), NEW r \in U, NEW dir \in Sides,
         T.ch[r][1 - dir] # NIL, NEW S, Turned(S, T, r, dir)
  PROVE  Linked(S, U)
<1>c. Nested(T, U, lo, hi)
  BY NestedIs
<1>1. 1 - dir \in Sides /\ 1 - dir # dir /\ \A i \in Sides : i = dir \/ i = 1 - dir
  BY DEF Sides
<1>2. PICK t \in U : t = T.ch[r][1 - dir] /\ t # r /\ T.par[t] = r /\ t # T.root
  BY <1>1, <1>c DEF Nested
<1>3. PICK m : m = T.ch[t][dir]
  OBVIOUS
<1>4. /\ S.root = IF T.root = r THEN t ELSE T.root
      /\ \A n \in All : n # r /\ n # t =>
           \A i \in Sides : S.ch[n][i] = IF T.ch[n][i] = r THEN t ELSE T.ch[n][i]
      /\ S.ch[r][dir] = T.ch[r][dir] /\ S.ch[r][1 - dir] = m
      /\ S.ch[t][dir] = r /\ S.ch[t][1 - dir] = T.ch[t][1 - dir]
      /\ S.par[r] = t /\ S.par[t] = T.par[r] /\ S.par[m] = r
      /\ \A n \in All : n # r /\ n # t /\ n # m => S.par[n] = T.par[n]
  BY <1>2, <1>3, Zenon DEF Turned
<1>5. /\ T.root \in U \cup {NIL} /\ (T.root = NIL => U = {}) /\ (T.root # NIL => T.par[T.root] = NIL)
      /\ \A n \in U : \A i \in Sides :
           T.ch[n][i] \in U \cup {NIL} /\ (T.ch[n][i] # NIL => T.par[T.ch[n][i]] = n)
      /\ \A n \in U : n # T.root => T.par[n] \in U /\ \E i \in Sides : T.ch[T.par[n]][i] = n
      /\ \A n \in All \ U : \A i \in Sides : T.ch[n][i] = NIL
  BY DEF Formed, Linked
<1>6. /\ \A n \in U : n \in All /\ n # NIL
      /\ m \in U \cup {NIL} /\ m # r /\ m # t /\ (m # NIL => T.par[m] = t /\ m # T.root)
  <2>1. \A n \in U : n \in All /\ n # NIL
    BY <1>c DEF Nested
  <2>2. m # NIL => m \in U /\ T.par[m] = t /\ m # t /\ m # T.root /\ hi[m] - lo[m] < hi[t] - lo[t]
    BY <1>3, <1>c DEF Nested
  <2>3. hi[t] - lo[t] < hi[r] - lo[r] /\ lo[r] \in Int /\ hi[r] \in Int /\ lo[t] \in Int /\ hi[t] \in Int
    BY <1>1, <1>2, <1>c DEF Nested
  <2> QED BY <2>1, <2>2, <2>3
<1>7. /\ S.root \in U \cup {NIL} /\ (S.root = NIL => U = {})
  BY <1>4, <1>5, <1>6
<1>8. S.root # NIL => S.par[S.root] = NIL
  <2>1. CASE T.root = r
    <3>1. T.par[r] = NIL
      BY <1>5, <1>6, <2>1
    <3> QED BY <1>4, <2>1, <3>1
  <2>2. CASE T.root # r
    <3>1. S.root = T.root
      BY <1>4, <2>2
    <3>2. T.root # NIL => T.root \in All /\ T.root # r /\ T.root # t /\ T.root # m
      BY <1>2, <1>5, <1>6, <2>2
    <3> QED BY <1>4, <1>5, <3>1, <3>2
  <2> QED BY <2>1, <2>2
<1>9. ASSUME NEW n \in U, NEW i \in Sides
      PROVE  S.ch[n][i] \in U \cup {NIL} /\ (S.ch[n][i] # NIL => S.par[S.ch[n][i]] = n)
  <2>1. CASE n = r /\ i = dir
    <3>1. PICK x : x = T.ch[r][dir] /\ S.ch[n][i] = x
      BY <1>4, <2>1
    <3>2. x # NIL => x \in U /\ T.par[x] = r /\ x # r /\ x # t
      BY <1>1, <1>2, <1>c, <3>1 DEF Nested
    <3>3. x # NIL => x # m
      BY <1>2, <1>6, <3>2
    <3>4. x # NIL => S.par[x] = r
      BY <1>4, <1>6, <3>2, <3>3
    <3> QED BY <2>1, <3>1, <3>2, <3>4
  <2>2. CASE n = r /\ i = 1 - dir
    BY <1>4, <1>6, <2>2
  <2>3. CASE n = t /\ i = dir
    BY <1>4, <2>3
  <2>4. CASE n = t /\ i = 1 - dir
    <3>1. PICK x : x = T.ch[t][1 - dir] /\ S.ch[n][i] = x
      BY <1>4, <2>4
    <3>2. x # NIL => x \in U /\ T.par[x] = t /\ x # t /\ x # m
      BY <1>1, <1>3, <1>c, <3>1 DEF Nested
    <3>3. x # NIL => x # r
      <4>1. x # NIL => hi[x] - lo[x] < hi[t] - lo[t]
        BY <1>1, <1>3, <1>c, <3>1 DEF Nested
      <4>2. hi[t] - lo[t] < hi[r] - lo[r] /\ lo[r] \in Int /\ hi[r] \in Int /\ lo[t] \in Int /\ hi[t] \in Int
        BY <1>1, <1>2, <1>c DEF Nested
      <4> QED BY <4>1, <4>2
    <3>4. x # NIL => S.par[x] = t
      BY <1>4, <1>6, <3>2, <3>3
    <3> QED BY <2>4, <3>1, <3>2, <3>4
  <2>5. CASE n # r /\ n # t
    <3>1. PICK x : x = T.ch[n][i] /\ S.ch[n][i] = IF x = r THEN t ELSE x
      BY <1>4, <1>6, <2>5
    <3>2. x # NIL => x \in U /\ T.par[x] = n
      BY <1>c, <3>1 DEF Nested
    <3>3. CASE x = r
      BY <1>4, <1>6, <3>1, <3>2, <3>3
    <3>4. CASE x # r
      <4>1. x # NIL => x # t /\ x # m
        BY <1>2, <1>6, <2>5, <3>2
      <4>2. x # NIL => S.par[x] = n
        BY <1>4, <1>6, <3>2, <3>4, <4>1
      <4> QED BY <3>1, <3>2, <3>4, <4>2
    <3> QED BY <3>3, <3>4
  <2> QED BY <1>1, <2>1, <2>2, <2>3, <2>4, <2>5
<1>10. ASSUME NEW n \in U, n # S.root
       PROVE  S.par[n] \in U /\ \E i \in Sides : S.ch[S.par[n]][i] = n
  <2>1. CASE n = r
    BY <1>4, <2>1
  <2>2. CASE n = t
    <3>1. r # T.root
      BY <1>4, <1>10, <2>2
    <3>2. PICK q \in U, i \in Sides : q = T.par[r] /\ T.ch[q][i] = r
      BY <1>5, <3>1
    <3>3. q # r /\ q # t
      <4>1. hi[r] - lo[r] < hi[q] - lo[q] /\ lo[q] \in Int /\ hi[q] \in Int
        BY <3>2, <1>6, <1>c DEF Nested
      <4>2. hi[t] - lo[t] < hi[r] - lo[r] /\ lo[r] \in Int /\ hi[r] \in Int /\ lo[t] \in Int /\ hi[t] \in Int
        BY <1>1, <1>2, <1>c DEF Nested
      <4> QED BY <4>1, <4>2
    <3>4. S.ch[q][i] = t
      BY <1>4, <1>6, <3>2, <3>3
    <3> QED BY <1>4, <2>2, <3>2, <3>4
  <2>3. CASE n = m
    BY <1>1, <1>4, <2>3
  <2>4. CASE n # r /\ n # t /\ n # m
    <3>1. S.par[n] = T.par[n]
      BY <1>4, <1>6, <2>4
    <3>2. n # T.root
      BY <1>4, <1>10, <2>4
    <3>3. PICK q \in U, i \in Sides : q = T.par[n] /\ T.ch[q][i] = n
      BY <1>5, <3>2
    <3>4. CASE q = r
      <4>1. i = dir
        BY <1>1, <1>2, <2>4, <3>3, <3>4
      <4>2. S.ch[r][dir] = n
        BY <1>4, <3>3, <3>4, <4>1
      <4> QED BY <3>1, <3>3, <3>4, <4>2
    <3>5. CASE q = t
      <4>1. i = 1 - dir
        BY <1>1, <1>3, <2>4, <3>3, <3>5
      <4>2. S.ch[t][1 - dir] = n
        BY <1>4, <3>3, <3>5, <4>1
      <4> QED BY <1>1, <3>1, <3>3, <3>5, <4>2
    <3>6. CASE q # r /\ q # t
      <4>1. S.ch[q][i] = n
        BY <1>4, <1>6, <2>4, <3>3, <3>6
      <4> QED BY <3>1, <3>3, <4>1
    <3> QED BY <3>4, <3>5, <3>6
  <2> QED BY <2>1, <2>2, <2>3, <2>4
<1>11. ASSUME NEW n \in All \ U, NEW i \in Sides PROVE S.ch[n][i] = NIL
  <2>1. T.ch[n][i] = NIL /\ n # r /\ n # t
    BY <1>5
  <2> QED BY <1>4, <1>6, <2>1
<1> QED BY <1>7, <1>8, <1>9, <1>10, <1>11 DEF Linked

\* The keys below the nodes after a rotation.
LEMMA TurnedOrder ==
  ASSUME NEW T, NEW U, NEW lo, NEW hi, Formed(T, U, lo, hi), NEW r \in U, NEW dir \in Sides,
         T.ch[r][1 - dir] # NIL, NEW S, Turned(S, T, r, dir)
  PROVE  \E l, h : Ordered(S, U, l, h)
<1>c. Nested(T, U, lo, hi)
  BY NestedIs
<1>1. 1 - dir \in Sides /\ 1 - dir # dir /\ \A i \in Sides : i = dir \/ i = 1 - dir
  BY DEF Sides
<1>2. PICK t \in U : t = T.ch[r][1 - dir] /\ t # r /\ T.par[t] = r /\ t # T.root
  BY <1>1, <1>c DEF Nested
<1>3. PICK m : m = T.ch[t][dir]
  OBVIOUS
<1>4. /\ S.root = IF T.root = r THEN t ELSE T.root
      /\ \A n \in All : n # r /\ n # t =>
           \A i \in Sides : S.ch[n][i] = IF T.ch[n][i] = r THEN t ELSE T.ch[n][i]
      /\ S.ch[r][dir] = T.ch[r][dir] /\ S.ch[r][1 - dir] = m
      /\ S.ch[t][dir] = r /\ S.ch[t][1 - dir] = T.ch[t][1 - dir]
      /\ S.key = T.key
  BY <1>2, <1>3, Zenon DEF Turned
<1>5. \A n \in U : /\ n \in All /\ n # NIL /\ n \in Nodes
                   /\ T.key[n] \in Int /\ lo[n] \in Int /\ hi[n] \in Int
                   /\ lo[n] < T.key[n] /\ T.key[n] < hi[n] /\ T.key[n] \in 0 .. NKeys + 1
  <2> TAKE n \in U
  <2>1. T.key[n] \in 0 .. NKeys + 1
    <3>1. T.key[n] \in 1 .. NKeys /\ NKeys \in Nat
      BY NodeIs, Numbers
    <3> QED BY <3>1
  <2> QED BY <2>1, NodeIs
<1>6. /\ lo \in [Nodes -> 0 .. NKeys + 1] /\ hi \in [Nodes -> 0 .. NKeys + 1]
      /\ \A n \in U : T.ch[n][0] # NIL => lo[T.ch[n][0]] = lo[n] /\ hi[T.ch[n][0]] = T.key[n]
      /\ \A n \in U : T.ch[n][1] # NIL => lo[T.ch[n][1]] = T.key[n] /\ hi[T.ch[n][1]] = hi[n]
      /\ T.root # NIL => lo[T.root] = 0 /\ hi[T.root] = NKeys + 1
      /\ \A a, b \in U : a # b => Apart(T, lo, hi, a, b)
  BY DEF Formed, Ordered
<1>7. /\ m # NIL => m \in U /\ m # r /\ m # t
      /\ \A n \in U : \A i \in Sides : T.ch[n][i] # NIL =>
           T.ch[n][i] \in U /\ T.par[T.ch[n][i]] = n
  <2>1. \A n \in U : \A i \in Sides : T.ch[n][i] # NIL =>
           T.ch[n][i] \in U /\ T.par[T.ch[n][i]] = n
    BY <1>c DEF Nested
  <2>2. m # NIL => m \in U /\ m # t /\ hi[m] - lo[m] < hi[t] - lo[t]
    BY <1>3, <1>c DEF Nested
  <2>3. hi[t] - lo[t] < hi[r] - lo[r] /\ lo[r] \in Int /\ hi[r] \in Int /\ lo[t] \in Int /\ hi[t] \in Int
    BY <1>1, <1>2, <1>c DEF Nested
  <2> QED BY <2>1, <2>2, <2>3
<1> DEFINE l == [lo EXCEPT ![t] = IF dir = 0 THEN lo[r] ELSE lo[t],
                           ![r] = IF dir = 0 THEN lo[r] ELSE T.key[t]]
           h == [hi EXCEPT ![r] = IF dir = 0 THEN T.key[t] ELSE hi[r],
                           ![t] = IF dir = 0 THEN hi[t] ELSE hi[r]]
<1>8. /\ l \in [Nodes -> 0 .. NKeys + 1] /\ h \in [Nodes -> 0 .. NKeys + 1]
      /\ \A n \in U : n # r /\ n # t => l[n] = lo[n] /\ h[n] = hi[n]
      /\ dir = 0 => l[t] = lo[r] /\ l[r] = lo[r] /\ h[r] = T.key[t] /\ h[t] = hi[t]
      /\ dir = 1 => l[t] = lo[t] /\ l[r] = T.key[t] /\ h[r] = hi[r] /\ h[t] = hi[r]
  BY <1>2, <1>5, <1>6
<1> HIDE DEF l, h
<1>9. dir = 0 \/ dir = 1
  BY DEF Sides
<1>10. /\ dir = 0 => lo[t] = T.key[r] /\ hi[t] = hi[r]
       /\ dir = 1 => lo[t] = lo[r] /\ hi[t] = T.key[r]
  BY <1>2, <1>5, <1>6
<1>11. /\ l[t] = lo[r] /\ h[t] = hi[r]
       /\ dir = 0 => l[r] = lo[r] /\ h[r] = T.key[t]
       /\ dir = 1 => l[r] = T.key[t] /\ h[r] = hi[r]
  BY <1>8, <1>9, <1>10
<1>12. ASSUME NEW n \in U PROVE l[n] < T.key[n] /\ T.key[n] < h[n]
  <2>1. CASE n # r /\ n # t
    BY <1>5, <1>8, <2>1
  <2>2. CASE n = r
    BY <1>5, <1>9, <1>10, <1>11, <2>2
  <2>3. CASE n = t
    BY <1>5, <1>9, <1>10, <1>11, <2>3
  <2> QED BY <2>1, <2>2, <2>3
<1>13. ASSUME NEW n \in U
       PROVE  /\ S.ch[n][0] # NIL => l[S.ch[n][0]] = l[n] /\ h[S.ch[n][0]] = T.key[n]
              /\ S.ch[n][1] # NIL => l[S.ch[n][1]] = T.key[n] /\ h[S.ch[n][1]] = h[n]
  <2>1. CASE n # r /\ n # t
    <3>1. \A i \in Sides : S.ch[n][i] = IF T.ch[n][i] = r THEN t ELSE T.ch[n][i]
      BY <1>4, <1>5, <2>1
    <3>2. \A i \in Sides : T.ch[n][i] # NIL => T.ch[n][i] # t /\ T.ch[n][i] \in U
      BY <1>2, <1>7, <2>1
    <3>3. \A i \in Sides : S.ch[n][i] # NIL =>
             /\ T.ch[n][i] # NIL /\ l[S.ch[n][i]] = lo[T.ch[n][i]] /\ h[S.ch[n][i]] = hi[T.ch[n][i]]
      BY <1>5, <1>8, <1>11, <3>1, <3>2
    <3>4. l[n] = lo[n] /\ h[n] = hi[n] /\ 0 \in Sides /\ 1 \in Sides
      BY <1>8, <2>1 DEF Sides
    <3> QED BY <1>6, <3>3, <3>4
  <2>2. CASE n = r
    <3>1. \A i \in Sides : T.ch[r][i] # NIL => T.ch[r][i] \in U /\ T.ch[r][i] # r
      BY <1>c DEF Nested
    <3>2. \A i \in Sides : T.ch[r][i] # NIL /\ i # 1 - dir => T.ch[r][i] # t
      BY <1>1, <1>2, <1>c DEF Nested
    <3>3. CASE dir = 0
      <4>1. S.ch[r][0] = T.ch[r][0] /\ S.ch[r][1] = m /\ m = T.ch[t][0]
        BY <1>3, <1>4, <3>3
      <4>2. T.ch[r][0] # NIL => T.ch[r][0] \in U /\ T.ch[r][0] # r /\ T.ch[r][0] # t
        BY <3>1, <3>2, <3>3 DEF Sides
      <4> QED BY <1>6, <1>7, <1>8, <1>10, <1>11, <2>2, <3>3, <4>1, <4>2
    <3>4. CASE dir = 1
      <4>1. S.ch[r][1] = T.ch[r][1] /\ S.ch[r][0] = m /\ m = T.ch[t][1]
        BY <1>3, <1>4, <3>4
      <4>2. T.ch[r][1] # NIL => T.ch[r][1] \in U /\ T.ch[r][1] # r /\ T.ch[r][1] # t
        BY <3>1, <3>2, <3>4 DEF Sides
      <4> QED BY <1>6, <1>7, <1>8, <1>10, <1>11, <2>2, <3>4, <4>1, <4>2
    <3> QED BY <1>9, <3>3, <3>4
  <2>3. CASE n = t
    <3>1. \A i \in Sides : T.ch[t][i] # NIL => T.ch[t][i] \in U /\ T.ch[t][i] # t /\ T.ch[t][i] # r
      <4>1. \A i \in Sides : T.ch[t][i] # NIL =>
               T.ch[t][i] \in U /\ T.ch[t][i] # t /\ hi[T.ch[t][i]] - lo[T.ch[t][i]] < hi[t] - lo[t]
        BY <1>c DEF Nested
      <4>2. hi[t] - lo[t] < hi[r] - lo[r] /\ lo[r] \in Int /\ hi[r] \in Int /\ lo[t] \in Int /\ hi[t] \in Int
        BY <1>1, <1>2, <1>c DEF Nested
      <4> QED BY <4>1, <4>2
    <3>3. CASE dir = 0
      <4>1. S.ch[t][0] = r /\ S.ch[t][1] = T.ch[t][1]
        BY <1>4, <3>3
      <4>2. T.ch[t][1] # NIL => T.ch[t][1] \in U /\ T.ch[t][1] # r /\ T.ch[t][1] # t
        BY <3>1 DEF Sides
      <4> QED BY <1>6, <1>8, <1>10, <1>11, <2>3, <3>3, <4>1, <4>2
    <3>4. CASE dir = 1
      <4>1. S.ch[t][1] = r /\ S.ch[t][0] = T.ch[t][0]
        BY <1>4, <3>4
      <4>2. T.ch[t][0] # NIL => T.ch[t][0] \in U /\ T.ch[t][0] # r /\ T.ch[t][0] # t
        BY <3>1 DEF Sides
      <4> QED BY <1>6, <1>8, <1>10, <1>11, <2>3, <3>4, <4>1, <4>2
    <3> QED BY <1>9, <3>3, <3>4
  <2> QED BY <2>1, <2>2, <2>3
<1>14. S.root # NIL => l[S.root] = 0 /\ h[S.root] = NKeys + 1
  <2>1. CASE T.root = r
    BY <1>4, <1>5, <1>6, <1>11, <2>1
  <2>2. CASE T.root # r
    <3>1. T.root \in U \cup {NIL}
      BY DEF Formed, Linked
    <3> QED BY <1>2, <1>4, <1>6, <1>8, <2>2, <3>1
  <2> QED BY <2>1, <2>2
<1>15. ASSUME NEW a \in U, NEW b \in U, a # b PROVE Apart(T, l, h, a, b)
  <2>1. ASSUME NEW x \in U, x # r, x # t PROVE Apart(T, l, h, r, x) /\ Apart(T, l, h, t, x)
    <3>1. Apart(T, lo, hi, r, x) /\ Apart(T, lo, hi, t, x)
      BY <1>6, <2>1
    <3>2. l[x] = lo[x] /\ h[x] = hi[x]
      BY <1>8, <2>1
    <3>3. CASE dir = 0
      BY <1>5, <1>10, <1>11, <3>1, <3>2, <3>3 DEF Apart, Under
    <3>4. CASE dir = 1
      BY <1>5, <1>10, <1>11, <3>1, <3>2, <3>4 DEF Apart, Under
    <3> QED BY <1>9, <3>3, <3>4
  <2>2. Apart(T, l, h, r, t)
    BY <1>5, <1>9, <1>10, <1>11 DEF Apart, Under
  <2>3. ASSUME NEW x, NEW y, Apart(T, l, h, x, y) PROVE Apart(T, l, h, y, x)
    BY <2>3, Zenon DEF Apart
  <2>4. CASE a # r /\ a # t /\ b # r /\ b # t
    BY <1>6, <1>8, <1>15, <2>4 DEF Apart, Under
  <2>5. CASE a \in {r, t} /\ b \notin {r, t}
    BY <2>1, <2>5
  <2>6. CASE b \in {r, t} /\ a \notin {r, t}
    BY <2>1, <2>3, <2>6
  <2>7. CASE a \in {r, t} /\ b \in {r, t}
    BY <1>15, <2>2, <2>3, <2>7
  <2> QED BY <2>4, <2>5, <2>6, <2>7
<1>16. Ordered(S, U, l, h)
  BY <1>4, <1>8, <1>12, <1>13, <1>14, <1>15 DEF Ordered, Apart, Under
<1> QED BY <1>16

\* rotate keeps the tree one.
LEMMA TurnedForms ==
  ASSUME NEW T, NEW U, NEW lo, NEW hi, Formed(T, U, lo, hi), NEW r \in U, NEW dir \in Sides,
         T.ch[r][1 - dir] # NIL, NEW S, Turned(S, T, r, dir)
  PROVE  \E l, h : Formed(S, U, l, h)
<1>1. Linked(S, U)
  BY TurnedLinks
<1>2. PICK l, h : Ordered(S, U, l, h)
  BY TurnedOrder
<1>3. S \in Trees /\ U \subseteq Nodes
  BY DEF Turned, Formed
<1> QED BY <1>1, <1>2, <1>3 DEF Formed

----------------------------------------------------------------------------
(***************************************************************************)
(* Every key is where a search looks for it.                               *)
(***************************************************************************)

\* A node whose key lies between the bounds of n is below n.
LEMMA Within ==
  ASSUME NEW T, NEW U, NEW lo, NEW hi, Formed(T, U, lo, hi), NEW n \in U, NEW x \in U, x # n,
         lo[n] < T.key[x], T.key[x] < hi[n]
  PROVE  /\ T.key[x] # T.key[n]
         /\ T.key[x] < T.key[n] => lo[n] <= lo[x] /\ hi[x] <= T.key[n]
         /\ T.key[x] > T.key[n] => T.key[n] <= lo[x] /\ hi[x] <= hi[n]
<1>1. Apart(T, lo, hi, n, x)
  BY DEF Formed, Ordered
<1>2. /\ T.key[x] \in Int /\ lo[x] \in Int /\ hi[x] \in Int /\ lo[x] < T.key[x] /\ T.key[x] < hi[x]
      /\ T.key[n] \in Int /\ lo[n] \in Int /\ hi[n] \in Int /\ lo[n] < T.key[n] /\ T.key[n] < hi[n]
  BY NodeIs
<1> QED BY <1>1, <1>2 DEF Apart, Under

\* There are none on the side where n has no child.
LEMMA NoGap ==
  ASSUME NEW T, NEW U, NEW lo, NEW hi, Formed(T, U, lo, hi), NEW n \in U, NEW x \in U, x # n,
         lo[n] < T.key[x], T.key[x] < hi[n]
  PROVE  T.ch[n][Bit(T.key[n] < T.key[x])] # NIL
<1> DEFINE i == Bit(T.key[n] < T.key[x])
           L == IF i = 0 THEN lo[n] ELSE T.key[n]
           H == IF i = 0 THEN T.key[n] ELSE hi[n]
           B == {a \in U : L <= lo[a] /\ hi[a] <= H}
<1>1. \A a \in U : /\ T.key[a] \in Int /\ lo[a] \in 0 .. NKeys + 1 /\ hi[a] \in 0 .. NKeys + 1
                   /\ lo[a] < T.key[a] /\ T.key[a] < hi[a] /\ lo[a] \in Int /\ hi[a] \in Int
  BY NodeIs
<1>2. NKeys \in Nat
  BY Numbers
<1>3. x \in B /\ i \in Sides /\ (i = 0 \/ i = 1)
  BY <1>1, Within DEF Bit, Sides
<1>4. L \in Int /\ H \in Int /\ L < H /\ lo[n] <= L /\ H <= hi[n] /\ (L = lo[n] => H # hi[n])
  BY <1>1, <1>3
<1> DEFINE D == {k \in Nat : \E a \in B : k = NKeys + 1 - (hi[a] - lo[a])}
<1> HIDE DEF L, H
<1>5. PICK k \in D : \A j \in D : k <= j
  <2>1. \A a \in B : NKeys + 1 - (hi[a] - lo[a]) \in Nat
    BY <1>1, <1>2
  <2>2. D # {} /\ D \in SUBSET Nat
    BY <1>3, <2>1
  <2> HIDE DEF D
  <2> QED BY <2>2, LeastNatural
<1>6. PICK a \in B : \A b \in B : hi[b] - lo[b] <= hi[a] - lo[a]
  <2>1. PICK a \in B : k = NKeys + 1 - (hi[a] - lo[a])
    BY <1>5
  <2>2. ASSUME NEW b \in B PROVE hi[b] - lo[b] <= hi[a] - lo[a]
    <3>1. NKeys + 1 - (hi[b] - lo[b]) \in D
      BY <1>1, <1>2
    <3>2. NKeys + 1 - (hi[a] - lo[a]) <= NKeys + 1 - (hi[b] - lo[b])
      BY <1>5, <2>1, <3>1
    <3> QED BY <1>1, <1>2, <3>2
  <2> QED BY <2>2
<1>7. a \in U /\ L <= lo[a] /\ hi[a] <= H
  OBVIOUS
<1>8. a # T.root
  <2> SUFFICES ASSUME a = T.root PROVE FALSE
    OBVIOUS
  <2>1. lo[a] = 0 /\ hi[a] = NKeys + 1
    <3>1. T.root # NIL
      BY <1>7, NodeIs
    <3> QED BY <3>1 DEF Formed, Ordered
  <2>2. L = lo[n] /\ H = hi[n]
    BY <1>1, <1>2, <1>4, <1>7, <2>1
  <2> QED BY <1>4, <2>2
<1>9. PICK p \in U, j \in Sides : p = T.par[a] /\ T.ch[p][j] = a
  BY <1>7, <1>8, NodeIs
<1>10. /\ lo[p] <= lo[a] /\ hi[a] <= hi[p] /\ hi[a] - lo[a] < hi[p] - lo[p]
       /\ j = 0 => lo[a] = lo[p] /\ hi[a] = T.key[p]
       /\ j = 1 => lo[a] = T.key[p] /\ hi[a] = hi[p]
  <2>1. a # NIL
    BY <1>7, NodeIs
  <2> QED BY <1>9, <2>1, ChildIs, NodeIs
<1>11. p \notin B
  BY <1>1, <1>6, <1>7, <1>10
<1>12. j = 0 \/ j = 1
  BY DEF Sides
<1>13. p = n
  <2> SUFFICES ASSUME p # n PROVE FALSE
    OBVIOUS
  <2>1. Apart(T, lo, hi, p, n)
    BY DEF Formed, Ordered
  <2> QED BY <1>1, <1>3, <1>4, <1>7, <1>10, <1>11, <1>12, <2>1 DEF Apart, Under, L, H
<1>14. j = i
  BY <1>1, <1>3, <1>7, <1>10, <1>12, <1>13 DEF L, H
<1> QED BY <1>7, <1>9, <1>13, <1>14, NodeIs

----------------------------------------------------------------------------
(***************************************************************************)
(* Recursion over a tree and induction over its nodes.                     *)
(***************************************************************************)

\* f is computed from the children's values, z where there is none.
TreeObeys(f, D, ch, z, F) ==
  f = [n \in D |-> IF n = NIL THEN z ELSE F[<<n, f[ch[n][0]], f[ch[n][1]]>>]]

\* There is such a function if the children have a smaller rank.
LEMMA TreeRecursion ==
  ASSUME NEW D, NEW ch, NEW rk \in [D -> Nat], rk[NIL] = 0, NEW b \in Nat, \A n \in D : rk[n] <= b,
         \A n \in D : n # NIL => \A i \in Sides : ch[n][i] \in D /\ rk[ch[n][i]] < rk[n],
         NEW z, NEW F
  PROVE  \E f : TreeObeys(f, D, ch, z, F)
<1> DEFINE Upto(k) == {n \in D : rk[n] <= k}
           S == {k \in Nat : \E g : TreeObeys(g, Upto(k), ch, z, F)}
<1>0. 0 \in Sides /\ 1 \in Sides
  BY DEF Sides
<1>1. 0 \in S
  <2> DEFINE g == [n \in Upto(0) |-> z]
  <2>1. \A n \in Upto(0) : n = NIL
    <3> SUFFICES ASSUME NEW n \in D, rk[n] <= 0, n # NIL PROVE FALSE
      OBVIOUS
    <3>1. rk[n] \in Nat /\ rk[ch[n][0]] \in Nat /\ rk[ch[n][0]] < rk[n]
      BY <1>0
    <3> QED BY <3>1
  <2>2. TreeObeys(g, Upto(0), ch, z, F)
    BY <2>1 DEF TreeObeys
  <2> QED BY <2>2
<1>2. ASSUME NEW k \in Nat, k \in S PROVE k + 1 \in S
  <2>1. PICK g : TreeObeys(g, Upto(k), ch, z, F)
    BY <1>2
  <2> DEFINE V == Upto(k + 1)
             val(n) == IF rk[n] <= k THEN g[n] ELSE F[<<n, g[ch[n][0]], g[ch[n][1]]>>]
             h == [n \in V |-> val(n)]
  <2>2. ASSUME NEW n \in V
        PROVE  h[n] = IF n = NIL THEN z ELSE F[<<n, h[ch[n][0]], h[ch[n][1]]>>]
    <3>1. n \in D /\ rk[n] \in Nat /\ rk[n] <= k + 1 /\ h[n] = val(n)
      OBVIOUS
    <3>2. n # NIL => \A i \in Sides : ch[n][i] \in D /\ rk[ch[n][i]] <= k /\ h[ch[n][i]] = g[ch[n][i]]
      <4> SUFFICES ASSUME n # NIL, NEW i \in Sides
                   PROVE  ch[n][i] \in D /\ rk[ch[n][i]] <= k /\ h[ch[n][i]] = g[ch[n][i]]
        OBVIOUS
      <4>1. PICK c : c = ch[n][i]
        OBVIOUS
      <4>2. c \in D /\ rk[c] < rk[n] /\ rk[c] \in Nat
        BY <3>1, <4>1
      <4>3. rk[c] <= k /\ c \in V
        BY <3>1, <4>2
      <4>4. h[c] = g[c]
        BY <4>3
      <4> QED BY <4>1, <4>2, <4>3, <4>4
    <3>3. n # NIL => h[ch[n][0]] = g[ch[n][0]] /\ h[ch[n][1]] = g[ch[n][1]]
      BY <1>0, <3>2
    <3>4. CASE rk[n] <= k
      <4>1. n \in Upto(k)
        BY <3>1, <3>4
      <4>2. g[n] = IF n = NIL THEN z ELSE F[<<n, g[ch[n][0]], g[ch[n][1]]>>]
        BY <4>1, <2>1, Zenon DEF TreeObeys
      <4> HIDE DEF h, V
      <4>3. h[n] = g[n]
        BY <3>1, <3>4
      <4> QED BY <3>3, <4>2, <4>3
    <3>5. CASE ~(rk[n] <= k)
      <4>1. n # NIL
        <5> SUFFICES ASSUME n = NIL PROVE FALSE
          OBVIOUS
        <5> QED BY <3>1, <3>5
      <4> HIDE DEF h, V
      <4> QED BY <3>1, <3>3, <3>5, <4>1
    <3> QED BY <3>4, <3>5, Zenon
  <2>3. TreeObeys(h, V, ch, z, F)
    <3>1. h = [n \in V |-> h[n]]
      OBVIOUS
    <3> HIDE DEF h, V
    <3> QED BY <2>2, <3>1, Zenon DEF TreeObeys
  <2> HIDE DEF h
  <2>4. \E f : TreeObeys(f, Upto(k + 1), ch, z, F)
    BY <2>3
  <2> HIDE DEF Upto
  <2> QED BY <2>4
<1>3. b \in S
  <2> HIDE DEF S
  <2> QED BY <1>1, <1>2, NatSet
<1>4. Upto(b) = D
  OBVIOUS
<1> HIDE DEF Upto
<1> QED BY <1>3, <1>4

\* The rank of a node.
Rank(U, lo, hi) == [n \in All |-> IF n \in U THEN 1 + hi[n] - lo[n] ELSE IF n = NIL THEN 0 ELSE 1]

\* It decreases from a node to its children, and from a node in no tree to NIL.
LEMMA RankIs ==
  ASSUME NEW T, NEW U, NEW lo, NEW hi, Formed(T, U, lo, hi), NEW rk, rk = Rank(U, lo, hi)
  PROVE  /\ rk \in [All -> Nat] /\ rk[NIL] = 0 /\ \A n \in All : rk[n] <= NKeys + 2
         /\ \A n \in All : n # NIL => \A i \in Sides : T.ch[n][i] \in All /\ rk[T.ch[n][i]] < rk[n]
<1>1. \A n \in U : /\ lo[n] \in 0 .. NKeys + 1 /\ hi[n] \in 0 .. NKeys + 1 /\ lo[n] < hi[n]
                   /\ n # NIL /\ n \in All /\ n \in Nodes
  <2> TAKE n \in U
  <2>1. /\ lo[n] \in Int /\ hi[n] \in Int /\ T.key[n] \in Int /\ lo[n] < T.key[n] /\ T.key[n] < hi[n]
    BY NodeIs
  <2>2. lo[n] < hi[n]
    BY <2>1
  <2> QED BY <2>2, NodeIs
<1>2. NKeys \in Nat /\ NIL \in All /\ NIL \notin U
  BY Numbers, <1>1
<1>3. ASSUME NEW n \in All PROVE rk[n] \in Nat /\ rk[n] <= NKeys + 2
  <2>1. rk[n] = IF n \in U THEN 1 + hi[n] - lo[n] ELSE IF n = NIL THEN 0 ELSE 1
    BY DEF Rank
  <2> QED BY <1>1, <1>2, <2>1
<1>4. rk[NIL] = 0
  BY <1>2 DEF Rank
<1>5. ASSUME NEW n \in All, n # NIL, NEW i \in Sides
      PROVE  T.ch[n][i] \in All /\ rk[T.ch[n][i]] < rk[n]
  <2>1. CASE n \in U
    <3>1. PICK c : c = T.ch[n][i]
      OBVIOUS
    <3>2. c \in U \cup {NIL} /\ rk[n] = 1 + hi[n] - lo[n]
      BY <1>5, <2>1, <3>1, NodeIs DEF Rank
    <3>3. CASE c = NIL
      BY <1>1, <1>2, <1>4, <2>1, <3>1, <3>2, <3>3
    <3>4. CASE c # NIL
      <4>1. hi[c] - lo[c] < hi[n] - lo[n] /\ c \in U /\ c \in All
        BY <1>1, <2>1, <3>1, <3>4, ChildIs
      <4>2. rk[c] = 1 + hi[c] - lo[c]
        BY <4>1 DEF Rank
      <4> QED BY <1>1, <2>1, <3>1, <3>2, <4>1, <4>2
    <3> QED BY <3>3, <3>4
  <2>2. CASE n \notin U
    <3>1. T.ch[n][i] = NIL
      BY <1>5, <2>2 DEF Formed, Linked
    <3>2. rk[n] = 1
      BY <1>5, <2>2 DEF Rank
    <3> QED BY <1>2, <1>4, <3>1, <3>2
  <2> QED BY <2>1, <2>2
<1>6. rk \in [All -> Nat]
  <2>1. rk = [n \in All |-> rk[n]]
    BY DEF Rank
  <2> QED BY <1>3, <2>1
<1> QED BY <1>3, <1>4, <1>5, <1>6

\* So a recursive function on the nodes of a tree is one.
LEMMA TreeFunction ==
  ASSUME NEW T, NEW U, NEW lo, NEW hi, Formed(T, U, lo, hi), NEW z, NEW F
  PROVE  \E f : TreeObeys(f, All, T.ch, z, F)
<1>1. PICK rk : rk = Rank(U, lo, hi)
  OBVIOUS
<1>2. PICK b \in Nat : b = NKeys + 2
  BY Numbers
<1>3. /\ rk \in [All -> Nat] /\ rk[NIL] = 0 /\ \A n \in All : rk[n] <= b
      /\ \A n \in All : n # NIL => \A i \in Sides : T.ch[n][i] \in All /\ rk[T.ch[n][i]] < rk[n]
  BY <1>1, <1>2, RankIs
<1> QED BY <1>3, TreeRecursion

\* Induction: what holds for a node if it holds for its children holds for all.
LEMMA TreeInduction ==
  ASSUME NEW T, NEW U, NEW lo, NEW hi, Formed(T, U, lo, hi), NEW S,
         \A n \in U : (\A i \in Sides : T.ch[n][i] # NIL => T.ch[n][i] \in S) => n \in S
  PROVE  U \subseteq S
<1> DEFINE D == {k \in Nat : \E n \in U : n \notin S /\ k = hi[n] - lo[n]}
<1> SUFFICES ASSUME NEW x \in U, x \notin S PROVE FALSE
  OBVIOUS
<1>1. \A n \in U : /\ hi[n] - lo[n] \in Nat /\ hi[n] \in Int /\ lo[n] \in Int
  <2> TAKE n \in U
  <2>1. /\ lo[n] \in Int /\ hi[n] \in Int /\ T.key[n] \in Int /\ lo[n] < T.key[n] /\ T.key[n] < hi[n]
    BY NodeIs
  <2> QED BY <2>1
<1>2. PICK k \in D : \A j \in D : k <= j
  <2>1. D # {} /\ D \in SUBSET Nat
    BY <1>1
  <2> HIDE DEF D
  <2> QED BY <2>1, LeastNatural
<1>3. PICK n \in U : n \notin S /\ k = hi[n] - lo[n]
  BY <1>2
<1>4. ASSUME NEW i \in Sides, T.ch[n][i] # NIL PROVE T.ch[n][i] \in S
  <2>1. PICK c : c = T.ch[n][i] /\ c # NIL
    BY <1>4
  <2>2. c \in U /\ hi[c] - lo[c] < hi[n] - lo[n]
    BY <2>1, ChildIs
  <2>3. c \notin S => hi[c] - lo[c] \in D
    BY <1>1, <2>2
  <2> HIDE DEF D
  <2> QED BY <1>1, <1>2, <1>3, <2>1, <2>2, <2>3
<1> QED BY <1>3, <1>4

\* With values in R.
LEMMA TypedFunction ==
  ASSUME NEW T, NEW U, NEW lo, NEW hi, Formed(T, U, lo, hi), NEW R, NEW z \in R,
         NEW F \in [All \X R \X R -> R]
  PROVE  \E f \in [All -> R] : TreeObeys(f, All, T.ch, z, F)
<1>1. PICK f : TreeObeys(f, All, T.ch, z, F)
  BY TreeFunction
<1>2. \A n \in All : f[n] = IF n = NIL THEN z ELSE F[<<n, f[T.ch[n][0]], f[T.ch[n][1]]>>]
  BY <1>1, Zenon DEF TreeObeys
<1>3. f[NIL] = z /\ NIL \in All /\ 0 \in Sides /\ 1 \in Sides
  BY <1>2, Numbers DEF Sides
<1>4. ASSUME NEW n \in All, n # NIL, f[T.ch[n][0]] \in R, f[T.ch[n][1]] \in R PROVE f[n] \in R
  <2>1. f[n] = F[<<n, f[T.ch[n][0]], f[T.ch[n][1]]>>]
    BY <1>2, <1>4, Zenon
  <2>2. <<n, f[T.ch[n][0]], f[T.ch[n][1]]>> \in All \X R \X R
    BY <1>4
  <2> QED BY <2>1, <2>2
<1>5. ASSUME NEW n \in All \ U PROVE f[n] \in R
  <2>1. CASE n = NIL
    BY <1>3, <2>1
  <2>2. CASE n # NIL
    <3>1. T.ch[n][0] = NIL /\ T.ch[n][1] = NIL
      BY <1>3 DEF Formed, Linked
    <3> QED BY <1>3, <1>4, <2>2, <3>1
  <2> QED BY <2>1, <2>2
<1> DEFINE S == {n \in U : f[n] \in R}
<1>6. ASSUME NEW n \in U, \A i \in Sides : T.ch[n][i] # NIL => T.ch[n][i] \in S PROVE n \in S
  <2>1. n \in All /\ n # NIL
    BY NodeIs
  <2>2. f[T.ch[n][0]] \in R /\ f[T.ch[n][1]] \in R
    BY <1>3, <1>6
  <2> QED BY <1>4, <2>1, <2>2
<1>7. U \subseteq S
  <2> HIDE DEF S
  <2> QED BY <1>6, TreeInduction
<1>8. \A n \in All : f[n] \in R
  BY <1>5, <1>7
<1>9. f = [n \in All |-> f[n]]
  <2>1. DOMAIN f = All /\ f = [n \in DOMAIN f |-> f[n]]
    BY <1>1, Zenon DEF TreeObeys
  <2> QED BY <2>1, Zenon
<1> QED BY <1>1, <1>8, <1>9, Zenon

----------------------------------------------------------------------------
(***************************************************************************)
(* The searches.                                                           *)
(***************************************************************************)

\* The node with the least key not below v among those below n, or NIL.
GeIs(T, U, lo, hi, v, n, r) ==
  IF r = NIL THEN \A x \in U : lo[n] < T.key[x] /\ T.key[x] < hi[n] => T.key[x] < v
  ELSE /\ r \in U /\ lo[n] < T.key[r] /\ T.key[r] < hi[n] /\ T.key[r] >= v
       /\ \A x \in U : lo[n] < T.key[x] /\ T.key[x] < hi[n] => T.key[x] < v \/ T.key[r] <= T.key[x]

\* What find_ge does at a node.
LEMMA GeStep ==
  ASSUME NEW T, NEW U, NEW lo, NEW hi, Formed(T, U, lo, hi), NEW v \in Int, NEW n \in U,
         NEW l, NEW r, T.ch[n][0] = NIL => l = NIL, T.ch[n][1] = NIL => r = NIL,
         T.ch[n][0] # NIL => GeIs(T, U, lo, hi, v, T.ch[n][0], l),
         T.ch[n][1] # NIL => GeIs(T, U, lo, hi, v, T.ch[n][1], r)
  PROVE  GeIs(T, U, lo, hi, v, n, IF T.key[n] < v THEN r ELSE IF l = NIL THEN n ELSE l)
<1>1. \A x \in U : /\ T.key[x] \in Int /\ lo[x] \in Int /\ hi[x] \in Int /\ x # NIL
                   /\ lo[x] < T.key[x] /\ T.key[x] < hi[x]
  BY NodeIs
<1>2. /\ T.ch[n][0] # NIL => lo[T.ch[n][0]] = lo[n] /\ hi[T.ch[n][0]] = T.key[n]
      /\ T.ch[n][1] # NIL => lo[T.ch[n][1]] = T.key[n] /\ hi[T.ch[n][1]] = hi[n]
  BY NodeIs
<1>3. ASSUME NEW x \in U, lo[n] < T.key[x], T.key[x] < hi[n], x # n
      PROVE  /\ T.key[x] < T.key[n] => T.ch[n][0] # NIL
             /\ ~(T.key[x] < T.key[n]) => T.key[x] > T.key[n] /\ T.ch[n][1] # NIL
  <2>1. T.ch[n][Bit(T.key[n] < T.key[x])] # NIL
    BY <1>3, NoGap
  <2>2. T.key[x] # T.key[n]
    BY <1>3, Within
  <2> QED BY <1>1, <2>1, <2>2 DEF Bit
<1>4. CASE T.key[n] < v
  <2>1. ASSUME NEW x \in U, lo[n] < T.key[x], T.key[x] < hi[n]
        PROVE  T.key[x] < v \/ (T.ch[n][1] # NIL /\ T.key[n] < T.key[x])
    BY <1>1, <1>3, <1>4, <2>1
  <2>2. CASE T.ch[n][1] = NIL
    BY <1>4, <2>1, <2>2 DEF GeIs
  <2>3. CASE T.ch[n][1] # NIL
    BY <1>1, <1>2, <1>4, <2>1, <2>3 DEF GeIs
  <2> QED BY <2>2, <2>3
<1>5. CASE ~(T.key[n] < v)
  <2>1. ASSUME NEW x \in U, lo[n] < T.key[x], T.key[x] < hi[n]
        PROVE  T.key[n] <= T.key[x] \/ (T.ch[n][0] # NIL /\ T.key[x] < T.key[n])
    BY <1>1, <1>3, <2>1
  <2>2. CASE l = NIL
    <3>1. ASSUME NEW x \in U, lo[n] < T.key[x], T.key[x] < hi[n]
          PROVE  T.key[x] < v \/ T.key[n] <= T.key[x]
      BY <1>1, <1>2, <2>1, <2>2, <3>1 DEF GeIs
    <3> QED BY <1>1, <1>5, <2>2, <3>1 DEF GeIs
  <2>3. CASE l # NIL
    <3>1. T.ch[n][0] # NIL /\ GeIs(T, U, lo, hi, v, T.ch[n][0], l)
      BY <2>3
    <3>2. l \in U /\ lo[n] < T.key[l] /\ T.key[l] < T.key[n] /\ T.key[l] >= v
      BY <1>2, <2>3, <3>1 DEF GeIs
    <3>3. ASSUME NEW x \in U, lo[n] < T.key[x], T.key[x] < hi[n]
          PROVE  T.key[x] < v \/ T.key[l] <= T.key[x]
      BY <1>1, <1>2, <2>1, <2>3, <3>1, <3>2, <3>3 DEF GeIs
    <3> QED BY <1>1, <1>5, <2>3, <3>2, <3>3 DEF GeIs
  <2> QED BY <2>2, <2>3
<1> QED BY <1>4, <1>5

\* find_ge.
LEMMA FindGeIs ==
  ASSUME NEW T, NEW U, NEW lo, NEW hi, Formed(T, U, lo, hi), NEW v \in Int
  PROVE  LET r == find_ge(T, v) IN
         IF r = NIL THEN \A x \in U : T.key[x] < v
         ELSE r \in U /\ T.key[r] >= v /\ \A x \in U : T.key[x] < v \/ T.key[r] <= T.key[x]
<1> DEFINE F == [x \in All \X All \X All |->
                   IF x[1] = NIL THEN NIL
                   ELSE IF T.key[x[1]] < v THEN x[3] ELSE IF x[2] = NIL THEN x[1] ELSE x[2]]
           Is(w) == w = [n \in Nodes \cup {NIL} |->
                           IF n = NIL THEN NIL
                           ELSE IF T.key[n] < v THEN w[T.ch[n][1]]
                           ELSE LET l == w[T.ch[n][0]] IN IF l = NIL THEN n ELSE l]
           f == CHOOSE w : Is(w)
<1>1. NIL \in All
  BY Numbers
<1>2. \E w : Is(w)
  <2>1. F \in [All \X All \X All -> All]
    <3>1. \A x \in All \X All \X All : x[1] \in All /\ x[2] \in All /\ x[3] \in All
      OBVIOUS
    <3> QED BY <1>1, <3>1
  <2>2. \A n, a, b \in All : F[<<n, a, b>>] = IF n = NIL THEN NIL
                   ELSE IF T.key[n] < v THEN b ELSE IF a = NIL THEN n ELSE a
    OBVIOUS
  <2> HIDE DEF F
  <2>3. PICK w \in [All -> All] : TreeObeys(w, All, T.ch, NIL, F)
    BY <1>1, <2>1, TypedFunction
  <2>4. ASSUME NEW n \in All, n # NIL PROVE T.ch[n][0] \in All /\ T.ch[n][1] \in All
    BY DEF Formed, Trees, Sides
  <2>5. ASSUME NEW n \in All
        PROVE  w[n] = IF n = NIL THEN NIL ELSE IF T.key[n] < v THEN w[T.ch[n][1]]
                      ELSE IF w[T.ch[n][0]] = NIL THEN n ELSE w[T.ch[n][0]]
    <3>1. w[n] = IF n = NIL THEN NIL ELSE F[<<n, w[T.ch[n][0]], w[T.ch[n][1]]>>]
      BY <2>3, Zenon DEF TreeObeys
    <3>2. n # NIL => w[T.ch[n][0]] \in All /\ w[T.ch[n][1]] \in All
      BY <2>4
    <3>3. CASE n # NIL
      <4>1. PICK a \in All, b \in All : a = w[T.ch[n][0]] /\ b = w[T.ch[n][1]]
        BY <3>2, <3>3
      <4>2. w[n] = F[<<n, a, b>>]
        BY <3>1, <3>3, <4>1
      <4>3. w[n] = IF T.key[n] < v THEN b ELSE IF a = NIL THEN n ELSE a
        BY <2>2, <3>3, <4>2
      <4> QED BY <3>3, <4>1, <4>3
    <3> QED BY <3>1, <3>3
  <2>6. w = [n \in All |-> w[n]]
    OBVIOUS
  <2>7. Is(w)
    BY <2>5, <2>6, Zenon DEF All
  <2> QED BY <2>7
<1>3. Is(f)
  BY <1>2, Zenon
<1>4. find_ge(T, v) = f[T.root]
  BY Zenon DEF find_ge
<1> HIDE DEF f
<1>5. ASSUME NEW n \in All
      PROVE  f[n] = IF n = NIL THEN NIL ELSE IF T.key[n] < v THEN f[T.ch[n][1]]
                    ELSE IF f[T.ch[n][0]] = NIL THEN n ELSE f[T.ch[n][0]]
  BY <1>3, Zenon DEF All
<1>6. f[NIL] = NIL
  BY <1>1, <1>5
<1> DEFINE S == {n \in U : GeIs(T, U, lo, hi, v, n, f[n])}
<1>7. ASSUME NEW n \in U, \A i \in Sides : T.ch[n][i] # NIL => T.ch[n][i] \in S PROVE n \in S
  <2>1. n \in All /\ n # NIL /\ 0 \in Sides /\ 1 \in Sides
    BY NodeIs DEF Sides
  <2>2. PICK l, r : l = f[T.ch[n][0]] /\ r = f[T.ch[n][1]]
    OBVIOUS
  <2>3. /\ T.ch[n][0] = NIL => l = NIL
        /\ T.ch[n][1] = NIL => r = NIL
        /\ T.ch[n][0] # NIL => GeIs(T, U, lo, hi, v, T.ch[n][0], l)
        /\ T.ch[n][1] # NIL => GeIs(T, U, lo, hi, v, T.ch[n][1], r)
    BY <1>6, <1>7, <2>1, <2>2
  <2>4. GeIs(T, U, lo, hi, v, n, IF T.key[n] < v THEN r ELSE IF l = NIL THEN n ELSE l)
    BY <2>3, GeStep
  <2>5. f[n] = IF T.key[n] < v THEN r ELSE IF l = NIL THEN n ELSE l
    BY <1>5, <2>1, <2>2
  <2> QED BY <2>4, <2>5
<1>8. \A n \in U : GeIs(T, U, lo, hi, v, n, f[n])
  <2>1. U \subseteq S
    <3> HIDE DEF S
    <3> QED BY <1>7, TreeInduction
  <2> QED BY <2>1
<1>9. CASE T.root = NIL
  <2>1. U = {}
    BY <1>9 DEF Formed, Linked
  <2> QED BY <1>4, <1>6, <1>9, <2>1
<1>10. CASE T.root # NIL
  <2>1. T.root \in U /\ lo[T.root] = 0 /\ hi[T.root] = NKeys + 1
    BY <1>10 DEF Formed, Linked, Ordered
  <2>2. \A x \in U : 0 < T.key[x] /\ T.key[x] < NKeys + 1
    <3> TAKE x \in U
    <3>1. T.key[x] \in 1 .. NKeys /\ NKeys \in Nat
      BY NodeIs, Numbers
    <3> QED BY <3>1
  <2>3. GeIs(T, U, lo, hi, v, T.root, f[T.root])
    BY <1>8, <2>1
  <2> QED BY <1>4, <2>1, <2>2, <2>3 DEF GeIs
<1> QED BY <1>9, <1>10

\* The node with the greatest key not above v among those below n, or NIL.
LeIs(T, U, lo, hi, v, n, r) ==
  IF r = NIL THEN \A x \in U : lo[n] < T.key[x] /\ T.key[x] < hi[n] => T.key[x] > v
  ELSE /\ r \in U /\ lo[n] < T.key[r] /\ T.key[r] < hi[n] /\ T.key[r] <= v
       /\ \A x \in U : lo[n] < T.key[x] /\ T.key[x] < hi[n] => T.key[x] > v \/ T.key[r] >= T.key[x]

\* What find_le does at a node.
LEMMA LeStep ==
  ASSUME NEW T, NEW U, NEW lo, NEW hi, Formed(T, U, lo, hi), NEW v \in Int, NEW n \in U,
         NEW l, NEW r, T.ch[n][0] = NIL => l = NIL, T.ch[n][1] = NIL => r = NIL,
         T.ch[n][0] # NIL => LeIs(T, U, lo, hi, v, T.ch[n][0], l),
         T.ch[n][1] # NIL => LeIs(T, U, lo, hi, v, T.ch[n][1], r)
  PROVE  LeIs(T, U, lo, hi, v, n, IF T.key[n] <= v THEN IF r = NIL THEN n ELSE r ELSE l)
<1>1. \A x \in U : /\ T.key[x] \in Int /\ lo[x] \in Int /\ hi[x] \in Int /\ x # NIL
                   /\ lo[x] < T.key[x] /\ T.key[x] < hi[x]
  BY NodeIs
<1>2. /\ T.ch[n][0] # NIL => lo[T.ch[n][0]] = lo[n] /\ hi[T.ch[n][0]] = T.key[n]
      /\ T.ch[n][1] # NIL => lo[T.ch[n][1]] = T.key[n] /\ hi[T.ch[n][1]] = hi[n]
  BY NodeIs
<1>3. ASSUME NEW x \in U, lo[n] < T.key[x], T.key[x] < hi[n], x # n
      PROVE  /\ T.key[x] < T.key[n] => T.ch[n][0] # NIL
             /\ ~(T.key[x] < T.key[n]) => T.key[x] > T.key[n] /\ T.ch[n][1] # NIL
  <2>1. T.ch[n][Bit(T.key[n] < T.key[x])] # NIL
    BY <1>3, NoGap
  <2>2. T.key[x] # T.key[n]
    BY <1>3, Within
  <2> QED BY <1>1, <2>1, <2>2 DEF Bit
<1>4. CASE ~(T.key[n] <= v)
  <2>1. ASSUME NEW x \in U, lo[n] < T.key[x], T.key[x] < hi[n]
        PROVE  T.key[x] > v \/ (T.ch[n][0] # NIL /\ T.key[n] > T.key[x])
    BY <1>1, <1>3, <1>4, <2>1
  <2>2. CASE T.ch[n][0] = NIL
    BY <1>4, <2>1, <2>2 DEF LeIs
  <2>3. CASE T.ch[n][0] # NIL
    BY <1>1, <1>2, <1>4, <2>1, <2>3 DEF LeIs
  <2> QED BY <2>2, <2>3
<1>5. CASE T.key[n] <= v
  <2>1. ASSUME NEW x \in U, lo[n] < T.key[x], T.key[x] < hi[n]
        PROVE  T.key[n] >= T.key[x] \/ (T.ch[n][1] # NIL /\ T.key[x] > T.key[n])
    BY <1>1, <1>3, <2>1
  <2>2. CASE r = NIL
    <3>1. ASSUME NEW x \in U, lo[n] < T.key[x], T.key[x] < hi[n]
          PROVE  T.key[x] > v \/ T.key[n] >= T.key[x]
      BY <1>1, <1>2, <2>1, <2>2, <3>1 DEF LeIs
    <3> QED BY <1>1, <1>5, <2>2, <3>1 DEF LeIs
  <2>3. CASE r # NIL
    <3>1. T.ch[n][1] # NIL /\ LeIs(T, U, lo, hi, v, T.ch[n][1], r)
      BY <2>3
    <3>2. r \in U /\ T.key[n] < T.key[r] /\ T.key[r] < hi[n] /\ T.key[r] <= v
      BY <1>2, <2>3, <3>1 DEF LeIs
    <3>3. ASSUME NEW x \in U, lo[n] < T.key[x], T.key[x] < hi[n]
          PROVE  T.key[x] > v \/ T.key[r] >= T.key[x]
      BY <1>1, <1>2, <2>1, <2>3, <3>1, <3>2, <3>3 DEF LeIs
    <3> QED BY <1>1, <1>5, <2>3, <3>2, <3>3 DEF LeIs
  <2> QED BY <2>2, <2>3
<1> QED BY <1>4, <1>5

\* find_le.
LEMMA FindLeIs ==
  ASSUME NEW T, NEW U, NEW lo, NEW hi, Formed(T, U, lo, hi), NEW v \in Int
  PROVE  LET r == find_le(T, v) IN
         IF r = NIL THEN \A x \in U : T.key[x] > v
         ELSE r \in U /\ T.key[r] <= v /\ \A x \in U : T.key[x] > v \/ T.key[r] >= T.key[x]
<1> DEFINE F == [x \in All \X All \X All |->
                   IF x[1] = NIL THEN NIL
                   ELSE IF T.key[x[1]] <= v THEN IF x[3] = NIL THEN x[1] ELSE x[3] ELSE x[2]]
           Is(w) == w = [n \in Nodes \cup {NIL} |->
                           IF n = NIL THEN NIL
                           ELSE IF T.key[n] <= v
                           THEN LET r == w[T.ch[n][1]] IN IF r = NIL THEN n ELSE r
                           ELSE w[T.ch[n][0]]]
           f == CHOOSE w : Is(w)
<1>1. NIL \in All
  BY Numbers
<1>2. \E w : Is(w)
  <2>1. F \in [All \X All \X All -> All]
    <3>1. \A x \in All \X All \X All : x[1] \in All /\ x[2] \in All /\ x[3] \in All
      OBVIOUS
    <3> QED BY <1>1, <3>1
  <2>2. \A n, a, b \in All : F[<<n, a, b>>] = IF n = NIL THEN NIL
                   ELSE IF T.key[n] <= v THEN IF b = NIL THEN n ELSE b ELSE a
    OBVIOUS
  <2> HIDE DEF F
  <2>3. PICK w \in [All -> All] : TreeObeys(w, All, T.ch, NIL, F)
    BY <1>1, <2>1, TypedFunction
  <2>4. ASSUME NEW n \in All, n # NIL PROVE T.ch[n][0] \in All /\ T.ch[n][1] \in All
    BY DEF Formed, Trees, Sides
  <2>5. ASSUME NEW n \in All
        PROVE  w[n] = IF n = NIL THEN NIL ELSE IF T.key[n] <= v
                      THEN IF w[T.ch[n][1]] = NIL THEN n ELSE w[T.ch[n][1]] ELSE w[T.ch[n][0]]
    <3>1. w[n] = IF n = NIL THEN NIL ELSE F[<<n, w[T.ch[n][0]], w[T.ch[n][1]]>>]
      BY <2>3, Zenon DEF TreeObeys
    <3>2. n # NIL => w[T.ch[n][0]] \in All /\ w[T.ch[n][1]] \in All
      BY <2>4
    <3> QED BY <2>2, <3>1, <3>2, ZenonT(60)
  <2>6. w = [n \in All |-> w[n]]
    OBVIOUS
  <2>7. Is(w)
    BY <2>5, <2>6, Zenon DEF All
  <2> QED BY <2>7
<1>3. Is(f)
  BY <1>2, Zenon
<1>4. find_le(T, v) = f[T.root]
  BY Zenon DEF find_le
<1> HIDE DEF f
<1>5. ASSUME NEW n \in All
      PROVE  f[n] = IF n = NIL THEN NIL ELSE IF T.key[n] <= v
                    THEN IF f[T.ch[n][1]] = NIL THEN n ELSE f[T.ch[n][1]] ELSE f[T.ch[n][0]]
  BY <1>3, Zenon DEF All
<1>6. f[NIL] = NIL
  BY <1>1, <1>5
<1> DEFINE S == {n \in U : LeIs(T, U, lo, hi, v, n, f[n])}
<1>7. ASSUME NEW n \in U, \A i \in Sides : T.ch[n][i] # NIL => T.ch[n][i] \in S PROVE n \in S
  <2>1. n \in All /\ n # NIL /\ 0 \in Sides /\ 1 \in Sides
    BY NodeIs DEF Sides
  <2>2. PICK l, r : l = f[T.ch[n][0]] /\ r = f[T.ch[n][1]]
    OBVIOUS
  <2>3. /\ T.ch[n][0] = NIL => l = NIL
        /\ T.ch[n][1] = NIL => r = NIL
        /\ T.ch[n][0] # NIL => LeIs(T, U, lo, hi, v, T.ch[n][0], l)
        /\ T.ch[n][1] # NIL => LeIs(T, U, lo, hi, v, T.ch[n][1], r)
    BY <1>6, <1>7, <2>1, <2>2
  <2>4. LeIs(T, U, lo, hi, v, n, IF T.key[n] <= v THEN IF r = NIL THEN n ELSE r ELSE l)
    BY <2>3, LeStep
  <2>5. f[n] = IF T.key[n] <= v THEN IF r = NIL THEN n ELSE r ELSE l
    BY <1>5, <2>1, <2>2
  <2> QED BY <2>4, <2>5
<1>8. \A n \in U : LeIs(T, U, lo, hi, v, n, f[n])
  <2>1. U \subseteq S
    <3> HIDE DEF S
    <3> QED BY <1>7, TreeInduction
  <2> QED BY <2>1
<1>9. CASE T.root = NIL
  <2>1. U = {}
    BY <1>9 DEF Formed, Linked
  <2> QED BY <1>4, <1>6, <1>9, <2>1
<1>10. CASE T.root # NIL
  <2>1. T.root \in U /\ lo[T.root] = 0 /\ hi[T.root] = NKeys + 1
    BY <1>10 DEF Formed, Linked, Ordered
  <2>2. \A x \in U : 0 < T.key[x] /\ T.key[x] < NKeys + 1
    <3> TAKE x \in U
    <3>1. T.key[x] \in 1 .. NKeys /\ NKeys \in Nat
      BY NodeIs, Numbers
    <3> QED BY <3>1
  <2>3. LeIs(T, U, lo, hi, v, T.root, f[T.root])
    BY <1>8, <2>1
  <2> QED BY <1>4, <2>1, <2>2, <2>3 DEF LeIs
<1> QED BY <1>9, <1>10

----------------------------------------------------------------------------
(***************************************************************************)
(* Colours and black heights.                                              *)
(***************************************************************************)
Shaped(T, U) == \E lo, hi : Formed(T, U, lo, hi)

\* What a child pointer adds to the black height: the pointers in L lead to
\* one black node too few.
Weight(T, L, n, i) == Bit(<<n, i>> \in L) + Bit(~T.red[n])

\* bh counts the black nodes below.
Heights(T, U, L, bh) ==
  /\ bh \in [All -> Nat] /\ bh[NIL] = 0
  /\ \A n \in U : \A i \in Sides :
       bh[n] = bh[T.ch[n][i]] + Weight(T, L, n, i)

Balanced(T, U, L) == \E bh : Heights(T, U, L, bh)

\* No red node has a red child and the root is black, except that x may be
\* the red child or the red root, and y the red parent.
Coloured(T, U, x, y) ==
  /\ ~T.red[NIL]
  /\ T.red[T.root] => T.root = x
  /\ \A n \in U : n # y /\ T.red[n] => \A i \in Sides : T.red[T.ch[n][i]] => T.ch[n][i] = x

\* S has other colours than T.
Recoloured(S, T) == S \in Trees /\ S.root = T.root /\ S.par = T.par /\ S.ch = T.ch /\ S.key = T.key

\* S is T with n black, red, or of the colour of p.
Blackened(S, T, n) ==
  /\ Recoloured(S, T) /\ S.red \in [All -> BOOLEAN] /\ ~S.red[n]
  /\ \A x \in All : x # n => S.red[x] = T.red[x]

Reddened(S, T, n) ==
  /\ Recoloured(S, T) /\ S.red \in [All -> BOOLEAN] /\ S.red[n]
  /\ \A x \in All : x # n => S.red[x] = T.red[x]

Matched(S, T, n, p) ==
  /\ Recoloured(S, T) /\ S.red \in [All -> BOOLEAN] /\ S.red[n] = T.red[p]
  /\ \A x \in All : x # n => S.red[x] = T.red[x]

\* Paint does that.
LEMMA PaintBlack ==
  ASSUME NEW T \in Trees, NEW n \in All
  PROVE  Blackened(Paint(T, n, FALSE), T, n)
<1>1. PICK f \in [All -> BOOLEAN] : f = [T.red EXCEPT ![n] = FALSE]
  BY DEF Trees
<1>2. ~f[n] /\ \A x \in All : x # n => f[x] = T.red[x]
  BY <1>1 DEF Trees
<1>3. PICK S : S = [T EXCEPT !.red = f]
  OBVIOUS
<1>4. Recoloured(S, T) /\ S.red = f
  BY <1>3 DEF Trees, Recoloured
<1>5. S = Paint(T, n, FALSE)
  BY <1>1, <1>3 DEF Paint, Trees
<1>6. Blackened(S, T, n)
  BY <1>2, <1>4 DEF Blackened
<1> QED BY <1>5, <1>6, Zenon

\* Red.
LEMMA PaintRed ==
  ASSUME NEW T \in Trees, NEW n \in All
  PROVE  Reddened(Paint(T, n, TRUE), T, n)
<1>1. PICK f \in [All -> BOOLEAN] : f = [T.red EXCEPT ![n] = TRUE]
  BY DEF Trees
<1>2. f[n] /\ \A x \in All : x # n => f[x] = T.red[x]
  BY <1>1 DEF Trees
<1>3. PICK S : S = [T EXCEPT !.red = f]
  OBVIOUS
<1>4. Recoloured(S, T) /\ S.red = f
  BY <1>3 DEF Trees, Recoloured
<1>5. S = Paint(T, n, TRUE)
  BY <1>1, <1>3 DEF Paint, Trees
<1>6. Reddened(S, T, n)
  BY <1>2, <1>4 DEF Reddened
<1> QED BY <1>5, <1>6, Zenon

\* The colour of another node.
LEMMA PaintLike ==
  ASSUME NEW T \in Trees, NEW n \in All, NEW p \in All
  PROVE  Matched(Paint(T, n, T.red[p]), T, n, p)
<1>1. PICK f \in [All -> BOOLEAN] : f = [T.red EXCEPT ![n] = T.red[p]]
  BY DEF Trees
<1>2. f[n] = T.red[p] /\ \A x \in All : x # n => f[x] = T.red[x]
  BY <1>1 DEF Trees
<1>3. PICK S : S = [T EXCEPT !.red = f]
  OBVIOUS
<1>4. Recoloured(S, T) /\ S.red = f
  BY <1>3 DEF Trees, Recoloured
<1>5. S = Paint(T, n, T.red[p])
  BY <1>1, <1>3 DEF Paint, Trees
<1>6. Matched(S, T, n, p)
  BY <1>2, <1>4 DEF Matched
<1> QED BY <1>5, <1>6, Zenon

\* The order of the nodes does not depend on their colours.
LEMMA RecolouredForms ==
  ASSUME NEW T, NEW U, NEW lo, NEW hi, Formed(T, U, lo, hi), NEW S, Recoloured(S, T)
  PROVE  Formed(S, U, lo, hi)
<1>1. S \in Trees /\ U \subseteq Nodes
  BY DEF Formed, Recoloured
<1>2. Linked(S, U)
  BY DEF Formed, Recoloured, Linked
<1>3. Ordered(S, U, lo, hi)
  <2>1. ASSUME NEW a, NEW b PROVE Apart(S, lo, hi, a, b) <=> Apart(T, lo, hi, a, b)
    BY DEF Recoloured, Apart, Under
  <2> QED BY <2>1, Zenon DEF Formed, Recoloured, Ordered
<1> QED BY <1>1, <1>2, <1>3 DEF Formed

\* Two in a row.
LEMMA RecolouredTwice ==
  ASSUME NEW R, NEW S, NEW T, Recoloured(R, S), Recoloured(S, T)
  PROVE  Recoloured(R, T)
BY Zenon DEF Recoloured

\* What the colours need to know of the pointers.
Family(T, U) ==
  /\ T \in Trees /\ T.root \in U \cup {NIL} /\ NIL \notin U /\ NIL \in All /\ U \subseteq All
  /\ T.root = NIL => U = {}
  /\ T.root # NIL => T.par[T.root] = NIL
  /\ \A n \in U : n # T.root => T.par[n] \in U /\ \E i \in Sides : T.ch[T.par[n]][i] = n
  /\ \A n \in U : \A i \in Sides :
       /\ T.ch[n][i] \in U \cup {NIL}
       /\ T.ch[n][i] # NIL =>
            /\ T.par[T.ch[n][i]] = n /\ T.ch[n][i] # n /\ T.ch[n][i] # T.root
            /\ \A j \in Sides : (j # i => T.ch[n][j] # T.ch[n][i]) /\ T.ch[T.ch[n][i]][j] # n

\* It is so.
LEMMA FamilyIs ==
  ASSUME NEW T, NEW U, NEW lo, NEW hi, Formed(T, U, lo, hi)
  PROVE  Family(T, U)
<1>1. T \in Trees /\ NIL \notin U /\ NIL \in All /\ U \subseteq All
  BY Numbers DEF Formed
<1>2. /\ T.root \in U \cup {NIL}
      /\ T.root = NIL => U = {}
      /\ T.root # NIL => T.par[T.root] = NIL
      /\ \A n \in U : n # T.root => T.par[n] \in U /\ \E i \in Sides : T.ch[T.par[n]][i] = n
      /\ \A n \in U : \A i \in Sides : T.ch[n][i] \in U \cup {NIL}
  BY DEF Formed, Linked
<1>3. Nested(T, U, lo, hi)
  BY NestedIs
<1>4. ASSUME NEW n \in U, NEW i \in Sides, T.ch[n][i] # NIL
      PROVE  /\ T.par[T.ch[n][i]] = n /\ T.ch[n][i] # n /\ T.ch[n][i] # T.root
             /\ \A j \in Sides : (j # i => T.ch[n][j] # T.ch[n][i]) /\ T.ch[T.ch[n][i]][j] # n
  <2>1. PICK c \in U : c = T.ch[n][i] /\ hi[c] - lo[c] < hi[n] - lo[n]
    BY <1>3, <1>4 DEF Nested
  <2>2. ASSUME NEW j \in Sides PROVE T.ch[c][j] # n
    <3> SUFFICES ASSUME T.ch[c][j] = n PROVE FALSE
      OBVIOUS
    <3>1. n # NIL
      BY <1>1
    <3>2. hi[n] - lo[n] < hi[c] - lo[c] /\ lo[c] \in Int /\ hi[c] \in Int /\ lo[n] \in Int /\ hi[n] \in Int
      BY <1>3, <3>1 DEF Nested
    <3> QED BY <2>1, <3>2
  <2>3. /\ T.par[T.ch[n][i]] = n /\ T.ch[n][i] # n /\ T.ch[n][i] # T.root
        /\ \A j \in Sides : j # i => T.ch[n][j] # T.ch[n][i]
    <3>1. \A j \in Sides : j # i => j = 1 - i
      BY DEF Sides
    <3> QED BY <1>3, <1>4, <3>1 DEF Nested
  <2> QED BY <2>1, <2>2, <2>3
<1> QED BY <1>1, <1>2, <1>4 DEF Family

\* A child.
LEMMA Child ==
  ASSUME NEW T, NEW U, Family(T, U), NEW n \in U, NEW i \in Sides, NEW c, c = T.ch[n][i]
  PROVE  /\ c \in All /\ c \in U \cup {NIL} /\ n \in All /\ n # NIL /\ c # n
         /\ c # NIL => /\ c \in U /\ T.par[c] = n /\ c # T.root
                       /\ \A j \in Sides : (j # i => T.ch[n][j] # c) /\ T.ch[c][j] # n
BY DEF Family

\* A node has one parent.
LEMMA OneParent ==
  ASSUME NEW T, NEW U, Family(T, U), NEW n \in U, NEW i \in Sides, NEW p \in U, NEW j \in Sides,
         T.ch[n][i] = T.ch[p][j], T.ch[n][i] # NIL
  PROVE  n = p /\ i = j
<1>1. n = p
  BY Child
<1>2. j # i => T.ch[n][j] # T.ch[n][i]
  BY Child
<1> QED BY <1>1, <1>2

\* Weights.
LEMMA WeightIs ==
  ASSUME NEW T, NEW L, NEW n, NEW i
  PROVE  Weight(T, L, n, i) \in Nat
BY DEF Weight, Bit

\* The children after a rotation.
LEMMA TurnedChildren ==
  ASSUME NEW T, NEW U, Family(T, U), NEW r \in U, NEW dir \in Sides,
         NEW e \in Sides, e = 1 - dir, NEW t \in U, t = T.ch[r][e], NEW S, Turned(S, T, r, dir)
  PROVE  /\ t # r /\ r # NIL /\ t # NIL /\ r \in All /\ t \in All /\ NIL \in All
         /\ S.red = T.red /\ S.root = IF T.root = r THEN t ELSE T.root
         /\ e # dir /\ \A i \in Sides : i = dir \/ i = e
         /\ S.ch[r][dir] = T.ch[r][dir] /\ S.ch[r][e] = T.ch[t][dir]
         /\ S.ch[t][dir] = r /\ S.ch[t][e] = T.ch[t][e]
         /\ T.ch[r][dir] \in All /\ T.ch[r][dir] # r /\ T.ch[r][dir] # t
         /\ T.ch[t][dir] \in All /\ T.ch[t][dir] # r /\ T.ch[t][dir] # t
         /\ T.ch[t][e] \in All /\ T.ch[t][e] # r /\ T.ch[t][e] # t
         /\ \A n \in U : n # r /\ n # t => n \in All /\ \A i \in Sides :
              /\ S.ch[n][i] = IF T.ch[n][i] = r THEN t ELSE T.ch[n][i]
              /\ T.ch[n][i] # t /\ T.ch[n][i] \in All
<1>1. e # dir /\ \A i \in Sides : i = dir \/ i = e
  BY DEF Sides
<1>2. NIL \notin U /\ NIL \in All /\ U \subseteq All
  BY DEF Family
<1>3. t # r
  BY Child
<1>4. T.ch[r][dir] \in All /\ T.ch[r][dir] # r
  BY Child
<1>5. T.ch[r][dir] # t /\ \A j \in Sides : T.ch[t][j] # r
  <2>1. t # NIL
    BY <1>2
  <2>2. (dir # e => T.ch[r][dir] # t) /\ \A j \in Sides : T.ch[t][j] # r
    BY <2>1, Child
  <2> QED BY <1>1, <2>2
<1>6. \A j \in Sides : T.ch[t][j] \in All /\ T.ch[t][j] # t
  BY Child
<1>7. ASSUME NEW n \in U, n # r, NEW i \in Sides PROVE T.ch[n][i] # t /\ T.ch[n][i] \in All
  <2>1. t # NIL
    BY <1>2
  <2>2. T.ch[n][i] = t => n = r
    BY <2>1, OneParent
  <2> QED BY <1>7, <2>2, Child
<1>8. /\ \A n \in All : n # r /\ n # t =>
           \A i \in Sides : S.ch[n][i] = IF T.ch[n][i] = r THEN t ELSE T.ch[n][i]
      /\ S.ch[r][dir] = T.ch[r][dir] /\ S.ch[r][e] = T.ch[t][dir]
      /\ S.ch[t][dir] = r /\ S.ch[t][e] = T.ch[t][e]
      /\ S.red = T.red /\ S.root = IF T.root = r THEN t ELSE T.root
  <2> USE e = 1 - dir
  <2> QED BY Zenon DEF Turned
<1>9. ASSUME NEW n \in U, n # r, n # t, NEW i \in Sides
      PROVE  S.ch[n][i] = IF T.ch[n][i] = r THEN t ELSE T.ch[n][i]
  BY <1>2, <1>8, <1>9
<1> QED BY <1>1, <1>2, <1>3, <1>4, <1>5, <1>6, <1>7, <1>8, <1>9

\* bh has the right values everywhere but at r and t, where the black heights
\* after a rotation are a and that of r before.
Fits(T, U, L, bh, r, t, dir, e, a) ==
  /\ bh \in [All -> Nat] /\ bh[NIL] = 0 /\ a \in Nat
  /\ \A n \in U : n # r /\ n # t => \A i \in Sides : bh[n] = bh[T.ch[n][i]] + Weight(T, L, n, i)
  /\ a = bh[T.ch[r][dir]] + Weight(T, L, r, dir)
  /\ a = bh[T.ch[t][dir]] + Weight(T, L, r, e)
  /\ bh[r] = a + Weight(T, L, t, dir)
  /\ bh[r] = bh[T.ch[t][e]] + Weight(T, L, t, e)

\* The heights after a rotation.
LEMMA TurnedHeights ==
  ASSUME NEW T, NEW U, Family(T, U), NEW r \in U, NEW dir \in Sides,
         NEW e \in Sides, e = 1 - dir, NEW t \in U, t = T.ch[r][e], NEW S, Turned(S, T, r, dir),
         NEW L, NEW bh, NEW a, Fits(T, U, L, bh, r, t, dir, e, a)
  PROVE  Balanced(S, U, L)
<1>1. PICK g : g = [bh EXCEPT ![r] = a, ![t] = bh[r]]
  OBVIOUS
<1>2. PICK c1, c2, c3 : c1 = T.ch[r][dir] /\ c2 = T.ch[t][dir] /\ c3 = T.ch[t][e]
  OBVIOUS
<1>3. /\ t # r /\ r # NIL /\ t # NIL /\ r \in All /\ t \in All /\ NIL \in All
      /\ c1 \in All /\ c1 # r /\ c1 # t /\ c2 \in All /\ c2 # r /\ c2 # t
      /\ c3 \in All /\ c3 # r /\ c3 # t /\ \A i \in Sides : i = dir \/ i = e
      /\ S.ch[r][dir] = c1 /\ S.ch[r][e] = c2 /\ S.ch[t][dir] = r /\ S.ch[t][e] = c3
  BY <1>2, TurnedChildren
<1>4. /\ g \in [All -> Nat] /\ g[r] = a /\ g[t] = bh[r] /\ g[NIL] = 0
      /\ \A n \in All : n # r /\ n # t => g[n] = bh[n]
  BY <1>1, <1>3, Zenon DEF Fits
<1>5. \A n, i : Weight(S, L, n, i) = Weight(T, L, n, i)
  <2>1. S.red = T.red
    BY TurnedChildren
  <2> QED BY <2>1 DEF Weight
<1>6. /\ g[r] = g[c1] + Weight(S, L, r, dir)
      /\ g[r] = g[c2] + Weight(S, L, r, e)
      /\ g[t] = g[r] + Weight(S, L, t, dir)
      /\ g[t] = g[c3] + Weight(S, L, t, e)
  <2>1. g[c1] = bh[c1] /\ g[c2] = bh[c2] /\ g[c3] = bh[c3] /\ g[r] = a /\ g[t] = bh[r]
    BY <1>3, <1>4
  <2>2. a = bh[c1] + Weight(T, L, r, dir) /\ a = bh[c2] + Weight(T, L, r, e)
    BY <1>2, Zenon DEF Fits
  <2>3. bh[r] = a + Weight(T, L, t, dir) /\ bh[r] = bh[c3] + Weight(T, L, t, e)
    BY <1>2, Zenon DEF Fits
  <2> QED BY <1>5, <2>1, <2>2, <2>3, Zenon
<1>7. ASSUME NEW n \in U, n # r, n # t, NEW i \in Sides
      PROVE  g[n] = g[S.ch[n][i]] + Weight(S, L, n, i)
  <2>1. PICK c \in All : c = T.ch[n][i] /\ c # t /\ S.ch[n][i] = IF c = r THEN t ELSE c
    BY <1>7, TurnedChildren
  <2>2. n \in All
    BY <1>7, TurnedChildren
  <2>3. g[S.ch[n][i]] = bh[c] /\ g[n] = bh[n]
    BY <1>4, <1>7, <2>1, <2>2
  <2>4. bh[n] = bh[c] + Weight(T, L, n, i)
    BY <1>7, <2>1, Zenon DEF Fits
  <2> QED BY <1>5, <2>3, <2>4
<1>8. ASSUME NEW n \in U, NEW i \in Sides PROVE g[n] = g[S.ch[n][i]] + Weight(S, L, n, i)
  BY <1>3, <1>6, <1>7
<1>9. Heights(S, U, L, g)
  BY <1>4, <1>8 DEF Heights
<1> QED BY <1>9 DEF Balanced

\* The colours after a rotation.
LEMMA TurnedColours ==
  ASSUME NEW T, NEW U, Family(T, U), NEW r \in U, NEW dir \in Sides,
         NEW e \in Sides, e = 1 - dir, NEW t \in U, t = T.ch[r][e], NEW S, Turned(S, T, r, dir), NEW x, NEW y, ~T.red[NIL],
         T.root = r => (T.red[t] => t = x), T.root # r => (T.red[T.root] => T.root = x),
         \A n \in U : n # r /\ n # t /\ n # y /\ T.red[n] => \A i \in Sides :
           IF T.ch[n][i] = r THEN T.red[t] => t = x ELSE T.red[T.ch[n][i]] => T.ch[n][i] = x,
         r # y /\ T.red[r] => /\ T.red[T.ch[r][dir]] => T.ch[r][dir] = x
                              /\ T.red[T.ch[t][dir]] => T.ch[t][dir] = x,
         t # y /\ T.red[t] => /\ T.red[r] => r = x
                              /\ T.red[T.ch[t][e]] => T.ch[t][e] = x
  PROVE  Coloured(S, U, x, y)
<1>2. e # dir /\ \A i \in Sides : i = dir \/ i = e
  BY DEF Sides
<1>6. /\ \A n \in All : n # r /\ n # t =>
           \A i \in Sides : S.ch[n][i] = IF T.ch[n][i] = r THEN t ELSE T.ch[n][i]
      /\ S.ch[r][dir] = T.ch[r][dir] /\ S.ch[r][e] = T.ch[t][dir]
      /\ S.ch[t][dir] = r /\ S.ch[t][e] = T.ch[t][e]
      /\ S.red = T.red /\ S.root = IF T.root = r THEN t ELSE T.root
  <2> USE e = 1 - dir
  <2> QED BY Zenon DEF Turned
<1>7. ~S.red[NIL] /\ (S.red[S.root] => S.root = x)
  BY <1>6
<1>8. ASSUME NEW n \in U, n # y, S.red[n], NEW i \in Sides, S.red[S.ch[n][i]]
      PROVE  S.ch[n][i] = x
  <2>1. CASE n # r /\ n # t
    <3>1. n \in All
      BY DEF Family
    <3> QED BY <1>6, <1>8, <2>1, <3>1
  <2>2. CASE n = r
    BY <1>2, <1>6, <1>8, <2>2
  <2>3. CASE n = t
    BY <1>2, <1>6, <1>8, <2>3
  <2> QED BY <2>1, <2>2, <2>3
<1> QED BY <1>7, <1>8 DEF Coloured

----------------------------------------------------------------------------
(***************************************************************************)
(* The rounds of insert.                                                   *)
(***************************************************************************)

\* Between two calls.
Idle(T, U) == Shaped(T, U) /\ Coloured(T, U, NIL, NIL) /\ Balanced(T, U, {})

\* While insert's loop is at the red node c.
Inserting(T, U, c) ==
  Shaped(T, U) /\ c \in U /\ T.red[c] /\ Coloured(T, U, c, NIL) /\ Balanced(T, U, {})

\* Weights without and with a pointer that lacks a black node.
LEMMA WeightNone ==
  ASSUME NEW T, NEW n, NEW i
  PROVE  Weight(T, {}, n, i) = IF T.red[n] THEN 0 ELSE 1
BY DEF Weight, Bit

\* The pointer.
LEMMA WeightAt ==
  ASSUME NEW T, NEW q, NEW j
  PROVE  Weight(T, {<<q, j>>}, q, j) = IF T.red[q] THEN 1 ELSE 2
BY DEF Weight, Bit

\* The other pointers.
LEMMA WeightOther ==
  ASSUME NEW T, NEW q, NEW j, NEW n, NEW i, n # q \/ i # j
  PROVE  Weight(T, {<<q, j>>}, n, i) = IF T.red[n] THEN 0 ELSE 1
<1>1. <<n, i>> \notin {<<q, j>>}
  OBVIOUS
<1> QED BY <1>1 DEF Weight, Bit

\* A red node with a red parent has a black grandparent.
LEMMA Grandparent ==
  ASSUME NEW T, NEW U, Family(T, U), NEW c \in U, T.red[c], Coloured(T, U, c, NIL),
         NEW p, p = T.par[c], p # NIL, T.red[p], NEW g, g = T.par[p]
  PROVE  /\ p \in U /\ g \in U /\ ~T.red[g] /\ g # p /\ p # c /\ g # c
         /\ (T.ch[g][0] = p \/ T.ch[g][1] = p) /\ (T.ch[p][0] = c \/ T.ch[p][1] = c)
<1>1. c # T.root
  BY DEF Family
<1>2. p \in U /\ \E j \in Sides : T.ch[p][j] = c
  BY <1>1 DEF Family
<1>3. c # NIL /\ NIL \notin U
  BY DEF Family
<1>4. PICK j \in Sides : T.ch[p][j] = c
  BY <1>2
<1>5. p # c
  BY <1>2, <1>4, Child
<1>6. p # T.root
  BY <1>5 DEF Coloured
<1>7. g \in U /\ \E i \in Sides : T.ch[g][i] = p
  BY <1>2, <1>6 DEF Family
<1>8. PICK i \in Sides : T.ch[g][i] = p
  BY <1>7
<1>9. g # p
  BY <1>7, <1>8, Child
<1>10. g # c
  <2>1. T.ch[p][j] # g
    BY <1>3, <1>2, <1>7, <1>8, Child
  <2> QED BY <1>4, <2>1
<1>11. ~T.red[g]
  <2> SUFFICES ASSUME T.red[g] PROVE FALSE
    OBVIOUS
  <2>1. T.ch[g][i] = c
    BY <1>3, <1>7, <1>8 DEF Coloured
  <2> QED BY <1>5, <1>8, <2>1
<1> QED BY <1>2, <1>5, <1>7, <1>9, <1>10, <1>11 DEF Sides

\* The red p and u are the children of the black g, and p is the parent of c.
Uncles(T, U, c, p, g, u, d, e) ==
  /\ p \in U /\ g \in U /\ u \in U /\ d \in Sides /\ e \in Sides /\ e # d
  /\ T.ch[g][e] = p /\ T.ch[g][d] = u /\ T.par[c] = p
  /\ T.red[p] /\ T.red[u] /\ ~T.red[g] /\ p # c

\* S is T with p and u black and g red.
Repainted(S, T, p, u, g) ==
  /\ Recoloured(S, T) /\ S.red \in [All -> BOOLEAN] /\ ~S.red[p] /\ ~S.red[u] /\ S.red[g]
  /\ \A x \in All : x # p /\ x # u /\ x # g => S.red[x] = T.red[x]

\* The round that recolours.
LEMMA InsertRecolours ==
  ASSUME NEW T, NEW U, NEW c, Inserting(T, U, c), Family(T, U),
         NEW p, NEW g, NEW u, NEW d, NEW e, Uncles(T, U, c, p, g, u, d, e),
         NEW S, Repainted(S, T, p, u, g)
  PROVE  Inserting(S, U, g)
<1>a. /\ p \in U /\ g \in U /\ u \in U /\ d \in Sides /\ e \in Sides /\ e # d
      /\ T.ch[g][e] = p /\ T.ch[g][d] = u /\ T.par[c] = p
      /\ T.red[p] /\ T.red[u] /\ ~T.red[g] /\ p # c
  BY DEF Uncles
<1>b. /\ Recoloured(S, T) /\ S.red \in [All -> BOOLEAN] /\ ~S.red[p] /\ ~S.red[u] /\ S.red[g]
      /\ \A x \in All : x # p /\ x # u /\ x # g => S.red[x] = T.red[x]
  BY DEF Repainted
<1> USE <1>a, <1>b
<1>1. /\ NIL \notin U /\ NIL \in All /\ U \subseteq All /\ S.ch = T.ch /\ S.par = T.par /\ S.root = T.root
      /\ T.root \in U \cup {NIL}
  BY DEF Family, Recoloured
<1>2. p # u /\ p # g /\ u # g /\ \A i \in Sides : i = d \/ i = e
  <2>1. p # u
    BY <1>1, Child
  <2>2. p # g /\ u # g
    BY Child
  <2> QED BY <2>1, <2>2 DEF Sides
<1>3. Shaped(S, U)
  BY RecolouredForms DEF Shaped, Inserting
<1>4. Coloured(S, U, g, NIL)
  <2>1. ~S.red[NIL]
    BY <1>1 DEF Inserting, Coloured
  <2>2. S.red[S.root] => S.root = g
    <3> SUFFICES ASSUME S.red[T.root], T.root # g PROVE FALSE
      BY <1>1
    <3>1. T.root \in U /\ T.red[T.root]
      BY <1>1, <2>1
    <3>2. T.root = c
      BY <3>1 DEF Inserting, Coloured
    <3> QED BY <1>1, <3>1, <3>2 DEF Family
  <2>3. ASSUME NEW n \in U, S.red[n], NEW i \in Sides, S.red[T.ch[n][i]]
        PROVE  T.ch[n][i] = g
    <3>1. CASE n = g
      BY <1>2, <2>3, <3>1
    <3>2. CASE n # g
      <4>1. T.red[n] /\ n # p /\ n # u
        BY <1>1, <2>3, <3>2
      <4>2. PICK k \in U : k = T.ch[n][i]
        BY <2>1, <2>3, Child
      <4>3. k # g => T.red[k]
        BY <1>1, <2>3, <4>2
      <4>4. k # g => k = c
        BY <1>1, <4>1, <4>2, <4>3 DEF Inserting, Coloured
      <4>5. T.par[k] = n
        BY <1>1, <4>2, Child
      <4> QED BY <4>1, <4>2, <4>4, <4>5
    <3> QED BY <3>1, <3>2
  <2> QED BY <1>1, <2>1, <2>2, <2>3 DEF Coloured
<1>5. Balanced(S, U, {})
  <2>1. PICK bh : Heights(T, U, {}, bh)
    BY DEF Inserting, Balanced
  <2>2. PICK h : h = [bh EXCEPT ![p] = bh[p] + 1, ![u] = bh[u] + 1]
    OBVIOUS
  <2>3. /\ h \in [All -> Nat] /\ h[p] = bh[p] + 1 /\ h[u] = bh[u] + 1 /\ h[NIL] = 0
        /\ \A x \in All : x # p /\ x # u => h[x] = bh[x]
    BY <1>1, <1>2, <2>1, <2>2 DEF Heights
  <2>4. \A n \in U : \A i \in Sides : /\ bh[n] = bh[T.ch[n][i]] + (IF T.red[n] THEN 0 ELSE 1)
                                      /\ bh[n] \in Nat /\ bh[T.ch[n][i]] \in Nat
    <3> TAKE n \in U
    <3> TAKE i \in Sides
    <3>1. bh[n] = bh[T.ch[n][i]] + Weight(T, {}, n, i)
      BY <2>1, Zenon DEF Heights
    <3>2. Weight(T, {}, n, i) = IF T.red[n] THEN 0 ELSE 1
      BY WeightNone
    <3>3. T.ch[n][i] \in All /\ n \in All /\ bh \in [All -> Nat]
      BY <1>1, <2>1, Child DEF Heights
    <3> QED BY <3>1, <3>2, <3>3
  <2>5. ASSUME NEW n \in U, NEW i \in Sides
        PROVE  h[n] = h[S.ch[n][i]] + Weight(S, {}, n, i)
    <3>1. Weight(S, {}, n, i) = IF S.red[n] THEN 0 ELSE 1
      BY WeightNone
    <3>2. PICK k \in All : k = T.ch[n][i]
      BY Child
    <3>3. n # g => k # p /\ k # u
      BY <1>1, <3>2, OneParent
    <3>4. bh[n] = bh[k] + (IF T.red[n] THEN 0 ELSE 1) /\ bh[n] \in Nat /\ bh[k] \in Nat
      BY <2>4, <3>2
    <3>5. h[n] = h[k] + (IF S.red[n] THEN 0 ELSE 1)
      <4>1. CASE n = g
        <5>1. k = p \/ k = u
          BY <1>2, <3>2, <4>1
        <5> QED BY <1>1, <1>2, <2>3, <3>4, <4>1, <5>1
      <4>2. CASE n = p \/ n = u
        BY <1>2, <2>3, <3>3, <3>4, <4>2
      <4>3. CASE n # g /\ n # p /\ n # u
        <5>1. S.red[n] = T.red[n] /\ n \in All
          BY <1>1, <4>3
        <5> QED BY <2>3, <3>3, <3>4, <4>3, <5>1
      <4> QED BY <4>1, <4>2, <4>3
    <3> QED BY <1>1, <3>1, <3>2, <3>5
  <2>6. Heights(S, U, {}, h)
    BY <2>3, <2>5 DEF Heights
  <2> QED BY <2>6 DEF Balanced
<1> QED BY <1>3, <1>4, <1>5 DEF Inserting

\* The heights when no pointer lacks a black node.
LEMMA NoneHeights ==
  ASSUME NEW T, NEW U, Family(T, U), NEW bh, Heights(T, U, {}, bh)
  PROVE  /\ bh \in [All -> Nat] /\ bh[NIL] = 0
         /\ \A n \in U : \A i \in Sides : /\ bh[n] = bh[T.ch[n][i]] + (IF T.red[n] THEN 0 ELSE 1)
                                          /\ bh[n] \in Nat /\ bh[T.ch[n][i]] \in Nat
<1>1. bh \in [All -> Nat] /\ bh[NIL] = 0
  BY DEF Heights
<1>2. ASSUME NEW n \in U, NEW i \in Sides
      PROVE  /\ bh[n] = bh[T.ch[n][i]] + (IF T.red[n] THEN 0 ELSE 1)
             /\ bh[n] \in Nat /\ bh[T.ch[n][i]] \in Nat
  <2>1. bh[n] = bh[T.ch[n][i]] + Weight(T, {}, n, i)
    BY Zenon DEF Heights
  <2>2. Weight(T, {}, n, i) = IF T.red[n] THEN 0 ELSE 1
    BY WeightNone
  <2>3. T.ch[n][i] \in All /\ n \in All
    BY Child
  <2> QED BY <1>1, <2>1, <2>2, <2>3
<1> QED BY <1>1, <1>2

\* Painting the root or a red node x black where nothing lacks.
LEMMA RootBlack ==
  ASSUME NEW T, NEW U, Family(T, U), Shaped(T, U), T.root \in U, T.red[T.root],
         Coloured(T, U, T.root, NIL), Balanced(T, U, {}),
         NEW S, S = Paint(T, T.root, FALSE)
  PROVE  Idle(S, U)
<1>1. /\ NIL \notin U /\ NIL \in All /\ U \subseteq All /\ T \in Trees
  BY DEF Family
<1>2. PICK r \in All : r = T.root /\ r \in U
  BY <1>1
<1>3. /\ Recoloured(S, T) /\ S.red \in [All -> BOOLEAN] /\ ~S.red[r]
      /\ \A x \in All : x # r => S.red[x] = T.red[x]
  <2>1. S = Paint(T, r, FALSE)
    BY <1>2
  <2>2. Blackened(S, T, r)
    BY <1>1, <2>1, PaintBlack, Zenon
  <2> QED BY <2>2 DEF Blackened
<1>4. S.ch = T.ch /\ S.par = T.par /\ S.root = T.root
  BY <1>3 DEF Recoloured
<1>5. Shaped(S, U)
  BY <1>3, RecolouredForms DEF Shaped
<1>6. Coloured(S, U, NIL, NIL)
  <2>1. ~S.red[NIL]
    BY <1>1, <1>2, <1>3 DEF Coloured
  <2>2. ASSUME NEW n \in U, S.red[n], NEW i \in Sides, S.red[T.ch[n][i]] PROVE FALSE
    <3>1. PICK k \in U : k = T.ch[n][i] /\ k # T.root
      <4>1. T.ch[n][i] # NIL
        BY <2>1, <2>2
      <4> QED BY <4>1, Child
    <3>2. T.red[k] /\ T.red[n]
      BY <1>1, <1>2, <1>3, <2>2, <3>1
    <3>3. T.ch[n][i] = T.root
      BY <1>1, <3>1, <3>2 DEF Coloured
    <3> QED BY <3>1, <3>3
  <2> QED BY <1>2, <1>3, <1>4, <2>1, <2>2 DEF Coloured
<1>7. Balanced(S, U, {})
  <2>1. PICK bh : Heights(T, U, {}, bh)
    BY DEF Balanced
  <2>2. /\ bh \in [All -> Nat] /\ bh[NIL] = 0
        /\ \A n \in U : \A i \in Sides : /\ bh[n] = bh[T.ch[n][i]] + (IF T.red[n] THEN 0 ELSE 1)
                                         /\ bh[n] \in Nat /\ bh[T.ch[n][i]] \in Nat
    BY <2>1, NoneHeights
  <2>3. PICK h : h = [bh EXCEPT ![r] = bh[r] + 1]
    OBVIOUS
  <2>4. /\ h \in [All -> Nat] /\ h[r] = bh[r] + 1 /\ h[NIL] = 0
        /\ \A x \in All : x # r => h[x] = bh[x]
    BY <1>1, <1>2, <2>2, <2>3
  <2>5. ASSUME NEW n \in U, NEW i \in Sides
        PROVE  h[n] = h[S.ch[n][i]] + Weight(S, {}, n, i)
    <3>1. Weight(S, {}, n, i) = IF S.red[n] THEN 0 ELSE 1
      BY WeightNone
    <3>2. PICK k \in All : k = T.ch[n][i] /\ k # r
      BY <1>1, <1>2, Child
    <3>3. bh[n] = bh[k] + (IF T.red[n] THEN 0 ELSE 1) /\ bh[n] \in Nat /\ bh[k] \in Nat
      BY <2>2, <3>2
    <3>4. h[n] = h[k] + (IF S.red[n] THEN 0 ELSE 1)
      <4>1. CASE n = r
        BY <1>2, <1>3, <2>4, <3>2, <3>3, <4>1
      <4>2. CASE n # r
        <5>1. S.red[n] = T.red[n] /\ n \in All
          BY <1>1, <1>3, <4>2
        <5> QED BY <2>4, <3>2, <3>3, <4>2, <5>1
      <4> QED BY <4>1, <4>2
    <3> QED BY <1>4, <3>1, <3>2, <3>4
  <2>6. Heights(S, U, {}, h)
    BY <2>4, <2>5 DEF Heights
  <2> QED BY <2>6 DEF Balanced
<1> QED BY <1>5, <1>6, <1>7 DEF Idle

\* The end of the loop.
LEMMA InsertEnds ==
  ASSUME NEW T, NEW U, NEW c, Inserting(T, U, c), Family(T, U), NEW p, p = T.par[c],
         p = NIL \/ ~T.red[p]
  PROVE  Idle(IF p = NIL THEN Paint(T, c, FALSE) ELSE T, U)
<1>1. c \in U /\ T.red[c] /\ Coloured(T, U, c, NIL) /\ NIL \notin U
  BY DEF Inserting, Family
<1>2. CASE p = NIL
  <2>1. c = T.root
    <3>1. c # T.root => T.par[c] \in U
      BY <1>1 DEF Family
    <3> QED BY <1>1, <1>2, <3>1
  <2> QED BY <1>1, <1>2, <2>1, RootBlack DEF Inserting
<1>3. CASE p # NIL
  <2>1. T.root # c
    BY <1>1, <1>3 DEF Family
  <2>2. ASSUME NEW n \in U, T.red[n], NEW i \in Sides, T.red[T.ch[n][i]] PROVE FALSE
    <3>1. T.ch[n][i] = c
      BY <1>1, <2>2 DEF Coloured
    <3>2. n = p
      BY <1>1, <3>1, Child
    <3> QED BY <1>3, <2>2, <3>2
  <2>3. Coloured(T, U, NIL, NIL)
    BY <1>1, <2>1, <2>2 DEF Coloured
  <2> QED BY <1>3, <2>3 DEF Inserting, Idle
<1> QED BY <1>2, <1>3

\* The rotation that brings the red pair to the outer side.
LEMMA InsertInner ==
  ASSUME NEW T, NEW U, NEW c, Inserting(T, U, c), Family(T, U),
         NEW p \in U, NEW g \in U, NEW d \in Sides, NEW e \in Sides, d = 1 - e,
         T.ch[g][e] = p, T.ch[p][d] = c, T.red[p], ~T.red[g], p # c, g # p, g # c,
         NEW S, Turned(S, T, p, e)
  PROVE  /\ Inserting(S, U, p) /\ S.ch[g][e] = c /\ S.ch[c][e] = p /\ S.ch[g][d] = T.ch[g][d]
         /\ S.red = T.red
<1>1. /\ NIL \notin U /\ NIL \in All /\ U \subseteq All /\ c \in U /\ T.red[c] /\ d # e
      /\ Coloured(T, U, c, NIL)
  BY DEF Inserting, Family, Sides
<1>2. PICK lo, hi : Formed(T, U, lo, hi)
  BY DEF Inserting, Shaped
<1>3. Shaped(S, U)
  <2>1. T.ch[p][1 - e] # NIL
    BY <1>1
  <2> QED BY <1>2, <2>1, TurnedForms DEF Shaped
<1>4. /\ S.red = T.red /\ S.ch[c][e] = p
      /\ \A n \in U : n # p /\ n # c => \A i \in Sides :
           S.ch[n][i] = IF T.ch[n][i] = p THEN c ELSE T.ch[n][i]
  BY <1>1, TurnedChildren
<1>5. S.ch[g][e] = c /\ S.ch[g][d] = T.ch[g][d]
  <2>1. T.ch[g][d] # p
    BY <1>1, OneParent
  <2> QED BY <1>4, <2>1
<1>6. Balanced(S, U, {})
  <2>1. PICK bh : Heights(T, U, {}, bh)
    BY DEF Inserting, Balanced
  <2>2. /\ bh \in [All -> Nat] /\ bh[NIL] = 0
        /\ \A n \in U : \A i \in Sides : /\ bh[n] = bh[T.ch[n][i]] + (IF T.red[n] THEN 0 ELSE 1)
                                         /\ bh[n] \in Nat /\ bh[T.ch[n][i]] \in Nat
    BY <2>1, NoneHeights
  <2>3. \A n \in U : \A i \in Sides : bh[n] = bh[T.ch[n][i]] + Weight(T, {}, n, i)
    BY <2>1, Zenon DEF Heights
  <2>4. \A i \in Sides : Weight(T, {}, p, i) = 0 /\ Weight(T, {}, c, i) = 0
    BY <1>1, WeightNone
  <2>5. bh[p] = bh[T.ch[p][e]] /\ bh[p] = bh[c] /\ bh[c] = bh[T.ch[c][d]] /\ bh[c] = bh[T.ch[c][e]] /\ bh[p] \in Nat
    BY <1>1, <2>2
  <2>6. Fits(T, U, {}, bh, p, c, e, d, bh[p])
    BY <2>2, <2>3, <2>4, <2>5 DEF Fits
  <2> QED BY <1>1, <2>6, TurnedHeights
<1>7. Coloured(S, U, p, NIL)
  <2>1. ~T.red[NIL]
    BY <1>1 DEF Coloured
  <2>2. T.root # p /\ T.root # c
    <3>1. p # NIL /\ c # NIL
      BY <1>1
    <3> QED BY <1>1, <3>1, Child
  <2>3. ~T.red[T.root]
    BY <1>1, <2>2 DEF Coloured
  <2>4. ASSUME NEW n \in U, n # p, n # c, T.red[n], NEW i \in Sides
        PROVE  T.ch[n][i] # p /\ ~T.red[T.ch[n][i]]
    <3>1. T.ch[n][i] # p /\ T.ch[n][i] # c
      <4>1. T.ch[n][i] = p => n = g
        BY <1>1, OneParent
      <4>2. T.ch[n][i] = c => n = p
        BY <1>1, OneParent
      <4> QED BY <2>4, <4>1, <4>2
    <3> QED BY <1>1, <2>4, <3>1 DEF Coloured
  <2>5. ~T.red[T.ch[p][e]] /\ ~T.red[T.ch[c][e]] /\ ~T.red[T.ch[c][d]]
    <3>1. T.ch[p][e] # c
      BY <1>1, Child
    <3>2. T.ch[c][e] # c /\ T.ch[c][d] # c
      BY <1>1, Child
    <3>3. p # NIL /\ c # NIL
      BY <1>1
    <3> QED BY <1>1, <3>1, <3>2, <3>3 DEF Coloured
  <2> QED BY <1>1, <2>1, <2>2, <2>3, <2>4, <2>5, TurnedColours
<1> QED BY <1>1, <1>3, <1>4, <1>5, <1>6, <1>7 DEF Inserting

\* The red pair is p and c, on the side e of the black g; u is black.
Outer(T, U, c, p, g, d, e) ==
  /\ p \in U /\ g \in U /\ d \in Sides /\ e \in Sides /\ e = 1 - d
  /\ T.ch[g][e] = p /\ T.ch[p][e] = c /\ T.red[p] /\ ~T.red[g] /\ ~T.red[T.ch[g][d]]
  /\ p # c /\ g # p /\ g # c

\* S is T with p black and g red.
Exchanged(S, T, p, g) ==
  /\ Recoloured(S, T) /\ S.red \in [All -> BOOLEAN] /\ ~S.red[p] /\ S.red[g]
  /\ \A x \in All : x # p /\ x # g => S.red[x] = T.red[x]

\* The last rotation.
LEMMA InsertOuter ==
  ASSUME NEW T, NEW U, NEW c, Inserting(T, U, c), Family(T, U),
         NEW p, NEW g, NEW d, NEW e, Outer(T, U, c, p, g, d, e),
         NEW S, Exchanged(S, T, p, g), Family(S, U), NEW W, Turned(W, S, g, d)
  PROVE  Idle(W, U)
<1>a. /\ p \in U /\ g \in U /\ d \in Sides /\ e \in Sides /\ e = 1 - d
      /\ T.ch[g][e] = p /\ T.ch[p][e] = c /\ T.red[p] /\ ~T.red[g] /\ ~T.red[T.ch[g][d]]
      /\ p # c /\ g # p /\ g # c
  BY DEF Outer
<1>b. /\ Recoloured(S, T) /\ S.red \in [All -> BOOLEAN] /\ ~S.red[p] /\ S.red[g]
      /\ \A x \in All : x # p /\ x # g => S.red[x] = T.red[x]
  BY DEF Exchanged
<1> USE <1>a, <1>b
<1>1. /\ NIL \notin U /\ NIL \in All /\ U \subseteq All /\ c \in U /\ T.red[c] /\ d # e
      /\ Coloured(T, U, c, NIL) /\ S.ch = T.ch /\ S.root = T.root /\ T.root \in U \cup {NIL}
  BY DEF Inserting, Family, Sides, Recoloured
<1>2. PICK lo, hi : Formed(S, U, lo, hi)
  BY RecolouredForms DEF Inserting, Shaped
<1>3. Shaped(W, U)
  <2>1. S.ch[g][1 - d] # NIL
    BY <1>1
  <2> QED BY <1>2, <2>1, TurnedForms DEF Shaped
<1>4. PICK u \in All, m \in All : u = T.ch[g][d] /\ m = T.ch[p][d] /\ m # c /\ u # p /\ u # g
                                 /\ m # p /\ m # g /\ u # c /\ (m = NIL \/ m \in U) /\ (u = NIL \/ u \in U)
  <2>1. T.ch[g][d] \in All /\ T.ch[p][d] \in All /\ T.ch[g][d] # g /\ T.ch[p][d] # p
    BY Child
  <2>2. T.ch[g][d] # p /\ T.ch[p][d] # c
    BY <1>1, Child
  <2>3. T.ch[p][d] # g
    BY <1>1, Child
  <2>4. T.ch[g][d] # c
    BY <1>1
  <2>5. T.ch[g][d] \in U \cup {NIL} /\ T.ch[p][d] \in U \cup {NIL}
    BY Child
  <2> QED BY <2>1, <2>2, <2>3, <2>4, <2>5
<1>5. ~T.red[NIL] /\ ~T.red[u] /\ ~T.red[m]
  <2>1. p # NIL
    BY <1>1
  <2> QED BY <1>1, <1>4, <2>1 DEF Coloured
<1>6. Balanced(W, U, {})
  <2>1. PICK bh : Heights(T, U, {}, bh)
    BY DEF Inserting, Balanced
  <2>2. /\ bh \in [All -> Nat] /\ bh[NIL] = 0
        /\ \A n \in U : \A i \in Sides : /\ bh[n] = bh[T.ch[n][i]] + (IF T.red[n] THEN 0 ELSE 1)
                                         /\ bh[n] \in Nat /\ bh[T.ch[n][i]] \in Nat
    BY <2>1, NoneHeights
  <2>3. ASSUME NEW n \in U, n # g, n # p, NEW i \in Sides
        PROVE  bh[n] = bh[S.ch[n][i]] + Weight(S, {}, n, i)
    <3>1. Weight(S, {}, n, i) = IF S.red[n] THEN 0 ELSE 1
      BY WeightNone
    <3>2. S.red[n] = T.red[n]
      BY <1>1, <2>3
    <3> QED BY <1>1, <2>2, <3>1, <3>2
  <2>4. \A i \in Sides : Weight(S, {}, g, i) = 0 /\ Weight(S, {}, p, i) = 1
    BY <1>1, WeightNone
  <2>5. bh[g] = bh[u] + 1 /\ bh[g] = bh[p] + 1 /\ bh[p] = bh[m] /\ bh[p] = bh[c] /\ bh[p] \in Nat /\ bh[u] \in Nat
    BY <1>4, <2>2
  <2>6. Fits(S, U, {}, bh, g, p, d, e, bh[p])
    <3>1. S.ch[g][d] = u /\ S.ch[p][d] = m /\ S.ch[p][e] = c
      BY <1>1, <1>4
    <3>2. /\ bh[p] = bh[u] + Weight(S, {}, g, d) /\ bh[p] = bh[m] + Weight(S, {}, g, e)
          /\ bh[g] = bh[p] + Weight(S, {}, p, d) /\ bh[g] = bh[c] + Weight(S, {}, p, e)
      BY <2>4, <2>5
    <3> QED BY <2>2, <2>3, <2>5, <3>1, <3>2, Zenon DEF Fits
  <2> QED BY <1>1, <2>6, TurnedHeights
<1>7. Coloured(W, U, NIL, NIL)
  <2>1. ~S.red[NIL] /\ ~S.red[u] /\ ~S.red[m]
    BY <1>1, <1>4, <1>5
  <2>2. T.root # g => ~S.red[T.root]
    <3>1. T.root # c /\ T.root # p
      BY <1>1, Child
    <3>2. ~T.red[T.root]
      BY <1>1, <3>1 DEF Coloured
    <3> QED BY <1>1, <3>1, <3>2
  <2>3. ASSUME NEW n \in U, n # g, n # p, S.red[n], NEW i \in Sides, S.ch[n][i] # g
        PROVE  ~S.red[S.ch[n][i]]
    <3>1. PICK k \in All : k = T.ch[n][i] /\ k # g /\ k # p
      <4>1. T.ch[n][i] = p => n = g
        BY <1>1, OneParent
      <4> QED BY <1>1, <2>3, <4>1, Child
    <3>2. k # c
      <4>1. T.ch[n][i] = c => n = p
        BY <1>1, OneParent
      <4> QED BY <2>3, <3>1, <4>1
    <3>3. T.red[n] /\ S.red[k] = T.red[k]
      BY <1>1, <2>3, <3>1
    <3>4. ~T.red[k]
      BY <1>1, <3>1, <3>2, <3>3 DEF Coloured
    <3> QED BY <1>1, <3>1, <3>3, <3>4
  <2> QED BY <1>1, <1>4, <2>1, <2>2, <2>3, TurnedColours
<1> QED BY <1>3, <1>6, <1>7 DEF Idle

\* get_ref does not depend on the colours.
LEMMA RefRecoloured ==
  ASSUME NEW T, NEW U, NEW lo, NEW hi, Formed(T, U, lo, hi), NEW S, Recoloured(S, T), NEW n \in U
  PROVE  Refers(S, U, n, get_ref(T, n))
<1>1. Formed(S, U, lo, hi)
  BY RecolouredForms
<1>2. Refers(S, U, n, get_ref(S, n))
  BY <1>1, GetRefIs
<1>3. get_ref(S, n) = get_ref(T, n)
  BY Zenon DEF get_ref, Recoloured
<1> QED BY <1>2, <1>3

\* The end of a round of insert that rotates.
InsertTurn(T, p, g, d) == rotate(Paint(Paint(T, p, FALSE), g, TRUE), get_ref(T, g), d)

\* It restores the colours.
LEMMA InsertTurns ==
  ASSUME NEW T, NEW U, NEW c, Inserting(T, U, c),
         NEW p, NEW g, NEW d, NEW e, Outer(T, U, c, p, g, d, e),
         NEW W, W = InsertTurn(T, p, g, d)
  PROVE  Idle(W, U) /\ W.key = T.key
<1>1. PICK lo, hi : Formed(T, U, lo, hi)
  BY DEF Inserting, Shaped
<1>2. Family(T, U)
  BY <1>1, FamilyIs
<1>3. /\ T \in Trees /\ p \in All /\ g \in All /\ NIL \notin U /\ p \in U /\ g \in U /\ g # p
      /\ d \in Sides /\ T.ch[g][1 - d] = p
  BY <1>2 DEF Family, Outer
<1>4. PICK R, S : R = Paint(T, p, FALSE) /\ S = Paint(R, g, TRUE)
  OBVIOUS
<1>5. Blackened(R, T, p)
  BY <1>3, <1>4, PaintBlack, Zenon
<1>6. R \in Trees
  BY <1>5 DEF Blackened, Recoloured
<1>7. Reddened(S, R, g)
  BY <1>3, <1>4, <1>6, PaintRed, Zenon
<1>8. /\ Recoloured(S, T) /\ S.red \in [All -> BOOLEAN] /\ ~S.red[p] /\ S.red[g]
      /\ \A x \in All : x # p /\ x # g => S.red[x] = T.red[x]
  <2>1. Recoloured(S, T)
    BY <1>5, <1>7, RecolouredTwice DEF Blackened, Reddened
  <2> QED BY <1>3, <1>5, <1>7, <2>1 DEF Blackened, Reddened
<1>9. Formed(S, U, lo, hi)
  BY <1>1, <1>8, RecolouredForms
<1>10. Family(S, U)
  BY <1>9, FamilyIs
<1>11. S.ch = T.ch /\ S.key = T.key
  BY <1>8 DEF Recoloured
<1>12. Refers(S, U, g, get_ref(T, g))
  BY <1>1, <1>3, <1>8, RefRecoloured
<1>13. S.ch[g][1 - d] # NIL
  BY <1>3, <1>11
<1>14. Turned(W, S, g, d)
  <2>1. W = rotate(S, get_ref(T, g), d)
    BY <1>4, Zenon DEF InsertTurn
  <2>2. PICK ref : ref = get_ref(T, g)
    OBVIOUS
  <2> QED BY <1>3, <1>9, <1>12, <1>13, <2>1, <2>2, RotateIs
<1>15. Idle(W, U)
  <2>1. Exchanged(S, T, p, g)
    BY <1>8 DEF Exchanged
  <2> QED BY <1>2, <1>10, <1>14, <2>1, InsertOuter
<1>16. W.key = S.key
  BY <1>14, Zenon DEF Turned
<1> QED BY <1>11, <1>15, <1>16

\* The other child of g than p, as insert's loop reads it.
UncleOf(T, g, p) == T.ch[g][Bit(p = T.ch[g][0])]

\* All of it.
LEMMA InsertRotates ==
  ASSUME NEW T, NEW U, NEW c, Inserting(T, U, c), NEW p, p = T.par[c], p # NIL, T.red[p],
         NEW g, g = T.par[p], ~T.red[UncleOf(T, g, p)]
  PROVE  Idle(InsertRotated(T, c, p), U) /\ InsertRotated(T, c, p).key = T.key
<1>1. PICK lo, hi : Formed(T, U, lo, hi)
  BY DEF Inserting, Shaped
<1>2. Family(T, U)
  BY <1>1, FamilyIs
<1>3. c \in U /\ T.red[c] /\ Coloured(T, U, c, NIL) /\ NIL \notin U
  BY <1>2 DEF Inserting, Family
<1>4. /\ p \in U /\ g \in U /\ ~T.red[g] /\ g # p /\ p # c /\ g # c
      /\ (T.ch[g][0] = p \/ T.ch[g][1] = p) /\ (T.ch[p][0] = c \/ T.ch[p][1] = c)
  BY <1>2, <1>3, Grandparent
<1>5. PICK d \in Sides : d = Bit(p = T.ch[g][0])
  BY DEF Bit, Sides
<1>6. PICK e \in Sides : e = 1 - d /\ d = 1 - e
  BY DEF Sides
<1>7. T.ch[g][e] = p
  <2>1. CASE p = T.ch[g][0]
    <3>1. d = 1
      BY <1>5, <2>1, Zenon DEF Bit
    <3>2. e = 0
      BY <1>6, <3>1
    <3> QED BY <2>1, <3>2, Zenon
  <2>2. CASE p # T.ch[g][0]
    BY <1>4, <1>5, <1>6, <2>2 DEF Bit
  <2> QED BY <2>1, <2>2
<1>8. ~T.red[T.ch[g][d]]
  BY <1>5, Zenon DEF UncleOf
<1> DEFINE inner == Bit(c = T.ch[p][0]) # d
           T1 == IF inner THEN rotate(T, <<g, e>>, e) ELSE T
           p1 == IF inner THEN c ELSE p
           W == rotate(Paint(Paint(T1, p1, FALSE), g, TRUE), get_ref(T1, g), d)
<1>9. InsertRotated(T, c, p) = W
  BY <1>5, <1>6, Zenon DEF InsertRotated
<1>10. CASE inner
  <2>1. T.ch[p][d] = c
    <3>1. d = 0 \/ d = 1
      BY DEF Sides
    <3>2. CASE c = T.ch[p][0]
      BY <1>10, <3>1, <3>2, Zenon DEF Bit
    <3>3. CASE c # T.ch[p][0]
      BY <1>4, <1>10, <3>1, <3>3 DEF Bit
    <3> QED BY <3>2, <3>3
  <2>2. PICK S : S = rotate(T, <<g, e>>, e)
    OBVIOUS
  <2>3. Turned(S, T, p, e)
    <3>1. PICK ref : ref = <<g, e>>
      OBVIOUS
    <3>2. Refers(T, U, p, ref)
      BY <1>4, <1>7, <3>1 DEF Refers
    <3>3. T.ch[p][1 - e] # NIL
      BY <1>3, <1>6, <2>1
    <3> QED BY <1>1, <1>4, <2>2, <3>1, <3>2, <3>3, RotateIs
  <2>4. /\ Inserting(S, U, p) /\ S.ch[g][e] = c /\ S.ch[c][e] = p /\ S.ch[g][d] = T.ch[g][d]
        /\ S.red = T.red
    BY <1>2, <1>4, <1>6, <1>7, <2>1, <2>3, InsertInner
  <2>5. W = InsertTurn(S, c, g, d)
    BY <1>10, <2>2, Zenon DEF InsertTurn
  <2>6. S.red[c] /\ ~S.red[g] /\ ~S.red[S.ch[g][d]]
    BY <1>3, <1>4, <1>8, <2>4
  <2> HIDE DEF W
  <2>7. Idle(W, U) /\ W.key = S.key
    <3>1. Outer(S, U, p, c, g, d, e)
      BY <1>3, <1>4, <1>6, <2>4, <2>6 DEF Outer
    <3> QED BY <2>4, <2>5, <3>1, InsertTurns
  <2>8. S.key = T.key
    BY <2>3, Zenon DEF Turned
  <2> QED BY <1>9, <2>7, <2>8
<1>11. CASE ~inner
  <2>1. T.ch[p][e] = c
    <3>1. d = 0 \/ d = 1
      BY DEF Sides
    <3>2. CASE c = T.ch[p][0]
      <4>1. d = 1
        BY <1>11, <3>2, Zenon DEF Bit
      <4>2. e = 0
        BY <1>6, <4>1
      <4> QED BY <3>2, <4>2, Zenon
    <3>3. CASE c # T.ch[p][0]
      BY <1>4, <1>6, <1>11, <3>1, <3>3 DEF Bit
    <3> QED BY <3>2, <3>3
  <2>2. W = InsertTurn(T, p, g, d)
    BY <1>11, Zenon DEF InsertTurn
  <2> HIDE DEF W
  <2>3. Idle(W, U) /\ W.key = T.key
    <3>1. Outer(T, U, c, p, g, d, e)
      BY <1>3, <1>4, <1>6, <1>7, <1>8, <2>1 DEF Outer
    <3> QED BY <2>2, <3>1, InsertTurns
  <2> QED BY <1>9, <2>3
<1> QED BY <1>10, <1>11

\* The round that recolours.
InsertRepaint(T, p, u, g) == Paint(Paint(Paint(T, p, FALSE), u, FALSE), g, TRUE)

\* It takes the red pair up.
LEMMA InsertClimbs ==
  ASSUME NEW T, NEW U, NEW c, Inserting(T, U, c), NEW p, p = T.par[c], p # NIL, T.red[p],
         NEW g, g = T.par[p], NEW u, u = UncleOf(T, g, p), T.red[u]
  PROVE  Inserting(InsertRepaint(T, p, u, g), U, g) /\ InsertRepaint(T, p, u, g).key = T.key
<1>1. PICK lo, hi : Formed(T, U, lo, hi)
  BY DEF Inserting, Shaped
<1>2. Family(T, U)
  BY <1>1, FamilyIs
<1>3. c \in U /\ T.red[c] /\ Coloured(T, U, c, NIL) /\ NIL \notin U /\ ~T.red[NIL] /\ U \subseteq All /\ T \in Trees
  BY <1>2 DEF Inserting, Family, Coloured
<1>4. /\ p \in U /\ g \in U /\ ~T.red[g] /\ g # p /\ p # c /\ g # c
      /\ (T.ch[g][0] = p \/ T.ch[g][1] = p) /\ (T.ch[p][0] = c \/ T.ch[p][1] = c)
  BY <1>2, <1>3, Grandparent
<1>5. PICK d \in Sides : d = Bit(p = T.ch[g][0])
  BY DEF Bit, Sides
<1>6. PICK e \in Sides : e = 1 - d /\ e # d
  BY DEF Sides
<1>7. T.ch[g][e] = p
  <2>1. CASE p = T.ch[g][0]
    <3>1. d = 1
      BY <1>5, <2>1, Zenon DEF Bit
    <3>2. e = 0
      BY <1>6, <3>1
    <3> QED BY <2>1, <3>2, Zenon
  <2>2. CASE p # T.ch[g][0]
    <3>1. d = 0
      BY <1>5, <2>2 DEF Bit
    <3>2. e = 1
      BY <1>6, <3>1
    <3> QED BY <1>4, <2>2, <3>2
  <2> QED BY <2>1, <2>2
<1>8. T.ch[g][d] = u
  BY <1>5, Zenon DEF UncleOf
<1>9. u \in U /\ u # p /\ u # g
  <2>1. u # NIL
    BY <1>3
  <2>2. u # p
    BY <1>2, <1>4, <1>6, <1>7, <1>8, <2>1, Child
  <2>3. u \in U /\ u # g
    BY <1>2, <1>4, <1>8, <2>1, Child
  <2> QED BY <2>2, <2>3
<1>10. PICK A, B, S : A = Paint(T, p, FALSE) /\ B = Paint(A, u, FALSE) /\ S = Paint(B, g, TRUE)
  OBVIOUS
<1>11. Blackened(A, T, p)
  BY <1>3, <1>4, <1>10, PaintBlack, Zenon
<1>12. A \in Trees
  BY <1>11 DEF Blackened, Recoloured
<1>13. Blackened(B, A, u)
  BY <1>3, <1>9, <1>10, <1>12, PaintBlack, Zenon
<1>14. B \in Trees
  BY <1>13 DEF Blackened, Recoloured
<1>15. Reddened(S, B, g)
  BY <1>3, <1>4, <1>10, <1>14, PaintRed, Zenon
<1>16. Recoloured(S, T)
  BY <1>11, <1>13, <1>15, Zenon DEF Blackened, Reddened, Recoloured
<1>17. /\ S.red \in [All -> BOOLEAN] /\ ~S.red[p] /\ ~S.red[u] /\ S.red[g]
       /\ \A x \in All : x # p /\ x # u /\ x # g => S.red[x] = T.red[x]
  <2>1. p \in All /\ u \in All /\ g \in All
    BY <1>3, <1>4, <1>9
  <2>2. ~A.red[p] /\ ~B.red[u] /\ S.red[g] /\ S.red \in [All -> BOOLEAN]
    BY <1>11, <1>13, <1>15 DEF Blackened, Reddened
  <2>3. /\ \A x \in All : x # p => A.red[x] = T.red[x]
        /\ \A x \in All : x # u => B.red[x] = A.red[x]
        /\ \A x \in All : x # g => S.red[x] = B.red[x]
    BY <1>11, <1>13, <1>15 DEF Blackened, Reddened
  <2>4. ~S.red[p] /\ ~S.red[u]
    BY <1>4, <1>9, <2>1, <2>2, <2>3
  <2> QED BY <2>2, <2>3, <2>4
<1>18. Inserting(S, U, g)
  <2>1. Uncles(T, U, c, p, g, u, d, e)
    BY <1>4, <1>6, <1>7, <1>8, <1>9 DEF Uncles
  <2>2. Repainted(S, T, p, u, g)
    BY <1>16, <1>17 DEF Repainted
  <2> QED BY <1>2, <2>1, <2>2, InsertRecolours
<1>19. S = InsertRepaint(T, p, u, g)
  BY <1>10, Zenon DEF InsertRepaint
<1>20. S.key = T.key
  BY <1>16 DEF Recoloured
<1> QED BY <1>18, <1>19, <1>20, Zenon

----------------------------------------------------------------------------
(***************************************************************************)
(* The rounds of erase.                                                    *)
(***************************************************************************)

\* The pointer of p to c lacks a black node.
Short(T, U, c, p, d) ==
  /\ Shaped(T, U) /\ Coloured(T, U, NIL, c) /\ p \in U /\ d \in Sides
  /\ T.ch[p][d] = c /\ Balanced(T, U, {<<p, d>>})

\* While erase's loop is at the node c.
Erasing(T, U, c) ==
  IF c = T.root THEN Shaped(T, U) /\ Coloured(T, U, NIL, c) /\ Balanced(T, U, {})
  ELSE \E d \in Sides : Short(T, U, c, T.par[c], d)

\* c is the child of p on the side d, and black, s the other.
Sibling(T, c, p, s, d, e) ==
  d \in Sides /\ e \in Sides /\ e = 1 - d /\ T.ch[p][d] = c /\ T.ch[p][e] = s /\ ~T.red[c]

\* The black heights then.
Lacking(T, U, c, p, s, bh) ==
  /\ bh \in [All -> Nat] /\ bh[NIL] = 0
  /\ \A n \in U : n # p => \A i \in Sides :
       /\ bh[n] = bh[T.ch[n][i]] + (IF T.red[n] THEN 0 ELSE 1)
       /\ bh[n] \in Nat /\ bh[T.ch[n][i]] \in Nat
  /\ bh[p] = bh[c] + 1 + (IF T.red[p] THEN 0 ELSE 1) /\ bh[p] = bh[s] + (IF T.red[p] THEN 0 ELSE 1)
  /\ bh[s] = bh[c] + 1 /\ bh[p] \in Nat /\ bh[s] \in Nat /\ bh[c] \in Nat

\* And what they say of c and s.
LEMMA ShortIs ==
  ASSUME NEW T, NEW U, NEW c, NEW p, NEW d, NEW s, NEW e, Short(T, U, c, p, d),
         Sibling(T, c, p, s, d, e), Family(T, U)
  PROVE  /\ \E bh : Lacking(T, U, c, p, s, bh)
         /\ s \in U /\ s # c /\ s # p /\ c \in All /\ c # p /\ c \in U \cup {NIL} /\ c # T.root
         /\ p \in All /\ s \in All /\ p # NIL /\ s # NIL /\ d # e /\ \A i \in Sides : i = d \/ i = e
<1>1. /\ p \in U /\ d \in Sides /\ e \in Sides /\ e # d /\ T.ch[p][d] = c /\ T.ch[p][e] = s /\ e = 1 - d
      /\ \A i \in Sides : i = d \/ i = e
  BY DEF Short, Sibling, Sides
<1>2. NIL \notin U /\ U \subseteq All /\ NIL \in All
  BY DEF Family
<1>3. PICK bh : Heights(T, U, {<<p, d>>}, bh)
  BY DEF Short, Balanced
<1>4. bh \in [All -> Nat] /\ bh[NIL] = 0
  BY <1>3 DEF Heights
<1>5. \A n \in U : \A i \in Sides : bh[n] = bh[T.ch[n][i]] + Weight(T, {<<p, d>>}, n, i)
  BY <1>3, Zenon DEF Heights
<1>6. \A n \in U : \A i \in Sides : T.ch[n][i] \in All /\ n \in All /\ T.ch[n][i] # n
  BY Child
<1>7. ASSUME NEW n \in U, n # p, NEW i \in Sides
      PROVE  /\ bh[n] = bh[T.ch[n][i]] + (IF T.red[n] THEN 0 ELSE 1)
             /\ bh[n] \in Nat /\ bh[T.ch[n][i]] \in Nat
  <2>1. Weight(T, {<<p, d>>}, n, i) = IF T.red[n] THEN 0 ELSE 1
    BY <1>7, WeightOther
  <2> QED BY <1>4, <1>5, <1>6, <2>1
<1>8. /\ bh[p] = bh[c] + 1 + (IF T.red[p] THEN 0 ELSE 1)
      /\ bh[p] = bh[s] + (IF T.red[p] THEN 0 ELSE 1)
      /\ bh[p] \in Nat /\ bh[s] \in Nat /\ bh[c] \in Nat
  <2>1. Weight(T, {<<p, d>>}, p, d) = IF T.red[p] THEN 1 ELSE 2
    BY WeightAt
  <2>2. Weight(T, {<<p, d>>}, p, e) = IF T.red[p] THEN 0 ELSE 1
    BY <1>1, WeightOther, ZenonT(60)
  <2>3. /\ bh[p] = bh[c] + Weight(T, {<<p, d>>}, p, d)
        /\ bh[p] = bh[s] + Weight(T, {<<p, d>>}, p, e)
    BY <1>1, <1>5
  <2>4. bh[p] \in Nat /\ bh[s] \in Nat /\ bh[c] \in Nat
    BY <1>1, <1>4, <1>6
  <2> QED BY <2>1, <2>2, <2>3, <2>4
<1>9. bh[s] = bh[c] + 1
  BY <1>8
<1>10. s # NIL /\ s # c
  BY <1>4, <1>8, <1>9
<1>11. s \in U /\ s # p /\ c \in All /\ c # p /\ c \in U \cup {NIL}
  BY <1>1, <1>10, Child
<1>12. c # T.root
  <2>1. T.root # NIL
    BY <1>1 DEF Family
  <2>2. c # NIL => c # T.root
    BY <1>1, Child
  <2> QED BY <2>1, <2>2
<1>13. Lacking(T, U, c, p, s, bh)
  BY <1>4, <1>7, <1>8, <1>9 DEF Lacking
<1> QED BY <1>1, <1>2, <1>10, <1>11, <1>12, <1>13

\* The round with a red sibling: W has it above p.
LEMMA EraseTurns ==
  ASSUME NEW T, NEW U, NEW c, NEW p, NEW d, NEW s, NEW e, Short(T, U, c, p, d),
         Sibling(T, c, p, s, d, e), Family(T, U), T.red[s],
         NEW S, Exchanged(S, T, s, p), Family(S, U), NEW W, Turned(W, S, p, d)
  PROVE  /\ Short(W, U, c, p, d) /\ Sibling(W, c, p, T.ch[s][d], d, e) /\ ~W.red[T.ch[s][d]]
         /\ T.par[c] = p => W.par[c] = p
<1>1. /\ p \in U /\ d \in Sides /\ e \in Sides /\ e # d /\ T.ch[p][d] = c /\ T.ch[p][e] = s /\ e = 1 - d
      /\ \A i \in Sides : (i = d \/ i = e)
      /\ ~T.red[c] /\ Coloured(T, U, NIL, c)
  BY DEF Short, Sibling, Sides
<1>2. PICK bh : Lacking(T, U, c, p, s, bh)
  BY ShortIs
<1>3. /\ s \in U /\ s # c /\ s # p /\ c \in All /\ c # p /\ c \in U \cup {NIL} /\ c # T.root
      /\ p \in All /\ s \in All /\ p # NIL /\ s # NIL
  BY ShortIs
<1>4. /\ Recoloured(S, T) /\ S.red \in [All -> BOOLEAN] /\ ~S.red[s] /\ S.red[p]
      /\ \A x \in All : x # s /\ x # p => S.red[x] = T.red[x]
      /\ S.ch = T.ch /\ S.root = T.root /\ S.par = T.par
  BY DEF Exchanged, Recoloured
<1>5. NIL \notin U /\ U \subseteq All /\ NIL \in All /\ ~T.red[NIL] /\ T.root \in U \cup {NIL}
  BY <1>1 DEF Family, Coloured
<1>6. ~T.red[p]
  <2>1. T.red[p] => T.ch[p][e] = NIL
    BY <1>1, <1>3 DEF Coloured
  <2> QED BY <1>1, <1>3, <2>1
<1>7. PICK m \in All, o \in All : m = T.ch[s][d] /\ o = T.ch[s][e] /\ m # s /\ o # s
  BY <1>1, <1>3, Child
<1>8. /\ bh \in [All -> Nat] /\ bh[NIL] = 0
      /\ \A n \in U : n # p => \A i \in Sides :
           /\ bh[n] = bh[T.ch[n][i]] + (IF T.red[n] THEN 0 ELSE 1)
           /\ bh[n] \in Nat /\ bh[T.ch[n][i]] \in Nat
      /\ bh[p] = bh[c] + 2 /\ bh[p] = bh[s] + 1
      /\ bh[s] = bh[c] + 1 /\ bh[p] \in Nat /\ bh[s] \in Nat /\ bh[c] \in Nat
  BY <1>2, <1>6 DEF Lacking
<1>9. bh[s] = bh[m] /\ bh[s] = bh[o] /\ bh[m] \in Nat /\ bh[o] \in Nat
  BY <1>1, <1>3, <1>7, <1>8
<1>10. m # c /\ m # NIL /\ m # p /\ o # p
  <2>1. m # c /\ m # NIL
    <3>1. bh[m] = bh[c] + 1 /\ bh[c] \in Nat /\ bh[NIL] = 0
      BY <1>8, <1>9
    <3> QED BY <3>1
  <2>2. T.ch[s][d] # p /\ T.ch[s][e] # p
    BY <1>1, <1>3, Child
  <2> QED BY <1>7, <2>1, <2>2
<1>11. ~T.red[m] /\ ~T.red[o]
  BY <1>1, <1>3, <1>5, <1>7 DEF Coloured
<1>12. PICK lo, hi : Formed(S, U, lo, hi)
  BY <1>4, RecolouredForms DEF Short, Shaped
<1>13. Shaped(W, U)
  <2>1. S.ch[p][1 - d] # NIL
    BY <1>1, <1>3, <1>4
  <2> QED BY <1>1, <1>12, <2>1, TurnedForms DEF Shaped
<1>14. W.ch[p][d] = c /\ W.ch[p][e] = m /\ W.red = S.red
  BY <1>1, <1>3, <1>4, <1>7, TurnedChildren
<1>15. Balanced(W, U, {<<p, d>>})
  <2>1. ASSUME NEW n \in U, n # p, n # s, NEW i \in Sides
        PROVE  bh[n] = bh[S.ch[n][i]] + Weight(S, {<<p, d>>}, n, i)
    <3>1. Weight(S, {<<p, d>>}, n, i) = IF S.red[n] THEN 0 ELSE 1
      BY <2>1, WeightOther
    <3>2. S.red[n] = T.red[n]
      BY <1>4, <1>5, <2>1
    <3> QED BY <1>4, <1>8, <2>1, <3>1, <3>2
  <2>2. /\ Weight(S, {<<p, d>>}, p, d) = 1 /\ Weight(S, {<<p, d>>}, p, e) = 0
        /\ Weight(S, {<<p, d>>}, s, d) = 1 /\ Weight(S, {<<p, d>>}, s, e) = 1
    <3>1. Weight(S, {<<p, d>>}, p, d) = 1
      BY <1>4, WeightAt
    <3>2. Weight(S, {<<p, d>>}, p, e) = IF S.red[p] THEN 0 ELSE 1
      <4>1. e # d
        BY <1>1
      <4> QED BY <4>1, WeightOther, Zenon
    <3>3. /\ Weight(S, {<<p, d>>}, s, d) = IF S.red[s] THEN 0 ELSE 1
          /\ Weight(S, {<<p, d>>}, s, e) = IF S.red[s] THEN 0 ELSE 1
      BY <1>3, WeightOther
    <3> QED BY <1>4, <3>1, <3>2, <3>3
  <2>3. /\ bh[s] = bh[c] + Weight(S, {<<p, d>>}, p, d) /\ bh[s] = bh[m] + Weight(S, {<<p, d>>}, p, e)
        /\ bh[p] = bh[s] + Weight(S, {<<p, d>>}, s, d) /\ bh[p] = bh[o] + Weight(S, {<<p, d>>}, s, e)
    BY <1>8, <1>9, <2>2
  <2>4. S.ch[p][d] = c /\ S.ch[s][d] = m /\ S.ch[s][e] = o
    BY <1>1, <1>4, <1>7
  <2>5. Fits(S, U, {<<p, d>>}, bh, p, s, d, e, bh[s])
    BY <1>8, <2>1, <2>3, <2>4, Zenon DEF Fits
  <2> QED BY <1>1, <1>3, <1>4, <2>5, TurnedHeights
<1>16. Coloured(W, U, NIL, c)
  <2>1. ~S.red[NIL] /\ ~S.red[c] /\ ~S.red[m]
    BY <1>1, <1>3, <1>4, <1>5, <1>7, <1>10, <1>11
  <2>2. T.root # p => ~S.red[T.root]
    <3>1. ~T.red[T.root]
      BY <1>1 DEF Coloured
    <3> QED BY <1>4, <1>5, <3>1
  <2>3. ASSUME NEW n \in U, n # p, n # s, n # c, S.red[n], NEW i \in Sides, S.ch[n][i] # p
        PROVE  ~S.red[S.ch[n][i]]
    <3>1. PICK k \in All : k = T.ch[n][i] /\ k # p /\ k # s
      <4>1. T.ch[n][i] = s => n = p
        BY <1>1, <1>3, OneParent
      <4> QED BY <1>4, <2>3, <4>1, Child
    <3>2. T.red[n] /\ S.red[k] = T.red[k]
      BY <1>4, <1>5, <2>3, <3>1
    <3>3. ~T.red[k]
      BY <1>1, <1>5, <2>3, <3>1, <3>2 DEF Coloured
    <3> QED BY <1>4, <3>1, <3>2, <3>3
  <2> QED BY <1>1, <1>3, <1>4, <1>7, <2>1, <2>2, <2>3, TurnedColours
<1>17. T.par[c] = p => W.par[c] = p
  <2>1. W.par[c] = S.par[c]
    <3>1. \A n \in All : n # p /\ n # s /\ n # m => W.par[n] = S.par[n]
      <4>1. S.ch[p][1 - d] = s /\ S.ch[s][d] = m
        BY <1>1, <1>4, <1>7
      <4> QED BY <4>1, Zenon DEF Turned
    <3> QED BY <1>3, <1>10, <3>1
  <2> QED BY <1>4, <2>1
<1>18. Short(W, U, c, p, d)
  BY <1>1, <1>13, <1>14, <1>15, <1>16 DEF Short
<1>19. ~W.red[c] /\ ~W.red[m]
  BY <1>1, <1>3, <1>4, <1>7, <1>10, <1>11, <1>14
<1> QED BY <1>1, <1>7, <1>14, <1>17, <1>18, <1>19 DEF Sibling

\* The round that recolours the black sibling s: the lack moves up to p.
LEMMA EraseClimbs ==
  ASSUME NEW T, NEW U, NEW c, NEW p, NEW d, NEW s, NEW e, Short(T, U, c, p, d),
         Sibling(T, c, p, s, d, e), Family(T, U), ~T.red[s], ~T.red[T.ch[s][0]], ~T.red[T.ch[s][1]],
         NEW S, Reddened(S, T, s)
  PROVE  Erasing(S, U, p)
<1>1. /\ p \in U /\ d \in Sides /\ e \in Sides /\ e # d /\ T.ch[p][d] = c /\ T.ch[p][e] = s /\ e = 1 - d
      /\ \A i \in Sides : (i = d \/ i = e)
      /\ ~T.red[c] /\ Coloured(T, U, NIL, c)
  BY DEF Short, Sibling, Sides
<1>2. PICK bh : Lacking(T, U, c, p, s, bh)
  BY ShortIs
<1>3. /\ s \in U /\ s # c /\ s # p /\ c \in All /\ c # p /\ c \in U \cup {NIL} /\ c # T.root
      /\ p \in All /\ s \in All /\ p # NIL /\ s # NIL
  BY ShortIs
<1>4. /\ Recoloured(S, T) /\ S.red \in [All -> BOOLEAN] /\ S.red[s]
      /\ \A x \in All : x # s => S.red[x] = T.red[x]
      /\ S.ch = T.ch /\ S.root = T.root /\ S.par = T.par
  BY DEF Reddened, Recoloured
<1>5. NIL \notin U /\ U \subseteq All /\ NIL \in All /\ ~T.red[NIL] /\ T.root \in U \cup {NIL}
  BY <1>1 DEF Family, Coloured
<1>6. Shaped(S, U)
  BY <1>4, RecolouredForms DEF Short, Shaped
<1>7. Coloured(S, U, NIL, p)
  <2>1. ~S.red[NIL]
    BY <1>3, <1>4, <1>5
  <2>2. ~S.red[S.root]
    <3>1. ~T.red[T.root]
      BY <1>1 DEF Coloured
    <3>2. T.root # s
      BY <1>1, <1>3, Child
    <3> QED BY <1>4, <1>5, <3>1, <3>2
  <2>3. ASSUME NEW n \in U, n # p, S.red[n], NEW i \in Sides PROVE ~S.red[T.ch[n][i]]
    <3>1. PICK k \in All : k = T.ch[n][i] /\ k # s
      <4>1. T.ch[n][i] = s => n = p
        BY <1>1, <1>3, OneParent
      <4> QED BY <2>3, <4>1, Child
    <3>2. S.red[k] = T.red[k]
      BY <1>4, <3>1
    <3>3. CASE n = s
      <4>1. i = 0 \/ i = 1
        BY DEF Sides
      <4> QED BY <3>1, <3>2, <3>3, <4>1
    <3>4. CASE n # s
      <4>1. T.red[n]
        BY <1>4, <1>5, <2>3, <3>4
      <4>2. ~T.red[k]
        BY <1>1, <1>5, <3>1, <4>1 DEF Coloured
      <4> QED BY <3>1, <3>2, <4>2
    <3> QED BY <3>3, <3>4
  <2> QED BY <1>4, <2>1, <2>2, <2>3 DEF Coloured
<1>8. /\ bh \in [All -> Nat] /\ bh[NIL] = 0
      /\ \A n \in U : n # p => \A i \in Sides :
           /\ bh[n] = bh[T.ch[n][i]] + (IF T.red[n] THEN 0 ELSE 1)
           /\ bh[n] \in Nat /\ bh[T.ch[n][i]] \in Nat
      /\ bh[p] = bh[c] + 1 + (IF T.red[p] THEN 0 ELSE 1) /\ bh[p] = bh[s] + (IF T.red[p] THEN 0 ELSE 1)
      /\ bh[s] = bh[c] + 1 /\ bh[p] \in Nat /\ bh[s] \in Nat /\ bh[c] \in Nat
  BY <1>2 DEF Lacking
<1>9. PICK h : h = [bh EXCEPT ![p] = bh[p] - 1, ![s] = bh[s] - 1]
  OBVIOUS
<1>10. /\ h[p] = bh[p] - 1 /\ h[s] = bh[s] - 1 /\ h[NIL] = 0 /\ bh[p] - 1 \in Nat /\ bh[s] - 1 \in Nat
       /\ \A x \in All : x # p /\ x # s => h[x] = bh[x]
  <2>1. bh[p] - 1 \in Nat /\ bh[s] - 1 \in Nat
    BY <1>8
  <2> QED BY <1>3, <1>5, <1>8, <1>9, <2>1
<1>11. h \in [All -> Nat]
  BY <1>3, <1>8, <1>9, <1>10
<1>12. h[p] = h[c] + (IF S.red[p] THEN 0 ELSE 1) /\ h[p] = h[s] + (IF S.red[p] THEN 0 ELSE 1)
  <2>1. S.red[p] = T.red[p] /\ h[c] = bh[c]
    BY <1>3, <1>4, <1>10
  <2> QED BY <1>8, <1>10, <2>1
<1>13. ASSUME NEW i \in Sides PROVE h[s] = h[T.ch[s][i]] + (IF S.red[s] THEN 0 ELSE 1)
  <2>1. PICK k \in All : k = T.ch[s][i] /\ k # s /\ k # p
    <3>1. T.ch[s][i] # p
      BY <1>1, <1>3, Child
    <3> QED BY <1>3, <3>1, Child
  <2>2. bh[s] = bh[k] + 1 /\ bh[k] \in Nat
    BY <1>3, <1>8, <2>1
  <2> QED BY <1>4, <1>10, <2>1, <2>2
<1>14. ASSUME NEW n \in U, n # p, n # s, NEW i \in Sides, T.ch[n][i] # p
       PROVE  h[n] = h[T.ch[n][i]] + (IF S.red[n] THEN 0 ELSE 1)
  <2>1. PICK k \in All : k = T.ch[n][i] /\ k # s /\ k # p
    <3>1. T.ch[n][i] = s => n = p
      BY <1>1, <1>3, OneParent
    <3> QED BY <1>14, <3>1, Child
  <2>2. bh[n] = bh[k] + (IF T.red[n] THEN 0 ELSE 1) /\ S.red[n] = T.red[n] /\ n \in All
    BY <1>4, <1>5, <1>8, <1>14, <2>1
  <2> QED BY <1>10, <1>14, <2>1, <2>2
<1>15. CASE p = T.root
  <2>1. ASSUME NEW n \in U, NEW i \in Sides PROVE h[n] = h[S.ch[n][i]] + Weight(S, {}, n, i)
    <3>1. Weight(S, {}, n, i) = IF S.red[n] THEN 0 ELSE 1
      BY WeightNone
    <3>2. T.ch[n][i] # p
      BY <1>3, <1>15, Child
    <3>3. h[n] = h[T.ch[n][i]] + (IF S.red[n] THEN 0 ELSE 1)
      BY <1>1, <1>12, <1>13, <1>14, <3>2
    <3> QED BY <1>4, <3>1, <3>3
  <2>2. Heights(S, U, {}, h)
    BY <1>10, <1>11, <2>1 DEF Heights
  <2> QED BY <1>4, <1>6, <1>7, <1>15, <2>2 DEF Erasing, Balanced
<1>16. CASE p # T.root
  <2>1. PICK q \in U, j \in Sides : q = T.par[p] /\ T.ch[q][j] = p
    BY <1>1, <1>16 DEF Family
  <2>2. q # p /\ q # s
    <3>1. q # p
      BY <2>1, Child
    <3>2. T.ch[p][e] # q
      BY <1>1, <1>3, <2>1, Child
    <3> QED BY <1>1, <3>1, <3>2
  <2>3. ASSUME NEW n \in U, NEW i \in Sides
        PROVE h[n] = h[S.ch[n][i]] + Weight(S, {<<q, j>>}, n, i)
    <3>1. CASE n = q /\ i = j
      <4>1. Weight(S, {<<q, j>>}, n, i) = IF S.red[n] THEN 1 ELSE 2
        BY <3>1, WeightAt
      <4>2. bh[n] = bh[p] + (IF T.red[n] THEN 0 ELSE 1) /\ S.red[n] = T.red[n] /\ n \in All
        BY <1>4, <1>5, <1>8, <2>1, <2>2, <3>1
      <4>3. h[n] = bh[n] /\ h[p] = bh[p] - 1
        BY <1>10, <2>2, <3>1, <4>2
      <4>4. S.ch[n][i] = p
        BY <1>4, <2>1, <3>1
      <4> QED BY <1>8, <4>1, <4>2, <4>3, <4>4
    <3>2. CASE ~(n = q /\ i = j)
      <4>1. Weight(S, {<<q, j>>}, n, i) = IF S.red[n] THEN 0 ELSE 1
        BY <3>2, WeightOther
      <4>2. T.ch[n][i] # p
        BY <1>3, <2>1, <3>2, OneParent
      <4>3. h[n] = h[T.ch[n][i]] + (IF S.red[n] THEN 0 ELSE 1)
        BY <1>1, <1>12, <1>13, <1>14, <4>2
      <4> QED BY <1>4, <4>1, <4>3
    <3> QED BY <3>1, <3>2
  <2>4. Heights(S, U, {<<q, j>>}, h)
    BY <1>10, <1>11, <2>3 DEF Heights
  <2>5. Short(S, U, p, q, j)
    BY <1>4, <1>6, <1>7, <2>1, <2>4 DEF Short, Balanced
  <2> QED BY <1>4, <1>16, <2>1, <2>5 DEF Erasing
<1> QED BY <1>15, <1>16

\* The rotation that brings the red child u of the black sibling s to the
\* outer side.
LEMMA EraseInner ==
  ASSUME NEW T, NEW U, NEW c, NEW p, NEW d, NEW s, NEW e, Short(T, U, c, p, d),
         Sibling(T, c, p, s, d, e), Family(T, U), ~T.red[s], NEW u, u = T.ch[s][d], T.red[u],
         ~T.red[T.ch[s][e]],
         NEW S, Exchanged(S, T, u, s), Family(S, U), NEW W, Turned(W, S, s, e)
  PROVE  /\ Short(W, U, c, p, d) /\ Sibling(W, c, p, u, d, e) /\ ~W.red[u]
         /\ W.ch[u][e] = s /\ W.red[s]
<1>1. /\ p \in U /\ d \in Sides /\ e \in Sides /\ e # d /\ T.ch[p][d] = c /\ T.ch[p][e] = s /\ e = 1 - d
      /\ d = 1 - e /\ \A i \in Sides : (i = d \/ i = e)
      /\ ~T.red[c] /\ Coloured(T, U, NIL, c)
  BY DEF Short, Sibling, Sides
<1>2. PICK bh : Lacking(T, U, c, p, s, bh)
  BY ShortIs
<1>3. /\ s \in U /\ s # c /\ s # p /\ c \in All /\ c # p /\ c \in U \cup {NIL} /\ c # T.root
      /\ p \in All /\ s \in All /\ p # NIL /\ s # NIL
  BY ShortIs
<1>4. /\ Recoloured(S, T) /\ S.red \in [All -> BOOLEAN] /\ ~S.red[u] /\ S.red[s]
      /\ \A x \in All : x # u /\ x # s => S.red[x] = T.red[x]
      /\ S.ch = T.ch /\ S.root = T.root /\ S.par = T.par
  BY DEF Exchanged, Recoloured
<1>5. NIL \notin U /\ U \subseteq All /\ NIL \in All /\ ~T.red[NIL] /\ T.root \in U \cup {NIL}
  BY <1>1 DEF Family, Coloured
<1>6. u \in U /\ u # s /\ u # p /\ u # c /\ u # NIL /\ u \in All /\ u # T.root
  <2>1. u # NIL
    BY <1>5
  <2>2. u \in U /\ u # s /\ u # T.root
    BY <1>1, <1>3, <2>1, Child
  <2>3. u # p
    BY <1>1, <1>3, Child
  <2> QED BY <1>1, <1>5, <2>1, <2>2, <2>3
<1>7. PICK o \in All, m \in All, w \in All :
        /\ o = T.ch[s][e] /\ m = T.ch[u][e] /\ w = T.ch[u][d]
        /\ o # s /\ o # u /\ o # p /\ m # s /\ m # u /\ w # u /\ w # s
  <2>1. T.ch[s][e] \in All /\ T.ch[s][e] # s
    BY <1>1, <1>3, Child
  <2>2. T.ch[s][e] # u
    BY <1>1, <1>3, <1>6, Child
  <2>3. T.ch[s][e] # p
    BY <1>1, <1>3, Child
  <2>4. T.ch[u][e] \in All /\ T.ch[u][d] \in All /\ T.ch[u][e] # u /\ T.ch[u][d] # u
    BY <1>1, <1>6, Child
  <2>5. T.ch[u][e] # s /\ T.ch[u][d] # s
    BY <1>1, <1>3, <1>6, Child
  <2> QED BY <2>1, <2>2, <2>3, <2>4, <2>5
<1>8. /\ bh \in [All -> Nat] /\ bh[NIL] = 0
      /\ \A n \in U : n # p => \A i \in Sides :
           /\ bh[n] = bh[T.ch[n][i]] + (IF T.red[n] THEN 0 ELSE 1)
           /\ bh[n] \in Nat /\ bh[T.ch[n][i]] \in Nat
      /\ bh[p] = bh[c] + 1 + (IF T.red[p] THEN 0 ELSE 1) /\ bh[p] = bh[s] + (IF T.red[p] THEN 0 ELSE 1)
      /\ bh[s] = bh[c] + 1 /\ bh[p] \in Nat /\ bh[s] \in Nat /\ bh[c] \in Nat
  BY <1>2 DEF Lacking
<1>9. /\ bh[s] = bh[u] + 1 /\ bh[s] = bh[o] + 1 /\ bh[u] = bh[m] /\ bh[u] = bh[w]
      /\ bh[u] \in Nat /\ bh[o] \in Nat
  BY <1>1, <1>3, <1>6, <1>7, <1>8
<1>10. ~T.red[m] /\ ~T.red[w] /\ ~T.red[o]
  BY <1>1, <1>5, <1>6, <1>7 DEF Coloured
<1>11. PICK lo, hi : Formed(S, U, lo, hi)
  BY <1>4, RecolouredForms DEF Short, Shaped
<1>12. Shaped(W, U)
  <2>1. S.ch[s][1 - e] # NIL
    BY <1>1, <1>4, <1>6
  <2> QED BY <1>1, <1>3, <1>11, <2>1, TurnedForms DEF Shaped
<1>13. u = S.ch[s][d]
  BY <1>4
<1>14. /\ W.ch[u][e] = s /\ W.red = S.red
       /\ \A n \in U : n # s /\ n # u => \A i \in Sides :
              W.ch[n][i] = IF S.ch[n][i] = s THEN u ELSE S.ch[n][i]
  BY <1>1, <1>3, <1>6, <1>13, TurnedChildren
<1>15. W.ch[p][d] = c /\ W.ch[p][e] = u
  BY <1>1, <1>3, <1>4, <1>6, <1>14
<1>16. Balanced(W, U, {<<p, d>>})
  <2>1. ASSUME NEW n \in U, n # u, n # s, NEW i \in Sides
        PROVE  bh[n] = bh[S.ch[n][i]] + Weight(S, {<<p, d>>}, n, i)
    <3>1. CASE n = p /\ i = d
      <4>1. Weight(S, {<<p, d>>}, n, i) = IF S.red[n] THEN 1 ELSE 2
        BY <3>1, WeightAt
      <4>2. S.red[p] = T.red[p]
        BY <1>3, <1>4, <1>6
      <4> QED BY <1>1, <1>4, <1>8, <3>1, <4>1, <4>2
    <3>2. CASE ~(n = p /\ i = d)
      <4>1. Weight(S, {<<p, d>>}, n, i) = IF S.red[n] THEN 0 ELSE 1
        BY <3>2, WeightOther
      <4>2. S.red[n] = T.red[n]
        BY <1>4, <1>5, <2>1
      <4>3. bh[n] = bh[T.ch[n][i]] + (IF T.red[n] THEN 0 ELSE 1)
        BY <1>1, <1>8, <3>2
      <4> QED BY <1>4, <4>1, <4>2, <4>3
    <3> QED BY <3>1, <3>2
  <2>2. /\ Weight(S, {<<p, d>>}, s, e) = IF S.red[s] THEN 0 ELSE 1
        /\ Weight(S, {<<p, d>>}, s, d) = IF S.red[s] THEN 0 ELSE 1
        /\ Weight(S, {<<p, d>>}, u, e) = IF S.red[u] THEN 0 ELSE 1
        /\ Weight(S, {<<p, d>>}, u, d) = IF S.red[u] THEN 0 ELSE 1
    <3>1. s # p /\ u # p
      BY <1>3, <1>6
    <3>2. \A i \in Sides : Weight(S, {<<p, d>>}, s, i) = IF S.red[s] THEN 0 ELSE 1
      BY <3>1, WeightOther, ZenonT(60)
    <3>3. \A i \in Sides : Weight(S, {<<p, d>>}, u, i) = IF S.red[u] THEN 0 ELSE 1
      BY <3>1, WeightOther, ZenonT(60)
    <3> QED BY <1>1, <3>2, <3>3, Zenon
  <2>3. /\ bh[u] = bh[o] + Weight(S, {<<p, d>>}, s, e) /\ bh[u] = bh[m] + Weight(S, {<<p, d>>}, s, d)
        /\ bh[s] = bh[u] + Weight(S, {<<p, d>>}, u, e) /\ bh[s] = bh[w] + Weight(S, {<<p, d>>}, u, d)
    BY <1>4, <1>9, <2>2
  <2>4. S.ch[s][e] = o /\ S.ch[u][e] = m /\ S.ch[u][d] = w
    BY <1>4, <1>7
  <2>5. Fits(S, U, {<<p, d>>}, bh, s, u, e, d, bh[u])
    BY <1>8, <1>9, <2>1, <2>3, <2>4, Zenon DEF Fits
  <2> QED BY <1>1, <1>3, <1>6, <1>13, <2>5, TurnedHeights
<1>17. Coloured(W, U, NIL, c)
  <2>1. ~S.red[NIL] /\ ~S.red[m] /\ ~S.red[o]
    BY <1>3, <1>4, <1>5, <1>6, <1>7, <1>10
  <2>2. ~S.red[T.root] /\ T.root # s
    <3>1. ~T.red[T.root]
      BY <1>1 DEF Coloured
    <3>2. T.root # s
      BY <1>1, <1>3, Child
    <3> QED BY <1>4, <1>5, <1>6, <3>1, <3>2
  <2>3. ASSUME NEW n \in U, n # s, n # u, n # c, S.red[n], NEW i \in Sides, S.ch[n][i] # s
        PROVE  ~S.red[S.ch[n][i]]
    <3>1. PICK k \in All : k = T.ch[n][i] /\ k # s /\ k # u
      <4>1. T.ch[n][i] = u => n = s
        BY <1>1, <1>3, <1>6, OneParent
      <4> QED BY <1>4, <2>3, <4>1, Child
    <3>2. T.red[n] /\ S.red[k] = T.red[k]
      BY <1>4, <1>5, <2>3, <3>1
    <3>3. ~T.red[k]
      BY <1>1, <1>5, <2>3, <3>1, <3>2 DEF Coloured
    <3> QED BY <1>4, <3>1, <3>2, <3>3
  <2> QED BY <1>1, <1>3, <1>4, <1>6, <1>7, <1>13, <2>1, <2>2, <2>3, TurnedColours
<1>18. Short(W, U, c, p, d)
  BY <1>1, <1>12, <1>15, <1>16, <1>17 DEF Short
<1>19. ~W.red[c] /\ ~W.red[u] /\ W.red[s]
  BY <1>1, <1>3, <1>4, <1>6, <1>14
<1> QED BY <1>1, <1>14, <1>15, <1>18, <1>19 DEF Sibling

\* S is T with s in the colour of p, and p and o black.
Settled(S, T, s, p, o) ==
  /\ Recoloured(S, T) /\ S.red \in [All -> BOOLEAN] /\ S.red[s] = T.red[p] /\ ~S.red[p] /\ ~S.red[o]
  /\ \A x \in All : x # s /\ x # p /\ x # o => S.red[x] = T.red[x]

\* The last rotation makes up for the lack.
LEMMA EraseOuter ==
  ASSUME NEW T, NEW U, NEW c, NEW p, NEW d, NEW s, NEW e, Short(T, U, c, p, d),
         Sibling(T, c, p, s, d, e), Family(T, U), ~T.red[s], NEW o, o = T.ch[s][e], T.red[o],
         NEW S, Settled(S, T, s, p, o), Family(S, U), NEW W, Turned(W, S, p, d)
  PROVE  Idle(W, U)
<1>1. /\ p \in U /\ d \in Sides /\ e \in Sides /\ e # d /\ T.ch[p][d] = c /\ T.ch[p][e] = s /\ e = 1 - d
      /\ \A i \in Sides : (i = d \/ i = e)
      /\ ~T.red[c] /\ Coloured(T, U, NIL, c)
  BY DEF Short, Sibling, Sides
<1>2. PICK bh : Lacking(T, U, c, p, s, bh)
  BY ShortIs
<1>3. /\ s \in U /\ s # c /\ s # p /\ c \in All /\ c # p /\ c \in U \cup {NIL} /\ c # T.root
      /\ p \in All /\ s \in All /\ p # NIL /\ s # NIL
  BY ShortIs
<1>4. /\ Recoloured(S, T) /\ S.red \in [All -> BOOLEAN] /\ S.red[s] = T.red[p] /\ ~S.red[p] /\ ~S.red[o]
      /\ \A x \in All : x # s /\ x # p /\ x # o => S.red[x] = T.red[x]
      /\ S.ch = T.ch /\ S.root = T.root /\ S.par = T.par
  BY DEF Settled, Recoloured
<1>5. NIL \notin U /\ U \subseteq All /\ NIL \in All /\ ~T.red[NIL] /\ T.root \in U \cup {NIL}
  BY <1>1 DEF Family, Coloured
<1>6. o \in U /\ o # s /\ o # p /\ o # c /\ o # NIL /\ o \in All /\ o # T.root
  <2>1. o # NIL
    BY <1>5
  <2>2. o \in U /\ o # s /\ o # T.root
    BY <1>1, <1>3, <2>1, Child
  <2>3. o # p
    BY <1>1, <1>3, Child
  <2> QED BY <1>1, <1>5, <2>1, <2>2, <2>3
<1>7. PICK m \in All : m = T.ch[s][d] /\ m # s /\ m # o /\ m # p
  <2>1. T.ch[s][d] \in All /\ T.ch[s][d] # s
    BY <1>1, <1>3, Child
  <2>2. T.ch[s][d] # o
    BY <1>1, <1>3, <1>6, Child
  <2>3. T.ch[s][d] # p
    BY <1>1, <1>3, Child
  <2> QED BY <2>1, <2>2, <2>3
<1>8. /\ bh \in [All -> Nat] /\ bh[NIL] = 0
      /\ \A n \in U : n # p => \A i \in Sides :
           /\ bh[n] = bh[T.ch[n][i]] + (IF T.red[n] THEN 0 ELSE 1)
           /\ bh[n] \in Nat /\ bh[T.ch[n][i]] \in Nat
      /\ bh[p] = bh[c] + 1 + (IF T.red[p] THEN 0 ELSE 1) /\ bh[p] = bh[s] + (IF T.red[p] THEN 0 ELSE 1)
      /\ bh[s] = bh[c] + 1 /\ bh[p] \in Nat /\ bh[s] \in Nat /\ bh[c] \in Nat
  BY <1>2 DEF Lacking
<1>9. bh[s] = bh[m] + 1 /\ bh[s] = bh[o] + 1 /\ bh[m] \in Nat /\ bh[o] \in Nat
  BY <1>1, <1>3, <1>6, <1>7, <1>8
<1>10. PICK h : h = [bh EXCEPT ![o] = bh[o] + 1]
  OBVIOUS
<1>11. /\ h \in [All -> Nat] /\ h[o] = bh[o] + 1 /\ h[NIL] = 0
       /\ \A x \in All : x # o => h[x] = bh[x]
  BY <1>5, <1>6, <1>8, <1>9, <1>10
<1>12. PICK lo, hi : Formed(S, U, lo, hi)
  BY <1>4, RecolouredForms DEF Short, Shaped
<1>13. Shaped(W, U)
  <2>1. S.ch[p][1 - d] # NIL
    BY <1>1, <1>3, <1>4
  <2> QED BY <1>1, <1>12, <2>1, TurnedForms DEF Shaped
<1>14. s = S.ch[p][e]
  BY <1>1, <1>4
<1>15. Balanced(W, U, {})
  <2>1. ASSUME NEW n \in U, n # p, n # s, NEW i \in Sides
        PROVE  h[n] = h[S.ch[n][i]] + Weight(S, {}, n, i)
    <3>1. Weight(S, {}, n, i) = IF S.red[n] THEN 0 ELSE 1
      BY WeightNone
    <3>2. PICK k \in All : k = T.ch[n][i] /\ k # o
      <4>1. T.ch[n][i] = o => n = s
        BY <1>1, <1>3, <1>6, OneParent
      <4> QED BY <2>1, <4>1, Child
    <3>3. bh[n] = bh[k] + (IF T.red[n] THEN 0 ELSE 1) /\ n \in All
      BY <1>5, <1>8, <2>1, <3>2
    <3>4. CASE n = o
      <4>1. bh[o] = bh[k] /\ h[k] = bh[k] /\ bh[o] \in Nat
        BY <1>9, <1>11, <3>2, <3>3, <3>4
      <4>2. h[o] = h[k] + 1
        BY <1>11, <4>1
      <4> QED BY <1>4, <3>1, <3>2, <3>4, <4>2
    <3>5. CASE n # o
      <4>1. S.red[n] = T.red[n]
        BY <1>4, <2>1, <3>3, <3>5
      <4>2. h[n] = bh[n] /\ h[k] = bh[k]
        BY <1>11, <3>2, <3>3, <3>5
      <4> QED BY <1>4, <3>1, <3>2, <3>3, <4>1, <4>2
    <3> QED BY <3>4, <3>5
  <2>2. \A i \in Sides : /\ Weight(S, {}, p, i) = IF S.red[p] THEN 0 ELSE 1
                         /\ Weight(S, {}, s, i) = IF S.red[s] THEN 0 ELSE 1
    BY WeightNone
  <2>3. h[c] = bh[c] /\ h[m] = bh[m] /\ h[p] = bh[p]
    BY <1>3, <1>6, <1>7, <1>11
  <2>4. PICK a \in Nat : a = bh[c] + 1
    BY <1>8
  <2>5. /\ a = h[c] + Weight(S, {}, p, d) /\ a = h[m] + Weight(S, {}, p, e)
        /\ h[p] = a + Weight(S, {}, s, d) /\ h[p] = h[o] + Weight(S, {}, s, e)
    <3>1. Weight(S, {}, p, d) = 1 /\ Weight(S, {}, p, e) = 1
      BY <1>1, <1>4, <2>2
    <3>2. /\ Weight(S, {}, s, d) = IF T.red[p] THEN 0 ELSE 1
          /\ Weight(S, {}, s, e) = IF T.red[p] THEN 0 ELSE 1
      BY <1>1, <1>4, <2>2
    <3> QED BY <1>8, <1>9, <1>11, <2>3, <2>4, <3>1, <3>2
  <2>6. S.ch[p][d] = c /\ S.ch[s][d] = m /\ S.ch[s][e] = o
    BY <1>1, <1>4, <1>7
  <2>7. Fits(S, U, {}, h, p, s, d, e, a)
    BY <1>11, <2>1, <2>4, <2>5, <2>6, Zenon DEF Fits
  <2> QED BY <1>1, <1>3, <1>14, <2>7, TurnedHeights
<1>16. Coloured(W, U, NIL, NIL)
  <2>1. ~S.red[NIL]
    BY <1>3, <1>4, <1>5, <1>6
  <2>2. /\ T.root # p => ~S.red[T.root]
        /\ T.root = p => ~S.red[s]
    <3>1. ~T.red[T.root]
      BY <1>1 DEF Coloured
    <3>2. T.root # s
      BY <1>1, <1>3, Child
    <3> QED BY <1>4, <1>5, <1>6, <3>1, <3>2
  <2>3. ASSUME NEW n \in U, n # p, n # s, S.red[n], NEW i \in Sides
        PROVE  IF S.ch[n][i] = p THEN ~S.red[s] ELSE ~S.red[S.ch[n][i]]
    <3>1. n # o /\ T.red[n] /\ n # c
      BY <1>1, <1>4, <1>5, <2>3
    <3>2. PICK k \in All : k = T.ch[n][i] /\ k # s
      <4>1. T.ch[n][i] = s => n = p
        BY <1>1, <1>3, OneParent
      <4> QED BY <2>3, <4>1, Child
    <3>3. ~T.red[k]
      BY <1>1, <1>5, <3>1, <3>2 DEF Coloured
    <3>4. CASE k = p
      BY <1>4, <3>2, <3>3, <3>4
    <3>5. CASE k # p
      <4>1. ~S.red[k]
        BY <1>4, <3>2, <3>3, <3>5
      <4> QED BY <1>4, <3>2, <3>5, <4>1
    <3> QED BY <3>4, <3>5
  <2>4. ASSUME NEW n \in U, n # p, n # s, n # NIL, S.red[n], NEW i \in Sides
        PROVE  IF S.ch[n][i] = p THEN S.red[s] => s = NIL ELSE S.red[S.ch[n][i]] => S.ch[n][i] = NIL
    BY <2>3, <2>4
  <2>5. S.ch[s][e] = o
    BY <1>4
  <2> QED BY <1>1, <1>3, <1>4, <1>14, <2>1, <2>2, <2>4, <2>5, TurnedColours
<1> QED BY <1>13, <1>15, <1>16 DEF Idle

\* The end of the loop, where c is the root or red.
LEMMA EraseEnds ==
  ASSUME NEW T, NEW U, NEW c, Erasing(T, U, c), c = T.root \/ T.red[c], NEW S, Blackened(S, T, c)
  PROVE  Idle(S, U) /\ S.key = T.key
<1>1. Shaped(T, U) /\ Coloured(T, U, NIL, c)
  BY DEF Erasing, Short
<1>2. PICK lo, hi : Formed(T, U, lo, hi)
  BY <1>1 DEF Shaped
<1>3. Family(T, U)
  BY <1>2, FamilyIs
<1>4. /\ Recoloured(S, T) /\ S.red \in [All -> BOOLEAN] /\ ~S.red[c]
      /\ \A x \in All : x # c => S.red[x] = T.red[x]
      /\ S.ch = T.ch /\ S.root = T.root /\ S.par = T.par /\ S.key = T.key
  BY DEF Blackened, Recoloured
<1>5. NIL \notin U /\ U \subseteq All /\ NIL \in All /\ ~T.red[NIL] /\ T.root \in U \cup {NIL} /\ ~T.red[T.root]
  BY <1>1, <1>3 DEF Family, Coloured
<1>6. Shaped(S, U)
  BY <1>2, <1>4, RecolouredForms DEF Shaped
<1>7. \A x \in All : S.red[x] => T.red[x] /\ x # c
  BY <1>4
<1>8. Coloured(S, U, NIL, NIL)
  <2>1. ~S.red[NIL] /\ ~S.red[S.root]
    BY <1>4, <1>5, <1>7
  <2>2. ASSUME NEW n \in U, S.red[n], NEW i \in Sides PROVE ~S.red[T.ch[n][i]]
    <3>1. T.red[n] /\ n # c
      BY <1>5, <1>7, <2>2
    <3>2. ~T.red[T.ch[n][i]]
      BY <1>1, <1>5, <3>1 DEF Coloured
    <3>3. T.ch[n][i] \in All
      BY <1>3, Child
    <3> QED BY <1>7, <3>2, <3>3
  <2> QED BY <1>4, <2>1, <2>2 DEF Coloured
<1>9. CASE c = T.root
  <2>1. PICK bh : Heights(T, U, {}, bh)
    BY <1>9 DEF Erasing, Balanced
  <2>2. ASSUME NEW n \in U, NEW i \in Sides PROVE bh[n] = bh[S.ch[n][i]] + Weight(S, {}, n, i)
    <3>1. bh[n] = bh[T.ch[n][i]] + (IF T.red[n] THEN 0 ELSE 1)
      BY <1>3, <2>1, NoneHeights
    <3>2. Weight(S, {}, n, i) = IF S.red[n] THEN 0 ELSE 1
      BY WeightNone
    <3>3. S.red[n] <=> T.red[n]
      BY <1>4, <1>5, <1>9
    <3> QED BY <1>4, <3>1, <3>2, <3>3
  <2>3. Heights(S, U, {}, bh)
    BY <2>1, <2>2 DEF Heights
  <2> QED BY <1>4, <1>6, <1>8, <2>3 DEF Idle, Balanced
<1>10. CASE c # T.root
  <2>1. PICK p, d : p = T.par[c] /\ Short(T, U, c, p, d)
    BY <1>10 DEF Erasing
  <2>2. p \in U /\ d \in Sides /\ T.ch[p][d] = c
    BY <2>1 DEF Short
  <2>3. PICK bh : Heights(T, U, {<<p, d>>}, bh)
    BY <2>1 DEF Short, Balanced
  <2>4. T.red[c] /\ c \in U /\ c # p /\ c \in All
    <3>1. T.red[c] /\ c # NIL
      BY <1>5, <1>10
    <3> QED BY <1>3, <1>5, <2>2, <3>1, Child
  <2>5. /\ bh \in [All -> Nat] /\ bh[NIL] = 0
        /\ \A n \in U : \A i \in Sides : bh[n] = bh[T.ch[n][i]] + Weight(T, {<<p, d>>}, n, i)
    BY <2>3, Zenon DEF Heights
  <2>6. PICK h : h = [bh EXCEPT ![c] = bh[c] + 1]
    OBVIOUS
  <2>7. /\ h \in [All -> Nat] /\ h[c] = bh[c] + 1 /\ h[NIL] = 0 /\ bh[c] \in Nat
        /\ \A x \in All : x # c => h[x] = bh[x]
    BY <1>5, <2>4, <2>5, <2>6
  <2>8. ASSUME NEW n \in U, NEW i \in Sides PROVE h[n] = h[S.ch[n][i]] + Weight(S, {}, n, i)
    <3>1. Weight(S, {}, n, i) = IF S.red[n] THEN 0 ELSE 1
      BY WeightNone
    <3>2. PICK k \in All : k = T.ch[n][i] /\ k # n
      BY <1>3, Child
    <3>3. bh[n] = bh[k] + Weight(T, {<<p, d>>}, n, i) /\ bh[n] \in Nat /\ bh[k] \in Nat
      BY <1>5, <2>5, <3>2
    <3>4. CASE n = p /\ i = d
      <4>1. Weight(T, {<<p, d>>}, n, i) = IF T.red[n] THEN 1 ELSE 2
        BY <3>4, WeightAt
      <4>2. k = c /\ h[n] = bh[n] /\ S.red[n] = T.red[n]
        BY <1>4, <1>5, <2>2, <2>4, <2>7, <3>2, <3>4
      <4>3. h[n] = h[c] + (IF S.red[n] THEN 0 ELSE 1)
        BY <2>7, <3>3, <4>1, <4>2
      <4> QED BY <1>4, <3>1, <3>2, <4>2, <4>3
    <3>5. CASE ~(n = p /\ i = d)
      <4>1. Weight(T, {<<p, d>>}, n, i) = IF T.red[n] THEN 0 ELSE 1
        BY <3>5, WeightOther
      <4>2. k # c
        BY <1>3, <1>5, <2>2, <2>4, <3>2, <3>5, OneParent
      <4>3. h[k] = bh[k]
        BY <2>7, <4>2
      <4>4. CASE n = c
        BY <1>4, <2>4, <2>7, <3>1, <3>2, <3>3, <4>1, <4>3, <4>4
      <4>5. CASE n # c
        <5>1. S.red[n] = T.red[n] /\ h[n] = bh[n]
          BY <1>4, <1>5, <2>7, <4>5
        <5> QED BY <1>4, <3>1, <3>2, <3>3, <4>1, <4>3, <5>1
      <4> QED BY <4>4, <4>5
    <3> QED BY <3>4, <3>5
  <2>9. Heights(S, U, {}, h)
    BY <2>7, <2>8 DEF Heights
  <2> QED BY <1>4, <1>6, <1>8, <2>9 DEF Idle, Balanced
<1> QED BY <1>9, <1>10

\* The first part of a round: a red sibling is rotated above p.
EraseTurn(T, p, s, d) == rotate(Paint(Paint(T, p, TRUE), s, FALSE), get_ref(T, p), d)

\* The sides of c and of its sibling.
LEMMA EraseSides ==
  ASSUME NEW T, NEW U, NEW c, Erasing(T, U, c), c # T.root, ~T.red[c], NEW p, p = T.par[c]
  PROVE  \E d, e, s : /\ Short(T, U, c, p, d) /\ Sibling(T, c, p, s, d, e)
                      /\ s = T.ch[p][Bit(c = T.ch[p][0])] /\ d = Bit(s = T.ch[p][0])
<1>1. PICK d \in Sides : Short(T, U, c, p, d)
  BY DEF Erasing
<1>2. PICK e \in Sides : e = 1 - d
  BY DEF Sides
<1>3. PICK lo, hi : Formed(T, U, lo, hi)
  BY <1>1 DEF Short, Shaped
<1>4. Family(T, U)
  BY <1>3, FamilyIs
<1>5. PICK s : s = T.ch[p][e]
  OBVIOUS
<1>6. T.ch[p][d] = c
  BY <1>1 DEF Short
<1>7. Sibling(T, c, p, s, d, e)
  BY <1>2, <1>5, <1>6 DEF Sibling
<1>8. s # c
  BY <1>1, <1>4, <1>7, ShortIs
<1>9. s = T.ch[p][Bit(c = T.ch[p][0])] /\ d = Bit(s = T.ch[p][0])
  <2>1. CASE d = 0
    <3>1. e = 1
      BY <1>2, <2>1
    <3>2. c = T.ch[p][0] /\ s = T.ch[p][1]
      BY <1>5, <1>6, <2>1, <3>1
    <3> QED BY <1>8, <2>1, <3>2 DEF Bit
  <2>2. CASE d = 1
    <3>1. e = 0
      BY <1>2, <2>2
    <3>2. c # T.ch[p][0] /\ s = T.ch[p][0]
      BY <1>5, <1>8, <3>1
    <3> QED BY <2>2, <3>2 DEF Bit
  <2> QED BY <2>1, <2>2 DEF Sides
<1> QED BY <1>1, <1>7, <1>9, Zenon

\* The sibling behind the rotation is black.
LEMMA EraseSibling ==
  ASSUME NEW T, NEW U, NEW c, NEW p, NEW d, NEW s, NEW e, Short(T, U, c, p, d),
         Sibling(T, c, p, s, d, e), T.red[s], NEW X, X = EraseTurn(T, p, s, d)
  PROVE  \E t : /\ t = X.ch[p][1 - d] /\ Short(X, U, c, p, d) /\ Sibling(X, c, p, t, d, e)
                /\ ~X.red[t] /\ X.key = T.key /\ (T.par[c] = p => X.par[c] = p)
<1>1. PICK lo, hi : Formed(T, U, lo, hi)
  BY DEF Short, Shaped
<1>2. Family(T, U)
  BY <1>1, FamilyIs
<1>3. s \in U /\ s # p /\ p \in All /\ s \in All /\ s # NIL
  BY <1>2, ShortIs
<1>4. p \in U /\ d \in Sides /\ e \in Sides /\ e = 1 - d /\ T.ch[p][e] = s
  BY DEF Short, Sibling
<1>5. PICK A, S : A = Paint(T, p, TRUE) /\ S = Paint(A, s, FALSE)
  OBVIOUS
<1>6. T \in Trees
  BY <1>2 DEF Family
<1>7. Reddened(A, T, p)
  BY <1>3, <1>5, <1>6, PaintRed, Zenon
<1>8. A \in Trees
  BY <1>7 DEF Reddened, Recoloured
<1>9. Blackened(S, A, s)
  BY <1>3, <1>5, <1>8, PaintBlack, Zenon
<1>10. Exchanged(S, T, s, p)
  <2>1. Recoloured(S, T)
    BY <1>7, <1>9, RecolouredTwice DEF Blackened, Reddened
  <2>2. S.red \in [All -> BOOLEAN] /\ ~S.red[s] /\ S.red[p]
    BY <1>3, <1>7, <1>9 DEF Blackened, Reddened
  <2>3. \A x \in All : x # s /\ x # p => S.red[x] = T.red[x]
    BY <1>7, <1>9 DEF Blackened, Reddened
  <2> QED BY <2>1, <2>2, <2>3 DEF Exchanged
<1>11. Recoloured(S, T) /\ S.ch = T.ch /\ S.key = T.key
  BY <1>10 DEF Exchanged, Recoloured
<1>12. Formed(S, U, lo, hi)
  BY <1>1, <1>11, RecolouredForms
<1>13. Family(S, U)
  BY <1>12, FamilyIs
<1>14. Turned(X, S, p, d)
  <2>1. PICK ref : ref = get_ref(T, p)
    OBVIOUS
  <2>2. Refers(S, U, p, ref)
    BY <1>1, <1>4, <1>11, <2>1, RefRecoloured
  <2>3. X = rotate(S, ref, d)
    BY <1>5, <2>1, Zenon DEF EraseTurn
  <2>4. S.ch[p][1 - d] # NIL
    BY <1>3, <1>4, <1>11
  <2> QED BY <1>4, <1>12, <2>2, <2>3, <2>4, RotateIs
<1>15. PICK t : t = T.ch[s][d]
  OBVIOUS
<1>16. /\ Short(X, U, c, p, d) /\ Sibling(X, c, p, t, d, e) /\ ~X.red[t]
       /\ T.par[c] = p => X.par[c] = p
  BY <1>2, <1>10, <1>13, <1>14, <1>15, EraseTurns
<1>17. t = X.ch[p][1 - d]
  BY <1>16 DEF Sibling
<1>18. X.key = S.key
  BY <1>14, Zenon DEF Turned
<1> QED BY <1>11, <1>16, <1>17, <1>18, Zenon

\* The last rotation of a round.
EraseTurnLast(T, s, p, dir) == rotate(EraseColours(T, s, p, dir), get_ref(T, p), dir)

\* It ends the loop.
LEMMA EraseSettles ==
  ASSUME NEW T, NEW U, NEW c, NEW p, NEW d, NEW s, NEW e, Short(T, U, c, p, d),
         Sibling(T, c, p, s, d, e), ~T.red[s], T.red[T.ch[s][e]],
         NEW W, W = EraseTurnLast(T, s, p, d)
  PROVE  Idle(W, U) /\ W.key = T.key
<1>1. PICK lo, hi : Formed(T, U, lo, hi)
  BY DEF Short, Shaped
<1>2. Family(T, U)
  BY <1>1, FamilyIs
<1>3. /\ s \in U /\ s # p /\ p \in All /\ s \in All /\ s # NIL /\ p \in U /\ d \in Sides /\ e \in Sides
      /\ e = 1 - d /\ T.ch[p][e] = s
  <2>1. s \in U /\ s # p /\ p \in All /\ s \in All /\ s # NIL
    BY <1>2, ShortIs
  <2> QED BY <2>1 DEF Short, Sibling
<1>4. T \in Trees /\ ~T.red[NIL]
  BY <1>2 DEF Family, Short, Coloured
<1>5. PICK o \in All : o = T.ch[s][e] /\ o # s /\ o # p /\ o # NIL
  <2>1. T.ch[s][e] # p
    BY <1>2, <1>3, Child DEF Short
  <2> QED BY <1>2, <1>3, <1>4, <2>1, Child
<1>6. PICK A, B, S : A = Paint(T, s, T.red[p]) /\ B = Paint(A, p, FALSE) /\ S = Paint(B, o, FALSE)
  OBVIOUS
<1>7. EraseColours(T, s, p, d) = S
  BY <1>3, <1>5, <1>6, Zenon DEF EraseColours
<1>8. Matched(A, T, s, p)
  BY <1>3, <1>4, <1>6, PaintLike, Zenon
<1>9. A \in Trees
  BY <1>8 DEF Matched, Recoloured
<1>10. Blackened(B, A, p)
  BY <1>3, <1>6, <1>9, PaintBlack, Zenon
<1>11. B \in Trees
  BY <1>10 DEF Blackened, Recoloured
<1>12. Blackened(S, B, o)
  BY <1>5, <1>6, <1>11, PaintBlack, Zenon
<1>13. Settled(S, T, s, p, o)
  <2>1. Recoloured(S, T)
    BY <1>8, <1>10, <1>12, Zenon DEF Matched, Blackened, Recoloured
  <2>2. /\ \A x \in All : x # s => A.red[x] = T.red[x]
        /\ \A x \in All : x # p => B.red[x] = A.red[x]
        /\ \A x \in All : x # o => S.red[x] = B.red[x]
        /\ A.red[s] = T.red[p] /\ ~B.red[p] /\ ~S.red[o] /\ S.red \in [All -> BOOLEAN]
    BY <1>8, <1>10, <1>12 DEF Matched, Blackened
  <2>3. S.red[s] = T.red[p]
    BY <1>3, <1>5, <2>2
  <2>4. ~S.red[p]
    BY <1>3, <1>5, <2>2
  <2> QED BY <2>1, <2>2, <2>3, <2>4 DEF Settled
<1>14. Recoloured(S, T) /\ S.ch = T.ch /\ S.key = T.key
  BY <1>13 DEF Settled, Recoloured
<1>15. Formed(S, U, lo, hi)
  BY <1>1, <1>14, RecolouredForms
<1>16. Family(S, U)
  BY <1>15, FamilyIs
<1>17. Turned(W, S, p, d)
  <2>1. PICK ref : ref = get_ref(T, p)
    OBVIOUS
  <2>2. Refers(S, U, p, ref)
    BY <1>1, <1>3, <1>14, <2>1, RefRecoloured
  <2>3. W = rotate(S, ref, d)
    BY <1>7, <2>1, Zenon DEF EraseTurnLast
  <2>4. S.ch[p][1 - d] # NIL
    BY <1>3, <1>14
  <2> QED BY <1>3, <1>15, <2>2, <2>3, <2>4, RotateIs
<1>18. T.red[o]
  BY <1>5
<1>19. Idle(W, U)
  BY <1>2, <1>5, <1>13, <1>16, <1>17, <1>18, EraseOuter
<1>20. W.key = S.key
  BY <1>17, Zenon DEF Turned
<1> QED BY <1>14, <1>19, <1>20

\* The rotation that comes first if the red child of s is the inner one.
EraseTurnInner(T, s, u, p, e) == rotate(Paint(Paint(T, u, FALSE), s, TRUE), <<p, e>>, e)

\* It brings a red child to the outer side.
LEMMA EraseInside ==
  ASSUME NEW T, NEW U, NEW c, NEW p, NEW d, NEW s, NEW e, Short(T, U, c, p, d),
         Sibling(T, c, p, s, d, e), ~T.red[s], NEW u, u = T.ch[s][d], T.red[u], ~T.red[T.ch[s][e]],
         NEW X, X = EraseTurnInner(T, s, u, p, e)
  PROVE  /\ Short(X, U, c, p, d) /\ Sibling(X, c, p, u, d, e) /\ ~X.red[u]
         /\ X.red[X.ch[u][e]] /\ X.key = T.key /\ X.ch[p][e] = u
<1>1. PICK lo, hi : Formed(T, U, lo, hi)
  BY DEF Short, Shaped
<1>2. Family(T, U)
  BY <1>1, FamilyIs
<1>3. /\ s \in U /\ s # p /\ p \in All /\ s \in All /\ s # NIL /\ p \in U /\ d \in Sides /\ e \in Sides
      /\ e = 1 - d /\ d = 1 - e /\ T.ch[p][e] = s
  <2>1. s \in U /\ s # p /\ p \in All /\ s \in All /\ s # NIL
    BY <1>2, ShortIs
  <2>2. p \in U /\ d \in Sides /\ e \in Sides /\ e = 1 - d /\ T.ch[p][e] = s
    BY DEF Short, Sibling
  <2>3. d = 1 - e
    BY <2>2 DEF Sides
  <2> QED BY <2>1, <2>2, <2>3
<1>4. T \in Trees /\ ~T.red[NIL]
  BY <1>2 DEF Family, Short, Coloured
<1>5. u \in All /\ u # s /\ u # NIL
  BY <1>2, <1>3, <1>4, Child
<1>6. PICK A, S : A = Paint(T, u, FALSE) /\ S = Paint(A, s, TRUE)
  OBVIOUS
<1>7. Blackened(A, T, u)
  BY <1>4, <1>5, <1>6, PaintBlack, Zenon
<1>8. A \in Trees
  BY <1>7 DEF Blackened, Recoloured
<1>9. Reddened(S, A, s)
  BY <1>3, <1>6, <1>8, PaintRed, Zenon
<1>10. Exchanged(S, T, u, s)
  <2>1. Recoloured(S, T)
    BY <1>7, <1>9, RecolouredTwice DEF Blackened, Reddened
  <2>2. S.red \in [All -> BOOLEAN] /\ ~S.red[u] /\ S.red[s]
    BY <1>5, <1>7, <1>9 DEF Blackened, Reddened
  <2>3. \A x \in All : x # u /\ x # s => S.red[x] = T.red[x]
    BY <1>7, <1>9 DEF Blackened, Reddened
  <2> QED BY <2>1, <2>2, <2>3 DEF Exchanged
<1>11. Recoloured(S, T) /\ S.ch = T.ch /\ S.key = T.key
  BY <1>10 DEF Exchanged, Recoloured
<1>12. Formed(S, U, lo, hi)
  BY <1>1, <1>11, RecolouredForms
<1>13. Family(S, U)
  BY <1>12, FamilyIs
<1>14. Turned(X, S, s, e)
  <2>1. PICK ref : ref = <<p, e>>
    OBVIOUS
  <2>2. Refers(S, U, s, ref)
    BY <1>3, <1>11, <2>1 DEF Refers
  <2>3. X = rotate(S, ref, e)
    BY <1>6, <2>1, Zenon DEF EraseTurnInner
  <2>4. S.ch[s][1 - e] # NIL
    BY <1>3, <1>5, <1>11
  <2> QED BY <1>3, <1>12, <2>2, <2>3, <2>4, RotateIs
<1>15. /\ Short(X, U, c, p, d) /\ Sibling(X, c, p, u, d, e) /\ ~X.red[u]
       /\ X.ch[u][e] = s /\ X.red[s]
  BY <1>2, <1>10, <1>13, <1>14, EraseInner
<1>16. X.key = S.key
  BY <1>14, Zenon DEF Turned
<1>17. X.ch[p][e] = u
  BY <1>15 DEF Sibling
<1> QED BY <1>11, <1>15, <1>16, <1>17

\* Both.
LEMMA EraseRotates ==
  ASSUME NEW T, NEW U, NEW c, NEW p, NEW d, NEW s, NEW e, Short(T, U, c, p, d),
         Sibling(T, c, p, s, d, e), ~T.red[s], T.red[T.ch[s][0]] \/ T.red[T.ch[s][1]]
  PROVE  Idle(EraseRotated(T, c, s, p), U) /\ EraseRotated(T, c, s, p).key = T.key
<1>1. PICK lo, hi : Formed(T, U, lo, hi)
  BY DEF Short, Shaped
<1>2. Family(T, U)
  BY <1>1, FamilyIs
<1>3. /\ s # c /\ d \in Sides /\ e \in Sides /\ e = 1 - d /\ T.ch[p][e] = s /\ T.ch[p][d] = c
  <2>1. s # c
    BY <1>2, ShortIs
  <2> QED BY <2>1 DEF Short, Sibling
<1>4. d = Bit(c = T.ch[p][1]) /\ e = Bit(s = T.ch[p][1])
  <2>1. CASE d = 0
    <3>1. e = 1
      BY <1>3, <2>1
    <3> QED BY <1>3, <2>1, <3>1 DEF Bit
  <2>2. CASE d = 1
    <3>1. e = 0
      BY <1>3, <2>2
    <3> QED BY <1>3, <2>2, <3>1 DEF Bit
  <2> QED BY <1>3, <2>1, <2>2 DEF Sides
<1> DEFINE inner == ~T.red[T.ch[s][e]]
           T1 == IF inner
                 THEN rotate(Paint(Paint(T, T.ch[s][d], FALSE), s, TRUE), <<p, e>>, e)
                 ELSE T
           s1 == IF inner THEN T1.ch[p][e] ELSE s
           W == rotate(EraseColours(T1, s1, p, d), get_ref(T1, p), d)
<1>5. EraseRotated(T, c, s, p) = W
  BY <1>3, <1>4, Zenon DEF EraseRotated
<1>6. CASE inner
  <2>1. T.red[T.ch[s][d]]
    BY <1>3, <1>6 DEF Sides
  <2>2. PICK u, X : u = T.ch[s][d] /\ X = EraseTurnInner(T, s, u, p, e)
    OBVIOUS
  <2>3. /\ Short(X, U, c, p, d) /\ Sibling(X, c, p, u, d, e) /\ ~X.red[u]
        /\ X.red[X.ch[u][e]] /\ X.key = T.key /\ X.ch[p][e] = u
    BY <1>6, <2>1, <2>2, EraseInside
  <2>4. T1 = X
    BY <1>6, <2>2, Zenon DEF EraseTurnInner
  <2>5. s1 = u
    BY <1>6, <2>3, <2>4
  <2>6. W = EraseTurnLast(X, u, p, d)
    BY <2>4, <2>5, Zenon DEF EraseTurnLast
  <2> HIDE DEF W
  <2>7. Idle(W, U) /\ W.key = X.key
    BY <2>3, <2>6, EraseSettles
  <2> QED BY <1>5, <2>3, <2>7
<1>7. CASE ~inner
  <2>1. W = EraseTurnLast(T, s, p, d)
    BY <1>7, Zenon DEF EraseTurnLast
  <2>2. T.red[T.ch[s][e]]
    BY <1>7
  <2> HIDE DEF W
  <2>3. Idle(W, U) /\ W.key = T.key
    BY <2>1, <2>2, EraseSettles
  <2> QED BY <1>5, <2>3
<1> QED BY <1>6, <1>7

----------------------------------------------------------------------------
(***************************************************************************)
(* A round of the loops, for a tree T that is not being changed by others. *)
(***************************************************************************)

\* What a loop that is at the node c of a tree of the nodes in U maintains.
LoopIs(T, U, loop, c) ==
  \/ loop = "idle" /\ c = NIL /\ Idle(T, U)
  \/ loop = "insert" /\ Inserting(T, U, c)
  \/ loop = "erase" /\ Erasing(T, U, c)

\* insert's loop.
LEMMA InsertRound ==
  ASSUME InsertFix, LoopIs(tree, used, pc, cur)
  PROVE  LoopIs(tree', used', pc', cur') /\ tree'.key = tree.key /\ used' = used
<1>1. PICK T, U, c, p, g, u : /\ T = tree /\ U = used /\ c = cur /\ p = T.par[c] /\ g = T.par[p]
                              /\ u = UncleOf(T, g, p)
  OBVIOUS
<1>2. /\ pc = "insert" /\ UNCHANGED <<used, erases>>
      /\ IF p = NIL \/ ~T.red[p]
         THEN /\ tree' = IF p = NIL THEN Paint(T, c, FALSE) ELSE T
              /\ pc' = "idle" /\ cur' = NIL
         ELSE IF T.red[u]
         THEN tree' = InsertRepaint(T, p, u, g) /\ cur' = g /\ pc' = pc
         ELSE tree' = InsertRotated(T, c, p) /\ pc' = "idle" /\ cur' = NIL
  BY <1>1, Zenon DEF InsertFix, InsertRepaint, UncleOf
<1>3. used' = U
  BY <1>1, <1>2
<1>4. Inserting(T, U, c)
  BY <1>1, <1>2, Zenon DEF LoopIs
<1>5. PICK lo, hi : Formed(T, U, lo, hi)
  BY <1>4 DEF Inserting, Shaped
<1>6. Family(T, U)
  BY <1>5, FamilyIs
<1>7. CASE p = NIL \/ ~T.red[p]
  <2>1. PICK S : S = IF p = NIL THEN Paint(T, c, FALSE) ELSE T
    OBVIOUS
  <2>2. tree' = S /\ pc' = "idle" /\ cur' = NIL
    BY <1>2, <1>7, <2>1, Zenon
  <2>3. Idle(S, U)
    BY <1>1, <1>4, <1>6, <1>7, <2>1, InsertEnds, Zenon
  <2>4. S.key = T.key
    <3>1. T \in Trees /\ c \in All
      BY <1>4, <1>6 DEF Family, Inserting
    <3>2. PICK P : P = Paint(T, c, FALSE)
      OBVIOUS
    <3>3. P.key = T.key
      <4>1. Blackened(P, T, c)
        BY <3>1, <3>2, PaintBlack, Zenon
      <4> QED BY <4>1 DEF Blackened, Recoloured
    <3> QED BY <2>1, <3>2, <3>3
  <2> QED BY <1>1, <1>3, <2>2, <2>3, <2>4, Zenon DEF LoopIs
<1>8. CASE p # NIL /\ T.red[p] /\ T.red[u]
  <2>1. tree' = InsertRepaint(T, p, u, g) /\ cur' = g /\ pc' = "insert"
    BY <1>2, <1>8, Zenon
  <2>2. Inserting(InsertRepaint(T, p, u, g), U, g) /\ InsertRepaint(T, p, u, g).key = T.key
    BY <1>1, <1>4, <1>8, InsertClimbs
  <2> QED BY <1>1, <1>3, <2>1, <2>2, Zenon DEF LoopIs
<1>9. CASE p # NIL /\ T.red[p] /\ ~T.red[u]
  <2>1. tree' = InsertRotated(T, c, p) /\ pc' = "idle" /\ cur' = NIL
    BY <1>2, <1>9, Zenon
  <2>2. Idle(InsertRotated(T, c, p), U) /\ InsertRotated(T, c, p).key = T.key
    BY <1>1, <1>4, <1>9, InsertRotates
  <2> QED BY <1>1, <1>3, <2>1, <2>2, Zenon DEF LoopIs
<1> QED BY <1>7, <1>8, <1>9

\* erase's loop.
LEMMA EraseRound ==
  ASSUME EraseFix, LoopIs(tree, used, pc, cur)
  PROVE  LoopIs(tree', used', pc', cur') /\ tree'.key = tree.key /\ used' = used
<1>1. PICK T, U, c, p, s, d : /\ T = tree /\ U = used /\ c = cur /\ p = T.par[c]
                              /\ s = T.ch[p][Bit(c = T.ch[p][0])] /\ d = Bit(s = T.ch[p][0])
  OBVIOUS
<1>2. PICK X : X = IF T.red[s] THEN EraseTurn(T, p, s, d) ELSE T
  OBVIOUS
<1>3. PICK t : t = IF T.red[s] THEN X.ch[p][1 - d] ELSE s
  OBVIOUS
<1>4. /\ pc = "erase" /\ UNCHANGED <<used, erases>>
      /\ IF c = T.root \/ T.red[c]
         THEN tree' = Paint(T, c, FALSE) /\ pc' = "idle" /\ cur' = NIL
         ELSE IF ~X.red[X.ch[t][0]] /\ ~X.red[X.ch[t][1]]
         THEN tree' = Paint(X, t, TRUE) /\ cur' = p /\ pc' = pc
         ELSE tree' = EraseRotated(X, c, t, p) /\ pc' = "idle" /\ cur' = NIL
  <2> DEFINE P == tree.par[cur]
             S0 == tree.ch[P][Bit(cur = tree.ch[P][0])]
             D == Bit(S0 = tree.ch[P][0])
             Y == IF tree.red[S0] THEN EraseTurn(tree, P, S0, D) ELSE tree
             S1 == IF tree.red[S0] THEN Y.ch[P][1 - D] ELSE S0
  <2>1. /\ pc = "erase" /\ UNCHANGED <<used, erases>>
        /\ IF cur = tree.root \/ tree.red[cur]
           THEN tree' = Paint(tree, cur, FALSE) /\ pc' = "idle" /\ cur' = NIL
           ELSE IF ~Y.red[Y.ch[S1][0]] /\ ~Y.red[Y.ch[S1][1]]
           THEN tree' = Paint(Y, S1, TRUE) /\ cur' = P /\ pc' = pc
           ELSE tree' = EraseRotated(Y, cur, S1, P) /\ pc' = "idle" /\ cur' = NIL
    BY Zenon DEF EraseFix, EraseTurn
  <2>2. P = p
    BY <1>1, Zenon
  <2>3. S0 = s
    BY <1>1, <2>2, Zenon
  <2>4. D = d
    BY <1>1, <2>2, <2>3, Zenon
  <2>5. Y = X
    BY <1>1, <1>2, <2>2, <2>3, <2>4, Zenon
  <2>6. S1 = t
    BY <1>1, <1>3, <2>2, <2>3, <2>4, <2>5, Zenon
  <2> HIDE DEF P, S0, D, Y, S1
  <2> QED BY <1>1, <2>1, <2>2, <2>5, <2>6, Zenon
<1>5. used' = U
  BY <1>1, <1>4
<1>6. Erasing(T, U, c)
  BY <1>1, <1>4, Zenon DEF LoopIs
<1>7. CASE c = T.root \/ T.red[c]
  <2>1. T \in Trees /\ c \in All
    <3>1. Shaped(T, U) /\ (c = T.root \/ (T.par[c] \in U /\ \E k \in Sides : T.ch[T.par[c]][k] = c))
      BY <1>6 DEF Erasing, Short
    <3>2. PICK lo, hi : Formed(T, U, lo, hi)
      BY <3>1 DEF Shaped
    <3>3. Family(T, U)
      BY <3>2, FamilyIs
    <3> QED BY <3>1, <3>3 DEF Family
  <2>2. PICK S : S = Paint(T, c, FALSE)
    OBVIOUS
  <2>3. Blackened(S, T, c)
    BY <2>1, <2>2, PaintBlack, Zenon
  <2>4. Idle(S, U) /\ S.key = T.key
    BY <1>6, <1>7, <2>3, EraseEnds
  <2>5. tree' = S /\ pc' = "idle" /\ cur' = NIL
    BY <1>4, <1>7, <2>2, Zenon
  <2> QED BY <1>1, <1>5, <2>4, <2>5, Zenon DEF LoopIs
<1>8. CASE ~(c = T.root \/ T.red[c])
  <2>1. PICK e : Short(T, U, c, p, d) /\ Sibling(T, c, p, s, d, e)
    BY <1>1, <1>6, <1>8, EraseSides
  <2>2. Short(X, U, c, p, d) /\ Sibling(X, c, p, t, d, e) /\ ~X.red[t] /\ X.key = T.key
    <3>1. CASE T.red[s]
      <4>1. X = EraseTurn(T, p, s, d) /\ t = X.ch[p][1 - d]
        BY <1>2, <1>3, <3>1
      <4>2. \E y : /\ y = X.ch[p][1 - d] /\ Short(X, U, c, p, d) /\ Sibling(X, c, p, y, d, e)
                   /\ ~X.red[y] /\ X.key = T.key /\ (T.par[c] = p => X.par[c] = p)
        BY <2>1, <3>1, <4>1, EraseSibling
      <4> QED BY <4>1, <4>2, Zenon
    <3>2. CASE ~T.red[s]
      BY <1>2, <1>3, <2>1, <3>2
    <3> QED BY <3>1, <3>2
  <2>3. PICK lo, hi : Formed(X, U, lo, hi)
    BY <2>2 DEF Short, Shaped
  <2>4. Family(X, U)
    BY <2>3, FamilyIs
  <2>5. CASE ~X.red[X.ch[t][0]] /\ ~X.red[X.ch[t][1]]
    <3>1. PICK S : S = Paint(X, t, TRUE)
      OBVIOUS
    <3>2. X \in Trees /\ t \in All
      <4>1. t \in All
        BY <2>2, <2>4, ShortIs
      <4> QED BY <2>4, <4>1 DEF Family
    <3>3. Reddened(S, X, t)
      BY <3>1, <3>2, PaintRed, Zenon
    <3>4. Erasing(S, U, p)
      BY <2>2, <2>4, <2>5, <3>3, EraseClimbs
    <3>5. S.key = X.key
      BY <3>3 DEF Reddened, Recoloured
    <3>6. tree' = S /\ cur' = p /\ pc' = "erase"
      BY <1>4, <1>8, <2>5, <3>1, Zenon
    <3> QED BY <1>1, <1>5, <2>2, <3>4, <3>5, <3>6, Zenon DEF LoopIs
  <2>6. CASE X.red[X.ch[t][0]] \/ X.red[X.ch[t][1]]
    <3>1. Idle(EraseRotated(X, c, t, p), U) /\ EraseRotated(X, c, t, p).key = X.key
      BY <2>2, <2>6, EraseRotates
    <3>2. tree' = EraseRotated(X, c, t, p) /\ pc' = "idle" /\ cur' = NIL
      BY <1>4, <1>8, <2>6, Zenon
    <3> QED BY <1>1, <1>5, <2>2, <3>1, <3>2, Zenon DEF LoopIs
  <2> QED BY <2>5, <2>6
<1> QED BY <1>7, <1>8

----------------------------------------------------------------------------
(***************************************************************************)
(* The descents of insert and erase, clear, walk and the black heights.    *)
(***************************************************************************)

\* f follows the sides that sd gives to the last node.
Walks(f, T, sd) ==
  f = [n \in Nodes |-> IF T.ch[n][sd[n]] = NIL THEN n ELSE f[T.ch[n][sd[n]]]]

\* There is such a function.
LEMMA Descent ==
  ASSUME NEW T, NEW U, NEW lo, NEW hi, Formed(T, U, lo, hi), NEW sd \in [All -> Sides]
  PROVE  \E f : Walks(f, T, sd)
<1> DEFINE F == [x \in All \X All \X All |->
                   IF T.ch[x[1]][sd[x[1]]] = NIL THEN x[1] ELSE IF sd[x[1]] = 0 THEN x[2] ELSE x[3]]
<1>1. NIL \in All /\ NIL \notin Nodes /\ All = Nodes \cup {NIL}
  BY Numbers DEF All
<1>2. F \in [All \X All \X All -> All]
  <2>1. \A x \in All \X All \X All : x[1] \in All /\ x[2] \in All /\ x[3] \in All
    OBVIOUS
  <2> QED BY <1>1, <2>1
<1>3. \A n, a, b \in All : F[<<n, a, b>>] =
         IF T.ch[n][sd[n]] = NIL THEN n ELSE IF sd[n] = 0 THEN a ELSE b
  OBVIOUS
<1> HIDE DEF F
<1>4. PICK w \in [All -> All] : TreeObeys(w, All, T.ch, NIL, F)
  BY <1>1, <1>2, TypedFunction
<1>5. ASSUME NEW n \in Nodes
      PROVE  w[n] = IF T.ch[n][sd[n]] = NIL THEN n ELSE w[T.ch[n][sd[n]]]
  <2>1. w[n] = F[<<n, w[T.ch[n][0]], w[T.ch[n][1]]>>]
    BY <1>1, <1>4, Zenon DEF TreeObeys
  <2>2. T.ch[n][0] \in All /\ T.ch[n][1] \in All /\ n \in All /\ sd[n] \in Sides
    BY <1>1 DEF Formed, Trees, Sides
  <2>3. PICK a \in All, b \in All : a = w[T.ch[n][0]] /\ b = w[T.ch[n][1]]
    BY <2>2
  <2>4. w[n] = F[<<n, a, b>>]
    BY <2>1, <2>3
  <2>5. w[n] = IF T.ch[n][sd[n]] = NIL THEN n ELSE IF sd[n] = 0 THEN a ELSE b
    BY <1>3, <2>2, <2>4
  <2> QED BY <2>2, <2>3, <2>5 DEF Sides
<1> DEFINE f == [n \in Nodes |-> w[n]]
<1>6. ASSUME NEW n \in Nodes
      PROVE  w[n] = IF T.ch[n][sd[n]] = NIL THEN n ELSE f[T.ch[n][sd[n]]]
  <2>1. T.ch[n][sd[n]] \in All
    BY <1>1 DEF Formed, Trees, Sides
  <2> QED BY <1>1, <1>5, <2>1
<1>7. Walks(f, T, sd)
  BY <1>6, Zenon DEF Walks
<1> QED BY <1>7

\* The node at the end, for a value v that no node on the way has.
BottomIs(T, U, lo, hi, v, r) ==
  /\ r \in U /\ lo[r] < v /\ v < hi[r] /\ T.key[r] # v
  /\ T.ch[r][Bit(T.key[r] < v)] = NIL

\* insert finds the place for v.
LEMMA BottomFound ==
  ASSUME NEW T, NEW U, NEW lo, NEW hi, Formed(T, U, lo, hi), NEW v \in Keys,
         \A x \in U : T.key[x] # v, T.root # NIL
  PROVE  BottomIs(T, U, lo, hi, v, Bottom(T, v))
<1> DEFINE sd == [n \in All |-> IF n \in Nodes THEN Bit(T.key[n] < v) ELSE 0]
           Is(w) == w = [n \in Nodes |->
                     LET c == T.ch[n][Bit(T.key[n] < v)] IN IF c = NIL THEN n ELSE w[c]]
           f == CHOOSE w : Is(w)
<1>1. \E w : Is(w)
  <2>1. sd \in [All -> Sides] /\ \A n \in Nodes : sd[n] = Bit(T.key[n] < v)
    BY DEF Bit, Sides, All
  <2> HIDE DEF sd
  <2>2. PICK w : Walks(w, T, sd)
    BY <2>1, Descent
  <2>3. Is(w)
    BY <2>1, <2>2, Zenon DEF Walks
  <2> QED BY <2>3
<1>2. Is(f)
  BY <1>1, Zenon
<1>3. Bottom(T, v) = f[T.root]
  BY Zenon DEF Bottom
<1> HIDE DEF f
<1>4. ASSUME NEW n \in Nodes, NEW c, c = T.ch[n][Bit(T.key[n] < v)]
      PROVE  f[n] = IF c = NIL THEN n ELSE f[c]
  BY <1>2, <1>4, Zenon
<1> DEFINE S == {n \in U : lo[n] < v /\ v < hi[n] => BottomIs(T, U, lo, hi, v, f[n])}
<1>5. v \in Int /\ v \in 1 .. NKeys
  BY Numbers DEF Keys
<1>6. ASSUME NEW n \in U, \A i \in Sides : T.ch[n][i] # NIL => T.ch[n][i] \in S PROVE n \in S
  <2> SUFFICES ASSUME lo[n] < v, v < hi[n] PROVE BottomIs(T, U, lo, hi, v, f[n])
    OBVIOUS
  <2>1. PICK i \in Sides : i = Bit(T.key[n] < v)
    BY DEF Bit, Sides
  <2>2. PICK c : c = T.ch[n][i]
    OBVIOUS
  <2>3. n \in Nodes /\ T.key[n] \in Int /\ T.key[n] # v
    BY NodeIs
  <2>4. f[n] = IF c = NIL THEN n ELSE f[c]
    BY <1>4, <2>1, <2>2, <2>3
  <2>5. CASE c = NIL
    BY <2>1, <2>2, <2>3, <2>4, <2>5 DEF BottomIs
  <2>6. CASE c # NIL
    <3>1. c \in S
      BY <1>6, <2>2, <2>6
    <3>2. lo[c] < v /\ v < hi[c]
      <4>1. CASE T.key[n] < v
        <5>1. i = 1
          BY <2>1, <4>1 DEF Bit
        <5>2. lo[c] = T.key[n] /\ hi[c] = hi[n]
          BY <2>2, <2>6, <5>1, NodeIs
        <5> QED BY <4>1, <5>2
      <4>2. CASE ~(T.key[n] < v)
        <5>1. i = 0
          BY <2>1, <4>2 DEF Bit
        <5>2. lo[c] = lo[n] /\ hi[c] = T.key[n]
          BY <2>2, <2>6, <5>1, NodeIs
        <5> QED BY <1>5, <2>3, <4>2, <5>2
      <4> QED BY <4>1, <4>2
    <3> QED BY <2>4, <2>6, <3>1, <3>2
  <2> QED BY <2>5, <2>6
<1>7. U \subseteq S
  <2> HIDE DEF S
  <2> QED BY <1>6, TreeInduction
<1>8. T.root \in U /\ lo[T.root] = 0 /\ hi[T.root] = NKeys + 1
  BY DEF Formed, Linked, Ordered
<1>9. 0 < v /\ v < NKeys + 1
  BY <1>5, Numbers
<1> QED BY <1>3, <1>7, <1>8, <1>9

\* The node r that leaves when erase is called for n.
SuccessorIs(T, U, lo, hi, n, r) ==
  /\ r \in U
  /\ T.ch[n][1] = NIL => r = n
  /\ T.ch[n][1] # NIL => r # n /\ lo[r] = T.key[n] /\ hi[r] <= hi[n] /\ T.ch[r][0] = NIL

\* erase finds it.
LEMMA SuccessorFound ==
  ASSUME NEW T, NEW U, NEW lo, NEW hi, Formed(T, U, lo, hi), NEW n \in U
  PROVE  SuccessorIs(T, U, lo, hi, n, Successor(T, n))
<1> DEFINE sd == [x \in All |-> 0]
           Is(w) == w = [m \in Nodes |-> IF T.ch[m][0] = NIL THEN m ELSE w[T.ch[m][0]]]
           f == CHOOSE w : Is(w)
<1>1. \E w : Is(w)
  <2>1. sd \in [All -> Sides] /\ \A m \in Nodes : sd[m] = 0
    BY DEF Sides, All
  <2> HIDE DEF sd
  <2>2. PICK w : Walks(w, T, sd)
    BY <2>1, Descent
  <2>3. Is(w)
    BY <2>1, <2>2, Zenon DEF Walks
  <2> QED BY <2>3
<1>2. Is(f)
  BY <1>1
<1>3. Successor(T, n) = IF T.ch[n][1] = NIL THEN n ELSE f[T.ch[n][1]]
  BY Zenon DEF Successor
<1> HIDE DEF f
<1>4. ASSUME NEW m \in Nodes PROVE f[m] = IF T.ch[m][0] = NIL THEN m ELSE f[T.ch[m][0]]
  BY <1>2, Zenon
<1> DEFINE S == {m \in U : /\ f[m] \in U /\ T.ch[f[m]][0] = NIL
                           /\ lo[f[m]] = lo[m] /\ hi[f[m]] <= hi[m]}
<1>5. ASSUME NEW m \in U, \A i \in Sides : T.ch[m][i] # NIL => T.ch[m][i] \in S PROVE m \in S
  <2>1. m \in Nodes /\ lo[m] \in Int /\ hi[m] \in Int /\ T.key[m] \in Int /\ T.key[m] < hi[m] /\ 0 \in Sides
    BY NodeIs DEF Sides
  <2>2. PICK c : c = T.ch[m][0]
    OBVIOUS
  <2>3. f[m] = IF c = NIL THEN m ELSE f[c]
    BY <1>4, <2>1, <2>2
  <2>4. CASE c = NIL
    <3>1. PICK y : y = f[m] /\ y = m
      BY <2>3, <2>4
    <3>2. y \in U /\ T.ch[y][0] = NIL /\ lo[y] = lo[m] /\ hi[y] = hi[m]
      BY <2>2, <2>4, <3>1, Zenon
    <3>3. PICK h \in Int : h = hi[m] /\ h <= h
      BY <2>1
    <3>4. hi[y] <= hi[m]
      BY <3>2, <3>3
    <3> QED BY <3>1, <3>2, <3>4
  <2>5. CASE c # NIL
    <3>1. f[c] \in U /\ T.ch[f[c]][0] = NIL /\ lo[f[c]] = lo[c] /\ hi[f[c]] <= hi[c]
      BY <1>5, <2>1, <2>2, <2>5
    <3>2. lo[c] = lo[m] /\ hi[c] = T.key[m]
      BY <2>2, <2>5, NodeIs
    <3>3. hi[f[c]] \in Int
      BY <3>1, NodeIs
    <3> QED BY <2>1, <2>3, <2>5, <3>1, <3>2, <3>3
  <2> QED BY <2>4, <2>5
<1>6. U \subseteq S
  <2> HIDE DEF S
  <2> QED BY <1>5, TreeInduction
<1>7. CASE T.ch[n][1] = NIL
  BY <1>3, <1>7 DEF SuccessorIs
<1>8. CASE T.ch[n][1] # NIL
  <2>1. PICK c : c = T.ch[n][1]
    OBVIOUS
  <2>2. c \in U
    BY <1>8, <2>1, ChildIs DEF Sides
  <2>3. lo[c] = T.key[n] /\ hi[c] = hi[n]
    BY <1>8, <2>1, NodeIs
  <2>4. PICK r : r = f[c] /\ r \in U /\ T.ch[r][0] = NIL /\ lo[r] = lo[c] /\ hi[r] <= hi[c]
    BY <1>6, <2>2
  <2>5. r # n
    BY <2>3, <2>4, NodeIs
  <2> QED BY <1>3, <1>8, <2>1, <2>3, <2>4, <2>5 DEF SuccessorIs
<1> QED BY <1>7, <1>8

\* clear frees every node.
LEMMA ClearIs ==
  ASSUME NEW T, NEW U, NEW lo, NEW hi, Formed(T, U, lo, hi)
  PROVE  U \subseteq do_clear(T)
<1> DEFINE R == SUBSET All
           F == [x \in All \X R \X R |-> IF x[1] = NIL THEN {} ELSE x[2] \cup x[3] \cup {x[1]}]
           Is(w) == w = [n \in Nodes \cup {NIL} |->
                      IF n = NIL THEN {} ELSE w[T.ch[n][0]] \cup w[T.ch[n][1]] \cup {n}]
           f == CHOOSE w : Is(w)
<1>1. NIL \in All
  BY Numbers
<1>2. \E w : Is(w)
  <2>1. F \in [All \X R \X R -> R]
    <3>1. \A x \in All \X R \X R : x[1] \in All /\ x[2] \in R /\ x[3] \in R
      OBVIOUS
    <3> QED BY <1>1, <3>1
  <2>2. \A n \in All, a, b \in R : n # NIL => F[<<n, a, b>>] = a \cup b \cup {n}
    OBVIOUS
  <2>3. {} \in R
    OBVIOUS
  <2> HIDE DEF F, R
  <2>4. PICK w \in [All -> R] : TreeObeys(w, All, T.ch, {}, F)
    BY <2>1, <2>3, TypedFunction
  <2>5. ASSUME NEW n \in All, n # NIL PROVE T.ch[n][0] \in All /\ T.ch[n][1] \in All
    BY DEF Formed, Trees, Sides
  <2>6. ASSUME NEW n \in All
        PROVE  w[n] = IF n = NIL THEN {} ELSE w[T.ch[n][0]] \cup w[T.ch[n][1]] \cup {n}
    <3>1. w[n] = IF n = NIL THEN {} ELSE F[<<n, w[T.ch[n][0]], w[T.ch[n][1]]>>]
      BY <2>4, Zenon DEF TreeObeys
    <3>2. n # NIL => w[T.ch[n][0]] \in R /\ w[T.ch[n][1]] \in R
      BY <2>5
    <3>3. CASE n # NIL
      <4>1. PICK a \in R, b \in R : a = w[T.ch[n][0]] /\ b = w[T.ch[n][1]]
        BY <3>2, <3>3
      <4>2. w[n] = F[<<n, a, b>>]
        BY <3>1, <3>3, <4>1
      <4> QED BY <2>2, <3>3, <4>1, <4>2
    <3> QED BY <3>1, <3>3
  <2>7. w = [n \in All |-> w[n]]
    OBVIOUS
  <2>8. Is(w)
    BY <2>6, <2>7, Zenon DEF All
  <2> QED BY <2>8
<1>3. Is(f)
  BY <1>2, Zenon
<1>4. do_clear(T) = f[T.root]
  BY Zenon DEF do_clear
<1> HIDE DEF f
<1>5. ASSUME NEW n \in All, n # NIL PROVE f[n] = f[T.ch[n][0]] \cup f[T.ch[n][1]] \cup {n}
  BY <1>3, <1>5, Zenon DEF All
<1> DEFINE S == {n \in U : \A x \in U : lo[n] < T.key[x] /\ T.key[x] < hi[n] => x \in f[n]}
<1>6. ASSUME NEW n \in U, \A i \in Sides : T.ch[n][i] # NIL => T.ch[n][i] \in S PROVE n \in S
  <2> SUFFICES ASSUME NEW x \in U, lo[n] < T.key[x], T.key[x] < hi[n] PROVE x \in f[n]
    OBVIOUS
  <2>1. n \in All /\ n # NIL /\ 0 \in Sides /\ 1 \in Sides /\ T.key[x] \in Int /\ T.key[n] \in Int
    BY NodeIs DEF Sides
  <2>2. f[n] = f[T.ch[n][0]] \cup f[T.ch[n][1]] \cup {n}
    BY <1>5, <2>1
  <2>3. CASE x = n
    BY <2>2, <2>3
  <2>4. CASE x # n
    <3>1. T.key[x] # T.key[n] /\ T.ch[n][Bit(T.key[n] < T.key[x])] # NIL
      BY <2>4, Within, NoGap
    <3>2. CASE T.key[n] < T.key[x]
      <4>1. T.ch[n][1] # NIL
        BY <3>1, <3>2 DEF Bit
      <4>2. lo[T.ch[n][1]] = T.key[n] /\ hi[T.ch[n][1]] = hi[n]
        BY <4>1, NodeIs
      <4> QED BY <1>6, <2>1, <2>2, <3>2, <4>1, <4>2
    <3>3. CASE ~(T.key[n] < T.key[x])
      <4>1. T.ch[n][0] # NIL
        BY <3>1, <3>3 DEF Bit
      <4>2. lo[T.ch[n][0]] = lo[n] /\ hi[T.ch[n][0]] = T.key[n]
        BY <4>1, NodeIs
      <4>3. T.key[x] < T.key[n]
        BY <2>1, <3>1, <3>3
      <4> QED BY <1>6, <2>1, <2>2, <4>1, <4>2, <4>3
    <3> QED BY <3>2, <3>3
  <2> QED BY <2>3, <2>4
<1>7. U \subseteq S
  <2> HIDE DEF S
  <2> QED BY <1>6, TreeInduction
<1>8. CASE T.root = NIL
  BY <1>8 DEF Formed, Linked
<1>9. CASE T.root # NIL
  <2>1. T.root \in U /\ lo[T.root] = 0 /\ hi[T.root] = NKeys + 1
    BY <1>9 DEF Formed, Linked, Ordered
  <2>2. \A x \in U : 0 < T.key[x] /\ T.key[x] < NKeys + 1
    <3> TAKE x \in U
    <3>1. T.key[x] \in 1 .. NKeys /\ NKeys \in Nat
      BY NodeIs, Numbers
    <3> QED BY <3>1
  <2> QED BY <1>4, <1>7, <2>1, <2>2
<1> QED BY <1>8, <1>9

\* Two nodes have different keys.
LEMMA KeysDiffer ==
  ASSUME NEW T, NEW U, NEW lo, NEW hi, Formed(T, U, lo, hi), NEW x \in U, NEW y \in U, x # y
  PROVE  T.key[x] # T.key[y]
<1>1. lo[y] < T.key[y] /\ T.key[y] < hi[y]
  BY NodeIs
<1> QED BY <1>1, Within

\* s is the sorted list of the keys between l and h.
Lists(T, U, l, h, s) ==
  /\ s \in Seq(Int)
  /\ \A i, j \in 1 .. Len(s) : i < j => s[i] < s[j]
  /\ \A i \in 1 .. Len(s) : \E x \in U : s[i] = T.key[x] /\ l < T.key[x] /\ T.key[x] < h
  /\ \A x \in U : l < T.key[x] /\ T.key[x] < h => \E i \in 1 .. Len(s) : s[i] = T.key[x]

\* Two such lists with a key between them.
LEMMA ListsJoin ==
  ASSUME NEW T, NEW U, NEW l \in Int, NEW h \in Int, NEW n \in U, \A x \in U : T.key[x] \in Int,
         l < T.key[n], T.key[n] < h, \A x \in U : x # n => T.key[x] # T.key[n],
         NEW a, NEW b, Lists(T, U, l, T.key[n], a), Lists(T, U, T.key[n], h, b)
  PROVE  Lists(T, U, l, h, a \o <<T.key[n]>> \o b)
<1>1. PICK k \in Int : k = T.key[n]
  OBVIOUS
<1>2. a \in Seq(Int) /\ b \in Seq(Int) /\ <<k>> \in Seq(Int) /\ Len(<<k>>) = 1 /\ <<k>>[1] = k
  BY DEF Lists
<1>3. PICK p \in Nat, q \in Nat : p = Len(a) /\ q = Len(b)
  BY <1>2
<1>4. PICK c : c = a \o <<k>>
  OBVIOUS
<1>5. c \in Seq(Int) /\ Len(c) = p + 1 /\ \A i \in 1 .. p + 1 : c[i] = IF i <= p THEN a[i] ELSE <<k>>[i - p]
  BY <1>2, <1>3, <1>4, ConcatProperties
<1>6. \A i \in 1 .. p + 1 : c[i] = IF i <= p THEN a[i] ELSE k
  <2> TAKE i \in 1 .. p + 1
  <2>1. CASE i <= p
    BY <1>5, <2>1
  <2>2. CASE ~(i <= p)
    <3>1. i - p = 1
      BY <2>2
    <3> QED BY <1>2, <1>5, <2>2, <3>1
  <2> QED BY <2>1, <2>2
<1>7. PICK s : s = c \o b
  OBVIOUS
<1>8. /\ s \in Seq(Int) /\ Len(s) = p + 1 + q
      /\ \A i \in 1 .. p + 1 + q : s[i] = IF i <= p + 1 THEN c[i] ELSE b[i - (p + 1)]
  <2>1. PICK r \in Nat : r = Len(c) /\ r = p + 1
    BY <1>5
  <2>2. /\ s \in Seq(Int) /\ Len(s) = r + q
        /\ \A i \in 1 .. r + q : s[i] = IF i <= r THEN c[i] ELSE b[i - r]
    <3>1. b \in Seq(Int) /\ c \in Seq(Int)
      BY <1>2, <1>5
    <3>2. /\ c \o b \in Seq(Int) /\ Len(c \o b) = Len(c) + Len(b)
          /\ \A i \in 1 .. Len(c) + Len(b) : (c \o b)[i] = IF i <= Len(c) THEN c[i] ELSE b[i - Len(c)]
      BY <3>1, ConcatProperties
    <3> QED BY <1>3, <1>7, <2>1, <3>2, Zenon
  <2> QED BY <2>1, <2>2
<1>9. /\ \A i \in 1 .. p : s[i] = a[i]
      /\ s[p + 1] = k
      /\ \A i \in 1 .. q : s[p + 1 + i] = b[i]
  <2>1. \A i \in 1 .. p : s[i] = a[i]
    BY <1>6, <1>8
  <2>2. s[p + 1] = k
    <3>1. PICK j \in 1 .. p + 1 + q : j = p + 1 /\ j \in 1 .. p + 1 /\ j <= p + 1 /\ ~(j <= p)
      OBVIOUS
    <3>2. s[j] = c[j]
      BY <1>8, <3>1
    <3>3. c[j] = k
      BY <1>6, <3>1
    <3> QED BY <3>1, <3>2, <3>3
  <2>3. ASSUME NEW i \in 1 .. q PROVE s[p + 1 + i] = b[i]
    <3>1. PICK j \in 1 .. p + 1 + q : j = p + 1 + i
      OBVIOUS
    <3>2. ~(j <= p + 1) /\ j - (p + 1) = i
      BY <3>1
    <3> QED BY <1>8, <3>1, <3>2
  <2> QED BY <2>1, <2>2, <2>3
<1>10. ASSUME NEW i \in 1 .. p + 1 + q
       PROVE  i \in 1 .. p \/ i = p + 1 \/ \E j \in 1 .. q : i = p + 1 + j
  <2>1. CASE i > p + 1
    <3>1. i - (p + 1) \in 1 .. q /\ i = p + 1 + (i - (p + 1))
      BY <2>1
    <3> QED BY <3>1
  <2> QED BY <2>1
<1>11. /\ \A i \in 1 .. p : \E x \in U : a[i] = T.key[x] /\ l < T.key[x] /\ T.key[x] < k
       /\ \A x \in U : l < T.key[x] /\ T.key[x] < k => \E i \in 1 .. p : a[i] = T.key[x]
       /\ \A i, j \in 1 .. p : i < j => a[i] < a[j]
  BY <1>1, <1>3 DEF Lists
<1>12. /\ \A i \in 1 .. q : \E x \in U : b[i] = T.key[x] /\ k < T.key[x] /\ T.key[x] < h
       /\ \A x \in U : k < T.key[x] /\ T.key[x] < h => \E i \in 1 .. q : b[i] = T.key[x]
       /\ \A i, j \in 1 .. q : i < j => b[i] < b[j]
  BY <1>1, <1>3 DEF Lists
<1>13. (\A i \in 1 .. p : a[i] \in Int /\ a[i] < k) /\ (\A i \in 1 .. q : b[i] \in Int /\ k < b[i])
  BY <1>11, <1>12
<1>14. ASSUME NEW i \in 1 .. Len(s), NEW j \in 1 .. Len(s), i < j PROVE s[i] < s[j]
  <2>1. i \in 1 .. p \/ i = p + 1 \/ \E x \in 1 .. q : i = p + 1 + x
    BY <1>8, <1>10
  <2>2. j \in 1 .. p \/ j = p + 1 \/ \E x \in 1 .. q : j = p + 1 + x
    BY <1>8, <1>10
  <2>3. CASE i \in 1 .. p
    <3>1. s[i] = a[i] /\ a[i] < k /\ a[i] \in Int
      BY <1>9, <1>13, <2>3
    <3>2. CASE j \in 1 .. p
      BY <1>9, <1>11, <1>14, <2>3, <3>2
    <3>3. CASE j = p + 1
      BY <1>9, <3>1, <3>3
    <3>4. CASE \E x \in 1 .. q : j = p + 1 + x
      <4>1. PICK x \in 1 .. q : j = p + 1 + x
        BY <3>4
      <4>2. s[j] = b[x] /\ b[x] \in Int /\ k < b[x]
        BY <1>9, <1>13, <4>1
      <4> QED BY <3>1, <4>2
    <3> QED BY <2>2, <3>2, <3>3, <3>4
  <2>4. CASE i = p + 1
    <3>1. PICK x \in 1 .. q : j = p + 1 + x
      BY <1>14, <2>2, <2>4
    <3>2. s[j] = b[x] /\ k < b[x]
      BY <1>9, <1>13, <3>1
    <3> QED BY <1>9, <2>4, <3>2
  <2>5. CASE \E x \in 1 .. q : i = p + 1 + x
    <3>1. PICK x \in 1 .. q : i = p + 1 + x
      BY <2>5
    <3>2. PICK y \in 1 .. q : j = p + 1 + y
      BY <1>14, <2>2, <3>1
    <3>3. x < y
      BY <1>14, <3>1, <3>2
    <3>4. s[i] = b[x] /\ s[j] = b[y]
      BY <1>9, <3>1, <3>2
    <3> QED BY <1>12, <3>3, <3>4
  <2> QED BY <2>1, <2>3, <2>4, <2>5
<1>15. ASSUME NEW i \in 1 .. Len(s)
       PROVE  \E x \in U : s[i] = T.key[x] /\ l < T.key[x] /\ T.key[x] < h
  <2>1. CASE i \in 1 .. p
    <3>1. PICK x \in U : a[i] = T.key[x] /\ l < T.key[x] /\ T.key[x] < k
      BY <1>11, <2>1
    <3>2. T.key[x] < h
      BY <1>1, <3>1
    <3> QED BY <1>9, <2>1, <3>1, <3>2
  <2>2. CASE i = p + 1
    BY <1>1, <1>9, <2>2
  <2>3. CASE \E y \in 1 .. q : i = p + 1 + y
    <3>1. PICK y \in 1 .. q : i = p + 1 + y
      BY <2>3
    <3>2. PICK x \in U : b[y] = T.key[x] /\ k < T.key[x] /\ T.key[x] < h
      BY <1>12
    <3>3. l < T.key[x]
      BY <1>1, <3>2
    <3> QED BY <1>9, <3>1, <3>2, <3>3
  <2> QED BY <1>8, <1>10, <2>1, <2>2, <2>3
<1>16. ASSUME NEW x \in U, l < T.key[x], T.key[x] < h
       PROVE  \E i \in 1 .. Len(s) : s[i] = T.key[x]
  <2>1. CASE x = n
    <3>1. p + 1 \in 1 .. Len(s)
      BY <1>8
    <3> QED BY <1>1, <1>9, <2>1, <3>1
  <2>2. CASE x # n /\ T.key[x] < k
    <3>1. PICK i \in 1 .. p : a[i] = T.key[x]
      BY <1>11, <1>16, <2>2
    <3>2. i \in 1 .. Len(s) /\ s[i] = a[i]
      BY <1>8, <1>9
    <3> QED BY <3>1, <3>2
  <2>3. CASE x # n /\ ~(T.key[x] < k)
    <3>1. k < T.key[x]
      BY <1>1, <2>3
    <3>2. PICK i \in 1 .. q : b[i] = T.key[x]
      BY <1>12, <1>16, <3>1
    <3>3. p + 1 + i \in 1 .. Len(s) /\ s[p + 1 + i] = b[i]
      BY <1>8, <1>9
    <3> QED BY <3>2, <3>3
  <2> QED BY <2>1, <2>2, <2>3
<1>17. Lists(T, U, l, h, s)
  BY <1>8, <1>14, <1>15, <1>16 DEF Lists
<1> QED BY <1>1, <1>4, <1>7, <1>17

\* The empty list.
LEMMA ListsNone ==
  ASSUME NEW T, NEW U, NEW l, NEW h, \A x \in U : ~(l < T.key[x] /\ T.key[x] < h)
  PROVE  Lists(T, U, l, h, <<>>)
<1>1. <<>> \in Seq(Int) /\ Len(<<>>) = 0 /\ 1 .. 0 = {}
  OBVIOUS
<1> QED BY <1>1 DEF Lists

\* walk gives the keys of all nodes, each once, in increasing order.
LEMMA WalkIs ==
  ASSUME NEW T, NEW U, NEW lo, NEW hi, Formed(T, U, lo, hi)
  PROVE  Lists(T, U, 0, NKeys + 1, walk(T))
<1> DEFINE R == Seq(Keys)
           F == [x \in All \X R \X R |-> IF x[1] = NIL THEN <<>> ELSE x[2] \o <<T.key[x[1]]>> \o x[3]]
           Is(w) == w = [n \in Nodes \cup {NIL} |->
                      IF n = NIL THEN <<>> ELSE w[T.ch[n][0]] \o <<T.key[n]>> \o w[T.ch[n][1]]]
           f == CHOOSE w : Is(w)
<1>1. NIL \in All /\ \A n \in All : n # NIL => n \in Nodes /\ T.key[n] \in Keys
  BY Numbers DEF All, Formed, Trees
<1>2. \E w : Is(w)
  <2>1. F \in [All \X R \X R -> R]
    <3>1. \A x \in All \X R \X R : x[1] \in All /\ x[2] \in R /\ x[3] \in R
      OBVIOUS
    <3>2. ASSUME NEW n \in All, n # NIL, NEW a \in R, NEW b \in R PROVE a \o <<T.key[n]>> \o b \in R
      <4>1. <<T.key[n]>> \in R
        BY <1>1, <3>2
      <4> QED BY <4>1
    <3>3. <<>> \in R
      OBVIOUS
    <3> HIDE DEF R
    <3> QED BY <3>1, <3>2, <3>3
  <2>2. \A n \in All, a, b \in R : n # NIL => F[<<n, a, b>>] = a \o <<T.key[n]>> \o b
    OBVIOUS
  <2>3. <<>> \in R
    OBVIOUS
  <2> HIDE DEF F, R
  <2>4. PICK w \in [All -> R] : TreeObeys(w, All, T.ch, <<>>, F)
    BY <2>1, <2>3, TypedFunction
  <2>5. ASSUME NEW n \in All, n # NIL PROVE T.ch[n][0] \in All /\ T.ch[n][1] \in All
    BY DEF Formed, Trees, Sides
  <2>6. ASSUME NEW n \in All
        PROVE  w[n] = IF n = NIL THEN <<>> ELSE w[T.ch[n][0]] \o <<T.key[n]>> \o w[T.ch[n][1]]
    <3>1. w[n] = IF n = NIL THEN <<>> ELSE F[<<n, w[T.ch[n][0]], w[T.ch[n][1]]>>]
      BY <2>4, Zenon DEF TreeObeys
    <3>2. n # NIL => w[T.ch[n][0]] \in R /\ w[T.ch[n][1]] \in R
      BY <2>5
    <3>3. CASE n # NIL
      <4>1. PICK a \in R, b \in R : a = w[T.ch[n][0]] /\ b = w[T.ch[n][1]]
        BY <3>2, <3>3
      <4>2. w[n] = F[<<n, a, b>>]
        BY <3>1, <3>3, <4>1
      <4>3. w[n] = a \o <<T.key[n]>> \o b
        BY <2>2, <3>3, <4>2
      <4> QED BY <3>3, <4>1, <4>3, Zenon
    <3> QED BY <3>1, <3>3
  <2>7. w = [n \in All |-> w[n]]
    OBVIOUS
  <2>8. Is(w)
    BY <2>6, <2>7, Zenon DEF All
  <2> QED BY <2>8
<1>3. Is(f)
  BY <1>2, Zenon
<1>4. walk(T) = f[T.root]
  BY Zenon DEF walk
<1> HIDE DEF f
<1>5. ASSUME NEW n \in All, n # NIL PROVE f[n] = f[T.ch[n][0]] \o <<T.key[n]>> \o f[T.ch[n][1]]
  BY <1>3, <1>5, Zenon DEF All
<1>6. f[NIL] = <<>>
  BY <1>1, <1>3, Zenon DEF All
<1> DEFINE S == {n \in U : Lists(T, U, lo[n], hi[n], f[n])}
<1>7. ASSUME NEW n \in U, \A i \in Sides : T.ch[n][i] # NIL => T.ch[n][i] \in S PROVE n \in S
  <2>1. /\ n \in All /\ n # NIL /\ 0 \in Sides /\ 1 \in Sides /\ T.key[n] \in Int
        /\ lo[n] \in Int /\ hi[n] \in Int /\ lo[n] < T.key[n] /\ T.key[n] < hi[n]
    BY NodeIs DEF Sides
  <2>2. PICK a, b : a = f[T.ch[n][0]] /\ b = f[T.ch[n][1]]
    OBVIOUS
  <2>3. f[n] = a \o <<T.key[n]>> \o b
    BY <1>5, <2>1, <2>2
  <2>4. \A x \in U : T.key[x] \in Int
    BY NodeIs
  <2>5. \A x \in U : x # n => T.key[x] # T.key[n]
    BY KeysDiffer
  <2>6. Lists(T, U, lo[n], T.key[n], a)
    <3>1. CASE T.ch[n][0] = NIL
      <4>1. ASSUME NEW x \in U, lo[n] < T.key[x], T.key[x] < T.key[n] PROVE FALSE
        <5>1. x # n /\ T.key[x] < hi[n] /\ ~(T.key[n] < T.key[x])
          BY <2>1, <2>4, <4>1
        <5>2. T.ch[n][Bit(T.key[n] < T.key[x])] # NIL
          BY <4>1, <5>1, NoGap
        <5> QED BY <3>1, <5>1, <5>2 DEF Bit
      <4>2. a = <<>>
        BY <1>6, <2>2, <3>1
      <4>3. PICK k : k = T.key[n]
        OBVIOUS
      <4>4. \A x \in U : ~(lo[n] < T.key[x] /\ T.key[x] < k)
        BY <4>1, <4>3
      <4>5. Lists(T, U, lo[n], k, <<>>)
        BY <4>4, ListsNone
      <4> QED BY <4>2, <4>3, <4>5
    <3>2. CASE T.ch[n][0] # NIL
      <4>1. lo[T.ch[n][0]] = lo[n] /\ hi[T.ch[n][0]] = T.key[n]
        BY <3>2, NodeIs
      <4>2. T.ch[n][0] \in S
        BY <1>7, <2>1, <3>2
      <4>3. Lists(T, U, lo[T.ch[n][0]], hi[T.ch[n][0]], f[T.ch[n][0]])
        BY <4>2
      <4> QED BY <2>2, <4>1, <4>3
    <3> QED BY <3>1, <3>2
  <2>7. Lists(T, U, T.key[n], hi[n], b)
    <3>1. CASE T.ch[n][1] = NIL
      <4>1. ASSUME NEW x \in U, T.key[n] < T.key[x], T.key[x] < hi[n] PROVE FALSE
        <5>1. x # n /\ lo[n] < T.key[x]
          BY <2>1, <2>4, <4>1
        <5>2. T.ch[n][Bit(T.key[n] < T.key[x])] # NIL
          BY <4>1, <5>1, NoGap
        <5> QED BY <3>1, <4>1, <5>2 DEF Bit
      <4>2. b = <<>>
        BY <1>6, <2>2, <3>1
      <4>3. PICK k : k = T.key[n]
        OBVIOUS
      <4>4. \A x \in U : ~(k < T.key[x] /\ T.key[x] < hi[n])
        BY <4>1, <4>3
      <4>5. Lists(T, U, k, hi[n], <<>>)
        BY <4>4, ListsNone
      <4> QED BY <4>2, <4>3, <4>5
    <3>2. CASE T.ch[n][1] # NIL
      <4>1. lo[T.ch[n][1]] = T.key[n] /\ hi[T.ch[n][1]] = hi[n]
        BY <3>2, NodeIs
      <4>2. T.ch[n][1] \in S
        BY <1>7, <2>1, <3>2
      <4>3. Lists(T, U, lo[T.ch[n][1]], hi[T.ch[n][1]], f[T.ch[n][1]])
        BY <4>2
      <4> QED BY <2>2, <4>1, <4>3
    <3> QED BY <3>1, <3>2
  <2>8. PICK l \in Int, h \in Int : l = lo[n] /\ h = hi[n]
    BY <2>1
  <2>9. Lists(T, U, l, h, a \o <<T.key[n]>> \o b)
    <3>1. l < T.key[n] /\ T.key[n] < h /\ Lists(T, U, l, T.key[n], a) /\ Lists(T, U, T.key[n], h, b)
      BY <2>1, <2>6, <2>7, <2>8
    <3> QED BY <2>4, <2>5, <3>1, ListsJoin
  <2>10. Lists(T, U, lo[n], hi[n], f[n])
    BY <2>3, <2>8, <2>9
  <2> QED BY <2>10
<1>8. U \subseteq S
  <2> HIDE DEF S
  <2> QED BY <1>7, TreeInduction
<1>9. CASE T.root = NIL
  <2>1. U = {}
    BY <1>9 DEF Formed, Linked
  <2>2. \A x \in U : ~(0 < T.key[x] /\ T.key[x] < NKeys + 1)
    BY <2>1
  <2>3. Lists(T, U, 0, NKeys + 1, <<>>)
    BY <2>2, ListsNone
  <2> QED BY <1>4, <1>6, <1>9, <2>3
<1>10. CASE T.root # NIL
  <2>1. T.root \in U /\ lo[T.root] = 0 /\ hi[T.root] = NKeys + 1
    BY <1>10 DEF Formed, Linked, Ordered
  <2>2. Lists(T, U, lo[T.root], hi[T.root], f[T.root])
    BY <1>8, <2>1
  <2> QED BY <1>4, <2>1, <2>2
<1> QED BY <1>9, <1>10

\* As SearchTree states it.
LEMMA WalkSorted ==
  ASSUME NEW T, NEW U, NEW lo, NEW hi, Formed(T, U, lo, hi), NEW s, s = walk(T)
  PROVE  (\A i \in 1 .. Len(s) - 1 : s[i] < s[i + 1]) /\ Len(s) = Cardinality(U)
<1>1. PICK h : h = NKeys + 1 /\ Lists(T, U, 0, h, s)
  BY WalkIs
<1>2. /\ s \in Seq(Int) /\ Len(s) \in Nat
      /\ \A i, j \in 1 .. Len(s) : i < j => s[i] < s[j]
      /\ \A i \in 1 .. Len(s) : \E x \in U : s[i] = T.key[x]
      /\ \A x \in U : 0 < T.key[x] /\ T.key[x] < h => \E i \in 1 .. Len(s) : s[i] = T.key[x]
  BY <1>1 DEF Lists
<1>3. ASSUME NEW i \in 1 .. Len(s) - 1 PROVE s[i] < s[i + 1]
  <2>1. i \in 1 .. Len(s) /\ i + 1 \in 1 .. Len(s) /\ i < i + 1
    BY <1>2
  <2> QED BY <1>2, <2>1
<1>4. \A x \in U : 0 < T.key[x] /\ T.key[x] < h
  <2> TAKE x \in U
  <2>1. T.key[x] \in 1 .. NKeys /\ NKeys \in Nat
    BY NodeIs, Numbers
  <2> QED BY <1>1, <2>1
<1> DEFINE D == 1 .. Len(s)
           g == [i \in D |-> CHOOSE x \in U : s[i] = T.key[x]]
<1>5. ASSUME NEW i \in D PROVE g[i] \in U /\ s[i] = T.key[g[i]]
  <2>1. \E x \in U : s[i] = T.key[x]
    BY <1>2
  <2> QED BY <2>1
<1>6. g = [i \in D |-> g[i]]
  OBVIOUS
<1> HIDE DEF g
<1>7. g \in [D -> U]
  BY <1>5, <1>6
<1>8. ASSUME NEW i \in D, NEW j \in D, g[i] = g[j] PROVE i = j
  <2>1. s[i] = s[j] /\ s[i] \in Int
    BY <1>2, <1>5, <1>8
  <2>2. ~(i < j) /\ ~(j < i)
    BY <1>2, <2>1
  <2> QED BY <2>2
<1>9. ASSUME NEW x \in U PROVE \E i \in D : g[i] = x
  <2>1. PICK i \in D : s[i] = T.key[x]
    BY <1>2, <1>4
  <2>2. g[i] \in U /\ T.key[g[i]] = T.key[x]
    BY <1>5, <2>1
  <2>3. g[i] = x
    BY <2>2, KeysDiffer
  <2> QED BY <2>3
<1>10. ExistsBijection(D, U)
  <2> HIDE DEF D
  <2>1. g \in Injection(D, U)
    BY <1>7, <1>8 DEF Injection, IsInjective
  <2>2. g \in Surjection(D, U)
    BY <1>7, <1>9 DEF Surjection
  <2> QED BY <2>1, <2>2 DEF ExistsBijection, Bijection
<1>11. Cardinality(U) = Len(s)
  BY <1>2, <1>10, FS_CountingElements
<1> QED BY <1>3, <1>11

\* The black heights are those of the invariant.
LEMMA BlackHeightsIs ==
  ASSUME NEW T, NEW U, NEW lo, NEW hi, Formed(T, U, lo, hi), NEW bh, Heights(T, U, {}, bh)
  PROVE  BlackHeights(T, T.root) = {bh[T.root]}
<1> DEFINE R == SUBSET Nat
           F == [x \in All \X R \X R |-> IF x[1] = NIL THEN {0} ELSE {h + Bit(~T.red[x[1]]) : h \in x[2] \cup x[3]}]
           Is(w) == w = [m \in Nodes \cup {NIL} |->
                      IF m = NIL THEN {0}
                      ELSE {h + Bit(~T.red[m]) : h \in w[T.ch[m][0]] \cup w[T.ch[m][1]]}]
           f == CHOOSE w : Is(w)
<1>1. NIL \in All
  BY Numbers
<1>2. \E w : Is(w)
  <2>1. F \in [All \X R \X R -> R]
    <3>1. \A x \in All \X R \X R : x[1] \in All /\ x[2] \in R /\ x[3] \in R
      OBVIOUS
    <3>2. ASSUME NEW n \in All, NEW a \in R, NEW b \in R
          PROVE  {h + Bit(~T.red[n]) : h \in a \cup b} \in R
      <4>1. Bit(~T.red[n]) \in Nat
        BY DEF Bit
      <4> QED BY <4>1
    <3>3. {0} \in R
      OBVIOUS
    <3> HIDE DEF R
    <3> QED BY <3>1, <3>2, <3>3
  <2>2. \A n \in All, a, b \in R : n # NIL => F[<<n, a, b>>] = {h + Bit(~T.red[n]) : h \in a \cup b}
    <3> HIDE DEF R
    <3> QED OBVIOUS
  <2>3. {0} \in R
    OBVIOUS
  <2> HIDE DEF F, R
  <2>4. PICK w \in [All -> R] : TreeObeys(w, All, T.ch, {0}, F)
    BY <2>1, <2>3, TypedFunction
  <2>5. ASSUME NEW n \in All, n # NIL PROVE T.ch[n][0] \in All /\ T.ch[n][1] \in All
    BY DEF Formed, Trees, Sides
  <2>6. ASSUME NEW n \in All
        PROVE  w[n] = IF n = NIL THEN {0}
                      ELSE {h + Bit(~T.red[n]) : h \in w[T.ch[n][0]] \cup w[T.ch[n][1]]}
    <3>1. w[n] = IF n = NIL THEN {0} ELSE F[<<n, w[T.ch[n][0]], w[T.ch[n][1]]>>]
      BY <2>4, Zenon DEF TreeObeys
    <3>2. n # NIL => w[T.ch[n][0]] \in R /\ w[T.ch[n][1]] \in R
      BY <2>5
    <3>3. CASE n # NIL
      <4>1. PICK a \in R, b \in R : a = w[T.ch[n][0]] /\ b = w[T.ch[n][1]]
        BY <3>2, <3>3
      <4>2. w[n] = F[<<n, a, b>>]
        BY <3>1, <3>3, <4>1
      <4>3. w[n] = {h + Bit(~T.red[n]) : h \in a \cup b}
        BY <2>2, <3>3, <4>2, Zenon
      <4> QED BY <3>3, <4>1, <4>3, Zenon
    <3> QED BY <3>1, <3>3, Zenon
  <2>7. w = [n \in All |-> w[n]]
    OBVIOUS
  <2>8. Is(w)
    BY <2>6, <2>7, Zenon DEF All
  <2> QED BY <2>8
<1>3. Is(f)
  BY <1>2, Zenon
<1>4. BlackHeights(T, T.root) = f[T.root]
  BY Zenon DEF BlackHeights
<1> HIDE DEF f
<1>5. ASSUME NEW n \in All, n # NIL
      PROVE  f[n] = {h + Bit(~T.red[n]) : h \in f[T.ch[n][0]] \cup f[T.ch[n][1]]}
  BY <1>3, <1>5, Zenon DEF All
<1>6. f[NIL] = {0}
  BY <1>1, <1>3, Zenon DEF All
<1> DEFINE S == {n \in U : f[n] = {bh[n]}}
<1>7. Family(T, U)
  BY FamilyIs
<1>8. /\ bh \in [All -> Nat] /\ bh[NIL] = 0
      /\ \A n \in U : \A i \in Sides : /\ bh[n] = bh[T.ch[n][i]] + (IF T.red[n] THEN 0 ELSE 1)
                                       /\ bh[n] \in Nat /\ bh[T.ch[n][i]] \in Nat
  BY <1>7, NoneHeights
<1>9. ASSUME NEW n \in U, \A i \in Sides : T.ch[n][i] # NIL => T.ch[n][i] \in S PROVE n \in S
  <2>1. n \in All /\ n # NIL /\ 0 \in Sides /\ 1 \in Sides
    BY NodeIs DEF Sides
  <2> DEFINE k == Bit(~T.red[n])
  <2>a. f[n] = {h + k : h \in f[T.ch[n][0]] \cup f[T.ch[n][1]]}
    BY <1>5, <2>1, Zenon
  <2>2. k \in Nat /\ k = IF T.red[n] THEN 0 ELSE 1
    BY DEF Bit
  <2> HIDE DEF k
  <2>3. PICK a \in Nat : a = bh[T.ch[n][0]] /\ a = bh[T.ch[n][1]] /\ bh[n] = a + k
    <3>1. PICK x \in Nat, y \in Nat, z \in Nat : x = bh[T.ch[n][0]] /\ y = bh[T.ch[n][1]] /\ z = bh[n]
      BY <1>8, <2>1
    <3>2. z = x + k /\ z = y + k
      BY <1>8, <2>1, <2>2, <3>1
    <3>3. x = y
      BY <2>2, <3>2
    <3> QED BY <3>1, <3>2, <3>3
  <2>4. f[T.ch[n][0]] = {a} /\ f[T.ch[n][1]] = {a}
    <3>1. \A i \in Sides : f[T.ch[n][i]] = {bh[T.ch[n][i]]}
      BY <1>6, <1>8, <1>9
    <3> QED BY <2>1, <2>3, <3>1
  <2>5. f[n] = {h + k : h \in {a}}
    <3>2. f[T.ch[n][0]] \cup f[T.ch[n][1]] = {a}
      BY <2>4
    <3> QED BY <2>a, <3>2, Zenon
  <2>6. f[n] = {bh[n]}
    BY <2>3, <2>5
  <2> QED BY <2>6
<1>10. U \subseteq S
  <2> HIDE DEF S
  <2> QED BY <1>9, TreeInduction
<1>11. T.root \in U \cup {NIL}
  BY DEF Formed, Linked
<1> QED BY <1>4, <1>6, <1>8, <1>10, <1>11

----------------------------------------------------------------------------
(***************************************************************************)
(* insert before its loop.                                                 *)
(***************************************************************************)

\* There is a free node for a new key.
LEMMA NewNodeIs ==
  ASSUME NEW lo, NEW hi, Formed(tree, used, lo, hi), NEW v \in Keys,
         \A x \in used : tree.key[x] # v
  PROVE  NewNode(v) \in Nodes \ used
<1>1. v \in Nodes /\ Keys = Nodes
  BY Numbers
<1>2. \E n \in Nodes : n \notin used
  <2> SUFFICES ASSUME \A n \in Nodes : n \in used PROVE FALSE
    OBVIOUS
  <2>1. used = Nodes /\ tree.key \in [Nodes -> Keys]
    BY DEF Formed, Trees
  <2>2. PICK k, N : k = tree.key /\ N = Nodes
    OBVIOUS
  <2>3. k \in [N -> N] /\ \A a, b \in N : k[a] = k[b] => a = b
    BY <1>1, <2>1, <2>2, KeysDiffer
  <2>4. k \in Injection(N, N)
    BY <2>3 DEF Injection, IsInjective
  <2>5. IsFiniteSet(N)
    <3>1. IsFiniteSet(1 .. NKeys)
      BY Numbers, FS_Interval
    <3> QED BY <2>2, <3>1 DEF Nodes
  <2>6. k \in Surjection(N, N)
    BY <2>4, <2>5, FS_Injection
  <2>7. PICK x \in N : k[x] = v
    BY <1>1, <2>2, <2>6 DEF Surjection
  <2> QED BY <2>1, <2>2, <2>7
<1>3. \E n \in Nodes \ used : TRUE
  BY <1>2
<1>4. (CHOOSE n \in Nodes \ used : TRUE) \in Nodes \ used
  BY <1>3, Zenon
<1> QED BY <1>1, <1>4 DEF NewNode

\* S is T with the leaf n, which has key v, and which is red if r.
Grown(S, T, n, v, p, r) ==
  /\ S \in Trees /\ S.key[n] = v /\ S.par[n] = p /\ S.red[n] = r
  /\ \A j \in Sides : S.ch[n][j] = NIL
  /\ \A x \in Nodes : x # n => S.key[x] = T.key[x]
  /\ \A x \in All : x # n => S.par[x] = T.par[x]
  /\ \A x \in All : x # n => S.red[x] = T.red[x]
  /\ \A x \in All : x # n => S.ch[x] = T.ch[x]
  /\ S.root = T.root

\* Leaf makes it.
LEMMA LeafIs ==
  ASSUME NEW T \in Trees, NEW n \in Nodes, NEW v \in Keys, NEW p \in All, NEW r \in BOOLEAN
  PROVE  Grown(Leaf(T, n, v, p, r), T, n, v, p, r)
<1>1. n \in All /\ NIL \in All
  BY Numbers
<1> DEFINE none == [i \in {0, 1} |-> NIL]
           k == [T.key EXCEPT ![n] = v]
           q == [T.par EXCEPT ![n] = p]
           d == [T.red EXCEPT ![n] = r]
           c == [T.ch EXCEPT ![n] = none]
<1>2. none \in [Sides -> All] /\ \A j \in Sides : none[j] = NIL
  BY <1>1 DEF Sides
<1> HIDE DEF none
<1>3. k \in [Nodes -> Keys] /\ k[n] = v /\ \A x \in Nodes : x # n => k[x] = T.key[x]
  BY DEF Trees
<1>4. q \in [All -> All] /\ q[n] = p /\ \A x \in All : x # n => q[x] = T.par[x]
  BY <1>1 DEF Trees
<1>5. d \in [All -> BOOLEAN] /\ d[n] = r /\ \A x \in All : x # n => d[x] = T.red[x]
  <2>1. T.red \in [All -> BOOLEAN]
    BY DEF Trees
  <2> QED BY <1>1, <2>1
<1>6. c \in [All -> [Sides -> All]] /\ c[n] = none /\ \A x \in All : x # n => c[x] = T.ch[x]
  BY <1>1, <1>2 DEF Trees
<1>7. PICK S : S = Leaf(T, n, v, p, r)
  OBVIOUS
<1>8. S = [T EXCEPT !.key = k, !.par = q, !.red = d, !.ch = c]
  <2>1. S = [T EXCEPT !.key[n] = v, !.par[n] = p, !.red[n] = r, !.ch[n] = none]
    BY <1>7, Zenon DEF Leaf, none
  <2> QED BY <2>1 DEF Trees
<1> HIDE DEF k, q, d, c
<1>9. S.root = T.root /\ S.par = q /\ S.red = d /\ S.ch = c /\ S.key = k
  BY <1>8 DEF Trees
<1>10. S \in Trees
  BY <1>3, <1>4, <1>5, <1>6, <1>8 DEF Trees
<1>11. Grown(S, T, n, v, p, r)
  BY <1>2, <1>3, <1>4, <1>5, <1>6, <1>9, <1>10 DEF Grown
<1> QED BY <1>7, <1>11

\* What insert makes of an empty tree, and of another.
FirstNode(T, n, v) == [Leaf(T, n, v, NIL, FALSE) EXCEPT !.root = n]

NewLeaf(T, n, v, p) == [Leaf(T, n, v, p, TRUE) EXCEPT !.ch[p][Bit(T.key[p] < v)] = n]

\* The first node of a tree.
LEMMA InsertFirst ==
  ASSUME NEW T, NEW U, NEW lo, NEW hi, Formed(T, U, lo, hi), T.root = NIL, Idle(T, U),
         NEW n \in Nodes, NEW v \in Keys, NEW S, S = FirstNode(T, n, v)
  PROVE  /\ Idle(S, U \cup {n}) /\ U = {} /\ S.key[n] = v
<1>1. n \in All /\ NIL \in All /\ n # NIL /\ T \in Trees /\ U = {} /\ FALSE \in BOOLEAN
  BY Numbers DEF Formed, Linked
<1>2. PICK R, r : R = Leaf(T, n, v, NIL, r) /\ r = FALSE
  OBVIOUS
<1>3. Grown(R, T, n, v, NIL, r)
  BY <1>1, <1>2, LeafIs, Zenon
<1>4. S = [R EXCEPT !.root = n]
  BY <1>2, Zenon DEF FirstNode
<1>5. R \in Trees
  BY <1>3 DEF Grown
<1>6. /\ S \in Trees /\ S.root = n /\ S.par = R.par /\ S.red = R.red /\ S.ch = R.ch /\ S.key = R.key
  BY <1>1, <1>4, <1>5 DEF Trees
<1>7. /\ S.key[n] = v /\ S.par[n] = NIL /\ ~S.red[n] /\ \A j \in Sides : S.ch[n][j] = NIL
  BY <1>2, <1>3, <1>6 DEF Grown
<1>a. \A x \in All : x # n => S.red[x] = T.red[x]
  BY <1>3, <1>6 DEF Grown
<1>b. \A x \in All : x # n => S.ch[x] = T.ch[x]
  BY <1>3, <1>6 DEF Grown
<1>8. U \cup {n} = {n}
  BY <1>1
<1>9. Linked(S, {n})
  <2>1. \A x \in All \ {n} : \A i \in Sides : S.ch[x][i] = NIL
    <3>1. \A x \in All : \A i \in Sides : T.ch[x][i] = NIL
      BY <1>1 DEF Formed, Linked
    <3> QED BY <1>b, <3>1
  <2> QED BY <1>1, <1>6, <1>7, <2>1 DEF Linked
<1>10. PICK l, h : l = [x \in Nodes |-> 0] /\ h = [x \in Nodes |-> NKeys + 1]
  OBVIOUS
<1>11. Ordered(S, {n}, l, h)
  <2>1. v \in 1 .. NKeys /\ NKeys \in Nat
    BY Numbers DEF Keys
  <2>2. 0 \in 0 .. NKeys + 1 /\ NKeys + 1 \in 0 .. NKeys + 1 /\ 0 < v /\ v < NKeys + 1
    BY <2>1
  <2>3. /\ l \in [Nodes -> 0 .. NKeys + 1] /\ h \in [Nodes -> 0 .. NKeys + 1]
        /\ l[n] = 0 /\ h[n] = NKeys + 1
    BY <1>10, <2>2
  <2>4. S.ch[n][0] = NIL /\ S.ch[n][1] = NIL
    BY <1>7 DEF Sides
  <2> QED BY <1>6, <1>7, <2>2, <2>3, <2>4 DEF Ordered
<1>12. Shaped(S, {n})
  BY <1>6, <1>9, <1>11 DEF Shaped, Formed
<1>13. Coloured(S, {n}, NIL, NIL)
  <2>1. ~T.red[NIL]
    BY DEF Idle, Coloured
  <2>2. ~S.red[NIL]
    BY <1>1, <1>a, <2>1
  <2> QED BY <1>6, <1>7, <2>2 DEF Coloured
<1>14. Balanced(S, {n}, {})
  <2> DEFINE b == [x \in All |-> IF x = n THEN 1 ELSE 0]
  <2>1. b \in [All -> Nat] /\ b[NIL] = 0 /\ b[n] = 1
    BY <1>1
  <2> HIDE DEF b
  <2>2. ASSUME NEW i \in Sides PROVE b[n] = b[S.ch[n][i]] + Weight(S, {}, n, i)
    <3>1. Weight(S, {}, n, i) = IF S.red[n] THEN 0 ELSE 1
      BY WeightNone
    <3>2. Weight(S, {}, n, i) = 1
      BY <1>7, <3>1
    <3>3. b[S.ch[n][i]] = 0
      BY <1>7, <2>1
    <3> QED BY <2>1, <3>2, <3>3
  <2>3. Heights(S, {n}, {}, b)
    BY <2>1, <2>2 DEF Heights
  <2> QED BY <2>3 DEF Balanced
<1> QED BY <1>1, <1>7, <1>8, <1>12, <1>13, <1>14 DEF Idle

\* S is T with the red leaf n under p on the side i.
Hung(S, T, n, v, p, i) ==
  /\ S \in Trees /\ S.key[n] = v /\ S.par[n] = p /\ S.red[n] /\ S.root = T.root
  /\ \A j \in Sides : S.ch[n][j] = NIL
  /\ \A x \in Nodes : x # n => S.key[x] = T.key[x]
  /\ \A x \in All : x # n => S.par[x] = T.par[x]
  /\ \A x \in All : x # n => S.red[x] = T.red[x]
  /\ \A x \in All : x # n => \A j \in Sides : S.ch[x][j] = IF x = p /\ j = i THEN n ELSE T.ch[x][j]

\* insert makes it.
LEMMA HungIs ==
  ASSUME NEW T \in Trees, NEW n \in Nodes, NEW v \in Keys, NEW p \in Nodes, p # n, NEW i \in Sides,
         NEW S, S = [Leaf(T, n, v, p, TRUE) EXCEPT !.ch[p][i] = n]
  PROVE  Hung(S, T, n, v, p, i)
<1>1. n \in All /\ p \in All
  BY Numbers
<1>2. PICK R, r : R = Leaf(T, n, v, p, r) /\ r = TRUE
  OBVIOUS
<1>3. Grown(R, T, n, v, p, r)
  BY <1>1, <1>2, LeafIs, Zenon
<1>4. S = [R EXCEPT !.ch[p][i] = n]
  BY <1>2, Zenon
<1>5. R \in Trees
  BY <1>3 DEF Grown
<1> DEFINE c == [R.ch EXCEPT ![p][i] = n]
<1>6. /\ c \in [All -> [Sides -> All]] /\ c[p][i] = n
      /\ \A x \in All : x # p => c[x] = R.ch[x]
      /\ \A j \in Sides : j # i => c[p][j] = R.ch[p][j]
  BY <1>1, <1>5 DEF Trees
<1>7. S = [R EXCEPT !.ch = c]
  BY <1>4, <1>5 DEF Trees
<1> HIDE DEF c
<1>8. S \in Trees /\ S.root = R.root /\ S.par = R.par /\ S.red = R.red /\ S.ch = c /\ S.key = R.key
  BY <1>5, <1>6, <1>7 DEF Trees
<1>a. (\A j \in Sides : R.ch[n][j] = NIL) /\ \A x \in All : x # n => R.ch[x] = T.ch[x]
  BY <1>3 DEF Grown
<1>9. \A j \in Sides : S.ch[n][j] = NIL
  BY <1>1, <1>6, <1>8, <1>a, ZenonT(60)
<1>10. ASSUME NEW x \in All, x # n, NEW j \in Sides
       PROVE  S.ch[x][j] = IF x = p /\ j = i THEN n ELSE T.ch[x][j]
  <2>1. R.ch[x] = T.ch[x]
    BY <1>10, <1>a
  <2>2. CASE x = p
    <3>1. CASE j = i
      <4>1. S.ch[x][j] = n
        BY <1>6, <1>8, <2>2, <3>1, Zenon
      <4> QED BY <2>2, <3>1, <4>1
    <3>2. CASE j # i
      BY <1>6, <1>8, <2>1, <2>2, <3>2
    <3> QED BY <3>1, <3>2
  <2>3. CASE x # p
    <3>1. S.ch[x] = T.ch[x]
      BY <1>6, <1>8, <2>1, <2>3, Zenon
    <3>2. S.ch[x][j] = T.ch[x][j] /\ ~(x = p /\ j = i)
      BY <2>3, <3>1, Zenon
    <3> QED BY <3>2, Zenon
  <2> QED BY <2>2, <2>3
<1>11. /\ S.key[n] = v /\ S.par[n] = p /\ S.root = T.root
       /\ \A x \in Nodes : x # n => S.key[x] = T.key[x]
       /\ \A x \in All : x # n => S.par[x] = T.par[x]
  BY <1>3, <1>8 DEF Grown
<1>12. S.red[n] /\ \A x \in All : x # n => S.red[x] = T.red[x]
  BY <1>2, <1>3, <1>8, ZenonT(60) DEF Grown
<1> QED BY <1>8, <1>9, <1>10, <1>11, <1>12 DEF Hung

\* The links with the new leaf.
LEMMA HungLinks ==
  ASSUME NEW T, NEW U, NEW lo, NEW hi, Formed(T, U, lo, hi), NEW n \in Nodes, n \notin U,
         NEW p \in U, NEW i \in Sides, T.ch[p][i] = NIL, NEW v, NEW S, Hung(S, T, n, v, p, i)
  PROVE  Linked(S, U \cup {n})
<1>1. /\ T.root \in U \cup {NIL} /\ (T.root = NIL => U = {}) /\ (T.root # NIL => T.par[T.root] = NIL)
      /\ \A x \in U : \A j \in Sides :
           T.ch[x][j] \in U \cup {NIL} /\ (T.ch[x][j] # NIL => T.par[T.ch[x][j]] = x)
      /\ \A x \in U : x # T.root => T.par[x] \in U /\ \E j \in Sides : T.ch[T.par[x]][j] = x
      /\ \A x \in All \ U : \A j \in Sides : T.ch[x][j] = NIL
  BY DEF Formed, Linked
<1>2. /\ S.par[n] = p /\ S.root = T.root
      /\ \A j \in Sides : S.ch[n][j] = NIL
      /\ \A x \in All : x # n => S.par[x] = T.par[x]
      /\ \A x \in All : x # n => \A j \in Sides : S.ch[x][j] = IF x = p /\ j = i THEN n ELSE T.ch[x][j]
  BY DEF Hung
<1>3. /\ \A x \in U : x \in All /\ x # NIL /\ x # n
      /\ n \in All /\ n # NIL /\ NIL \in All
  BY NodeIs, Numbers
<1>4. S.root \in U \cup {n} \cup {NIL} /\ (S.root = NIL => U \cup {n} = {}) /\ (S.root # NIL => S.par[S.root] = NIL)
  BY <1>1, <1>2, <1>3
<1>5. ASSUME NEW x \in U \cup {n}, NEW j \in Sides
      PROVE  S.ch[x][j] \in U \cup {n} \cup {NIL} /\ (S.ch[x][j] # NIL => S.par[S.ch[x][j]] = x)
  <2>1. CASE x = n
    BY <1>2, <2>1
  <2>2. CASE x = p /\ j = i
    BY <1>2, <1>3, <2>2
  <2>3. CASE x # n /\ ~(x = p /\ j = i)
    <3>1. S.ch[x][j] = T.ch[x][j]
      BY <1>2, <1>3, <2>3
    <3>2. T.ch[x][j] # NIL => T.ch[x][j] \in U /\ T.par[T.ch[x][j]] = x
      BY <1>1, <2>3
    <3>3. T.ch[x][j] # NIL => S.par[T.ch[x][j]] = x
      BY <1>2, <1>3, <3>2
    <3> QED BY <3>1, <3>2, <3>3
  <2> QED BY <1>3, <2>1, <2>2, <2>3
<1>6. ASSUME NEW x \in U \cup {n}, x # S.root
      PROVE  S.par[x] \in U \cup {n} /\ \E j \in Sides : S.ch[S.par[x]][j] = x
  <2>1. CASE x = n
    BY <1>2, <1>3, <2>1
  <2>2. CASE x # n
    <3>1. PICK q \in U, j \in Sides : q = T.par[x] /\ T.ch[q][j] = x
      BY <1>1, <1>2, <1>6, <2>2
    <3>2. S.par[x] = q
      BY <1>2, <1>3, <2>2, <3>1
    <3>3. S.ch[q][j] = x
      BY <1>2, <1>3, <2>2, <3>1
    <3> QED BY <3>1, <3>2, <3>3
  <2> QED BY <2>1, <2>2
<1>7. ASSUME NEW x \in All \ (U \cup {n}), NEW j \in Sides PROVE S.ch[x][j] = NIL
  BY <1>1, <1>2
<1> QED BY <1>4, <1>5, <1>6, <1>7 DEF Linked

\* The keys below the nodes with the new leaf.
LEMMA HungOrder ==
  ASSUME NEW T, NEW U, NEW lo, NEW hi, Formed(T, U, lo, hi), NEW n \in Nodes, n \notin U,
         NEW v \in Keys, NEW p, BottomIs(T, U, lo, hi, v, p), NEW i \in Sides, i = Bit(T.key[p] < v),
         NEW S, Hung(S, T, n, v, p, i)
  PROVE  \E l, h : Ordered(S, U \cup {n}, l, h)
<1>1. /\ p \in U /\ lo[p] < v /\ v < hi[p] /\ T.key[p] # v /\ T.ch[p][i] = NIL /\ v \in Int
  BY Numbers DEF BottomIs, Keys
<1>2. /\ S.key[n] = v /\ S.root = T.root
      /\ \A j \in Sides : S.ch[n][j] = NIL
      /\ \A x \in Nodes : x # n => S.key[x] = T.key[x]
      /\ \A x \in All : x # n => \A j \in Sides : S.ch[x][j] = IF x = p /\ j = i THEN n ELSE T.ch[x][j]
  BY DEF Hung
<1>3. \A x \in U : /\ x \in All /\ x # NIL /\ x \in Nodes /\ x # n
                   /\ T.key[x] \in Int /\ lo[x] \in Int /\ hi[x] \in Int
                   /\ lo[x] < T.key[x] /\ T.key[x] < hi[x] /\ T.key[x] \in 0 .. NKeys + 1
  <2> TAKE x \in U
  <2>1. T.key[x] \in 0 .. NKeys + 1
    <3>1. T.key[x] \in 1 .. NKeys /\ NKeys \in Nat
      BY NodeIs, Numbers
    <3> QED BY <3>1
  <2> QED BY <2>1, NodeIs
<1>4. /\ lo \in [Nodes -> 0 .. NKeys + 1] /\ hi \in [Nodes -> 0 .. NKeys + 1]
      /\ \A x \in U : T.ch[x][0] # NIL => lo[T.ch[x][0]] = lo[x] /\ hi[T.ch[x][0]] = T.key[x]
      /\ \A x \in U : T.ch[x][1] # NIL => lo[T.ch[x][1]] = T.key[x] /\ hi[T.ch[x][1]] = hi[x]
      /\ T.root # NIL => lo[T.root] = 0 /\ hi[T.root] = NKeys + 1
      /\ \A a, b \in U : a # b => Apart(T, lo, hi, a, b)
  BY DEF Formed, Ordered
<1>5. /\ \A x \in U : \A j \in Sides : T.ch[x][j] \in U \cup {NIL}
      /\ T.root \in U \cup {NIL}
  BY DEF Formed, Linked
<1> DEFINE l == [lo EXCEPT ![n] = IF i = 0 THEN lo[p] ELSE T.key[p]]
           h == [hi EXCEPT ![n] = IF i = 0 THEN T.key[p] ELSE hi[p]]
<1>6. /\ l \in [Nodes -> 0 .. NKeys + 1] /\ h \in [Nodes -> 0 .. NKeys + 1]
      /\ l[n] = (IF i = 0 THEN lo[p] ELSE T.key[p]) /\ h[n] = (IF i = 0 THEN T.key[p] ELSE hi[p])
      /\ \A x \in U : l[x] = lo[x] /\ h[x] = hi[x]
  <2>1. lo[p] \in 0 .. NKeys + 1 /\ hi[p] \in 0 .. NKeys + 1
    BY <1>1, <1>3, <1>4
  <2> QED BY <1>1, <1>3, <1>4, <2>1
<1> HIDE DEF l, h
<1>7. i = 0 \/ i = 1
  BY DEF Sides
<1>8. (i = 0 => v < T.key[p]) /\ (i = 1 => T.key[p] < v)
  BY <1>1, <1>3 DEF Bit
<1>9. l[n] \in Int /\ h[n] \in Int /\ l[n] < v /\ v < h[n]
  <2>1. CASE i = 0
    BY <1>1, <1>3, <1>6, <1>8, <2>1
  <2>2. CASE i = 1
    BY <1>1, <1>3, <1>6, <1>8, <2>2
  <2> QED BY <1>7, <2>1, <2>2
<1>10. \A x \in U : S.key[x] = T.key[x]
  BY <1>2, <1>3
<1>11. ASSUME NEW x \in U \cup {n} PROVE l[x] < S.key[x] /\ S.key[x] < h[x]
  <2>1. CASE x = n
    BY <1>2, <1>9, <2>1
  <2>2. CASE x # n
    BY <1>3, <1>6, <1>10, <2>2
  <2> QED BY <2>1, <2>2
<1>12. ASSUME NEW x \in U \cup {n}
       PROVE  /\ S.ch[x][0] # NIL => l[S.ch[x][0]] = l[x] /\ h[S.ch[x][0]] = S.key[x]
              /\ S.ch[x][1] # NIL => l[S.ch[x][1]] = S.key[x] /\ h[S.ch[x][1]] = h[x]
  <2>1. 0 \in Sides /\ 1 \in Sides
    BY DEF Sides
  <2>2. CASE x = n
    BY <1>2, <2>1, <2>2
  <2>3. CASE x # n
    <3>1. x \in U /\ x \in All /\ l[x] = lo[x] /\ h[x] = hi[x] /\ S.key[x] = T.key[x]
      BY <1>3, <1>6, <1>10, <2>3
    <3>2. S.ch[x][0] # NIL => l[S.ch[x][0]] = l[x] /\ h[S.ch[x][0]] = S.key[x]
      <4>1. CASE x = p /\ i = 0
        <5>1. S.ch[x][0] = n
          BY <1>2, <2>1, <2>3, <3>1, <4>1
        <5> QED BY <1>6, <3>1, <4>1, <5>1
      <4>2. CASE ~(x = p /\ i = 0)
        <5>1. S.ch[x][0] = T.ch[x][0]
          BY <1>2, <2>1, <2>3, <3>1, <4>2
        <5>2. T.ch[x][0] # NIL => T.ch[x][0] \in U
          BY <1>5, <2>1, <3>1
        <5> QED BY <1>4, <1>6, <3>1, <5>1, <5>2
      <4> QED BY <4>1, <4>2
    <3>3. S.ch[x][1] # NIL => l[S.ch[x][1]] = S.key[x] /\ h[S.ch[x][1]] = h[x]
      <4>1. CASE x = p /\ i = 1
        <5>1. S.ch[x][1] = n
          BY <1>2, <2>1, <2>3, <3>1, <4>1
        <5> QED BY <1>6, <3>1, <4>1, <5>1
      <4>2. CASE ~(x = p /\ i = 1)
        <5>1. S.ch[x][1] = T.ch[x][1]
          BY <1>2, <2>1, <2>3, <3>1, <4>2
        <5>2. T.ch[x][1] # NIL => T.ch[x][1] \in U
          BY <1>5, <2>1, <3>1
        <5> QED BY <1>4, <1>6, <3>1, <5>1, <5>2
      <4> QED BY <4>1, <4>2
    <3> QED BY <3>2, <3>3
  <2> QED BY <2>2, <2>3
<1>13. S.root # NIL => l[S.root] = 0 /\ h[S.root] = NKeys + 1
  BY <1>2, <1>4, <1>5, <1>6
<1>14. ASSUME NEW a \in U PROVE Apart(S, l, h, n, a)
  <2>1. l[a] = lo[a] /\ h[a] = hi[a] /\ S.key[a] = T.key[a]
    BY <1>6, <1>10
  <2>2. CASE a = p
    <3>1. l[p] = lo[p] /\ h[p] = hi[p] /\ S.key[p] = T.key[p]
      BY <2>1, <2>2
    <3>2. lo[p] \in Int /\ hi[p] \in Int /\ T.key[p] \in Int
      BY <1>1, <1>3
    <3>3. Under(S, l, h, n, p)
      <4>1. CASE i = 0
        <5>1. l[n] = lo[p] /\ h[n] = T.key[p]
          BY <1>6, <4>1
        <5> QED BY <3>1, <3>2, <5>1 DEF Under
      <4>2. CASE i = 1
        <5>1. l[n] = T.key[p] /\ h[n] = hi[p]
          BY <1>6, <4>2
        <5> QED BY <3>1, <3>2, <5>1 DEF Under
      <4> QED BY <1>7, <4>1, <4>2
    <3> QED BY <2>2, <3>3 DEF Apart
  <2>3. CASE a # p
    <3>1. Apart(T, lo, hi, p, a)
      BY <1>1, <1>4, <2>3
    <3>2. PICK la \in Int, ha \in Int, ka \in Int, lp \in Int, hp \in Int, kp \in Int, ln \in Int, hn \in Int :
            /\ la = lo[a] /\ ha = hi[a] /\ ka = T.key[a] /\ lp = lo[p] /\ hp = hi[p] /\ kp = T.key[p]
            /\ ln = l[n] /\ hn = h[n] /\ la < ka /\ ka < ha /\ lp < kp /\ kp < hp
      BY <1>1, <1>3, <1>9
    <3>3. (i = 0 => ln = lp /\ hn = kp) /\ (i = 1 => ln = kp /\ hn = hp)
      BY <1>6, <3>2
    <3>4. hp <= la \/ ha <= lp \/ (la <= lp /\ hp <= ka) \/ (ka <= lp /\ hp <= ha)
             \/ (lp <= la /\ ha <= kp) \/ (kp <= la /\ ha <= hp)
      BY <3>1, <3>2 DEF Apart, Under
    <3>5. lp < ka /\ ka < hp => (i = 0 => kp < ka) /\ (i = 1 => ~(kp < ka))
      <4> SUFFICES ASSUME lp < ka, ka < hp PROVE (i = 0 => kp < ka) /\ (i = 1 => ~(kp < ka))
        OBVIOUS
      <4>1. T.ch[p][Bit(T.key[p] < T.key[a])] # NIL
        BY <1>1, <2>3, <3>2, NoGap
      <4>2. CASE kp < ka
        <5>1. T.ch[p][1] # NIL
          BY <3>2, <4>1, <4>2 DEF Bit
        <5> QED BY <1>1, <4>2, <5>1
      <4>3. CASE ~(kp < ka)
        <5>1. T.ch[p][0] # NIL
          BY <3>2, <4>1, <4>3 DEF Bit
        <5> QED BY <1>1, <4>3, <5>1
      <4> QED BY <4>2, <4>3
    <3>6. \/ hn <= la \/ ha <= ln
          \/ (la <= ln /\ hn <= ka) \/ (ka <= ln /\ hn <= ha)
      <4>1. CASE i = 0
        BY <3>2, <3>3, <3>4, <3>5, <4>1
      <4>2. CASE i = 1
        BY <3>2, <3>3, <3>4, <3>5, <4>2
      <4> QED BY <1>7, <4>1, <4>2
    <3> QED BY <2>1, <3>2, <3>6 DEF Apart, Under
  <2> QED BY <2>2, <2>3
<1>15. ASSUME NEW a \in U \cup {n}, NEW b \in U \cup {n}, a # b PROVE Apart(S, l, h, a, b)
  <2>1. CASE a = n
    BY <1>14, <1>15, <2>1
  <2>2. CASE b = n
    <3>1. Apart(S, l, h, b, a)
      BY <1>14, <1>15, <2>2
    <3> QED BY <3>1, Zenon DEF Apart
  <2>3. CASE a # n /\ b # n
    <3>1. Apart(T, lo, hi, a, b)
      BY <1>4, <1>15, <2>3
    <3>2. /\ l[a] = lo[a] /\ h[a] = hi[a] /\ S.key[a] = T.key[a]
          /\ l[b] = lo[b] /\ h[b] = hi[b] /\ S.key[b] = T.key[b]
      BY <1>6, <1>10, <2>3
    <3> QED BY <3>1, <3>2 DEF Apart, Under
  <2> QED BY <2>1, <2>2, <2>3
<1>16. Ordered(S, U \cup {n}, l, h)
  BY <1>6, <1>11, <1>12, <1>13, <1>15 DEF Ordered
<1> QED BY <1>16

\* The nodes in U keep their keys.
SameKeys(S, T, U) == \A x \in U : S.key[x] = T.key[x]

\* A new leaf.
LEMMA InsertBelow ==
  ASSUME NEW T, NEW U, NEW lo, NEW hi, Formed(T, U, lo, hi), Idle(T, U), NEW n \in Nodes, n \notin U,
         NEW v \in Keys, NEW p, BottomIs(T, U, lo, hi, v, p),
         NEW S, S = NewLeaf(T, n, v, p)
  PROVE  /\ Inserting(S, U \cup {n}, n) /\ S.key[n] = v /\ SameKeys(S, T, U)
<1>1. PICK i \in Sides : i = Bit(T.key[p] < v)
  BY DEF Bit, Sides
<1>2. p \in U /\ T.ch[p][i] = NIL
  BY <1>1 DEF BottomIs
<1>3. p \in Nodes /\ p # n /\ T \in Trees
  BY <1>2, NodeIs DEF Formed
<1>4. S = [Leaf(T, n, v, p, TRUE) EXCEPT !.ch[p][i] = n]
  BY <1>1, Zenon DEF NewLeaf
<1>5. Hung(S, T, n, v, p, i)
  BY <1>3, <1>4, HungIs
<1>6. Linked(S, U \cup {n})
  BY <1>2, <1>5, HungLinks
<1>7. PICK l, h : Ordered(S, U \cup {n}, l, h)
  BY <1>1, <1>5, HungOrder
<1>8. S \in Trees /\ U \cup {n} \subseteq Nodes
  BY <1>5 DEF Hung, Formed
<1>9. Shaped(S, U \cup {n})
  BY <1>6, <1>7, <1>8 DEF Shaped, Formed
<1>10. /\ S.red[n] /\ S.root = T.root /\ S.key[n] = v
       /\ \A j \in Sides : S.ch[n][j] = NIL
       /\ \A x \in Nodes : x # n => S.key[x] = T.key[x]
  BY <1>5 DEF Hung
<1>a. \A x \in All : x # n => S.red[x] = T.red[x]
  BY <1>5 DEF Hung
<1>b. \A x \in All : x # n => \A j \in Sides : S.ch[x][j] = IF x = p /\ j = i THEN n ELSE T.ch[x][j]
  BY <1>5 DEF Hung
<1>11. /\ \A x \in U : x \in Nodes /\ x \in All /\ x # n /\ x # NIL
       /\ n # NIL /\ n \in All /\ NIL \in All
  BY NodeIs, Numbers
<1>12. Family(T, U)
  BY FamilyIs
<1>13. Coloured(S, U \cup {n}, n, NIL)
  <2>1. ~T.red[NIL] /\ ~T.red[T.root] /\ \A x \in U : T.red[x] => \A j \in Sides : ~T.red[T.ch[x][j]]
    <3>1. T.root \in U \cup {NIL} /\ \A x \in U : \A j \in Sides : T.ch[x][j] \in U \cup {NIL}
      BY <1>12 DEF Family
    <3> QED BY <1>11, <3>1 DEF Idle, Coloured
  <2>2. ~S.red[NIL]
    BY <1>10, <1>11, <1>a, <2>1
  <2>3. ~S.red[S.root]
    <3>1. T.root \in U \cup {NIL}
      BY <1>12 DEF Family
    <3> QED BY <1>10, <1>11, <1>a, <2>1, <3>1
  <2>4. ASSUME NEW x \in U \cup {n}, S.red[x], NEW j \in Sides, S.red[S.ch[x][j]] PROVE S.ch[x][j] = n
    <3>1. CASE x = n
      BY <1>10, <2>2, <2>4, <3>1
    <3>2. CASE x # n /\ ~(x = p /\ j = i)
      <4>0. x \in U /\ x \in All
        BY <1>11, <3>2
      <4>1. S.ch[x][j] = T.ch[x][j] /\ T.red[x]
        <5>1. S.ch[x][j] = T.ch[x][j]
          BY <1>b, <3>2, <4>0
        <5>2. T.red[x]
          BY <1>a, <2>4, <3>2, <4>0
        <5> QED BY <5>1, <5>2
      <4>2. T.ch[x][j] \in U \cup {NIL}
        BY <1>12, <4>0 DEF Family
      <4>3. ~T.red[T.ch[x][j]]
        BY <2>1, <4>0, <4>1
      <4>4. PICK y : y = T.ch[x][j] /\ y \in All /\ y # n /\ ~T.red[y] /\ S.red[y]
        BY <1>11, <2>4, <4>1, <4>2, <4>3
      <4> QED BY <1>a, <4>4
    <3>3. CASE x = p /\ j = i
      BY <1>2, <1>11, <1>b, <3>3
    <3> QED BY <3>1, <3>2, <3>3
  <2> QED BY <2>2, <2>3, <2>4 DEF Coloured
<1>14. Balanced(S, U \cup {n}, {})
  <2>1. PICK bh : Heights(T, U, {}, bh)
    BY DEF Idle, Balanced
  <2>2. /\ bh \in [All -> Nat] /\ bh[NIL] = 0
        /\ \A x \in U : \A j \in Sides : bh[x] = bh[T.ch[x][j]] + (IF T.red[x] THEN 0 ELSE 1)
    BY <1>12, <2>1, NoneHeights
  <2> DEFINE b == [bh EXCEPT ![n] = 0]
  <2>3. b \in [All -> Nat] /\ b[n] = 0 /\ b[NIL] = 0 /\ \A x \in All : x # n => b[x] = bh[x]
    BY <1>11, <2>2
  <2> HIDE DEF b
  <2>4. ASSUME NEW x \in U \cup {n}, NEW j \in Sides PROVE b[x] = b[S.ch[x][j]] + Weight(S, {}, x, j)
    <3>1. Weight(S, {}, x, j) = IF S.red[x] THEN 0 ELSE 1
      BY WeightNone
    <3>2. CASE x = n
      <4>1. b[S.ch[x][j]] = 0 /\ b[x] = 0 /\ Weight(S, {}, x, j) = 0
        BY <1>10, <2>3, <3>1, <3>2
      <4> QED BY <4>1
    <3>3. CASE x # n
      <4>1. x \in U /\ x \in All /\ b[x] = bh[x] /\ S.red[x] = T.red[x]
        BY <1>11, <1>a, <2>3, <3>3
      <4>2. b[S.ch[x][j]] = bh[T.ch[x][j]]
        <5>1. T.ch[x][j] \in U \cup {NIL}
          BY <1>12, <4>1 DEF Family
        <5>2. CASE x = p /\ j = i
          <6>1. S.ch[x][j] = n /\ T.ch[x][j] = NIL
            BY <1>2, <1>b, <3>3, <4>1, <5>2
          <6> QED BY <2>2, <2>3, <6>1
        <5>3. CASE ~(x = p /\ j = i)
          <6>1. S.ch[x][j] = T.ch[x][j]
            BY <1>b, <3>3, <4>1, <5>3
          <6> QED BY <1>11, <2>3, <5>1, <6>1
        <5> QED BY <5>2, <5>3
      <4>3. bh[x] = bh[T.ch[x][j]] + (IF T.red[x] THEN 0 ELSE 1)
        BY <2>2, <4>1
      <4> QED BY <3>1, <4>1, <4>2, <4>3
    <3> QED BY <3>2, <3>3
  <2>5. Heights(S, U \cup {n}, {}, b)
    BY <2>3, <2>4 DEF Heights
  <2> QED BY <2>5 DEF Balanced
<1>15. \A x \in U : S.key[x] = T.key[x]
  BY <1>10, <1>11
<1> QED BY <1>9, <1>10, <1>13, <1>14, <1>15 DEF Inserting, SameKeys

----------------------------------------------------------------------------
(***************************************************************************)
(* erase before its loop, and clear.                                       *)
(***************************************************************************)

\* S is X with the nodes in F blank.
Blanked(S, X, F) ==
  /\ S \in Trees /\ S.root = X.root
  /\ \A x \in Nodes : x \notin F => S.key[x] = X.key[x]
  /\ \A x \in All : x \notin F => S.par[x] = X.par[x]
  /\ \A x \in All : x \notin F => S.red[x] = X.red[x]
  /\ \A x \in All : S.ch[x] = IF x \in F THEN X.ch[NIL] ELSE X.ch[x]

\* Blank does that.
LEMMA BlankIs ==
  ASSUME NEW X \in Trees, NEW F, NEW S, S = Blank(X, F)
  PROVE  Blanked(S, X, F)
<1> DEFINE k == [n \in Nodes |-> IF n \in F THEN n ELSE X.key[n]]
           q == [n \in All |-> IF n \in F THEN NIL ELSE X.par[n]]
           d == [n \in All |-> n \notin F /\ X.red[n]]
           c == [n \in All |-> IF n \in F THEN X.ch[NIL] ELSE X.ch[n]]
<1>1. Keys = Nodes /\ NIL \in All
  BY Numbers
<1>2. /\ X.root \in All /\ X.key \in [Nodes -> Keys] /\ X.par \in [All -> All]
      /\ X.red \in [All -> BOOLEAN] /\ X.ch \in [All -> [Sides -> All]]
  BY DEF Trees
<1>3. k \in [Nodes -> Keys] /\ \A x \in Nodes : x \notin F => k[x] = X.key[x]
  BY <1>1, <1>2
<1>4. q \in [All -> All] /\ \A x \in All : x \notin F => q[x] = X.par[x]
  BY <1>1, <1>2
<1>5. d \in [All -> BOOLEAN] /\ \A x \in All : x \notin F => d[x] = X.red[x]
  BY <1>2
<1>6. c \in [All -> [Sides -> All]] /\ \A x \in All : c[x] = IF x \in F THEN X.ch[NIL] ELSE X.ch[x]
  BY <1>1, <1>2
<1>7. S = [X EXCEPT !.key = k, !.par = q, !.red = d, !.ch = c]
  BY DEF Blank, Trees, All
<1> HIDE DEF k, q, d, c
<1>8. S.root = X.root /\ S.par = q /\ S.red = d /\ S.ch = c /\ S.key = k
  BY <1>7 DEF Trees
<1>9. S \in Trees
  BY <1>3, <1>4, <1>5, <1>6, <1>7 DEF Trees
<1> QED BY <1>3, <1>4, <1>5, <1>6, <1>8, <1>9 DEF Blanked

\* The key of x when n has taken over that of m.
NewKey(T, n, m, x) == IF x = n THEN T.key[m] ELSE T.key[x]

\* The tree S of the nodes in V is T without m, whose place c has taken.
Spliced(S, T, V, n, m, c) ==
  /\ S \in Trees
  /\ S.root = IF m = T.root THEN c ELSE T.root
  /\ \A x \in V : \A j \in Sides : S.ch[x][j] = IF T.ch[x][j] = m THEN c ELSE T.ch[x][j]
  /\ \A x \in All \ V : \A j \in Sides : S.ch[x][j] = NIL
  /\ S.par[c] = T.par[m]
  /\ \A x \in V : x # c => S.par[x] = T.par[x]
  /\ \A x \in V : S.key[x] = NewKey(T, n, m, x)
  /\ \A x \in V \cup {NIL} : S.red[x] = T.red[x]

\* The result of erase before its loop.
EraseCut(T, V, n, m, c) ==
  Blank(Put([KeyMoved(T, n, m) EXCEPT !.par[c] = T.par[m]], get_ref(T, m), c), Nodes \ V)

\* erase does that.
LEMMA SplicedIs ==
  ASSUME NEW T, NEW U, NEW lo, NEW hi, Formed(T, U, lo, hi), NEW n \in U, NEW m \in U,
         NEW V, V = U \ {m}, NEW c, c \in V \cup {NIL}, NEW S, S = EraseCut(T, V, n, m, c)
  PROVE  Spliced(S, T, V, n, m, c)
<1>1. T \in Trees /\ U \subseteq Nodes
  BY DEF Formed
<1>2. /\ n \in Nodes /\ m \in Nodes /\ m \in All /\ m # NIL /\ c \in All /\ NIL \in All /\ NIL \notin Nodes
      /\ V \subseteq Nodes /\ Nodes \subseteq All /\ All = Nodes \cup {NIL}
  BY <1>1, Numbers DEF All
<1> DEFINE k == [T.key EXCEPT ![n] = T.key[m]]
           q == [T.par EXCEPT ![c] = T.par[m]]
<1>3. k \in [Nodes -> Keys] /\ \A x \in Nodes : k[x] = NewKey(T, n, m, x)
  BY <1>1, <1>2 DEF Trees, NewKey
<1>4. q \in [All -> All] /\ q[c] = T.par[m] /\ \A x \in All : x # c => q[x] = T.par[x]
  BY <1>1, <1>2 DEF Trees
<1>5. PICK X : X = [KeyMoved(T, n, m) EXCEPT !.par[c] = T.par[m]]
  OBVIOUS
<1>6. X = [T EXCEPT !.key = k, !.par = q]
  BY <1>1, <1>5 DEF KeyMoved, Trees
<1> HIDE DEF k, q
<1>7. X \in Trees /\ X.root = T.root /\ X.par = q /\ X.red = T.red /\ X.ch = T.ch /\ X.key = k
  BY <1>1, <1>3, <1>4, <1>6 DEF Trees
<1>8. PICK ref : ref = get_ref(T, m) /\ Refers(T, U, m, ref)
  BY GetRefIs
<1>9. PICK Y : Y = Put(X, ref, c)
  OBVIOUS
<1>10. /\ Y \in Trees /\ Y.par = q /\ Y.red = T.red /\ Y.key = k
       /\ Y.root = IF m = T.root THEN c ELSE T.root
       /\ \A x \in All : \A j \in Sides : Y.ch[x][j] = IF T.ch[x][j] = m THEN c ELSE T.ch[x][j]
  <2>c. Nested(T, U, lo, hi)
    BY NestedIs
  <2>u. ASSUME NEW x \in All, NEW j \in Sides, T.ch[x][j] = m PROVE x \in U /\ T.par[m] = x /\ m # T.root
    <3>1. x \in U
      BY <1>2, <2>u DEF Formed, Linked
    <3> QED BY <1>2, <2>c, <2>u, <3>1 DEF Nested
  <2>1. CASE m = T.root /\ ref = <<NIL, 0>>
    <3>1. Y = [X EXCEPT !.root = c]
      BY <1>9, <2>1 DEF Put
    <3>2. Y \in Trees /\ Y.par = q /\ Y.red = T.red /\ Y.key = k /\ Y.root = c /\ Y.ch = T.ch
      BY <1>2, <1>7, <3>1 DEF Trees
    <3>3. ASSUME NEW x \in All, NEW j \in Sides PROVE T.ch[x][j] # m
      BY <2>1, <2>u
    <3> QED BY <2>1, <3>2, <3>3
  <2>2. CASE \E p \in U, i \in Sides : ref = <<p, i>> /\ T.ch[p][i] = m
    <3>1. PICK p \in U, i \in Sides : ref = <<p, i>> /\ T.ch[p][i] = m
      BY <2>2
    <3>2. p \in All /\ p # NIL
      BY NodeIs
    <3>3. m # T.root /\ T.par[m] = p
      BY <2>u, <3>1, <3>2
    <3> DEFINE d == [T.ch EXCEPT ![p][i] = c]
    <3>4. /\ d \in [All -> [Sides -> All]] /\ d[p][i] = c
          /\ \A x \in All : x # p => d[x] = T.ch[x]
          /\ \A j \in Sides : j # i => d[p][j] = T.ch[p][j]
      BY <1>1, <1>2, <3>2 DEF Trees
    <3>5. Y = [X EXCEPT !.ch = d]
      <4>1. Y = [X EXCEPT !.ch[p][i] = c]
        BY <1>9, <3>1, <3>2 DEF Put
      <4> QED BY <1>7, <4>1 DEF Trees
    <3> HIDE DEF d
    <3>6. Y \in Trees /\ Y.par = q /\ Y.red = T.red /\ Y.key = k /\ Y.root = T.root /\ Y.ch = d
      BY <1>7, <3>4, <3>5 DEF Trees
    <3>7. ASSUME NEW x \in All, NEW j \in Sides
          PROVE  Y.ch[x][j] = IF T.ch[x][j] = m THEN c ELSE T.ch[x][j]
      <4>1. CASE x = p /\ j = i
        <5>1. Y.ch[x][j] = c /\ T.ch[x][j] = m
          BY <3>1, <3>4, <3>6, <4>1, Zenon
        <5> QED BY <5>1
      <4>2. CASE x = p /\ j # i
        <5>1. Y.ch[x][j] = T.ch[x][j]
          BY <3>4, <3>6, <4>2, Zenon
        <5>2. T.ch[x][j] # m
          <6>1. j = 1 - i
            BY <4>2 DEF Sides
          <6> QED BY <1>2, <2>c, <3>1, <4>2, <6>1 DEF Nested
        <5> QED BY <5>1, <5>2
      <4>3. CASE x # p
        <5>1. Y.ch[x] = T.ch[x]
          BY <3>4, <3>6, <4>3, Zenon
        <5>2. T.ch[x][j] # m
          BY <2>u, <3>3, <4>3
        <5> QED BY <5>1, <5>2
      <4> QED BY <4>1, <4>2, <4>3
    <3> QED BY <3>3, <3>6, <3>7
  <2> QED BY <1>8, <2>1, <2>2 DEF Refers
<1>11. PICK F : F = Nodes \ V
  OBVIOUS
<1>12. Blanked(S, Y, F)
  <2>1. S = Blank(Y, F)
    BY <1>5, <1>8, <1>9, <1>11, Zenon DEF EraseCut
  <2> QED BY <1>10, <2>1, BlankIs
<1>13. \A x \in V : x \in All /\ x \in Nodes /\ x \notin F
  BY <1>2, <1>11
<1>14. \A x \in All : \A j \in Sides : x \notin U => T.ch[x][j] = NIL
  BY DEF Formed, Linked
<1>15. ASSUME NEW x \in V, NEW j \in Sides
       PROVE  S.ch[x][j] = IF T.ch[x][j] = m THEN c ELSE T.ch[x][j]
  <2>1. S.ch[x] = Y.ch[x]
    BY <1>12, <1>13 DEF Blanked
  <2> QED BY <1>10, <1>13, <2>1
<1>16. ASSUME NEW x \in All \ V, NEW j \in Sides PROVE S.ch[x][j] = NIL
  <2>1. S.ch[x] = Y.ch[NIL]
    BY <1>2, <1>11, <1>12 DEF Blanked
  <2>2. T.ch[NIL][j] = NIL
    BY <1>2, <1>14, NodeIs
  <2>3. Y.ch[NIL][j] = NIL
    BY <1>2, <1>10, <2>2
  <2> QED BY <2>1, <2>3
<1>17. S.par[c] = T.par[m] /\ \A x \in V : x # c => S.par[x] = T.par[x]
  <2>1. c \notin F
    BY <1>2, <1>11, <1>13
  <2>2. \A x \in All : x \notin F => S.par[x] = q[x]
    BY <1>10, <1>12 DEF Blanked
  <2> QED BY <1>2, <1>4, <1>13, <2>1, <2>2
<1>18. \A x \in V : S.key[x] = NewKey(T, n, m, x)
  <2>1. \A x \in Nodes : x \notin F => S.key[x] = k[x]
    BY <1>10, <1>12 DEF Blanked
  <2> QED BY <1>3, <1>13, <2>1
<1>19. \A x \in V \cup {NIL} : S.red[x] = T.red[x]
  <2>1. \A x \in All : x \notin F => S.red[x] = T.red[x]
    BY <1>10, <1>12 DEF Blanked
  <2>2. NIL \notin F
    BY <1>2, <1>11
  <2> QED BY <1>2, <1>13, <2>1, <2>2
<1>20. S \in Trees /\ S.root = IF m = T.root THEN c ELSE T.root
  BY <1>10, <1>12 DEF Blanked
<1> QED BY <1>15, <1>16, <1>17, <1>18, <1>19, <1>20 DEF Spliced

\* The node m leaves when erase is called for n: c, on its side i, is its only
\* child, or NIL.
Leaving(T, U, lo, hi, n, m, c, i) ==
  /\ n \in U /\ m \in U /\ i \in Sides /\ T.ch[m][i] = c /\ T.ch[m][1 - i] = NIL
  /\ \/ m = n /\ T.ch[n][1] = NIL /\ (c # NIL => i = 0)
     \/ m # n /\ lo[m] = T.key[n] /\ hi[m] <= hi[n] /\ T.ch[m][0] = NIL /\ i = 1

\* It does.
LEMMA LeavingIs ==
  ASSUME NEW T, NEW U, NEW lo, NEW hi, Formed(T, U, lo, hi), NEW n \in U, NEW m, m = Successor(T, n),
         NEW c, c = T.ch[m][Bit(T.ch[m][0] = NIL)]
  PROVE  \E i : Leaving(T, U, lo, hi, n, m, c, i)
<1>1. SuccessorIs(T, U, lo, hi, n, m)
  BY SuccessorFound
<1>2. 0 \in Sides /\ 1 \in Sides /\ 1 - 0 = 1 /\ 1 - 1 = 0
  BY DEF Sides
<1>3. CASE T.ch[m][0] = NIL
  <2>1. c = T.ch[m][1]
    BY <1>3 DEF Bit
  <2>2. Leaving(T, U, lo, hi, n, m, c, 1)
    BY <1>1, <1>2, <1>3, <2>1 DEF SuccessorIs, Leaving
  <2> QED BY <2>2
<1>4. CASE T.ch[m][0] # NIL
  <2>1. c = T.ch[m][0]
    BY <1>4 DEF Bit
  <2>2. Leaving(T, U, lo, hi, n, m, c, 0)
    BY <1>1, <1>2, <1>4, <2>1 DEF SuccessorIs, Leaving
  <2> QED BY <2>2
<1> QED BY <1>3, <1>4

\* The child is another node in use or NIL, and m has no other.
LEMMA LeavingChild ==
  ASSUME NEW T, NEW U, NEW lo, NEW hi, Formed(T, U, lo, hi), NEW n, NEW m, NEW c, NEW i,
         Leaving(T, U, lo, hi, n, m, c, i)
  PROVE  /\ m \in U /\ n \in U /\ m # NIL /\ c # m /\ c \in (U \ {m}) \cup {NIL}
         /\ c # NIL => T.par[c] = m /\ c # T.root
         /\ \A j \in Sides : T.ch[m][j] = c \/ T.ch[m][j] = NIL
<1>1. m \in U /\ n \in U /\ i \in Sides /\ T.ch[m][i] = c /\ T.ch[m][1 - i] = NIL
  BY DEF Leaving
<1>2. m # NIL
  BY <1>1, NodeIs
<1>3. c # NIL => c \in U /\ c # m /\ T.par[c] = m /\ c # T.root
  BY <1>1, ChildIs
<1>4. \A j \in Sides : j = i \/ j = 1 - i
  BY <1>1 DEF Sides
<1> QED BY <1>1, <1>2, <1>3, <1>4

\* The links behind it.
LEMMA SplicedLinks ==
  ASSUME NEW T, NEW U, NEW lo, NEW hi, Formed(T, U, lo, hi), NEW n, NEW m, NEW c, NEW i,
         Leaving(T, U, lo, hi, n, m, c, i), NEW V, V = U \ {m}, NEW S, Spliced(S, T, V, n, m, c)
  PROVE  Linked(S, V)
<1>1. /\ T.root \in U \cup {NIL} /\ (T.root = NIL => U = {}) /\ (T.root # NIL => T.par[T.root] = NIL)
      /\ \A x \in U : \A j \in Sides :
           T.ch[x][j] \in U \cup {NIL} /\ (T.ch[x][j] # NIL => T.par[T.ch[x][j]] = x)
      /\ \A x \in U : x # T.root => T.par[x] \in U /\ \E j \in Sides : T.ch[T.par[x]][j] = x
  BY DEF Formed, Linked
<1>2. /\ S.root = (IF m = T.root THEN c ELSE T.root) /\ S.par[c] = T.par[m]
      /\ \A x \in V : \A j \in Sides : S.ch[x][j] = IF T.ch[x][j] = m THEN c ELSE T.ch[x][j]
      /\ \A x \in All \ V : \A j \in Sides : S.ch[x][j] = NIL
      /\ \A x \in V : x # c => S.par[x] = T.par[x]
  BY DEF Spliced
<1>3. /\ m \in U /\ n \in U /\ m # NIL /\ c # m /\ c \in V \cup {NIL}
      /\ c # NIL => T.par[c] = m /\ c # T.root
      /\ \A j \in Sides : T.ch[m][j] = c \/ T.ch[m][j] = NIL
  BY LeavingChild
<1>4. \A x \in V : x \in U /\ x # m /\ x # NIL
  BY NodeIs
<1>5. S.root \in V \cup {NIL}
  BY <1>1, <1>2, <1>3
<1>6. S.root = NIL => V = {}
  <2> SUFFICES ASSUME S.root = NIL, NEW x \in V PROVE FALSE
    OBVIOUS
  <2>1. m = T.root /\ c = NIL
    BY <1>1, <1>2, <1>3
  <2>2. lo[m] = 0 /\ hi[m] = NKeys + 1
    BY <1>3, <2>1 DEF Formed, Ordered
  <2>3. T.key[x] \in 1 .. NKeys /\ NKeys \in Nat
    BY <1>4, NodeIs, Numbers
  <2>4. lo[m] < T.key[x] /\ T.key[x] < hi[m]
    BY <2>2, <2>3
  <2>5. T.ch[m][Bit(T.key[m] < T.key[x])] # NIL
    BY <1>3, <1>4, <2>4, NoGap
  <2>6. Bit(T.key[m] < T.key[x]) \in Sides
    BY DEF Bit, Sides
  <2> QED BY <1>3, <2>1, <2>5, <2>6
<1>7. S.root # NIL => S.par[S.root] = NIL
  <2>1. CASE m = T.root
    BY <1>1, <1>2, <1>3, <2>1
  <2>2. CASE m # T.root
    BY <1>1, <1>2, <1>3, <2>2
  <2> QED BY <2>1, <2>2
<1>8. ASSUME NEW x \in V, NEW j \in Sides
      PROVE  S.ch[x][j] \in V \cup {NIL} /\ (S.ch[x][j] # NIL => S.par[S.ch[x][j]] = x)
  <2>1. PICK y : y = T.ch[x][j] /\ S.ch[x][j] = IF y = m THEN c ELSE y
    BY <1>2
  <2>2. y \in U \cup {NIL} /\ (y # NIL => T.par[y] = x)
    BY <1>1, <1>4, <2>1
  <2>3. CASE y = m
    BY <1>2, <1>3, <2>1, <2>2, <2>3
  <2>4. CASE y # m
    <3>1. y # NIL => y # c
      BY <1>3, <1>4, <2>2
    <3>2. y # NIL => y \in V
      BY <2>2, <2>4
    <3>3. y # NIL => S.par[y] = x
      BY <1>2, <2>2, <3>1, <3>2
    <3> QED BY <2>1, <2>4, <3>2, <3>3
  <2> QED BY <2>3, <2>4
<1>9. ASSUME NEW x \in V, x # S.root
      PROVE  S.par[x] \in V /\ \E j \in Sides : S.ch[S.par[x]][j] = x
  <2>1. CASE x = c
    <3>1. m # T.root
      BY <1>2, <1>9, <2>1
    <3>2. PICK q \in U, j \in Sides : q = T.par[m] /\ T.ch[q][j] = m
      BY <1>1, <1>3, <3>1
    <3>3. q # m
      BY <1>3, <3>2
    <3>4. q \in V
      BY <3>2, <3>3
    <3>5. S.ch[q][j] = c
      BY <1>2, <3>2, <3>4
    <3> QED BY <1>2, <2>1, <3>2, <3>4, <3>5
  <2>2. CASE x # c
    <3>1. x # T.root
      BY <1>2, <1>4, <1>9
    <3>2. PICK q \in U, j \in Sides : q = T.par[x] /\ T.ch[q][j] = x
      BY <1>1, <1>4, <3>1
    <3>3. q # m
      BY <1>3, <1>4, <2>2, <3>2
    <3>4. q \in V
      BY <3>2, <3>3
    <3>5. S.ch[q][j] = x
      BY <1>2, <1>4, <3>2, <3>4
    <3> QED BY <1>2, <2>2, <3>2, <3>4, <3>5
  <2> QED BY <2>1, <2>2
<1> QED BY <1>2, <1>5, <1>6, <1>7, <1>8, <1>9 DEF Linked

\* sg closes the gap that the key of n leaves.
Squeezes(T, V, lo, hi, n, m, c, sg) ==
  /\ sg \in [0 .. NKeys + 1 -> 0 .. NKeys + 1]
  /\ \A a, b \in 0 .. NKeys + 1 : a <= b => sg[a] <= sg[b]
  /\ sg[0] = 0 /\ sg[NKeys + 1] = NKeys + 1
  /\ \A x \in V : sg[T.key[x]] = NewKey(T, n, m, x)
  /\ \A x \in V : sg[lo[x]] < NewKey(T, n, m, x) /\ NewKey(T, n, m, x) < sg[hi[x]]
  /\ c # NIL => sg[lo[c]] = sg[lo[m]] /\ sg[hi[c]] = sg[hi[m]]

\* Every bound from k up to K becomes K.
Squeeze(k, K) == [e \in 0 .. NKeys + 1 |-> IF k <= e /\ e < K THEN K ELSE e]

\* The bound up to which there is no key but that of n.
LEMMA GapIs ==
  ASSUME NEW T, NEW U, NEW lo, NEW hi, Formed(T, U, lo, hi), NEW n, NEW m, NEW c, NEW i,
         Leaving(T, U, lo, hi, n, m, c, i), NEW K, K = IF m = n THEN hi[n] ELSE T.key[m]
  PROVE  /\ K \in 1 .. NKeys + 1 /\ T.key[n] < K
         /\ \A x \in U : x # n => T.key[x] < T.key[n] \/ K <= T.key[x]
         /\ \A x \in U : x # n /\ x # m /\ T.key[n] <= lo[x] /\ lo[x] < K => K < T.key[x]
<1>1. \A x \in U : /\ T.key[x] \in Int /\ lo[x] \in Int /\ hi[x] \in Int /\ T.key[x] \in 1 .. NKeys
                   /\ lo[x] < T.key[x] /\ T.key[x] < hi[x] /\ hi[x] \in 0 .. NKeys + 1
  BY NodeIs
<1>2. n \in U /\ m \in U /\ NKeys \in Nat
  BY Numbers DEF Leaving
<1>3. \A a, b \in U : a # b => Apart(T, lo, hi, a, b)
  BY DEF Formed, Ordered
<1>4. CASE m = n
  <2>1. T.ch[n][1] = NIL /\ K = hi[n]
    BY <1>4 DEF Leaving
  <2>2. K \in 1 .. NKeys + 1 /\ T.key[n] < K
    BY <1>1, <1>2, <2>1
  <2>3. ASSUME NEW x \in U, x # n, T.key[n] < T.key[x], T.key[x] < K PROVE FALSE
    <3>1. lo[n] < T.key[x]
      BY <1>1, <1>2, <2>3
    <3>2. T.ch[n][Bit(T.key[n] < T.key[x])] # NIL
      BY <1>2, <2>1, <2>3, <3>1, NoGap
    <3> QED BY <2>1, <2>3, <3>2 DEF Bit
  <2>4. ASSUME NEW x \in U, x # n PROVE T.key[x] < T.key[n] \/ K <= T.key[x]
    <3>1. T.key[x] # T.key[n]
      BY <1>2, <2>4, KeysDiffer
    <3> QED BY <1>1, <1>2, <2>1, <2>3, <2>4, <3>1
  <2>5. ASSUME NEW x \in U, x # n, T.key[n] <= lo[x], lo[x] < K PROVE FALSE
    <3>1. Apart(T, lo, hi, n, x)
      BY <1>2, <1>3, <2>5
    <3>2. PICK lx \in Int, kx \in Int, hx \in Int, ln \in Int, kn \in Int, hn \in Int :
            /\ lx = lo[x] /\ kx = T.key[x] /\ hx = hi[x] /\ ln = lo[n] /\ kn = T.key[n] /\ hn = hi[n]
            /\ lx < kx /\ kx < hx /\ ln < kn /\ kn < hn
      BY <1>1, <1>2
    <3>3. kn <= lx /\ lx < hn
      BY <2>1, <2>5, <3>2
    <3>4. hn <= lx \/ hx <= ln \/ (lx <= ln /\ hn <= kx) \/ (kx <= ln /\ hn <= hx)
             \/ (ln <= lx /\ hx <= kn) \/ (kn <= lx /\ hx <= hn)
      BY <3>1, <3>2 DEF Apart, Under
    <3>5. kn < kx /\ kx < hn
      BY <3>2, <3>3, <3>4
    <3> QED BY <2>1, <2>3, <2>5, <3>2, <3>5
  <2> QED BY <1>4, <2>2, <2>4, <2>5
<1>5. CASE m # n
  <2>1. lo[m] = T.key[n] /\ T.ch[m][0] = NIL /\ K = T.key[m]
    BY <1>5 DEF Leaving
  <2>2. K \in 1 .. NKeys + 1 /\ T.key[n] < K
    BY <1>1, <1>2, <2>1
  <2>3. ASSUME NEW x \in U, x # m, T.key[n] < T.key[x], T.key[x] < K PROVE FALSE
    <3>1. lo[m] < T.key[x] /\ T.key[x] < hi[m] /\ ~(T.key[m] < T.key[x])
      BY <1>1, <1>2, <2>1, <2>3
    <3>2. T.ch[m][Bit(T.key[m] < T.key[x])] # NIL
      BY <1>2, <2>3, <3>1, NoGap
    <3> QED BY <2>1, <3>1, <3>2 DEF Bit
  <2>4. ASSUME NEW x \in U, x # n PROVE T.key[x] < T.key[n] \/ K <= T.key[x]
    <3>1. T.key[x] # T.key[n]
      BY <1>2, <2>4, KeysDiffer
    <3>2. CASE x = m
      BY <1>1, <2>1, <3>2
    <3>3. CASE x # m
      BY <1>1, <1>2, <2>1, <2>3, <3>1, <3>3
    <3> QED BY <3>2, <3>3
  <2>5. ASSUME NEW x \in U, x # n, x # m, T.key[n] <= lo[x], lo[x] < K PROVE K < T.key[x]
    <3>1. Apart(T, lo, hi, m, x)
      BY <1>2, <1>3, <2>5
    <3>2. PICK lx \in Int, kx \in Int, hx \in Int, lm \in Int, km \in Int, hm \in Int :
            /\ lx = lo[x] /\ kx = T.key[x] /\ hx = hi[x] /\ lm = lo[m] /\ km = T.key[m] /\ hm = hi[m]
            /\ lx < kx /\ kx < hx /\ lm < km /\ km < hm
      BY <1>1, <1>2
    <3>3. lm <= lx /\ lx < km
      BY <2>1, <2>5, <3>2
    <3>4. hm <= lx \/ hx <= lm \/ (lx <= lm /\ hm <= kx) \/ (kx <= lm /\ hm <= hx)
             \/ (lm <= lx /\ hx <= km) \/ (km <= lx /\ hx <= hm)
      BY <3>1, <3>2 DEF Apart, Under
    <3>5. ~(lm < kx /\ kx < km)
      BY <2>1, <2>3, <2>5, <3>2
    <3>6. km < kx
      BY <3>2, <3>3, <3>4, <3>5
    <3> QED BY <2>1, <3>2, <3>6
  <2> QED BY <2>2, <2>4, <2>5
<1> QED BY <1>4, <1>5

\* It does.
LEMMA SqueezeIs ==
  ASSUME NEW T, NEW U, NEW lo, NEW hi, Formed(T, U, lo, hi), NEW n, NEW m, NEW c, NEW i,
         Leaving(T, U, lo, hi, n, m, c, i), NEW V, V = U \ {m}
  PROVE  \E sg : Squeezes(T, V, lo, hi, n, m, c, sg)
<1>1. PICK K : K = IF m = n THEN hi[n] ELSE T.key[m]
  OBVIOUS
<1>2. /\ K \in 1 .. NKeys + 1 /\ T.key[n] < K
      /\ \A x \in U : x # n => T.key[x] < T.key[n] \/ K <= T.key[x]
      /\ \A x \in U : x # n /\ x # m /\ T.key[n] <= lo[x] /\ lo[x] < K => K < T.key[x]
  BY <1>1, GapIs
<1>3. /\ n \in U /\ m \in U /\ NKeys \in Nat
      /\ \A x \in U : /\ T.key[x] \in Int /\ lo[x] \in Int /\ hi[x] \in Int
                      /\ T.key[x] \in 1 .. NKeys /\ lo[x] \in 0 .. NKeys + 1 /\ hi[x] \in 0 .. NKeys + 1
                      /\ lo[x] < T.key[x] /\ T.key[x] < hi[x]
  BY NodeIs, Numbers DEF Leaving
<1>4. PICK k \in 1 .. NKeys : k = T.key[n]
  BY <1>3
<1>5. PICK sg : sg = Squeeze(k, K)
  OBVIOUS
<1>6. /\ sg \in [0 .. NKeys + 1 -> 0 .. NKeys + 1]
      /\ \A e \in 0 .. NKeys + 1 : sg[e] = IF k <= e /\ e < K THEN K ELSE e
  BY <1>2, <1>3, <1>5 DEF Squeeze
<1>7. ASSUME NEW a \in 0 .. NKeys + 1, NEW b \in 0 .. NKeys + 1, a <= b PROVE sg[a] <= sg[b]
  <2>1. PICK x, y : x = sg[a] /\ y = sg[b]
    OBVIOUS
  <2>2. x = IF k <= a /\ a < K THEN K ELSE a
    BY <1>6, <2>1
  <2>3. y = IF k <= b /\ b < K THEN K ELSE b
    BY <1>6, <2>1
  <2>4. x <= y
    BY <1>2, <1>3, <1>7, <2>2, <2>3
  <2> QED BY <2>1, <2>4
<1>8. sg[0] = 0 /\ sg[NKeys + 1] = NKeys + 1
  BY <1>2, <1>3, <1>6
<1>9. ASSUME NEW x \in V
      PROVE  /\ sg[T.key[x]] = NewKey(T, n, m, x)
             /\ sg[lo[x]] < NewKey(T, n, m, x) /\ NewKey(T, n, m, x) < sg[hi[x]]
  <2>1. x \in U /\ x # m
    OBVIOUS
  <2>2. PICK lx \in Int, kx \in Int, hx \in Int :
          /\ lx = lo[x] /\ kx = T.key[x] /\ hx = hi[x] /\ lx < kx /\ kx < hx
          /\ lx \in 0 .. NKeys + 1 /\ kx \in 0 .. NKeys + 1 /\ hx \in 0 .. NKeys + 1
    <3>1. T.key[x] \in 0 .. NKeys + 1
      BY <1>3, <2>1
    <3> QED BY <1>3, <2>1, <3>1
  <2>3. /\ sg[kx] = (IF k <= kx /\ kx < K THEN K ELSE kx) /\ sg[lx] = (IF k <= lx /\ lx < K THEN K ELSE lx)
        /\ sg[hx] = (IF k <= hx /\ hx < K THEN K ELSE hx)
    BY <1>6, <2>2
  <2>4. CASE x = n
    <3>1. m # n /\ K = T.key[m] /\ kx = k /\ NewKey(T, n, m, x) = K
      BY <1>1, <1>4, <2>1, <2>2, <2>4 DEF NewKey
    <3>2. hi[m] <= hx
      BY <2>2, <2>4, <3>1 DEF Leaving
    <3>3. K < hi[m] /\ hi[m] \in Int
      BY <1>3, <3>1
    <3>4. sg[kx] = K
      BY <1>2, <1>4, <2>3, <3>1
    <3>5. sg[lx] < K
      BY <1>2, <1>4, <2>2, <2>3, <3>1
    <3>6. K < hx
      BY <1>2, <2>2, <3>2, <3>3
    <3>7. K < sg[hx]
      BY <1>2, <2>2, <2>3, <3>6
    <3> QED BY <2>2, <3>1, <3>4, <3>5, <3>7
  <2>5. CASE x # n
    <3>1. NewKey(T, n, m, x) = kx
      BY <2>2, <2>5 DEF NewKey
    <3>2. kx < k \/ K <= kx
      BY <1>2, <1>4, <2>1, <2>2, <2>5
    <3>3. k <= lx /\ lx < K => K < kx
      BY <1>2, <1>4, <2>1, <2>2, <2>5
    <3>4. sg[kx] = kx
      BY <1>2, <2>2, <2>3, <3>2
    <3>5. sg[lx] < kx
      BY <1>2, <2>2, <2>3, <3>3
    <3>6. kx < sg[hx]
      BY <1>2, <2>2, <2>3
    <3> QED BY <2>2, <3>1, <3>4, <3>5, <3>6
  <2> QED BY <2>4, <2>5
<1>10. c # NIL => sg[lo[c]] = sg[lo[m]] /\ sg[hi[c]] = sg[hi[m]]
  <2> SUFFICES ASSUME c # NIL PROVE sg[lo[c]] = sg[lo[m]] /\ sg[hi[c]] = sg[hi[m]]
    OBVIOUS
  <2>1. CASE m = n
    <3>1. T.ch[m][0] = c /\ K = hi[n]
      BY <1>1, <2>1 DEF Leaving
    <3>2. lo[c] = lo[m] /\ hi[c] = k
      BY <1>3, <1>4, <2>1, <3>1, NodeIs
    <3>3. sg[k] = K
      BY <1>2, <1>3, <1>4, <1>6
    <3>4. sg[K] = K
      BY <1>2, <1>3, <1>6
    <3> QED BY <2>1, <3>1, <3>2, <3>3, <3>4
  <2>2. CASE m # n
    <3>1. T.ch[m][1] = c /\ lo[m] = k /\ K = T.key[m]
      BY <1>1, <1>4, <2>2 DEF Leaving
    <3>2. lo[c] = K /\ hi[c] = hi[m]
      BY <1>3, <3>1, NodeIs
    <3>3. sg[k] = K
      BY <1>2, <1>3, <1>4, <1>6
    <3>4. sg[K] = K
      BY <1>2, <1>3, <1>6
    <3> QED BY <3>1, <3>2, <3>3, <3>4
  <2> QED BY <2>1, <2>2
<1> QED BY <1>6, <1>7, <1>8, <1>9, <1>10 DEF Squeezes

\* The keys below the nodes behind it.
LEMMA SplicedOrder ==
  ASSUME NEW T, NEW U, NEW lo, NEW hi, Formed(T, U, lo, hi), NEW n, NEW m, NEW c, NEW i,
         Leaving(T, U, lo, hi, n, m, c, i), NEW V, V = U \ {m}, NEW S, Spliced(S, T, V, n, m, c)
  PROVE  \E l, h : Ordered(S, V, l, h)
<1>1. PICK sg : Squeezes(T, V, lo, hi, n, m, c, sg)
  BY SqueezeIs
<1>2. /\ sg \in [0 .. NKeys + 1 -> 0 .. NKeys + 1]
      /\ \A a, b \in 0 .. NKeys + 1 : a <= b => sg[a] <= sg[b]
      /\ sg[0] = 0 /\ sg[NKeys + 1] = NKeys + 1
      /\ c # NIL => sg[lo[c]] = sg[lo[m]] /\ sg[hi[c]] = sg[hi[m]]
  BY <1>1 DEF Squeezes
<1>3. /\ S.root = (IF m = T.root THEN c ELSE T.root)
      /\ \A x \in V : \A j \in Sides : S.ch[x][j] = IF T.ch[x][j] = m THEN c ELSE T.ch[x][j]
  BY DEF Spliced
<1>4. \A x \in V : /\ sg[T.key[x]] = S.key[x] /\ sg[lo[x]] < S.key[x] /\ S.key[x] < sg[hi[x]]
  BY <1>1 DEF Squeezes, Spliced
<1>5. /\ lo \in [Nodes -> 0 .. NKeys + 1] /\ hi \in [Nodes -> 0 .. NKeys + 1]
      /\ \A x \in U : T.ch[x][0] # NIL => lo[T.ch[x][0]] = lo[x] /\ hi[T.ch[x][0]] = T.key[x]
      /\ \A x \in U : T.ch[x][1] # NIL => lo[T.ch[x][1]] = T.key[x] /\ hi[T.ch[x][1]] = hi[x]
      /\ T.root # NIL => lo[T.root] = 0 /\ hi[T.root] = NKeys + 1
      /\ \A a, b \in U : a # b => Apart(T, lo, hi, a, b)
  BY DEF Formed, Ordered
<1>6. /\ m \in U /\ m # NIL /\ c # m /\ c \in V \cup {NIL}
      /\ \A x \in V : x \in U /\ x \in Nodes /\ x # m
      /\ \A x \in U : \A j \in Sides : T.ch[x][j] \in U \cup {NIL}
      /\ T.root \in U \cup {NIL}
  <2>1. m \in U /\ m # NIL /\ c # m /\ c \in V \cup {NIL}
    BY LeavingChild
  <2>2. \A x \in V : x \in U /\ x \in Nodes /\ x # m
    BY NodeIs
  <2> QED BY <2>1, <2>2 DEF Formed, Linked
<1> DEFINE l == [x \in Nodes |-> sg[lo[x]]]
           h == [x \in Nodes |-> sg[hi[x]]]
<1>7. /\ l \in [Nodes -> 0 .. NKeys + 1] /\ h \in [Nodes -> 0 .. NKeys + 1]
      /\ \A x \in Nodes : l[x] = sg[lo[x]] /\ h[x] = sg[hi[x]]
  BY <1>2, <1>5
<1> HIDE DEF l, h
<1>8. \A x \in V : l[x] < S.key[x] /\ S.key[x] < h[x]
  BY <1>4, <1>6, <1>7
<1>9. ASSUME NEW x \in V, NEW j \in Sides, S.ch[x][j] # NIL
      PROVE  /\ T.ch[x][j] # NIL /\ l[S.ch[x][j]] = sg[lo[T.ch[x][j]]]
             /\ h[S.ch[x][j]] = sg[hi[T.ch[x][j]]]
  <2>1. PICK y : y = T.ch[x][j] /\ S.ch[x][j] = IF y = m THEN c ELSE y
    BY <1>3
  <2>2. y \in U \cup {NIL}
    BY <1>6, <2>1
  <2>3. CASE y = m
    <3>1. c # NIL /\ c \in Nodes /\ S.ch[x][j] = c
      BY <1>6, <1>9, <2>1, <2>3
    <3> QED BY <1>2, <1>6, <1>7, <2>1, <2>3, <3>1
  <2>4. CASE y # m
    <3>1. S.ch[x][j] = y /\ y # NIL /\ y \in V
      BY <1>9, <2>1, <2>2, <2>4
    <3> QED BY <1>6, <1>7, <2>1, <3>1
  <2> QED BY <2>3, <2>4
<1>10. ASSUME NEW x \in V
       PROVE  /\ S.ch[x][0] # NIL => l[S.ch[x][0]] = l[x] /\ h[S.ch[x][0]] = S.key[x]
              /\ S.ch[x][1] # NIL => l[S.ch[x][1]] = S.key[x] /\ h[S.ch[x][1]] = h[x]
  <2>1. 0 \in Sides /\ 1 \in Sides
    BY DEF Sides
  <2>2. x \in U /\ l[x] = sg[lo[x]] /\ h[x] = sg[hi[x]] /\ sg[T.key[x]] = S.key[x]
    BY <1>4, <1>6, <1>7
  <2>3. S.ch[x][0] # NIL => l[S.ch[x][0]] = l[x] /\ h[S.ch[x][0]] = S.key[x]
    <3> SUFFICES ASSUME S.ch[x][0] # NIL PROVE l[S.ch[x][0]] = l[x] /\ h[S.ch[x][0]] = S.key[x]
      OBVIOUS
    <3>1. T.ch[x][0] # NIL /\ l[S.ch[x][0]] = sg[lo[T.ch[x][0]]] /\ h[S.ch[x][0]] = sg[hi[T.ch[x][0]]]
      BY <1>9, <2>1
    <3>2. lo[T.ch[x][0]] = lo[x] /\ hi[T.ch[x][0]] = T.key[x]
      BY <1>5, <2>2, <3>1
    <3> QED BY <2>2, <3>1, <3>2
  <2>4. S.ch[x][1] # NIL => l[S.ch[x][1]] = S.key[x] /\ h[S.ch[x][1]] = h[x]
    <3> SUFFICES ASSUME S.ch[x][1] # NIL PROVE l[S.ch[x][1]] = S.key[x] /\ h[S.ch[x][1]] = h[x]
      OBVIOUS
    <3>1. T.ch[x][1] # NIL /\ l[S.ch[x][1]] = sg[lo[T.ch[x][1]]] /\ h[S.ch[x][1]] = sg[hi[T.ch[x][1]]]
      BY <1>9, <2>1
    <3>2. lo[T.ch[x][1]] = T.key[x] /\ hi[T.ch[x][1]] = hi[x]
      BY <1>5, <2>2, <3>1
    <3> QED BY <2>2, <3>1, <3>2
  <2> QED BY <2>3, <2>4
<1>11. S.root # NIL => l[S.root] = 0 /\ h[S.root] = NKeys + 1
  <2>1. CASE m = T.root
    <3>1. lo[m] = 0 /\ hi[m] = NKeys + 1 /\ S.root = c
      BY <1>3, <1>5, <1>6, <2>1
    <3>2. c # NIL => c \in Nodes
      BY <1>6
    <3> QED BY <1>2, <1>7, <3>1, <3>2
  <2>2. CASE m # T.root
    <3>1. S.root = T.root /\ (T.root # NIL => T.root \in Nodes)
      BY <1>3, <1>6, <2>2
    <3> QED BY <1>2, <1>5, <1>7, <3>1
  <2> QED BY <2>1, <2>2
<1>12. ASSUME NEW a \in V, NEW b \in V, a # b PROVE Apart(S, l, h, a, b)
  <2>1. Apart(T, lo, hi, a, b)
    BY <1>5, <1>6, <1>12
  <2>2. /\ lo[a] \in 0 .. NKeys + 1 /\ hi[a] \in 0 .. NKeys + 1 /\ lo[b] \in 0 .. NKeys + 1 /\ hi[b] \in 0 .. NKeys + 1
        /\ T.key[a] \in 0 .. NKeys + 1 /\ T.key[b] \in 0 .. NKeys + 1
    <3>1. T.key[a] \in 1 .. NKeys /\ T.key[b] \in 1 .. NKeys /\ NKeys \in Nat
      BY <1>6, NodeIs, Numbers
    <3>2. T.key[a] \in 0 .. NKeys + 1 /\ T.key[b] \in 0 .. NKeys + 1
      BY <3>1
    <3> QED BY <1>5, <1>6, <3>2
  <2>3. /\ l[a] = sg[lo[a]] /\ h[a] = sg[hi[a]] /\ S.key[a] = sg[T.key[a]]
        /\ l[b] = sg[lo[b]] /\ h[b] = sg[hi[b]] /\ S.key[b] = sg[T.key[b]]
    BY <1>4, <1>6, <1>7
  <2>4. /\ hi[a] <= lo[b] => h[a] <= l[b]
        /\ hi[b] <= lo[a] => h[b] <= l[a]
        /\ lo[b] <= lo[a] => l[b] <= l[a]
        /\ lo[a] <= lo[b] => l[a] <= l[b]
        /\ hi[a] <= T.key[b] => h[a] <= S.key[b]
        /\ hi[b] <= T.key[a] => h[b] <= S.key[a]
        /\ T.key[b] <= lo[a] => S.key[b] <= l[a]
        /\ T.key[a] <= lo[b] => S.key[a] <= l[b]
        /\ hi[a] <= hi[b] => h[a] <= h[b]
        /\ hi[b] <= hi[a] => h[b] <= h[a]
    BY <1>2, <2>2, <2>3
  <2> QED BY <2>1, <2>4, Zenon DEF Apart, Under
<1>13. Ordered(S, V, l, h)
  BY <1>7, <1>8, <1>10, <1>11, <1>12 DEF Ordered
<1> QED BY <1>13

\* The keys of the nodes in U.
KeySet(T, U) == {T.key[x] : x \in U}

\* The keys: that of n has gone.
LEMMA SplicedKeys ==
  ASSUME NEW T, NEW U, NEW lo, NEW hi, Formed(T, U, lo, hi), NEW n, NEW m, NEW c, NEW i,
         Leaving(T, U, lo, hi, n, m, c, i), NEW V, V = U \ {m}, NEW S, Spliced(S, T, V, n, m, c)
  PROVE  KeySet(S, V) = KeySet(T, U) \ {T.key[n]}
<1>1. n \in U /\ m \in U
  BY DEF Leaving
<1>2. \A x \in V : S.key[x] = IF x = n THEN T.key[m] ELSE T.key[x]
  BY DEF Spliced, NewKey
<1>3. \A x, y \in U : x # y => T.key[x] # T.key[y]
  BY KeysDiffer
<1>4. ASSUME NEW x \in V PROVE S.key[x] \in {T.key[y] : y \in U} \ {T.key[n]}
  BY <1>1, <1>2, <1>3
<1>5. ASSUME NEW y \in U, T.key[y] # T.key[n] PROVE T.key[y] \in {S.key[x] : x \in V}
  <2>1. CASE y = m
    <3>1. n \in V /\ S.key[n] = T.key[y]
      BY <1>1, <1>2, <1>5, <2>1
    <3> QED BY <3>1
  <2>2. CASE y # m
    <3>1. y \in V /\ S.key[y] = T.key[y]
      BY <1>2, <1>5, <2>2
    <3> QED BY <3>1
  <2> QED BY <2>1, <2>2
<1> QED BY <1>4, <1>5 DEF KeySet

\* m is gone: S is T without it.
Cut(S, T, U, V, n, m, c) ==
  /\ Idle(T, U) /\ Family(T, U) /\ Shaped(S, V) /\ Family(S, V) /\ V = U \ {m} /\ m \in U
  /\ Spliced(S, T, V, n, m, c)
  /\ c # m /\ c \in V \cup {NIL} /\ (c # NIL => T.par[c] = m /\ c # T.root)
  /\ \E j \in Sides : T.ch[m][j] = c

\* What that says of the pointers and colours, and of the black heights.
LEMMA CutIs ==
  ASSUME NEW S, NEW T, NEW U, NEW V, NEW n, NEW m, NEW c, Cut(S, T, U, V, n, m, c)
  PROVE  /\ S.root = (IF m = T.root THEN c ELSE T.root)
         /\ \A x \in V : x \in U /\ x # m /\ x \in All /\ x # NIL
         /\ \A x \in V : \A j \in Sides :
              /\ S.ch[x][j] = IF T.ch[x][j] = m THEN c ELSE T.ch[x][j]
              /\ T.ch[x][j] \in U \cup {NIL} /\ (T.ch[x][j] # NIL => T.par[T.ch[x][j]] = x)
              /\ T.ch[x][j] # NIL => T.ch[x][j] # c
         /\ c \in All /\ NIL \in All /\ m \in All /\ m # NIL
<1>1. /\ S.root = (IF m = T.root THEN c ELSE T.root)
      /\ \A x \in V : \A j \in Sides : S.ch[x][j] = IF T.ch[x][j] = m THEN c ELSE T.ch[x][j]
  BY DEF Cut, Spliced
<1>2. V = U \ {m} /\ m \in U /\ c # m /\ c \in V \cup {NIL} /\ (c # NIL => T.par[c] = m)
  BY DEF Cut
<1>3. /\ NIL \notin U /\ NIL \in All /\ U \subseteq All
      /\ \A x \in U : \A j \in Sides : /\ T.ch[x][j] \in U \cup {NIL}
                                       /\ T.ch[x][j] # NIL => T.par[T.ch[x][j]] = x
  BY DEF Cut, Family
<1>4. \A x \in V : x \in U /\ x # m /\ x \in All /\ x # NIL
  BY <1>2, <1>3
<1>5. ASSUME NEW x \in V, NEW j \in Sides, T.ch[x][j] # NIL PROVE T.ch[x][j] # c
  BY <1>2, <1>3, <1>4, <1>5
<1> QED BY <1>1, <1>2, <1>3, <1>4, <1>5

\* The colours.
LEMMA CutColours ==
  ASSUME NEW S, NEW T, NEW U, NEW V, NEW n, NEW m, NEW c, Cut(S, T, U, V, n, m, c)
  PROVE  /\ ~T.red[NIL] /\ ~T.red[T.root] /\ (T.red[m] => ~T.red[c] /\ m # T.root)
         /\ \A x \in V \cup {NIL} : S.red[x] = T.red[x]
         /\ \A x \in V : T.red[x] => \A j \in Sides : ~T.red[T.ch[x][j]]
<1>1. \A x \in V \cup {NIL} : S.red[x] = T.red[x]
  BY DEF Cut, Spliced
<1>2. /\ T.root \in U \cup {NIL} /\ NIL \notin U
      /\ \A x \in U : \A j \in Sides : T.ch[x][j] \in U \cup {NIL}
  BY DEF Cut, Family
<1>3. V = U \ {m} /\ m \in U
  BY DEF Cut
<1>4. PICK j \in Sides : T.ch[m][j] = c
  BY DEF Cut
<1>5. ~T.red[NIL] /\ ~T.red[T.root] /\ \A x \in U : T.red[x] => \A i \in Sides : ~T.red[T.ch[x][i]]
  BY <1>2 DEF Cut, Idle, Coloured
<1>6. T.red[m] => ~T.red[c] /\ m # T.root
  BY <1>3, <1>4, <1>5
<1>7. \A x \in V : T.red[x] => \A i \in Sides : ~T.red[T.ch[x][i]]
  BY <1>3, <1>5
<1> QED BY <1>1, <1>5, <1>6, <1>7

\* The black heights.
LEMMA CutHeights ==
  ASSUME NEW S, NEW T, NEW U, NEW V, NEW n, NEW m, NEW c, Cut(S, T, U, V, n, m, c)
  PROVE  \E bh : /\ bh \in [All -> Nat] /\ bh[NIL] = 0
                 /\ bh[m] = bh[c] + (IF T.red[m] THEN 0 ELSE 1)
                 /\ \A x \in V : \A j \in Sides : bh[x] = bh[T.ch[x][j]] + (IF T.red[x] THEN 0 ELSE 1)
<1>1. PICK bh : Heights(T, U, {}, bh)
  BY DEF Cut, Idle, Balanced
<1>2. Family(T, U) /\ V = U \ {m} /\ m \in U
  BY DEF Cut
<1>3. /\ bh \in [All -> Nat] /\ bh[NIL] = 0
      /\ \A x \in U : \A j \in Sides : bh[x] = bh[T.ch[x][j]] + (IF T.red[x] THEN 0 ELSE 1)
  BY <1>1, <1>2, NoneHeights
<1>4. PICK j \in Sides : T.ch[m][j] = c
  BY DEF Cut
<1>5. bh[m] = bh[c] + (IF T.red[m] THEN 0 ELSE 1)
  BY <1>2, <1>3, <1>4
<1>6. \A x \in V : \A i \in Sides : bh[x] = bh[T.ch[x][i]] + (IF T.red[x] THEN 0 ELSE 1)
  BY <1>2, <1>3
<1> QED BY <1>3, <1>5, <1>6

\* A red node leaves.
LEMMA CutRed ==
  ASSUME NEW S, NEW T, NEW U, NEW V, NEW n, NEW m, NEW c, Cut(S, T, U, V, n, m, c), T.red[m]
  PROVE  Idle(S, V)
<1>1. /\ S.root = (IF m = T.root THEN c ELSE T.root)
      /\ \A x \in V : x \in U /\ x # m /\ x \in All /\ x # NIL
      /\ \A x \in V : \A j \in Sides :
           /\ S.ch[x][j] = IF T.ch[x][j] = m THEN c ELSE T.ch[x][j]
           /\ T.ch[x][j] \in U \cup {NIL}
      /\ c \in All /\ NIL \in All /\ m \in All /\ m # NIL
  BY CutIs
<1>2. /\ ~T.red[NIL] /\ ~T.red[T.root] /\ ~T.red[c] /\ m # T.root
      /\ \A x \in V \cup {NIL} : S.red[x] = T.red[x]
      /\ \A x \in V : T.red[x] => \A j \in Sides : ~T.red[T.ch[x][j]]
  BY CutColours
<1>3. PICK bh : /\ bh \in [All -> Nat] /\ bh[NIL] = 0
                /\ bh[m] = bh[c] + (IF T.red[m] THEN 0 ELSE 1)
                /\ \A x \in V : \A j \in Sides : bh[x] = bh[T.ch[x][j]] + (IF T.red[x] THEN 0 ELSE 1)
  BY CutHeights
<1>4. V = U \ {m} /\ c \in V \cup {NIL} /\ Shaped(S, V) /\ T.root \in U \cup {NIL}
  BY DEF Cut, Family
<1>5. Coloured(S, V, NIL, NIL)
  <2>1. ~S.red[NIL]
    BY <1>2
  <2>2. ~S.red[S.root]
    <3>1. S.root = T.root /\ T.root \in V \cup {NIL}
      BY <1>1, <1>2, <1>4
    <3> QED BY <1>2, <3>1
  <2>3. ASSUME NEW x \in V, S.red[x], NEW j \in Sides PROVE ~S.red[S.ch[x][j]]
    <3>1. T.red[x]
      BY <1>2, <2>3
    <3>2. CASE T.ch[x][j] = m
      <4>1. S.ch[x][j] = c
        BY <1>1, <3>2
      <4> QED BY <1>2, <1>4, <4>1
    <3>3. CASE T.ch[x][j] # m
      <4>1. S.ch[x][j] = T.ch[x][j] /\ T.ch[x][j] \in V \cup {NIL}
        BY <1>1, <1>4, <3>3
      <4>2. ~T.red[T.ch[x][j]]
        BY <1>2, <3>1
      <4> QED BY <1>2, <4>1, <4>2
    <3> QED BY <3>2, <3>3
  <2> QED BY <2>1, <2>2, <2>3 DEF Coloured
<1>6. Balanced(S, V, {})
  <2>1. bh[m] = bh[c]
    <3>1. bh[c] \in Nat /\ bh[m] = bh[c] + 0
      BY <1>1, <1>3
    <3> QED BY <3>1
  <2>2. ASSUME NEW x \in V, NEW j \in Sides PROVE bh[x] = bh[S.ch[x][j]] + Weight(S, {}, x, j)
    <3>1. Weight(S, {}, x, j) = IF S.red[x] THEN 0 ELSE 1
      BY WeightNone
    <3>2. bh[S.ch[x][j]] = bh[T.ch[x][j]]
      BY <1>1, <2>1
    <3>3. bh[x] = bh[T.ch[x][j]] + (IF T.red[x] THEN 0 ELSE 1)
      BY <1>3
    <3>4. S.red[x] = T.red[x]
      BY <1>2
    <3> QED BY <3>1, <3>2, <3>3, <3>4
  <2>3. Heights(S, V, {}, bh)
    BY <1>3, <2>2 DEF Heights
  <2> QED BY <2>3 DEF Balanced
<1> QED BY <1>4, <1>5, <1>6 DEF Idle

\* A red node takes the place of a black one and becomes black.
LEMMA CutBlackened ==
  ASSUME NEW S, NEW T, NEW U, NEW V, NEW n, NEW m, NEW c, Cut(S, T, U, V, n, m, c), ~T.red[m], T.red[c],
         NEW W, Blackened(W, S, c)
  PROVE  Idle(W, V)
<1>1. /\ S.root = (IF m = T.root THEN c ELSE T.root)
      /\ \A x \in V : x \in U /\ x # m /\ x \in All /\ x # NIL
      /\ \A x \in V : \A j \in Sides :
           /\ S.ch[x][j] = IF T.ch[x][j] = m THEN c ELSE T.ch[x][j]
           /\ T.ch[x][j] \in U \cup {NIL} /\ (T.ch[x][j] # NIL => T.ch[x][j] # c)
      /\ c \in All /\ NIL \in All /\ m \in All /\ m # NIL
  BY CutIs
<1>2. /\ ~T.red[NIL] /\ ~T.red[T.root]
      /\ \A x \in V \cup {NIL} : S.red[x] = T.red[x]
      /\ \A x \in V : T.red[x] => \A j \in Sides : ~T.red[T.ch[x][j]]
  BY CutColours
<1>3. PICK bh : /\ bh \in [All -> Nat] /\ bh[NIL] = 0
                /\ bh[m] = bh[c] + (IF T.red[m] THEN 0 ELSE 1)
                /\ \A x \in V : \A j \in Sides : bh[x] = bh[T.ch[x][j]] + (IF T.red[x] THEN 0 ELSE 1)
  BY CutHeights
<1>4. /\ V = U \ {m} /\ c \in V \cup {NIL} /\ Shaped(S, V) /\ T.root \in U \cup {NIL}
      /\ c # NIL => c # T.root
  BY DEF Cut, Family
<1>5. c # NIL /\ c \in V
  BY <1>2, <1>4
<1>6. Recoloured(W, S) /\ W.root = S.root /\ W.ch = S.ch
  BY DEF Blackened, Recoloured
<1>7. ~W.red[c] /\ W.red \in [All -> BOOLEAN]
  BY DEF Blackened
<1>8. \A x \in All : x # c => W.red[x] = S.red[x]
  BY DEF Blackened
<1>9. Shaped(W, V)
  <2>1. PICK lo, hi : Formed(S, V, lo, hi)
    BY <1>4 DEF Shaped
  <2>2. Formed(W, V, lo, hi)
    BY <1>6, <2>1, RecolouredForms
  <2> QED BY <2>2 DEF Shaped
<1>10. ASSUME NEW x \in V \cup {NIL}, x # c PROVE W.red[x] = T.red[x]
  BY <1>1, <1>2, <1>8, <1>10
<1>11. Coloured(W, V, NIL, NIL)
  <2>1. ~W.red[NIL]
    BY <1>2, <1>5, <1>10
  <2>2. ~W.red[W.root]
    <3>1. CASE m = T.root
      BY <1>1, <1>6, <1>7, <3>1
    <3>2. CASE m # T.root
      <4>1. W.root = T.root /\ T.root \in V \cup {NIL} /\ T.root # c
        BY <1>1, <1>4, <1>5, <1>6, <3>2
      <4> QED BY <1>2, <1>10, <4>1
    <3> QED BY <3>1, <3>2
  <2>3. ASSUME NEW x \in V, W.red[x], NEW j \in Sides PROVE ~W.red[W.ch[x][j]]
    <3>1. x # c
      BY <1>7, <2>3
    <3>2. T.red[x]
      BY <1>10, <2>3, <3>1
    <3>3. CASE T.ch[x][j] = m
      <4>1. W.ch[x][j] = c
        BY <1>1, <1>6, <3>3
      <4> QED BY <1>7, <4>1
    <3>4. CASE T.ch[x][j] # m
      <4>1. W.ch[x][j] = T.ch[x][j] /\ T.ch[x][j] \in V \cup {NIL} /\ T.ch[x][j] # c
        BY <1>1, <1>4, <1>5, <1>6, <3>4
      <4>2. ~T.red[T.ch[x][j]]
        BY <1>2, <3>2
      <4> QED BY <1>10, <4>1, <4>2
    <3> QED BY <3>3, <3>4
  <2> QED BY <2>1, <2>2, <2>3 DEF Coloured
<1>12. Balanced(W, V, {})
  <2>1. PICK a \in Nat : a = bh[c] /\ bh[m] = a + 1
    BY <1>1, <1>3
  <2> DEFINE b == [bh EXCEPT ![c] = a + 1]
  <2>2. b \in [All -> Nat] /\ b[c] = a + 1 /\ b[NIL] = 0 /\ \A x \in All : x # c => b[x] = bh[x]
    BY <1>1, <1>3, <1>5, <2>1
  <2> HIDE DEF b
  <2>3. ASSUME NEW x \in V, NEW j \in Sides PROVE b[x] = b[W.ch[x][j]] + Weight(W, {}, x, j)
    <3>1. Weight(W, {}, x, j) = IF W.red[x] THEN 0 ELSE 1
      BY WeightNone
    <3>2. b[W.ch[x][j]] = bh[T.ch[x][j]]
      <4>1. CASE T.ch[x][j] = m
        <5>1. W.ch[x][j] = c
          BY <1>1, <1>6, <4>1
        <5> QED BY <2>1, <2>2, <4>1, <5>1
      <4>2. CASE T.ch[x][j] # m
        <5>1. W.ch[x][j] = T.ch[x][j] /\ T.ch[x][j] \in All /\ T.ch[x][j] # c
          BY <1>1, <1>4, <1>5, <1>6, <4>2
        <5> QED BY <2>2, <5>1
      <4> QED BY <4>1, <4>2
    <3>3. bh[x] = bh[T.ch[x][j]] + (IF T.red[x] THEN 0 ELSE 1)
      BY <1>3
    <3>4. CASE x = c
      <4>1. PICK t \in Nat : t = bh[T.ch[x][j]]
        BY <1>1, <1>3, <1>4
      <4>2. a = t + 0
        BY <2>1, <3>3, <3>4, <4>1
      <4>3. Weight(W, {}, x, j) = 1
        BY <1>7, <3>1, <3>4
      <4>4. b[x] = a + 1 /\ b[W.ch[x][j]] = t
        BY <2>2, <3>2, <3>4, <4>1
      <4> QED BY <4>2, <4>3, <4>4
    <3>5. CASE x # c
      <4>1. b[x] = bh[x]
        BY <1>1, <2>2, <3>5
      <4>2. W.red[x] = T.red[x]
        BY <1>10, <3>5
      <4> QED BY <3>1, <3>2, <3>3, <4>1, <4>2
    <3> QED BY <3>4, <3>5
  <2>4. Heights(W, V, {}, b)
    BY <2>2, <2>3 DEF Heights
  <2> QED BY <2>4 DEF Balanced
<1> QED BY <1>9, <1>11, <1>12 DEF Idle

\* A black node leaves, and its place lacks a black node.
LEMMA CutBlack ==
  ASSUME NEW S, NEW T, NEW U, NEW V, NEW n, NEW m, NEW c, Cut(S, T, U, V, n, m, c), ~T.red[m], ~T.red[c]
  PROVE  Erasing(S, V, c)
<1>1. /\ S.root = (IF m = T.root THEN c ELSE T.root)
      /\ \A x \in V : x \in U /\ x # m /\ x \in All /\ x # NIL
      /\ \A x \in V : \A j \in Sides :
           /\ S.ch[x][j] = IF T.ch[x][j] = m THEN c ELSE T.ch[x][j]
           /\ T.ch[x][j] \in U \cup {NIL} /\ (T.ch[x][j] # NIL => T.par[T.ch[x][j]] = x)
      /\ c \in All /\ NIL \in All /\ m \in All /\ m # NIL
  BY CutIs
<1>2. /\ ~T.red[NIL] /\ ~T.red[T.root]
      /\ \A x \in V \cup {NIL} : S.red[x] = T.red[x]
      /\ \A x \in V : T.red[x] => \A j \in Sides : ~T.red[T.ch[x][j]]
  BY CutColours
<1>3. PICK bh : /\ bh \in [All -> Nat] /\ bh[NIL] = 0
                /\ bh[m] = bh[c] + (IF T.red[m] THEN 0 ELSE 1)
                /\ \A x \in V : \A j \in Sides : bh[x] = bh[T.ch[x][j]] + (IF T.red[x] THEN 0 ELSE 1)
  BY CutHeights
<1>4. /\ V = U \ {m} /\ m \in U /\ c \in V \cup {NIL} /\ Shaped(S, V) /\ T.root \in U \cup {NIL} /\ NIL \notin U
      /\ (c # NIL => c # T.root) /\ (T.root = NIL => U = {}) /\ S.par[c] = T.par[m]
      /\ \A x \in U : x # T.root => T.par[x] \in U /\ \E i \in Sides : T.ch[T.par[x]][i] = x
      /\ \A x \in U : \A i \in Sides : T.ch[x][i] # NIL => T.ch[x][i] # x
  BY DEF Cut, Family, Spliced
<1>5. ~S.red[c] /\ ~S.red[NIL]
  BY <1>2, <1>4
<1>6. Coloured(S, V, NIL, c)
  <2>1. ~S.red[S.root]
    <3>1. CASE m = T.root
      BY <1>1, <1>5, <3>1
    <3>2. CASE m # T.root
      <4>1. S.root = T.root /\ T.root \in V \cup {NIL}
        BY <1>1, <1>4, <3>2
      <4> QED BY <1>2, <4>1
    <3> QED BY <3>1, <3>2
  <2>2. ASSUME NEW x \in V, S.red[x], NEW j \in Sides PROVE ~S.red[S.ch[x][j]]
    <3>1. T.red[x]
      BY <1>2, <2>2
    <3>2. CASE T.ch[x][j] = m
      <4>1. S.ch[x][j] = c
        BY <1>1, <3>2
      <4> QED BY <1>5, <4>1
    <3>3. CASE T.ch[x][j] # m
      <4>1. S.ch[x][j] = T.ch[x][j] /\ T.ch[x][j] \in V \cup {NIL}
        BY <1>1, <1>4, <3>3
      <4>2. ~T.red[T.ch[x][j]]
        BY <1>2, <3>1
      <4> QED BY <1>2, <4>1, <4>2
    <3> QED BY <3>2, <3>3
  <2> QED BY <1>5, <2>1, <2>2 DEF Coloured
<1>7. PICK a \in Nat : a = bh[c] /\ bh[m] = a + 1
  BY <1>1, <1>3
<1>8. CASE m = T.root
  <2>1. c = S.root
    BY <1>1, <1>8
  <2>2. ASSUME NEW x \in V, NEW j \in Sides PROVE bh[x] = bh[S.ch[x][j]] + Weight(S, {}, x, j)
    <3>1. Weight(S, {}, x, j) = IF S.red[x] THEN 0 ELSE 1
      BY WeightNone
    <3>2. T.ch[x][j] # m
      <4>1. T.root # NIL => T.par[T.root] = NIL
        BY DEF Cut, Family
      <4> QED BY <1>1, <1>4, <1>8, <4>1
    <3>3. S.ch[x][j] = T.ch[x][j] /\ S.red[x] = T.red[x]
      BY <1>1, <1>2, <3>2
    <3> QED BY <1>3, <3>1, <3>3
  <2>3. Heights(S, V, {}, bh)
    BY <1>3, <2>2 DEF Heights
  <2> QED BY <1>4, <1>6, <2>1, <2>3 DEF Erasing, Balanced
<1>9. CASE m # T.root
  <2>1. c # S.root
    BY <1>1, <1>4, <1>9
  <2>2. PICK p \in U, d \in Sides : p = T.par[m] /\ T.ch[p][d] = m
    BY <1>4, <1>9
  <2>3. p \in V
    BY <1>1, <1>4, <2>2
  <2>4. S.ch[p][d] = c
    BY <1>1, <2>2, <2>3
  <2>5. ASSUME NEW x \in V, NEW j \in Sides PROVE bh[x] = bh[S.ch[x][j]] + Weight(S, {<<p, d>>}, x, j)
    <3>1. S.red[x] = T.red[x]
      BY <1>2
    <3>2. PICK w \in Nat : w = IF T.red[x] THEN 0 ELSE 1
      OBVIOUS
    <3>3. bh[x] = bh[T.ch[x][j]] + w
      BY <1>3, <3>2
    <3>4. CASE x = p /\ j = d
      <4>1. Weight(S, {<<p, d>>}, p, d) = IF S.red[p] THEN 1 ELSE 2
        BY WeightAt
      <4>2. Weight(S, {<<p, d>>}, x, j) = 1 + w
        BY <3>1, <3>2, <3>4, <4>1
      <4>3. bh[x] = a + 1 + w
        BY <1>7, <2>2, <3>3, <3>4
      <4>4. bh[S.ch[x][j]] = a
        BY <1>7, <2>4, <3>4
      <4> QED BY <4>2, <4>3, <4>4
    <3>5. CASE x # p \/ j # d
      <4>1. Weight(S, {<<p, d>>}, x, j) = IF S.red[x] THEN 0 ELSE 1
        BY <3>5, WeightOther
      <4>2. Weight(S, {<<p, d>>}, x, j) = w
        BY <3>1, <3>2, <4>1
      <4>3. T.ch[x][j] # m
        <5>1. CASE x # p
          BY <1>1, <2>2, <5>1
        <5>2. CASE x = p /\ j # d
          <6>1. Family(T, U)
            BY DEF Cut
          <6>2. T.ch[p][j] # T.ch[p][d]
            BY <1>1, <2>2, <5>2, <6>1 DEF Family
          <6> QED BY <2>2, <5>2, <6>2
        <5> QED BY <3>5, <5>1, <5>2
      <4>4. S.ch[x][j] = T.ch[x][j]
        BY <1>1, <4>3
      <4> QED BY <3>3, <4>2, <4>4
    <3> QED BY <3>4, <3>5
  <2>6. Heights(S, V, {<<p, d>>}, bh)
    BY <1>3, <2>5 DEF Heights
  <2>7. Short(S, V, c, p, d)
    BY <1>4, <1>6, <2>3, <2>4, <2>6 DEF Short, Balanced
  <2>8. S.par[c] = p
    BY <1>4, <2>2
  <2> QED BY <2>1, <2>7, <2>8 DEF Erasing
<1> QED BY <1>8, <1>9

\* clear leaves an empty tree.
LEMMA ClearedIs ==
  ASSUME NEW T, NEW U, Idle(T, U), NEW S, S = Blank([T EXCEPT !.root = NIL], Nodes \ {})
  PROVE  Idle(S, {})
<1>1. PICK lo, hi : Formed(T, U, lo, hi)
  BY DEF Idle, Shaped
<1>2. T \in Trees /\ NIL \in All /\ NIL \notin Nodes /\ U \subseteq Nodes /\ All = Nodes \cup {NIL}
  BY <1>1, Numbers DEF Formed, All
<1>3. PICK X, F : X = [T EXCEPT !.root = NIL] /\ F = Nodes \ {} /\ F = Nodes
  OBVIOUS
<1>4. X \in Trees /\ X.root = NIL /\ X.red = T.red /\ X.ch = T.ch
  BY <1>2, <1>3 DEF Trees
<1>5. Blanked(S, X, F)
  <2>1. S = Blank(X, F)
    BY <1>3, Zenon
  <2> QED BY <1>4, <2>1, BlankIs
<1>6. \A j \in Sides : T.ch[NIL][j] = NIL
  BY <1>1, <1>2 DEF Formed, Linked
<1>7. ASSUME NEW x \in All, NEW j \in Sides PROVE S.ch[x][j] = NIL
  <2>1. S.ch[x] = IF x \in F THEN X.ch[NIL] ELSE X.ch[x]
    BY <1>5 DEF Blanked
  <2>2. S.ch[x] = T.ch[NIL]
    BY <1>2, <1>3, <1>4, <2>1
  <2> QED BY <1>6, <2>2
<1>8. S \in Trees /\ S.root = NIL
  BY <1>4, <1>5 DEF Blanked
<1>9. ~S.red[NIL]
  <2>1. ~T.red[NIL]
    BY DEF Idle, Coloured
  <2>2. S.red[NIL] = X.red[NIL]
    BY <1>2, <1>3, <1>5 DEF Blanked
  <2> QED BY <1>4, <2>1, <2>2
<1>10. Formed(S, {}, lo, hi)
  <2>1. Linked(S, {})
    BY <1>7, <1>8 DEF Linked
  <2>2. Ordered(S, {}, lo, hi)
    <3>1. lo \in [Nodes -> 0 .. NKeys + 1] /\ hi \in [Nodes -> 0 .. NKeys + 1]
      BY <1>1 DEF Formed, Ordered
    <3> QED BY <1>8, <3>1 DEF Ordered
  <2> QED BY <1>8, <2>1, <2>2 DEF Formed
<1>11. Coloured(S, {}, NIL, NIL)
  BY <1>8, <1>9 DEF Coloured
<1>12. Balanced(S, {}, {})
  <2> DEFINE b == [x \in All |-> 0]
  <2>1. b \in [All -> Nat] /\ b[NIL] = 0
    BY <1>2
  <2> HIDE DEF b
  <2>2. Heights(S, {}, {}, b)
    BY <2>1 DEF Heights
  <2> QED BY <2>2 DEF Balanced
<1> QED BY <1>10, <1>11, <1>12 DEF Idle, Shaped

----------------------------------------------------------------------------
(***************************************************************************)
(* The calls.                                                              *)
(***************************************************************************)

\* A call begins with a tree that is idle.
LEMMA LoopIdle ==
  ASSUME LoopIs(tree, used, pc, cur), pc = "idle"
  PROVE  cur = NIL /\ Idle(tree, used) /\ \E lo, hi : Formed(tree, used, lo, hi)
<1>1. cur = NIL /\ Idle(tree, used)
  BY Zenon DEF LoopIs
<1> QED BY <1>1 DEF Idle, Shaped

\* insert, up to its loop.
LEMMA InsertCall ==
  ASSUME NEW v \in Keys, Insert(v), LoopIs(tree, used, pc, cur)
  PROVE  LoopIs(tree', used', pc', cur') /\ Contents' = Contents \cup {v}
<1>1. PICK n, p : n = NewNode(v) /\ p = Bottom(tree, v)
  OBVIOUS
<1>2. /\ pc = "idle" /\ (\A x \in used : tree.key[x] # v) /\ used' = used \cup {n}
      /\ IF tree.root = NIL
         THEN /\ tree' = [Leaf(tree, n, v, NIL, FALSE) EXCEPT !.root = n]
              /\ UNCHANGED <<pc, cur>>
         ELSE /\ tree' = [Leaf(tree, n, v, p, TRUE) EXCEPT !.ch[p][Bit(tree.key[p] < v)] = n]
              /\ pc' = "insert" /\ cur' = n
  BY <1>1, Zenon DEF Insert
<1>3. cur = NIL /\ Idle(tree, used)
  BY <1>2, LoopIdle
<1>4. PICK lo, hi : Formed(tree, used, lo, hi)
  BY <1>2, LoopIdle
<1>5. n \in Nodes /\ n \notin used
  <2>1. NewNode(v) \in Nodes \ used
    BY <1>2, <1>4, NewNodeIs
  <2> QED BY <1>1, <2>1
<1>6. CASE tree.root = NIL
  <2>1. tree' = [Leaf(tree, n, v, NIL, FALSE) EXCEPT !.root = n] /\ pc' = "idle" /\ cur' = NIL
    BY <1>2, <1>3, <1>6, Zenon
  <2>2. Idle(tree', used \cup {n}) /\ used = {} /\ tree'.key[n] = v
    <3>1. PICK S : S = FirstNode(tree, n, v)
      OBVIOUS
    <3>2. Idle(S, used \cup {n}) /\ used = {} /\ S.key[n] = v
      BY <1>3, <1>4, <1>5, <1>6, <3>1, InsertFirst
    <3> QED BY <2>1, <3>1, <3>2, Zenon DEF FirstNode
  <2>3. LoopIs(tree', used', pc', cur')
    BY <1>2, <2>1, <2>2, Zenon DEF LoopIs
  <2>4. Contents' = Contents \cup {v}
    BY <1>2, <2>2 DEF Contents
  <2> QED BY <2>3, <2>4
<1>7. CASE tree.root # NIL
  <2>1. /\ tree' = [Leaf(tree, n, v, p, TRUE) EXCEPT !.ch[p][Bit(tree.key[p] < v)] = n]
        /\ pc' = "insert" /\ cur' = n
    BY <1>2, <1>7, Zenon
  <2>2. BottomIs(tree, used, lo, hi, v, p)
    BY <1>1, <1>2, <1>4, <1>7, BottomFound
  <2>3. Inserting(tree', used \cup {n}, n) /\ tree'.key[n] = v /\ \A x \in used : tree'.key[x] = tree.key[x]
    <3>1. PICK S : S = NewLeaf(tree, n, v, p)
      OBVIOUS
    <3>2. Inserting(S, used \cup {n}, n) /\ S.key[n] = v /\ SameKeys(S, tree, used)
      BY <1>3, <1>4, <1>5, <2>2, <3>1, InsertBelow
    <3> QED BY <2>1, <3>1, <3>2, Zenon DEF NewLeaf, SameKeys
  <2>4. LoopIs(tree', used', pc', cur')
    BY <1>2, <2>1, <2>3, Zenon DEF LoopIs
  <2>5. Contents' = Contents \cup {v}
    BY <1>2, <2>3 DEF Contents
  <2> QED BY <2>4, <2>5
<1> QED BY <1>6, <1>7

\* erase, up to its loop.
LEMMA EraseCall ==
  ASSUME NEW n \in used, Erase(n), LoopIs(tree, used, pc, cur)
  PROVE  LoopIs(tree', used', pc', cur') /\ Contents' = Contents \ {tree.key[n]}
<1>1. PICK m, c, V : /\ m = Successor(tree, n) /\ c = tree.ch[m][Bit(tree.ch[m][0] = NIL)]
                     /\ V = used \ {m}
  OBVIOUS
<1>2. PICK S : S = EraseCut(tree, V, n, m, c)
  OBVIOUS
<1>3. pc = "idle" /\ used' = V
  BY <1>1, Zenon DEF Erase, Released
<1>4. S = Blank(Put([KeyMoved(tree, n, m) EXCEPT !.par[c] = tree.par[m]], get_ref(tree, m), c),
                Nodes \ used')
  BY <1>2, <1>3, Zenon DEF EraseCut
<1>5. IF tree.red[m] THEN tree' = S /\ UNCHANGED <<pc, cur>>
      ELSE IF tree.red[c] THEN tree' = Paint(S, c, FALSE) /\ UNCHANGED <<pc, cur>>
      ELSE tree' = S /\ pc' = "erase" /\ cur' = c
  BY <1>1, <1>4, Zenon DEF Erase
<1>6. cur = NIL /\ Idle(tree, used)
  BY <1>3, LoopIdle
<1>7. PICK lo, hi : Formed(tree, used, lo, hi)
  BY <1>3, LoopIdle
<1>8. PICK i : Leaving(tree, used, lo, hi, n, m, c, i)
  BY <1>1, <1>7, LeavingIs
<1>9. /\ m \in used /\ n \in used /\ c # m /\ c \in V \cup {NIL}
      /\ c # NIL => tree.par[c] = m /\ c # tree.root
  BY <1>1, <1>7, <1>8, LeavingChild
<1>10. \E j \in Sides : tree.ch[m][j] = c
  BY <1>8 DEF Leaving
<1>11. Spliced(S, tree, V, n, m, c)
  BY <1>1, <1>2, <1>7, <1>9, SplicedIs
<1>12. PICK l, h : Ordered(S, V, l, h)
  BY <1>1, <1>7, <1>8, <1>11, SplicedOrder
<1>13. Linked(S, V)
  BY <1>1, <1>7, <1>8, <1>11, SplicedLinks
<1>14. Formed(S, V, l, h)
  <2>1. S \in Trees
    BY <1>11 DEF Spliced
  <2>2. V \subseteq Nodes
    BY <1>1, <1>7 DEF Formed
  <2> QED BY <1>12, <1>13, <2>1, <2>2 DEF Formed
<1>15. Cut(S, tree, used, V, n, m, c)
  <2>1. Shaped(S, V)
    BY <1>14 DEF Shaped
  <2>2. Family(S, V) /\ Family(tree, used)
    BY <1>7, <1>14, FamilyIs
  <2> QED BY <1>1, <1>6, <1>9, <1>10, <1>11, <2>1, <2>2, Zenon DEF Cut
<1>16. KeySet(S, V) = KeySet(tree, used) \ {tree.key[n]}
  BY <1>1, <1>7, <1>8, <1>11, SplicedKeys
<1>17. ASSUME tree'.key = S.key PROVE Contents' = Contents \ {tree.key[n]}
  BY <1>3, <1>16, <1>17, Zenon DEF Contents, KeySet
<1>18. CASE tree.red[m]
  <2>1. tree' = S /\ pc' = "idle" /\ cur' = NIL
    BY <1>3, <1>5, <1>6, <1>18, Zenon
  <2>2. Idle(S, V)
    BY <1>15, <1>18, CutRed, Zenon
  <2>3. LoopIs(tree', used', pc', cur')
    BY <1>3, <2>1, <2>2, Zenon DEF LoopIs
  <2> QED BY <1>17, <2>1, <2>3
<1>19. CASE ~tree.red[m] /\ tree.red[c]
  <2>1. tree' = Paint(S, c, FALSE) /\ pc' = "idle" /\ cur' = NIL
    BY <1>3, <1>5, <1>6, <1>19, Zenon
  <2>2. S \in Trees /\ c \in All
    BY <1>15 DEF Cut, Family
  <2>3. Blackened(tree', S, c)
    BY <2>1, <2>2, PaintBlack, Zenon
  <2>4. Idle(tree', V)
    BY <1>15, <1>19, <2>3, CutBlackened, Zenon
  <2>5. LoopIs(tree', used', pc', cur')
    BY <1>3, <2>1, <2>4, Zenon DEF LoopIs
  <2>6. tree'.key = S.key
    BY <2>3 DEF Blackened, Recoloured
  <2> QED BY <1>17, <2>5, <2>6
<1>20. CASE ~tree.red[m] /\ ~tree.red[c]
  <2>1. tree' = S /\ pc' = "erase" /\ cur' = c
    BY <1>5, <1>20, Zenon
  <2>2. Erasing(S, V, c)
    BY <1>15, <1>20, CutBlack, Zenon
  <2>3. LoopIs(tree', used', pc', cur')
    BY <1>3, <2>1, <2>2, Zenon DEF LoopIs
  <2> QED BY <1>17, <2>1, <2>3
<1> QED BY <1>18, <1>19, <1>20

\* clear.
LEMMA ClearCall ==
  ASSUME Clear, LoopIs(tree, used, pc, cur)
  PROVE  LoopIs(tree', used', pc', cur') /\ Contents' = {}
<1>1. /\ pc = "idle" /\ used' = used \ do_clear(tree)
      /\ tree' = Blank([tree EXCEPT !.root = NIL], Nodes \ used')
      /\ UNCHANGED <<pc, cur>>
  BY Zenon DEF Clear
<1>2. cur = NIL /\ Idle(tree, used)
  BY <1>1, LoopIdle
<1>3. PICK lo, hi : Formed(tree, used, lo, hi)
  BY <1>1, LoopIdle
<1>4. used \subseteq do_clear(tree)
  BY <1>3, ClearIs
<1>5. used' = {}
  BY <1>1, <1>4
<1>6. Idle(tree', {})
  BY <1>1, <1>2, <1>5, ClearedIs, Zenon
<1>7. LoopIs(tree', used', pc', cur')
  BY <1>1, <1>2, <1>5, <1>6, Zenon DEF LoopIs
<1> QED BY <1>5, <1>7 DEF Contents

----------------------------------------------------------------------------
(***************************************************************************)
(* The theorems.                                                           *)
(***************************************************************************)

\* The inductive invariant.
RbInv == LoopIs(tree, used, pc, cur)

\* The constructor makes an empty tree.
LEMMA InitRb == Init => RbInv
<1> SUFFICES ASSUME Init PROVE RbInv
  OBVIOUS
<1>1. /\ tree.root = NIL /\ used = {} /\ pc = "idle" /\ cur = NIL
      /\ \A n \in All : \A i \in Sides : tree.ch[n][i] = NIL
  BY DEF Init, All, Sides
<1>2. tree \in Trees
  BY Numbers DEF Init, Trees, All, Sides
<1>3. ~tree.red[NIL]
  BY DEF Init
<1>4. Linked(tree, used)
  BY <1>1 DEF Linked
<1>5. \E f : f \in [Nodes -> 0 .. NKeys + 1]
  <2>1. [n \in Nodes |-> 0] \in [Nodes -> 0 .. NKeys + 1]
    BY Numbers
  <2> QED BY <2>1
<1>6. PICK f : f \in [Nodes -> 0 .. NKeys + 1]
  BY <1>5
<1>7. Ordered(tree, used, f, f)
  BY <1>1, <1>6 DEF Ordered
<1>8. Formed(tree, used, f, f)
  BY <1>1, <1>2, <1>4, <1>7 DEF Formed
<1>9. Coloured(tree, used, NIL, NIL)
  BY <1>1, <1>3 DEF Coloured
<1>10. Balanced(tree, used, {})
  <2>1. [n \in All |-> 0] \in [All -> Nat] /\ [n \in All |-> 0][NIL] = 0
    BY Numbers
  <2>2. Heights(tree, used, {}, [n \in All |-> 0])
    BY <1>1, <2>1 DEF Heights
  <2> QED BY <2>2 DEF Balanced
<1>11. Idle(tree, used)
  BY <1>8, <1>9, <1>10 DEF Idle, Shaped
<1> QED BY <1>1, <1>11 DEF RbInv, LoopIs

\* Every step keeps it.
LEMMA NextRb == RbInv /\ [Next]_vars => RbInv'
<1> SUFFICES ASSUME LoopIs(tree, used, pc, cur), [Next]_vars
             PROVE  LoopIs(tree', used', pc', cur')
  BY DEF RbInv
<1>1. ASSUME NEW v \in Keys, Insert(v) PROVE LoopIs(tree', used', pc', cur')
  BY <1>1, InsertCall
<1>2. ASSUME NEW n \in used, Erase(n) PROVE LoopIs(tree', used', pc', cur')
  BY <1>2, EraseCall
<1>3. CASE Clear
  BY <1>3, ClearCall
<1>4. CASE InsertFix
  BY <1>4, InsertRound
<1>5. CASE EraseFix
  BY <1>5, EraseRound
<1>6. CASE UNCHANGED vars
  <2>1. tree' = tree /\ used' = used /\ pc' = pc /\ cur' = cur
    BY <1>6, Zenon DEF vars
  <2> QED BY <2>1, Zenon
<1> QED BY <1>1, <1>2, <1>3, <1>4, <1>5, <1>6, Zenon DEF Next

\* The tree has a shape, and the loop is at a node of it or at NIL.
LEMMA LoopShape ==
  ASSUME RbInv
  PROVE  /\ pc \in {"idle", "insert", "erase"} /\ cur \in used \cup {NIL}
         /\ \E lo, hi : Formed(tree, used, lo, hi)
<1>1. CASE pc = "idle" /\ cur = NIL /\ Idle(tree, used)
  BY <1>1 DEF Idle, Shaped
<1>2. CASE pc = "insert" /\ Inserting(tree, used, cur)
  BY <1>2 DEF Inserting, Shaped
<1>3. CASE pc = "erase" /\ Erasing(tree, used, cur)
  <2>1. CASE cur = tree.root
    <3>1. PICK lo, hi : Formed(tree, used, lo, hi)
      BY <1>3, <2>1 DEF Erasing, Shaped
    <3>2. tree.root \in used \cup {NIL}
      BY <3>1 DEF Formed, Linked
    <3> QED BY <1>3, <2>1, <3>1, <3>2
  <2>2. CASE cur # tree.root
    <3>1. PICK d \in Sides : Short(tree, used, cur, tree.par[cur], d)
      BY <1>3, <2>2 DEF Erasing
    <3>2. PICK p : p \in used /\ tree.ch[p][d] = cur
      BY <3>1 DEF Short
    <3>3. PICK lo, hi : Formed(tree, used, lo, hi)
      BY <3>1 DEF Short, Shaped
    <3>4. tree.ch[p][d] \in used \cup {NIL}
      BY <3>2, <3>3 DEF Formed, Linked
    <3> QED BY <1>3, <3>2, <3>3, <3>4
  <2> QED BY <2>1, <2>2
<1> QED BY <1>1, <1>2, <1>3, Zenon DEF RbInv, LoopIs

\* The invariant says what SearchTree says.
LEMMA RbSearch == RbInv => SearchTree
<1> SUFFICES ASSUME RbInv PROVE SearchTree
  OBVIOUS
<1>1. pc \in {"idle", "insert", "erase"} /\ cur \in used \cup {NIL}
  BY LoopShape
<1>2. PICK lo, hi : Formed(tree, used, lo, hi)
  BY LoopShape
<1>3. /\ tree.root \in used \cup {NIL} /\ (tree.root # NIL => tree.par[tree.root] = NIL)
      /\ \A n \in used : \A i \in Sides :
           tree.ch[n][i] \in used \cup {NIL} /\ (tree.ch[n][i] # NIL => tree.par[tree.ch[n][i]] = n)
      /\ \A n \in used : n # tree.root => tree.par[n] \in used
  BY <1>2 DEF Formed, Linked
<1>4. tree \in Trees /\ used \subseteq Nodes
  BY <1>2 DEF Formed
<1>5. \A n \in used : n # NIL
  BY <1>4, Numbers
<1>6. \A n \in used : {tree.par[n], tree.ch[n][0], tree.ch[n][1]} \subseteq used \cup {NIL}
  BY <1>3, <1>5 DEF Sides
<1>7. TypeOK
  BY <1>1, <1>3, <1>4, <1>6 DEF TypeOK, Trees, All, Sides
<1>8. PICK s : s = walk(tree)
  OBVIOUS
<1>9. (\A i \in 1 .. Len(s) - 1 : s[i] < s[i + 1]) /\ Len(s) = Cardinality(used)
  BY <1>2, <1>8, WalkSorted
<1> QED BY <1>3, <1>7, <1>8, <1>9, Zenon DEF SearchTree, Sides

\* And what RedBlack says.
LEMMA RbBalanced == RbInv => RedBlack
<1> SUFFICES ASSUME RbInv, pc = "idle"
             PROVE  /\ ~tree.red[tree.root] /\ ~tree.red[NIL]
                    /\ tree.ch[NIL] = [i \in {0, 1} |-> NIL]
                    /\ \A n \in used : tree.red[n] =>
                         ~tree.red[tree.ch[n][0]] /\ ~tree.red[tree.ch[n][1]]
                    /\ Cardinality(BlackHeights(tree, tree.root)) = 1
  BY DEF RedBlack
<1>1. Idle(tree, used)
  BY LoopIdle DEF RbInv
<1>2. PICK lo, hi : Formed(tree, used, lo, hi)
  BY <1>1 DEF Idle, Shaped
<1>3. PICK bh : Heights(tree, used, {}, bh)
  BY <1>1 DEF Idle, Balanced
<1>4. BlackHeights(tree, tree.root) = {bh[tree.root]}
  BY <1>2, <1>3, BlackHeightsIs
<1>5. Cardinality(BlackHeights(tree, tree.root)) = 1
  BY <1>4, FS_Singleton
<1>6. ~tree.red[NIL] /\ (tree.red[tree.root] => tree.root = NIL)
  BY <1>1 DEF Idle, Coloured
<1>7. ~tree.red[tree.root]
  BY <1>6
<1>8. tree.ch[NIL] = [i \in {0, 1} |-> NIL]
  <2>1. NIL \in All \ used
    BY <1>2, Numbers DEF Formed
  <2>2. \A i \in Sides : tree.ch[NIL][i] = NIL
    BY <1>2, <2>1 DEF Formed, Linked
  <2>3. tree.ch[NIL] \in [Sides -> All]
    BY <1>2, <2>1 DEF Formed, Trees
  <2> QED BY <2>2, <2>3 DEF Sides
<1>9. ASSUME NEW n \in used, tree.red[n]
      PROVE  ~tree.red[tree.ch[n][0]] /\ ~tree.red[tree.ch[n][1]]
  <2>1. n # NIL
    BY <1>2, NodeIs
  <2>2. \A i \in Sides : tree.red[tree.ch[n][i]] => tree.ch[n][i] = NIL
    BY <1>1, <1>9, <2>1, Zenon DEF Idle, Coloured
  <2>3. 0 \in Sides /\ 1 \in Sides
    BY DEF Sides
  <2> QED BY <1>6, <2>2, <2>3
<1> QED BY <1>5, <1>6, <1>7, <1>8, <1>9

\* And what FindExact says.
LEMMA RbFind == RbInv => FindExact
<1>1. SUFFICES ASSUME RbInv, pc = "idle", NEW v \in Keys
      PROVE /\ LET n == find_ge(tree, v) IN
                 IF n = NIL THEN \A k \in Contents : k < v
                 ELSE tree.key[n] >= v /\ \A k \in Contents : k < v \/ tree.key[n] <= k
            /\ LET n == find_le(tree, v) IN
                 IF n = NIL THEN \A k \in Contents : k > v
                 ELSE tree.key[n] <= v /\ \A k \in Contents : k > v \/ tree.key[n] >= k
  BY Zenon DEF FindExact
<1>2. PICK lo, hi : Formed(tree, used, lo, hi)
  BY <1>1, LoopIdle DEF RbInv
<1>3. v \in Int
  BY <1>1, Numbers
<1>4. PICK r : r = find_ge(tree, v)
  OBVIOUS
<1>5. IF r = NIL THEN \A x \in used : tree.key[x] < v
      ELSE r \in used /\ tree.key[r] >= v /\ \A x \in used : tree.key[x] < v \/ tree.key[r] <= tree.key[x]
  BY <1>2, <1>3, <1>4, FindGeIs, Zenon
<1>6. PICK q : q = find_le(tree, v)
  OBVIOUS
<1>7. IF q = NIL THEN \A x \in used : tree.key[x] > v
      ELSE q \in used /\ tree.key[q] <= v /\ \A x \in used : tree.key[x] > v \/ tree.key[q] >= tree.key[x]
  BY <1>2, <1>3, <1>6, FindLeIs, Zenon
<1>8. \A k \in Contents : \E x \in used : k = tree.key[x]
  BY DEF Contents
<1>9. IF r = NIL THEN \A k \in Contents : k < v
      ELSE tree.key[r] >= v /\ \A k \in Contents : k < v \/ tree.key[r] <= k
  BY <1>5, <1>8
<1>10. IF q = NIL THEN \A k \in Contents : k > v
       ELSE tree.key[q] <= v /\ \A k \in Contents : k > v \/ tree.key[q] >= k
  BY <1>7, <1>8
<1> QED BY <1>4, <1>6, <1>9, <1>10, Zenon

\* The tree of free blocks and of tasks stays a search tree of exactly the
\* nodes in use, at every round of the loops of insert and remove_bottom.
THEOREM SearchHolds == Spec => []SearchTree
<1>1. RbInv => SearchTree
  BY RbSearch
<1> QED BY <1>1, InitRb, NextRb, PTL DEF Spec

\* insert, erase and clear return a balanced tree.
THEOREM BalanceHolds == Spec => []RedBlack
<1>1. RbInv => RedBlack
  BY RbBalanced
<1> QED BY <1>1, InitRb, NextRb, PTL DEF Spec

\* find_ge and find_le find the nearest key.
THEOREM FindHolds == Spec => []FindExact
<1>1. RbInv => FindExact
  BY RbFind
<1> QED BY <1>1, InitRb, NextRb, PTL DEF Spec

\* insert, erase and clear change the set of keys as they should, and the
\* rounds of their loops do not change it.
THEOREM KeysHold == Spec => KeysExact
<1>1. ASSUME RbInv, [Next]_vars
      PROVE  [IF pc # "idle" THEN Contents' = Contents
              ELSE IF erases' = erases
              THEN \A v \in Keys : Insert(v) => Contents' = Contents \cup {v}
              ELSE /\ Clear => Contents' = {}
                   /\ \A n \in used : Erase(n) => Contents' = Contents \ {tree.key[n]}]_vars
  <2>1. CASE UNCHANGED vars
    BY <2>1
  <2>2. \A v \in Keys : Insert(v) => Contents' = Contents \cup {v}
    BY <1>1, InsertCall DEF RbInv
  <2>3. \A n \in used : Erase(n) => Contents' = Contents \ {tree.key[n]}
    BY <1>1, EraseCall DEF RbInv
  <2>4. Clear => Contents' = {}
    BY <1>1, ClearCall DEF RbInv
  <2>5. ASSUME pc # "idle", Next PROVE Contents' = Contents
    <3>1. InsertFix \/ EraseFix
      BY <2>5, Zenon DEF Next, Insert, Erase, Clear
    <3>2. tree'.key = tree.key /\ used' = used
      BY <1>1, <3>1, InsertRound, EraseRound, Zenon DEF RbInv
    <3> QED BY <3>2, Zenon DEF Contents
  <2>6. CASE Next
    BY <2>2, <2>3, <2>4, <2>5, <2>6, Zenon
  <2> QED BY <1>1, <2>1, <2>6
<1> QED BY <1>1, InitRb, NextRb, PTL DEF Spec, KeysExact
===============================================================================
