------------------------------- MODULE RbTree -------------------------------
(***************************************************************************)
(* The red-black tree of JKOS (include/lib/rbtree.h), which holds the free *)
(* blocks of the heap and the task table.  One step is a call up to its    *)
(* rebalancing loop, or one round of that loop.                            *)
(*                                                                         *)
(* The tree is one value T = [root, par, red, ch, key].  All leaves are    *)
(* the one node NIL, whose parent pointer the code also writes, and reads  *)
(* back while it erases.  Callers never insert a key that is there.        *)
(***************************************************************************)
EXTENDS Integers, FiniteSets, Sequences

CONSTANTS
  NKeys,        \* bound: keys are 1 .. NKeys, and so are nodes
  MaxErases     \* bound: calls of erase and clear

ASSUME RbTreeAssumption == NKeys \in Nat \ {0} /\ MaxErases \in Nat

Keys  == 1 .. NKeys
Nodes == 1 .. NKeys
NIL   == 0

VARIABLES
  tree,
  used,     \* nodes that node_alloc handed out and node_free has not taken back
  pc,       \* "idle", or the loop that runs: "insert" or "erase"
  cur,      \* that loop's node: cur in insert, n in remove_bottom
  erases    \* calls of erase and clear so far

vars == <<tree, used, pc, cur, erases>>

\* A condition used as an index of ch.
Bit(b) == IF b THEN 1 ELSE 0

----------------------------------------------------------------------------
(***************************************************************************)
(* References Node*& and rotation.                                         *)
(***************************************************************************)

\* The place that points to a node: the root pointer (<<NIL, 0>>) or a child
\* pointer of its parent.
get_ref(T, n) ==
  IF n = T.root THEN <<NIL, 0>>
  ELSE <<T.par[n], Bit(T.ch[T.par[n]][1] = n)>>

At(T, ref) == IF ref[1] = NIL THEN T.root ELSE T.ch[ref[1]][ref[2]]

Put(T, ref, n) ==
  IF ref[1] = NIL THEN [T EXCEPT !.root = n] ELSE [T EXCEPT !.ch[ref[1]][ref[2]] = n]

Paint(T, n, r) == [T EXCEPT !.red[n] = r]

\* Parent pointers that rotate sets: t takes the place of r, m moves to r.
\* Mutant: t->copy_par(root) is missing.
RotateParKept(T, r, t, m) == [T.par EXCEPT ![m] = r, ![r] = t]

RotatePar(T, r, t, m) == [T.par EXCEPT ![t] = T.par[r], ![m] = r, ![r] = t]

rotate(T, ref, dir) ==
  LET r == At(T, ref)
      t == T.ch[r][1 - dir]
      m == T.ch[t][dir]
  IN  Put([T EXCEPT !.par = RotatePar(T, r, t, m), !.ch[r][1 - dir] = m, !.ch[t][dir] = r],
          ref, t)

----------------------------------------------------------------------------
(***************************************************************************)
(* Searches.  NIL stands for the NULL that the public functions return.    *)
(***************************************************************************)
\* Mutant of find_ge: <= instead of <.
find_ge_strict(T, v) ==
  LET f[n \in Nodes \cup {NIL}] ==
        IF n = NIL THEN NIL
        ELSE IF T.key[n] <= v THEN f[T.ch[n][1]]
        ELSE LET l == f[T.ch[n][0]] IN IF l = NIL THEN n ELSE l
  IN  f[T.root]

find_ge(T, v) ==
  LET f[n \in Nodes \cup {NIL}] ==
        IF n = NIL THEN NIL
        ELSE IF T.key[n] < v THEN f[T.ch[n][1]]
        ELSE LET l == f[T.ch[n][0]] IN IF l = NIL THEN n ELSE l
  IN  f[T.root]

find_le(T, v) ==
  LET f[n \in Nodes \cup {NIL}] ==
        IF n = NIL THEN NIL
        ELSE IF T.key[n] <= v
        THEN LET r == f[T.ch[n][1]] IN IF r = NIL THEN n ELSE r
        ELSE f[T.ch[n][0]]
  IN  f[T.root]

\* walk: the keys in the order the callback gets them.
walk(T) ==
  LET do_walk[n \in Nodes \cup {NIL}] ==
        IF n = NIL THEN <<>>
        ELSE do_walk[T.ch[n][0]] \o <<T.key[n]>> \o do_walk[T.ch[n][1]]
  IN  do_walk[T.root]

----------------------------------------------------------------------------
(***************************************************************************)
(* insert.                                                                 *)
(***************************************************************************)

\* The node under which v goes.
Bottom(T, v) ==
  LET f[n \in Nodes] ==
        LET c == T.ch[n][Bit(T.key[n] < v)] IN IF c = NIL THEN n ELSE f[c]
  IN  f[T.root]

\* node_alloc.  Which address it returns makes no difference to the tree.
NewNode(v) == IF v \notin used THEN v ELSE CHOOSE n \in Nodes \ used : TRUE

\* Node n with key v below p.
Leaf(T, n, v, p, r) ==
  [T EXCEPT !.key[n] = v, !.par[n] = p, !.red[n] = r, !.ch[n] = [i \in {0, 1} |-> NIL]]

Insert(v) ==
  LET n == NewNode(v) IN
  /\ pc = "idle"
  /\ \A x \in used : tree.key[x] # v
  /\ UNCHANGED erases
  /\ used' = used \cup {n}
  /\ IF tree.root = NIL
     THEN /\ tree' = [Leaf(tree, n, v, NIL, FALSE) EXCEPT !.root = n]
          /\ UNCHANGED <<pc, cur>>
     ELSE LET p == Bottom(tree, v) IN
          /\ tree' = [Leaf(tree, n, v, p, TRUE) EXCEPT !.ch[p][Bit(tree.key[p] < v)] = n]
          /\ pc' = "insert"
          /\ cur' = n

\* The end of a round that rotates: n is the red node below the red p.
InsertRotated(T, n, p) ==
  LET g == T.par[p]
      d == Bit(p = T.ch[g][0])
      inner == Bit(n = T.ch[p][0]) # d
      T1 == IF inner THEN rotate(T, <<g, 1 - d>>, 1 - d) ELSE T
      p1 == IF inner THEN n ELSE p
  IN  rotate(Paint(Paint(T1, p1, FALSE), g, TRUE), get_ref(T1, g), d)

\* One round of while ((par = cur->get_par()) != NIL && par->is_red()), or
\* what follows it.
InsertFix ==
  LET p == tree.par[cur]
      g == tree.par[p]
      uncle == tree.ch[g][Bit(p = tree.ch[g][0])]
  IN
  /\ pc = "insert"
  /\ IF p = NIL \/ ~tree.red[p]
     THEN /\ tree' = IF p = NIL THEN Paint(tree, cur, FALSE) ELSE tree
          /\ pc' = "idle" /\ cur' = NIL
     ELSE IF tree.red[uncle]
     THEN /\ tree' = Paint(Paint(Paint(tree, p, FALSE), uncle, FALSE), g, TRUE)
          /\ cur' = g
          /\ UNCHANGED pc
     ELSE /\ tree' = InsertRotated(tree, cur, p)
          /\ pc' = "idle" /\ cur' = NIL
  /\ UNCHANGED <<used, erases>>

----------------------------------------------------------------------------
(***************************************************************************)
(* erase and remove_bottom.                                                *)
(***************************************************************************)

\* The node that leaves the tree: the successor of n below it, or n itself.
Successor(T, n) ==
  LET f[m \in Nodes] == IF T.ch[m][0] = NIL THEN m ELSE f[T.ch[m][0]]
  IN  IF T.ch[n][1] = NIL THEN n ELSE f[T.ch[n][1]]

\* Mutant of KeyMoved: the key of the leaving node is lost.
KeyNotMoved(T, n, m) == T

\* Node n takes over the key of the node m that leaves.
KeyMoved(T, n, m) == [T EXCEPT !.key[n] = T.key[m]]

\* node_free of the leaving node m, where erase was called for n.
Released(n, m) == used \ {m}

\* What a free node holds is not kept: insert writes all of a new node.
Blank(T, F) ==
  [T EXCEPT !.key = [n \in Nodes |-> IF n \in F THEN n ELSE @[n]],
            !.par = [n \in Nodes \cup {NIL} |-> IF n \in F THEN NIL ELSE @[n]],
            !.red = [n \in Nodes \cup {NIL} |-> n \notin F /\ @[n]],
            !.ch  = [n \in Nodes \cup {NIL} |-> IF n \in F THEN @[NIL] ELSE @[n]]]

Erase(n) ==
  LET m == Successor(tree, n)
      c == tree.ch[m][Bit(tree.ch[m][0] = NIL)]
      T == Blank(Put([KeyMoved(tree, n, m) EXCEPT !.par[c] = tree.par[m]], get_ref(tree, m), c),
                 Nodes \ used')
  IN
  /\ pc = "idle"
  /\ erases < MaxErases
  /\ erases' = erases + 1
  /\ used' = Released(n, m)
  /\ IF tree.red[m] THEN tree' = T /\ UNCHANGED <<pc, cur>>
     ELSE IF tree.red[c] THEN tree' = Paint(T, c, FALSE) /\ UNCHANGED <<pc, cur>>
     ELSE tree' = T /\ pc' = "erase" /\ cur' = c

\* The colours of the last rotation: s is the sibling, p the parent.
\* Mutant: s->copy_color(p) is missing.
EraseColoursKept(T, s, p, dir) == Paint(Paint(T, p, FALSE), T.ch[s][1 - dir], FALSE)

EraseColours(T, s, p, dir) ==
  Paint(Paint(Paint(T, s, T.red[p]), p, FALSE), T.ch[s][1 - dir], FALSE)

\* The end of a round that makes up for the missing black node: the sibling s
\* of n is black and has a red child.
EraseRotated(T, n, s, p) ==
  LET dir   == Bit(n = T.ch[p][1])
      inner == ~T.red[T.ch[s][1 - dir]]
      T1 == IF inner
            THEN rotate(Paint(Paint(T, T.ch[s][dir], FALSE), s, TRUE),
                        <<p, Bit(s = T.ch[p][1])>>, 1 - dir)
            ELSE T
      s1 == IF inner THEN T1.ch[p][1 - dir] ELSE s
  IN  rotate(EraseColours(T1, s1, p, dir), get_ref(T1, p), dir)

\* One round of while (n != tree_root && n->is_black()), or what follows it.
EraseFix ==
  LET p  == tree.par[cur]
      s0 == tree.ch[p][Bit(cur = tree.ch[p][0])]
      d  == Bit(s0 = tree.ch[p][0])
      T  == IF tree.red[s0]
            THEN rotate(Paint(Paint(tree, p, TRUE), s0, FALSE), get_ref(tree, p), d)
            ELSE tree
      s  == IF tree.red[s0] THEN T.ch[p][1 - d] ELSE s0
  IN
  /\ pc = "erase"
  /\ IF cur = tree.root \/ tree.red[cur]
     THEN /\ tree' = Paint(tree, cur, FALSE)
          /\ pc' = "idle" /\ cur' = NIL
     ELSE IF ~T.red[T.ch[s][0]] /\ ~T.red[T.ch[s][1]]
     THEN /\ tree' = Paint(T, s, TRUE)
          /\ cur' = p
          /\ UNCHANGED pc
     ELSE /\ tree' = EraseRotated(T, cur, s, p)
          /\ pc' = "idle" /\ cur' = NIL
  /\ UNCHANGED <<used, erases>>

----------------------------------------------------------------------------
\* The nodes that do_clear hands to node_free.
do_clear(T) ==
  LET f[n \in Nodes \cup {NIL}] ==
        IF n = NIL THEN {} ELSE f[T.ch[n][0]] \cup f[T.ch[n][1]] \cup {n}
  IN  f[T.root]

\* clear; NIL keeps its parent pointer.  The bound is that of erase.
Clear ==
  /\ pc = "idle" /\ tree.root # NIL
  /\ erases < MaxErases
  /\ erases' = erases + 1
  /\ used' = used \ do_clear(tree)
  /\ tree' = Blank([tree EXCEPT !.root = NIL], Nodes \ used')
  /\ UNCHANGED <<pc, cur>>

----------------------------------------------------------------------------
\* The constructor.
Init ==
  /\ tree = [root |-> NIL,
             par  |-> [n \in Nodes \cup {NIL} |-> NIL],
             red  |-> [n \in Nodes \cup {NIL} |-> FALSE],
             ch   |-> [n \in Nodes \cup {NIL} |-> [i \in {0, 1} |-> NIL]],
             key  |-> [n \in Nodes |-> n]]
  /\ used = {}
  /\ pc = "idle"
  /\ cur = NIL
  /\ erases = 0

Next ==
  \/ \E v \in Keys : Insert(v)
  \/ \E n \in used : Erase(n)
  \/ Clear
  \/ InsertFix
  \/ EraseFix

Spec == Init /\ [][Next]_vars

----------------------------------------------------------------------------
(***************************************************************************)
(* Properties.                                                             *)
(***************************************************************************)

\* The keys of the nodes in use, all of which are in the tree (SearchTree).
Contents == {tree.key[n] : n \in used}

\* Type correctness; pointers of nodes in use lead to nodes in use or NIL.
TypeOK ==
  /\ tree \in [root : Nodes \cup {NIL},
               par : [Nodes \cup {NIL} -> Nodes \cup {NIL}],
               red : [Nodes \cup {NIL} -> BOOLEAN],
               ch : [Nodes \cup {NIL} -> [{0, 1} -> Nodes \cup {NIL}]],
               key : [Nodes -> Keys]]
  /\ used \subseteq Nodes
  /\ pc \in {"idle", "insert", "erase"}
  /\ {tree.root, cur} \subseteq used \cup {NIL}
  /\ \A n \in used : {tree.par[n], tree.ch[n][0], tree.ch[n][1]} \subseteq used \cup {NIL}

\* At every round of the loops the parent pointers mirror the child pointers,
\* the keys from left to right increase, no node in use has fallen out of the
\* tree, and no pointer of a node in use leads to a node that was freed.
SearchTree ==
  LET s == walk(tree) IN
  /\ TypeOK
  /\ tree.root # NIL => tree.par[tree.root] = NIL
  /\ \A n \in used : \A i \in {0, 1} : tree.ch[n][i] # NIL => tree.par[tree.ch[n][i]] = n
  /\ \A i \in 1 .. Len(s) - 1 : s[i] < s[i + 1]
  /\ Len(s) = Cardinality(used)

\* Black nodes on the paths from n down to the leaves.
BlackHeights(T, n) ==
  LET f[m \in Nodes \cup {NIL}] ==
        IF m = NIL THEN {0}
        ELSE {h + Bit(~T.red[m]) : h \in f[T.ch[m][0]] \cup f[T.ch[m][1]]}
  IN  f[n]

\* When a call returns the tree is balanced: the root and NIL are black, no
\* red node has a red child, and all paths have as many black nodes.  That
\* is what bounds the time a search takes with interrupts off.
RedBlack ==
  pc = "idle" =>
    /\ ~tree.red[tree.root] /\ ~tree.red[NIL]
    /\ tree.ch[NIL] = [i \in {0, 1} |-> NIL]
    /\ \A n \in used : tree.red[n] =>
         ~tree.red[tree.ch[n][0]] /\ ~tree.red[tree.ch[n][1]]
    /\ Cardinality(BlackHeights(tree, tree.root)) = 1

\* find_ge and find_le answer with the least key not below and the greatest
\* key not above the one asked for, and with nothing only if there is none.
FindExact ==
  LET K == Contents IN
  pc = "idle" =>
    \A v \in Keys :
      /\ LET n == find_ge(tree, v) IN
           IF n = NIL THEN \A k \in K : k < v
           ELSE tree.key[n] >= v /\ \A k \in K : k < v \/ tree.key[n] <= k
      /\ LET n == find_le(tree, v) IN
           IF n = NIL THEN \A k \in K : k > v
           ELSE tree.key[n] <= v /\ \A k \in K : k > v \/ tree.key[n] >= k

\* insert adds the key it is given, erase deletes the key of the node it is
\* given, although it is often another node that leaves the tree, and clear
\* deletes all; the rounds of the loops change no key.
KeysExact ==
  [][IF pc # "idle" THEN Contents' = Contents
     ELSE IF erases' = erases
     THEN \A v \in Keys : Insert(v) => Contents' = Contents \cup {v}
     ELSE /\ Clear => Contents' = {}
          /\ \A n \in used : Erase(n) => Contents' = Contents \ {tree.key[n]}]_vars
=============================================================================
