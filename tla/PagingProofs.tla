---------------------------- MODULE PagingProofs ----------------------------
(***************************************************************************)
(* Theorems about Paging, for any number of frames, directories and pages: *)
(* frames are conserved and counted, a shared frame is read-only, the TLB  *)
(* agrees with the tables, one page fault is enough, and all of it         *)
(* implements private memories.                                            *)
(*                                                                         *)
(* The first part is about one address map A from places (entries of page  *)
(* tables) to frame numbers, the stack F of free frames and the counts C.  *)
(***************************************************************************)
EXTENDS Paging, FiniteSetTheorems, SequenceTheorems, TLAPS

\* The places of P that name frame f.
Mapped(P, A, f) == {m \in P : A[m] = f}

\* Frames that are on the stack.
On(F, f) == \E i \in 1 .. Len(F) : F[i] = f

\* Every frame is either on the stack, once, or named and counted exactly.
Conserved(P, A, F, C) ==
  /\ \A i, j \in 1 .. Len(F) : F[i] = F[j] => i = j
  /\ \A f \in Frames : On(F, f) <=> Mapped(P, A, f) = {}
  /\ \A f \in Frames : ~On(F, f) => C[f] = Cardinality(Mapped(P, A, f))

\* What the lemmas assume of their parameters.
Typed(P, A, F, C) ==
  /\ IsFiniteSet(P)
  /\ A \in [P -> 0 .. NFrames]
  /\ F \in Seq(Frames)
  /\ C \in [Frames -> Nat]

\* frames[nframes - 1] and the stack without it.
LEMMA PopStack ==
  ASSUME NEW F \in Seq(Frames), F # <<>>,
         \A i, j \in 1 .. Len(F) : F[i] = F[j] => i = j
  PROVE  LET G == SubSeq(F, 1, Len(F) - 1)
             t == F[Len(F)]
         IN  /\ t \in Frames /\ On(F, t) /\ ~On(G, t)
             /\ G \in Seq(Frames)
             /\ \A i, j \in 1 .. Len(G) : G[i] = G[j] => i = j
             /\ \A f \in Frames : f # t => (On(G, f) <=> On(F, f))
<1> DEFINE G == SubSeq(F, 1, Len(F) - 1)
           n == Len(F)
<1>1. n \in Nat /\ n >= 1 /\ F \in [1 .. n -> Frames]
  BY EmptySeq, LenProperties
<1>2. G \in Seq(Frames) /\ Len(G) = n - 1 /\ \A i \in 1 .. n - 1 : G[i] = F[i]
  BY <1>1, SubSeqProperties
<1>3. F[n] \in Frames
  BY <1>1
<1> QED BY <1>1, <1>2, <1>3 DEF On

\* The push of a frame that is not on the stack.
LEMMA PushStack ==
  ASSUME NEW F \in Seq(Frames), NEW t \in Frames, ~On(F, t),
         \A i, j \in 1 .. Len(F) : F[i] = F[j] => i = j
  PROVE  LET G == Append(F, t)
         IN  /\ G \in Seq(Frames) /\ On(G, t)
             /\ \A i, j \in 1 .. Len(G) : G[i] = G[j] => i = j
             /\ \A f \in Frames : f # t => (On(G, f) <=> On(F, f))
<1> DEFINE G == Append(F, t)
           n == Len(F)
<1>1. n \in Nat /\ F \in [1 .. n -> Frames]
  BY LenProperties
<1>2. G \in Seq(Frames) /\ Len(G) = n + 1 /\ G[n + 1] = t /\ \A i \in 1 .. n : G[i] = F[i]
  BY <1>1, AppendProperties
<1>3. \A i \in 1 .. n + 1 : i \in 1 .. n \/ i = n + 1
  BY <1>1
<1> QED BY <1>1, <1>2, <1>3 DEF On

\* alloc: a place without a frame gets the top of the stack.
LEMMA Take ==
  ASSUME NEW P, NEW A, NEW F, NEW C, Typed(P, A, F, C), Conserved(P, A, F, C),
         NEW m \in P, A[m] = 0, F # <<>>
  PROVE  LET t == F[Len(F)]
             A2 == [A EXCEPT ![m] = t]
             F2 == SubSeq(F, 1, Len(F) - 1)
             C2 == [C EXCEPT ![t] = 1]
         IN  /\ Typed(P, A2, F2, C2) /\ Conserved(P, A2, F2, C2)
             /\ t \in Frames /\ Mapped(P, A, t) = {} /\ Mapped(P, A2, t) = {m}
             /\ \A f \in Frames : f # t => Mapped(P, A2, f) = Mapped(P, A, f)
<1> DEFINE t == F[Len(F)]
           A2 == [A EXCEPT ![m] = t]
           F2 == SubSeq(F, 1, Len(F) - 1)
           C2 == [C EXCEPT ![t] = 1]
<1>1. /\ t \in Frames /\ On(F, t) /\ ~On(F2, t)
      /\ F2 \in Seq(Frames)
      /\ \A i, j \in 1 .. Len(F2) : F2[i] = F2[j] => i = j
      /\ \A f \in Frames : f # t => (On(F2, f) <=> On(F, f))
  BY PopStack DEF Typed, Conserved
<1> HIDE DEF t, F2
<1>2. A2 \in [P -> 0 .. NFrames] /\ C2 \in [Frames -> Nat]
  BY <1>1 DEF Typed, Frames
<1>3. Typed(P, A2, F2, C2)
  BY <1>1, <1>2 DEF Typed
<1>4. Mapped(P, A, t) = {}
  BY <1>1 DEF Conserved
<1>5. Mapped(P, A2, t) = {m}
  BY <1>4, <1>1 DEF Mapped, Typed
<1>6. ASSUME NEW f \in Frames, f # t
      PROVE  Mapped(P, A2, f) = Mapped(P, A, f)
  BY <1>6 DEF Mapped, Typed, Frames
<1>7. Cardinality({m}) = 1
  BY FS_Singleton
<1>8. Conserved(P, A2, F2, C2)
  <2>1. ASSUME NEW f \in Frames PROVE On(F2, f) <=> Mapped(P, A2, f) = {}
    BY <1>1, <1>5, <1>6 DEF Conserved
  <2>2. ASSUME NEW f \in Frames, ~On(F2, f) PROVE C2[f] = Cardinality(Mapped(P, A2, f))
    <3>1. CASE f = t
      BY <3>1, <1>5, <1>7, <1>1 DEF Typed
    <3>2. CASE f # t
      BY <3>2, <2>2, <1>6, <1>1 DEF Typed, Conserved
    <3> QED BY <3>1, <3>2
  <2> QED BY <2>1, <2>2, <1>1 DEF Conserved
<1> QED BY <1>1, <1>3, <1>4, <1>5, <1>6, <1>8 DEF t, F2

\* free: the only place that names a frame lets go of it.
LEMMA Give ==
  ASSUME NEW P, NEW A, NEW F, NEW C, Typed(P, A, F, C), Conserved(P, A, F, C),
         NEW m \in P, A[m] # 0, Mapped(P, A, A[m]) = {m}
  PROVE  LET A2 == [A EXCEPT ![m] = 0]
             F2 == Append(F, A[m])
             C2 == [C EXCEPT ![A[m]] = 0]
         IN  /\ C[A[m]] = 1
             /\ Typed(P, A2, F2, C2) /\ Conserved(P, A2, F2, C2)
             /\ Mapped(P, A2, A[m]) = {}
             /\ \A f \in Frames : f # A[m] => Mapped(P, A2, f) = Mapped(P, A, f)
<1> DEFINE t == A[m]
           A2 == [A EXCEPT ![m] = 0]
           F2 == Append(F, t)
           C2 == [C EXCEPT ![t] = 0]
<1>1. t \in Frames /\ ~On(F, t)
  <2>1. t \in Frames
    BY PagingAssumption DEF Typed, Frames
  <2> QED BY <2>1 DEF Conserved
<1>2. /\ F2 \in Seq(Frames) /\ On(F2, t)
      /\ \A i, j \in 1 .. Len(F2) : F2[i] = F2[j] => i = j
      /\ \A f \in Frames : f # t => (On(F2, f) <=> On(F, f))
  BY <1>1, PushStack DEF Typed, Conserved
<1>3. C[t] = 1
  BY <1>1, FS_Singleton DEF Conserved
<1> HIDE DEF t, F2
<1>4. A2 \in [P -> 0 .. NFrames] /\ C2 \in [Frames -> Nat]
  BY <1>1, PagingAssumption DEF Typed, Frames
<1>5. Typed(P, A2, F2, C2)
  BY <1>2, <1>4 DEF Typed
<1>6. Mapped(P, A2, t) = {}
  BY <1>1 DEF t, Mapped, Typed, Frames
<1>7. ASSUME NEW f \in Frames, f # t
      PROVE  Mapped(P, A2, f) = Mapped(P, A, f)
  BY <1>7 DEF t, Mapped, Typed, Frames
<1>8. Conserved(P, A2, F2, C2)
  <2>1. ASSUME NEW f \in Frames PROVE On(F2, f) <=> Mapped(P, A2, f) = {}
    BY <1>2, <1>6, <1>7 DEF Conserved
  <2>2. ASSUME NEW f \in Frames, ~On(F2, f) PROVE C2[f] = Cardinality(Mapped(P, A2, f))
    BY <2>2, <1>2, <1>7 DEF Typed, Conserved
  <2> QED BY <2>1, <2>2, <1>2 DEF Conserved
<1> QED BY <1>3, <1>5, <1>6, <1>7, <1>8 DEF t, F2

\* Copy-on-write: one of several places that name a frame moves to the top of
\* the stack.
LEMMA Move ==
  ASSUME NEW P, NEW A, NEW F, NEW C, Typed(P, A, F, C), Conserved(P, A, F, C),
         NEW m \in P, A[m] # 0, C[A[m]] > 1, F # <<>>
  PROVE  LET t == F[Len(F)]
             A2 == [A EXCEPT ![m] = t]
             F2 == SubSeq(F, 1, Len(F) - 1)
             C2 == [C EXCEPT ![A[m]] = @ - 1, ![t] = 1]
         IN  /\ Typed(P, A2, F2, C2) /\ Conserved(P, A2, F2, C2)
             /\ t \in Frames /\ t # A[m] /\ Mapped(P, A, t) = {} /\ Mapped(P, A2, t) = {m}
             /\ Mapped(P, A2, A[m]) = Mapped(P, A, A[m]) \ {m}
             /\ \A f \in Frames : f # t /\ f # A[m] => Mapped(P, A2, f) = Mapped(P, A, f)
<1> DEFINE t == F[Len(F)]
           g == A[m]
           A2 == [A EXCEPT ![m] = t]
           F2 == SubSeq(F, 1, Len(F) - 1)
           C2 == [C EXCEPT ![g] = @ - 1, ![t] = 1]
<1>1. /\ t \in Frames /\ On(F, t) /\ ~On(F2, t)
      /\ F2 \in Seq(Frames)
      /\ \A i, j \in 1 .. Len(F2) : F2[i] = F2[j] => i = j
      /\ \A f \in Frames : f # t => (On(F2, f) <=> On(F, f))
  BY PopStack DEF Typed, Conserved
<1> HIDE DEF t, F2
<1>2. g \in Frames /\ m \in Mapped(P, A, g)
  BY DEF Typed, Mapped, Frames
<1>3. ~On(F, g) /\ g # t
  BY <1>1, <1>2 DEF Conserved
<1>4. Mapped(P, A, t) = {}
  BY <1>1 DEF Conserved
<1>5. C[g] \in Nat /\ C[g] > 1
  BY <1>2 DEF Typed
<1> HIDE DEF g
<1>6. A2 \in [P -> 0 .. NFrames] /\ C2 \in [Frames -> Nat]
  BY <1>1, <1>2, <1>5 DEF Typed, Frames
<1>7. Typed(P, A2, F2, C2)
  BY <1>1, <1>6 DEF Typed
<1>8. Mapped(P, A2, t) = {m}
  BY <1>1, <1>4 DEF Mapped, Typed
<1>9. Mapped(P, A2, g) = Mapped(P, A, g) \ {m}
  BY <1>2, <1>3 DEF Mapped, Typed
<1>10. ASSUME NEW f \in Frames, f # t, f # g
       PROVE  Mapped(P, A2, f) = Mapped(P, A, f)
  BY <1>10 DEF g, Mapped, Typed
<1>11. /\ IsFiniteSet(Mapped(P, A, g))
       /\ Cardinality(Mapped(P, A, g)) = C[g]
       /\ Cardinality(Mapped(P, A2, g)) = C[g] - 1
       /\ IsFiniteSet(Mapped(P, A2, g))
  <2>1. IsFiniteSet(Mapped(P, A, g))
    <3>1. Mapped(P, A, g) \in SUBSET P
      BY DEF Mapped
    <3> QED BY <3>1, FS_Subset DEF Typed
  <2>2. Cardinality(Mapped(P, A, g)) = C[g]
    BY <1>2, <1>3 DEF Conserved
  <2> QED BY <1>2, <1>9, <2>1, <2>2, FS_RemoveElement
<1>12. Mapped(P, A2, g) # {}
  <2>1. C[g] - 1 # 0
    BY <1>5
  <2> QED BY <2>1, <1>11, FS_EmptySet
<1>13. Conserved(P, A2, F2, C2)
  <2>1. ASSUME NEW f \in Frames PROVE On(F2, f) <=> Mapped(P, A2, f) = {}
    BY <1>1, <1>2, <1>3, <1>8, <1>10, <1>12 DEF Conserved
  <2>2. ASSUME NEW f \in Frames, ~On(F2, f) PROVE C2[f] = Cardinality(Mapped(P, A2, f))
    <3>1. CASE f = t
      BY <3>1, <1>8, <1>1, FS_Singleton DEF Typed
    <3>2. CASE f = g
      BY <3>2, <1>2, <1>3, <1>11 DEF Typed
    <3>3. CASE f # t /\ f # g
      BY <3>3, <2>2, <1>10, <1>1 DEF Typed, Conserved
    <3> QED BY <3>1, <3>2, <3>3
  <2> QED BY <2>1, <2>2, <1>1 DEF Conserved
<1> QED BY <1>1, <1>3, <1>4, <1>7, <1>8, <1>9, <1>10, <1>13 DEF t, F2, g

\* The pages of a directory, paired with it, are as many as the pages.
LEMMA Paired ==
  ASSUME NEW S, IsFiniteSet(S), NEW d, NEW T,
         \A p \in S : <<d, p>> \in T,
         \A x \in T : \E p \in S : x = <<d, p>>
  PROVE  IsFiniteSet(T) /\ Cardinality(T) = Cardinality(S)
<1> DEFINE b == [p \in S |-> <<d, p>>]
<1>1. b \in Bijection(S, T)
  BY DEF Bijection, Injection, Surjection, IsInjective
<1>2. ExistsBijection(S, T)
  BY <1>1 DEF ExistsBijection
<1> QED BY <1>2, FS_Bijection

\* clone_directory: the user pages of directory c are shared with the new
\* directory d, whose kernel stack gets the top of the stack of frames; Q are
\* the user pages by frame.
Cloned(P, A, F, C, c, d, P2, A2, C2, Q) ==
  /\ F # <<>>
  /\ \A p \in Pages : <<c, p>> \in P /\ <<d, p>> \notin P
  /\ P2 = P \cup ({d} \X Pages) /\ A2 \in [P2 -> 0 .. NFrames]
  /\ \A m \in P : A2[m] = A[m]
  /\ \A p \in UserPages : A2[<<d, p>>] = A[<<c, p>>]
  /\ A2[<<d, KStack>>] = F[Len(F)]
  /\ \A f \in Frames : Q[f] \in SUBSET UserPages
  /\ \A f \in Frames : \A p \in UserPages : p \in Q[f] <=> A[<<c, p>>] = f
  /\ C2 \in [Frames -> Nat] /\ C2[F[Len(F)]] = 1
  /\ \A f \in Frames : f # F[Len(F)] => C2[f] = C[f] + Cardinality(Q[f])

\* Frames stay conserved.
LEMMA Clone ==
  ASSUME NEW P, NEW A, NEW F, NEW C, NEW c, NEW d, NEW P2, NEW A2, NEW C2, NEW Q,
         Typed(P, A, F, C), Conserved(P, A, F, C), Cloned(P, A, F, C, c, d, P2, A2, C2, Q)
  PROVE  LET F2 == SubSeq(F, 1, Len(F) - 1)
         IN  Typed(P2, A2, F2, C2) /\ Conserved(P2, A2, F2, C2)
<1> USE DEF Cloned
<1> DEFINE t == F[Len(F)]
           N == {d} \X Pages
           F2 == SubSeq(F, 1, Len(F) - 1)
<1>1. /\ t \in Frames /\ On(F, t) /\ ~On(F2, t)
      /\ F2 \in Seq(Frames)
      /\ \A i, j \in 1 .. Len(F2) : F2[i] = F2[j] => i = j
      /\ \A f \in Frames : f # t => (On(F2, f) <=> On(F, f))
  BY PopStack DEF Typed, Conserved
<1>2. A2[<<d, KStack>>] = t /\ C2[t] = 1
      /\ \A f \in Frames : f # t => C2[f] = C[f] + Cardinality(Q[f])
  OBVIOUS
<1> HIDE DEF t, F2
<1>3. IsFiniteSet(P2)
  <2>1. IsFiniteSet(Pages)
    BY PagingAssumption, FS_AddElement DEF Pages
  <2>2. (\A p \in Pages : <<d, p>> \in N) /\ \A x \in N : \E p \in Pages : x = <<d, p>>
    OBVIOUS
  <2>4. P2 = P \cup N
    OBVIOUS
  <2> HIDE DEF N
  <2>3. IsFiniteSet(N)
    BY <2>1, <2>2, Paired
  <2>5. IsFiniteSet(P)
    BY DEF Typed
  <2> HIDE DEF Cloned
  <2>6. IsFiniteSet(P \cup N)
    BY <2>3, <2>5, FS_Union
  <2> QED BY <2>4, <2>6
<1>4. Typed(P2, A2, F2, C2)
  BY <1>1, <1>3 DEF Typed
<1>5. Mapped(P, A, t) = {}
  BY <1>1 DEF Conserved
<1>6. \A p \in UserPages : <<c, p>> \in P /\ <<d, p>> \in N /\ <<d, p>> \notin P
  BY DEF Pages
<1>7. <<d, KStack>> \in N /\ <<d, KStack>> \notin P
  BY DEF Pages
<1>8. \A m \in N : m = <<d, KStack>> \/ \E p \in UserPages : m = <<d, p>>
  BY DEF Pages
<1>9. Mapped(P2, A2, t) = {<<d, KStack>>}
  <2>1. ASSUME NEW m \in P2, A2[m] = t PROVE m = <<d, KStack>>
    <3>1. m \notin P
      BY <1>5, <2>1 DEF Mapped
    <3>2. ASSUME NEW p \in UserPages, m = <<d, p>> PROVE FALSE
      BY <3>2, <2>1, <1>5, <1>6 DEF Mapped
    <3> QED BY <3>1, <3>2, <1>8
  <2> QED BY <2>1, <1>2, <1>7 DEF Mapped
<1>10. ASSUME NEW f \in Frames, f # t
       PROVE  /\ Mapped(P2, A2, f) = Mapped(P, A, f) \cup {<<d, p>> : p \in Q[f]}
              /\ Mapped(P2, A2, f) = {} <=> Mapped(P, A, f) = {}
              /\ Cardinality(Mapped(P2, A2, f)) = Cardinality(Mapped(P, A, f)) + Cardinality(Q[f])
  <2> DEFINE X == Mapped(P, A, f)
             Y == {<<d, p>> : p \in Q[f]}
  <2>1. \A p \in Q[f] : p \in UserPages /\ A[<<c, p>>] = f
    OBVIOUS
  <2>a. (\A p \in Q[f] : <<d, p>> \in Y) /\ \A x \in Y : \E p \in Q[f] : x = <<d, p>>
    OBVIOUS
  <2>2. ASSUME NEW m \in N, A2[m] = f PROVE m \in Y
    <3>1. m # <<d, KStack>>
      BY <2>2, <1>2, <1>10
    <3>2. PICK p \in UserPages : m = <<d, p>>
      BY <3>1, <1>8
    <3> QED BY <3>2, <2>2
  <2> HIDE DEF X, Y
  <2>3. \A m \in Y : m \in N /\ m \notin P /\ A2[m] = f
    <3> SUFFICES ASSUME NEW m \in Y PROVE m \in N /\ m \notin P /\ A2[m] = f
      OBVIOUS
    <3>1. PICK p \in Q[f] : m = <<d, p>>
      BY <2>a
    <3> QED BY <3>1, <2>1, <1>6
  <2>4. Mapped(P2, A2, f) = X \cup Y
    BY <2>2, <2>3 DEF Mapped, X
  <2>5. X \cap Y = {}
    BY <2>3 DEF Mapped, X
  <2>6. X = {} => Y = {}
    <3> SUFFICES ASSUME NEW y \in Y PROVE X # {}
      OBVIOUS
    <3>1. PICK p \in Q[f] : y = <<d, p>>
      BY <2>a
    <3>2. <<c, p>> \in P /\ A[<<c, p>>] = f
      BY <2>1, <1>6
    <3> QED BY <3>2 DEF Mapped, X
  <2>7. IsFiniteSet(X)
    <3>1. X \in SUBSET P
      BY DEF Mapped, X
    <3> QED BY <3>1, FS_Subset DEF Typed
  <2>8. IsFiniteSet(Q[f])
    <3>1. Q[f] \in SUBSET UserPages
      OBVIOUS
    <3> QED BY <3>1, FS_Subset, PagingAssumption
  <2>9. IsFiniteSet(Y) /\ Cardinality(Y) = Cardinality(Q[f])
    <3> DEFINE q == Q[f]
    <3>1. /\ IsFiniteSet(q) /\ \A p \in q : <<d, p>> \in Y
          /\ \A x \in Y : \E p \in q : x = <<d, p>>
      BY <2>8, <2>a
    <3> HIDE DEF q
    <3>2. IsFiniteSet(Y) /\ Cardinality(Y) = Cardinality(q)
      BY <3>1, Paired
    <3> QED BY <3>2 DEF q
  <2>10. Cardinality(X \cup Y) = Cardinality(X) + Cardinality(Q[f])
    <3>1. Cardinality(X \cup Y) = Cardinality(X) + Cardinality(Y) - Cardinality(X \cap Y)
      BY <2>7, <2>9, FS_Union
    <3>2. Cardinality(X \cap Y) = 0
      BY <2>5, FS_EmptySet
    <3>3. Cardinality(X) \in Nat /\ Cardinality(Y) \in Nat
      BY <2>7, <2>9, FS_CardinalityType
    <3> QED BY <3>1, <3>2, <3>3, <2>9
  <2>11. X \cup Y = {} <=> X = {}
    BY <2>6
  <2> QED BY <2>4, <2>10, <2>11 DEF X, Y
<1>11. Conserved(P2, A2, F2, C2)
  <2>1. ASSUME NEW f \in Frames PROVE On(F2, f) <=> Mapped(P2, A2, f) = {}
    <3>1. CASE f = t
      BY <3>1, <1>1, <1>9
    <3>2. CASE f # t
      BY <3>2, <1>1, <1>10 DEF Conserved
    <3> QED BY <3>1, <3>2
  <2>2. ASSUME NEW f \in Frames, ~On(F2, f) PROVE C2[f] = Cardinality(Mapped(P2, A2, f))
    <3>1. CASE f = t
      <4>1. Cardinality({<<d, KStack>>}) = 1
        BY FS_Singleton
      <4> QED BY <3>1, <4>1, <1>2, <1>9
    <3>2. CASE f # t
      <4>1. C2[f] = C[f] + Cardinality(Q[f])
        BY <3>2, <1>2
      <4>2. C[f] = Cardinality(Mapped(P, A, f))
        BY <3>2, <2>2, <1>1 DEF Conserved
      <4> QED BY <4>1, <4>2, <3>2, <1>10
    <3> QED BY <3>1, <3>2
  <2> QED BY <2>1, <2>2, <1>1 DEF Conserved
<1> QED BY <1>1, <1>4, <1>5, <1>11 DEF F2

----------------------------------------------------------------------------
(***************************************************************************)
(* The inductive invariant.                                                *)
(***************************************************************************)

Addr == [m \in Places |-> EntryAt(m).addr]

\* Where the entry of page p is, seen from the current directory.
PlaceOf(p) == <<IF p \in HeapPages THEN 0 ELSE cur, p>>

Translation == [addr : Frames, rw : BOOLEAN, user : BOOLEAN]

Types ==
  /\ frames \in Seq(Frames)
  /\ frame_ref_cnt \in [Frames -> Nat]
  /\ pte \in [Dirs -> [Pages -> Entries]]
  /\ heap \in [HeapPages -> Entries]
  /\ cur \in dirs
  /\ tlb \in [Pages \cup HeapPages -> {NoEntry} \cup Translation]
  /\ panic \in {"none", "no free frame", "page fault"}

\* clone_directory numbers directories densely and finds an empty one.
DirsDense == \E n \in Dirs : dirs = 1 .. n

UnusedEmpty == \A d \in Dirs \ dirs : \A p \in Pages : pte[d][p] = NullEntry

\* How the bits of an entry of page p hang together.
EntryOK(p, e) ==
  /\ e.present <=> e.addr # 0
  /\ e.addr # 0 => e.allocable
  /\ e.user <=> p \in UserPages /\ e.allocable
  /\ e.addr = 0 /\ e.allocable => e.rw /\ (e.fill <=> p \in UserPages)
  /\ p \notin UserPages /\ e.allocable => e.rw
  /\ p = KStack => e.addr # 0

EntriesOK == \A m \in Places : EntryOK(m[2], EntryAt(m))

\* Places that name the same frame are those of one user page in several
\* directories, and none of them is writable.
Sharing ==
  \A m1, m2 \in Places :
    EntryAt(m1).addr # 0 /\ EntryAt(m1).addr = EntryAt(m2).addr /\ m1 # m2 =>
      m1[2] = m2[2] /\ m1[2] \in UserPages /\ ~EntryAt(m1).rw

\* What the TLB holds is what a walk would find.
TlbExact == \A p \in Pages \cup HeapPages : tlb[p] # NoEntry => Entry(p).present /\ tlb[p] = Walk(p)

Tables == Types /\ DirsDense /\ UnusedEmpty /\ EntriesOK /\ Sharing /\ TlbExact

Counted == Conserved(Places, Addr, frames, frame_ref_cnt)

ValueTypes == content \in [Frames -> Values] /\ out \in Values

IInv == Tables /\ Counted /\ ValueTypes

----------------------------------------------------------------------------
(***************************************************************************)
(* Places.                                                                 *)
(***************************************************************************)

\* A page has its place, and different pages have different ones.
LEMMA PlaceFacts ==
  ASSUME Types, DirsDense
  PROVE  /\ 0 \notin dirs /\ dirs \subseteq Dirs /\ dirs \subseteq Nat
         /\ \A p \in Pages \cup HeapPages :
              PlaceOf(p) \in Places /\ PlaceOf(p)[2] = p /\ Entry(p) = EntryAt(PlaceOf(p))
         /\ \A d \in dirs, p \in Pages : <<d, p>> \in Places /\ EntryAt(<<d, p>>) = pte[d][p]
         /\ \A p \in HeapPages : <<0, p>> \in Places /\ EntryAt(<<0, p>>) = heap[p]
         /\ \A m \in Places : \/ m[1] = 0 /\ m[2] \in HeapPages /\ m = <<0, m[2]>>
                              \/ m[1] \in dirs /\ m[2] \in Pages /\ m = <<m[1], m[2]>>
         /\ Pages \cap HeapPages = {}
         /\ \A p \in Pages : PlaceOf(p) = <<cur, p>>
         /\ \A p \in HeapPages : PlaceOf(p) = <<0, p>>
<1>1. 0 \notin dirs /\ dirs \subseteq Dirs /\ dirs \subseteq Nat /\ cur \in dirs
  <2>1. PICK n \in 1 .. NDirs : dirs = 1 .. n
    BY DEF DirsDense, Dirs
  <2>2. NDirs \in Nat
    BY PagingAssumption
  <2>3. 0 \notin dirs /\ dirs \subseteq Dirs /\ dirs \subseteq Nat
    BY <2>1, <2>2 DEF Dirs
  <2>4. cur \in dirs
    BY DEF Types
  <2> QED BY <2>3, <2>4
<1>2. Pages \cap HeapPages = {}
  BY PagingAssumption DEF Pages
<1>3. /\ \A p \in Pages : PlaceOf(p) = <<cur, p>>
      /\ \A p \in HeapPages : PlaceOf(p) = <<0, p>>
  BY <1>2 DEF PlaceOf
<1>4. /\ \A d \in dirs, p \in Pages : <<d, p>> \in Places /\ EntryAt(<<d, p>>) = pte[d][p]
      /\ \A p \in HeapPages : <<0, p>> \in Places /\ EntryAt(<<0, p>>) = heap[p]
  BY <1>1 DEF Places, EntryAt
<1>5. \A m \in Places : \/ m[1] = 0 /\ m[2] \in HeapPages /\ m = <<0, m[2]>>
                        \/ m[1] \in dirs /\ m[2] \in Pages /\ m = <<m[1], m[2]>>
  BY DEF Places
<1>6. \A p \in Pages \cup HeapPages :
        PlaceOf(p) \in Places /\ PlaceOf(p)[2] = p /\ Entry(p) = EntryAt(PlaceOf(p))
  <2>1. ASSUME NEW p \in Pages
        PROVE  PlaceOf(p) \in Places /\ PlaceOf(p)[2] = p /\ Entry(p) = EntryAt(PlaceOf(p))
    BY <1>1, <1>2, <1>3, <1>4 DEF Entry
  <2>2. ASSUME NEW p \in HeapPages
        PROVE  PlaceOf(p) \in Places /\ PlaceOf(p)[2] = p /\ Entry(p) = EntryAt(PlaceOf(p))
    BY <1>1, <1>3, <1>4 DEF Entry
  <2> QED BY <2>1, <2>2
<1> QED BY <1>1, <1>2, <1>3, <1>4, <1>5, <1>6

\* Entries and their address map have their types.
LEMMA PlaceTypes ==
  ASSUME Types, DirsDense
  PROVE  /\ \A m \in Places : EntryAt(m) \in Entries
         /\ Addr \in [Places -> 0 .. NFrames]
         /\ \A m \in Places : Addr[m] = EntryAt(m).addr
         /\ IsFiniteSet(Places)
<1>1. \A m \in Places : EntryAt(m) \in Entries
  <2> SUFFICES ASSUME NEW m \in Places PROVE EntryAt(m) \in Entries
    OBVIOUS
  <2>1. CASE m[1] = 0 /\ m[2] \in HeapPages
    BY <2>1 DEF EntryAt, Types
  <2>2. CASE m[1] \in dirs /\ m[2] \in Pages
    <3>1. m[1] # 0 /\ m[1] \in Dirs /\ pte \in [Dirs -> [Pages -> Entries]]
      BY <2>2, PlaceFacts DEF Types
    <3>2. pte[m[1]] \in [Pages -> Entries]
      BY <3>1
    <3> QED BY <2>2, <3>1, <3>2 DEF EntryAt
  <2> QED BY <2>1, <2>2, PlaceFacts
<1>2. \A e \in Entries : e.addr \in 0 .. NFrames
  BY DEF Entries
<1>3. Addr \in [Places -> 0 .. NFrames] /\ \A m \in Places : Addr[m] = EntryAt(m).addr
  BY <1>1, <1>2 DEF Addr
<1>4. IsFiniteSet(dirs) /\ IsFiniteSet(Pages) /\ IsFiniteSet(HeapPages) /\ IsFiniteSet({0})
  <2>1. PICK n \in 1 .. NDirs : dirs = 1 .. n
    BY DEF DirsDense, Dirs
  <2>2. IsFiniteSet(1 .. n)
    BY PagingAssumption, FS_Interval
  <2>3. IsFiniteSet(Pages)
    BY PagingAssumption, FS_AddElement DEF Pages
  <2> QED BY <2>1, <2>2, <2>3, PagingAssumption, FS_Singleton
<1>5. IsFiniteSet(dirs \X Pages) /\ IsFiniteSet({0} \X HeapPages)
  BY <1>4, FS_Product
<1>6. IsFiniteSet(Places)
  BY <1>5, FS_Union DEF Places
<1> QED BY <1>1, <1>3, <1>6

\* The frames of MappingsOf are the ones the first part speaks of.
LEMMA MappingsAre ==
  ASSUME NEW f
  PROVE  MappingsOf(f) = Mapped(Places, Addr, f)
BY DEF MappingsOf, Mapped, Addr

\* A step that sets one entry of the current directory and drops its
\* translation: the other entries stay where they are.
LEMMA OneEntry ==
  ASSUME Types, DirsDense, NEW p \in Pages \cup HeapPages, NEW e \in Entries,
         SetEntry(p, e), UNCHANGED <<dirs, cur>>
  PROVE  /\ Places' = Places
         /\ \A m \in Places : EntryAt(m)' = IF m = PlaceOf(p) THEN e ELSE EntryAt(m)
         /\ Addr' = [Addr EXCEPT ![PlaceOf(p)] = e.addr]
         /\ pte' \in [Dirs -> [Pages -> Entries]]
         /\ heap' \in [HeapPages -> Entries]
         /\ \A d \in Dirs \ dirs : pte'[d] = pte[d]
         /\ \A q \in Pages \cup HeapPages : q # p => Entry(q)' = Entry(q)
<1>1. Places' = Places
  BY DEF Places
<1>2. pte \in [Dirs -> [Pages -> Entries]] /\ heap \in [HeapPages -> Entries] /\ cur \in dirs
  BY DEF Types
<1>3. cur \in Dirs /\ cur # 0
  BY <1>2, PlaceFacts
<1> DEFINE Goal == /\ \A m \in Places : EntryAt(m)' = IF m = PlaceOf(p) THEN e ELSE EntryAt(m)
                   /\ pte' \in [Dirs -> [Pages -> Entries]]
                   /\ heap' \in [HeapPages -> Entries]
                   /\ \A d \in Dirs \ dirs : pte'[d] = pte[d]
                   /\ \A q \in Pages \cup HeapPages : q # p => Entry(q)' = Entry(q)
<1>4. ASSUME p \in HeapPages PROVE Goal
  <2>1. heap' = [heap EXCEPT ![p] = e] /\ pte' = pte /\ PlaceOf(p) = <<0, p>>
    BY <1>4, PlaceFacts DEF SetEntry
  <2>2. \A m \in Places : m = PlaceOf(p) => EntryAt(m)' = e
    BY <2>1, <1>2, <1>4 DEF EntryAt
  <2>3. ASSUME NEW m \in Places, m # PlaceOf(p) PROVE EntryAt(m)' = EntryAt(m)
    BY <2>1, <2>3, <1>2, <1>4, PlaceFacts DEF EntryAt
  <2>4. \A q \in Pages \cup HeapPages : q # p => Entry(q)' = Entry(q)
    BY <2>1, <1>2, <1>4 DEF Entry
  <2>5. pte' \in [Dirs -> [Pages -> Entries]] /\ heap' \in [HeapPages -> Entries]
    BY <2>1, <1>2
  <2> QED BY <1>1, <2>1, <2>2, <2>3, <2>4, <2>5
<1>5. ASSUME p \notin HeapPages PROVE Goal
  <2>1. /\ pte' = [pte EXCEPT ![cur][p] = e] /\ heap' = heap
        /\ p \in Pages /\ PlaceOf(p) = <<cur, p>>
    BY <1>5, PlaceFacts DEF SetEntry
  <2>2. pte' \in [Dirs -> [Pages -> Entries]]
    BY <2>1, <1>2, <1>3
  <2>3. pte'[cur][p] = e /\ \A d \in Dirs, q \in Pages : d # cur \/ q # p => pte'[d][q] = pte[d][q]
    BY <2>1, <1>2, <1>3
  <2>4. \A m \in Places : m = PlaceOf(p) => EntryAt(m)' = e
    BY <2>1, <2>3, <1>3 DEF EntryAt
  <2>5. ASSUME NEW m \in Places, m # PlaceOf(p) PROVE EntryAt(m)' = EntryAt(m)
    <3>1. CASE m[1] = 0
      BY <3>1, <2>1 DEF EntryAt
    <3>2. CASE m[1] # 0
      <4>1. m[1] \in Dirs /\ m[2] \in Pages /\ (m[1] # cur \/ m[2] # p)
        BY <3>2, <2>5, <2>1, PlaceFacts
      <4> QED BY <3>2, <4>1, <2>3 DEF EntryAt
    <3> QED BY <3>1, <3>2
  <2>6. \A q \in Pages \cup HeapPages : q # p => Entry(q)' = Entry(q)
    BY <2>1, <2>3, <1>3 DEF Entry
  <2>7. \A d \in Dirs \ dirs : pte'[d] = pte[d]
    BY <2>1, <1>2, <1>3
  <2> QED BY <1>1, <1>2, <2>1, <2>2, <2>4, <2>5, <2>6, <2>7
<1>6. Goal
  BY <1>4, <1>5
<1>7. Addr' = [Addr EXCEPT ![PlaceOf(p)] = e.addr]
  <2>1. Addr' = [m \in Places |-> EntryAt(m)'.addr]
    BY <1>1 DEF Addr
  <2>2. Addr = [m \in Places |-> EntryAt(m).addr]
    BY DEF Addr
  <2> QED BY <2>1, <2>2, <1>6
<1> QED BY <1>1, <1>6, <1>7

\* Such a step keeps the tables in order if the new entry is in order and
\* names no frame that another place names.
LEMMA OneEntryTables ==
  ASSUME Tables, NEW p \in Pages \cup HeapPages, NEW e \in Entries,
         SetEntry(p, e), UNCHANGED <<dirs, cur>>, invlpg({p}),
         EntryOK(p, e),
         \A m \in Places : m # PlaceOf(p) /\ e.addr # 0 => EntryAt(m).addr # e.addr
  PROVE  /\ DirsDense' /\ UnusedEmpty' /\ EntriesOK' /\ Sharing' /\ TlbExact'
         /\ tlb' \in [Pages \cup HeapPages -> {NoEntry} \cup Translation]
<1> USE DEF Tables
<1> DEFINE m0 == PlaceOf(p)
<1>1. /\ Places' = Places
      /\ \A m \in Places : EntryAt(m)' = IF m = m0 THEN e ELSE EntryAt(m)
      /\ \A d \in Dirs \ dirs : pte'[d] = pte[d]
      /\ \A q \in Pages \cup HeapPages : q # p => Entry(q)' = Entry(q)
  BY OneEntry
<1>2. m0 \in Places /\ m0[2] = p
  BY PlaceFacts
<1> HIDE DEF m0, Tables
<1>3. DirsDense' /\ UnusedEmpty'
  BY <1>1 DEF Tables, DirsDense, UnusedEmpty
<1>4. EntriesOK'
  BY <1>1, <1>2 DEF Tables, EntriesOK
<1>5. Sharing'
  <2> SUFFICES ASSUME NEW m1 \in Places, NEW m2 \in Places,
                      EntryAt(m1)'.addr # 0, EntryAt(m1)'.addr = EntryAt(m2)'.addr, m1 # m2
               PROVE  m1[2] = m2[2] /\ m1[2] \in UserPages /\ ~EntryAt(m1)'.rw
    BY <1>1 DEF Sharing
  <2>1. m1 # m0 /\ m2 # m0
    <3>1. \A m \in Places : m # m0 /\ e.addr # 0 => EntryAt(m).addr # e.addr
      BY DEF m0
    <3> QED BY <3>1, <1>1
  <2> QED BY <2>1, <1>1 DEF Tables, Sharing
<1>6. /\ tlb' = [q \in Pages \cup HeapPages |-> IF q \in {p} THEN NoEntry ELSE tlb[q]]
      /\ tlb \in [Pages \cup HeapPages -> {NoEntry} \cup Translation]
  BY DEF invlpg, Tables, Types
<1>7. TlbExact'
  BY <1>1, <1>6 DEF Tables, TlbExact, Walk
<1>8. tlb' \in [Pages \cup HeapPages -> {NoEntry} \cup Translation]
  BY <1>6
<1> QED BY <1>3, <1>4, <1>5, <1>7, <1>8

\* The first part applies to the tables.
LEMMA AddrTyped ==
  ASSUME Tables
  PROVE  Typed(Places, Addr, frames, frame_ref_cnt)
BY PlaceTypes DEF Tables, Types, Typed

\* A step that sets one entry, leaves its frame number and the stack alone.
LEMMA SameFrames ==
  ASSUME Tables, Counted, NEW p \in Pages \cup HeapPages, NEW e \in Entries,
         SetEntry(p, e), UNCHANGED <<dirs, cur, frames, frame_ref_cnt>>,
         e.addr = Entry(p).addr
  PROVE  Counted'
<1>1. Addr' = [Addr EXCEPT ![PlaceOf(p)] = e.addr] /\ Places' = Places
  BY OneEntry DEF Tables
<1>2. PlaceOf(p) \in Places /\ Addr[PlaceOf(p)] = e.addr /\ Addr \in [Places -> 0 .. NFrames]
  BY PlaceFacts, PlaceTypes DEF Tables
<1>3. Addr' = Addr
  BY <1>1, <1>2
<1> QED BY <1>1, <1>3 DEF Counted

\* A step that leaves tables and stack alone.
LEMMA SameTables ==
  ASSUME Tables, Counted, UNCHANGED <<frames, frame_ref_cnt, pte, heap, dirs>>
  PROVE  DirsDense' /\ UnusedEmpty' /\ EntriesOK' /\ Sharing' /\ Counted'
<1>1. Places' = Places /\ \A m : EntryAt(m)' = EntryAt(m)
  BY DEF Places, EntryAt
<1>2. Addr' = Addr
  BY <1>1 DEF Addr
<1>3. DirsDense' /\ UnusedEmpty'
  BY DEF Tables, DirsDense, UnusedEmpty
<1>4. EntriesOK'
  BY <1>1 DEF Tables, EntriesOK
<1>5. Sharing'
  BY <1>1 DEF Tables, Sharing
<1> QED BY <1>1, <1>2, <1>3, <1>4, <1>5 DEF Counted

\* No other place names the frame of a page that can be written, of a page
\* all directories share the table of, and of any page while there is one
\* directory only.
LEMMA OwnFrame ==
  ASSUME Tables, NEW p \in Pages \cup HeapPages,
         p \notin UserPages \/ Entry(p).rw \/ dirs = {1}
  PROVE  \A m \in Places : m # PlaceOf(p) /\ Entry(p).addr # 0 => EntryAt(m).addr # Entry(p).addr
<1> SUFFICES ASSUME NEW m \in Places, m # PlaceOf(p), Entry(p).addr # 0,
                    EntryAt(m).addr = Entry(p).addr
             PROVE  FALSE
  OBVIOUS
<1>1. PlaceOf(p) \in Places /\ PlaceOf(p)[2] = p /\ Entry(p) = EntryAt(PlaceOf(p))
  BY PlaceFacts DEF Tables
<1>2. m[2] = p /\ p \in UserPages /\ ~Entry(p).rw
  BY <1>1 DEF Tables, Sharing
<1>3. dirs = {1} /\ p \in Pages
  BY <1>2 DEF Pages
<1>4. m = <<1, p>> /\ PlaceOf(p) = <<1, p>>
  BY <1>2, <1>3, PlaceFacts DEF Tables, Types
<1> QED BY <1>4

\* alloc: the page has a frame of its own afterwards, or the frames have run
\* out.
LEMMA AllocStep ==
  ASSUME Tables, Counted, NEW p \in Pages \cup HeapPages, NEW usr \in BOOLEAN,
         usr <=> p \in UserPages, p \notin UserPages \/ dirs = {1} \/ Entry(p).addr = 0,
         Alloc(p, usr, TRUE), UNCHANGED <<dirs, cur>>, invlpg({p})
  PROVE  Tables' /\ Counted'
<1> DEFINE e == Entry(p)
<1>1. e \in Entries /\ EntryOK(p, e) /\ PlaceOf(p) \in Places /\ e = EntryAt(PlaceOf(p))
  BY PlaceFacts, PlaceTypes DEF Tables, EntriesOK
<1>2. /\ frames \in Seq(Frames) /\ frame_ref_cnt \in [Frames -> Nat]
      /\ panic \in {"none", "no free frame", "page fault"} /\ cur \in dirs
      /\ pte \in [Dirs -> [Pages -> Entries]] /\ heap \in [HeapPages -> Entries]
      /\ tlb \in [Pages \cup HeapPages -> {NoEntry} \cup Translation]
  BY DEF Tables, Types
<1> HIDE DEF e
<1>3. CASE e.addr # 0
  <2> DEFINE e2 == [e EXCEPT !.rw = TRUE, !.user = usr]
  <2>1. SetEntry(p, e2) /\ UNCHANGED <<frames, frame_ref_cnt, panic>>
    BY <1>3 DEF Alloc, e
  <2>2. e2 \in Entries /\ e2.addr = e.addr /\ EntryOK(p, e2)
    BY <1>1, <1>3 DEF Entries, EntryOK
  <2> HIDE DEF e2
  <2>3. \A m \in Places : m # PlaceOf(p) /\ e2.addr # 0 => EntryAt(m).addr # e2.addr
    BY <2>2, <1>3, OwnFrame DEF e
  <2>4. Counted'
    BY <2>1, <2>2, SameFrames DEF e
  <2>5. /\ DirsDense' /\ UnusedEmpty' /\ EntriesOK' /\ Sharing' /\ TlbExact'
        /\ tlb' \in [Pages \cup HeapPages -> {NoEntry} \cup Translation]
    BY <2>1, <2>2, <2>3, OneEntryTables
  <2>6. pte' \in [Dirs -> [Pages -> Entries]] /\ heap' \in [HeapPages -> Entries]
    BY <2>1, <2>2, OneEntry DEF Tables
  <2> QED BY <1>2, <2>1, <2>4, <2>5, <2>6 DEF Tables, Types
<1>4. CASE e.addr = 0 /\ frames = <<>>
  <2>1. UNCHANGED <<frames, frame_ref_cnt, pte, heap>> /\ panic' = "no free frame"
    BY <1>4 DEF Alloc, e
  <2>2. tlb' = [q \in Pages \cup HeapPages |-> IF q \in {p} THEN NoEntry ELSE tlb[q]]
    BY DEF invlpg
  <2>3. tlb' \in [Pages \cup HeapPages -> {NoEntry} \cup Translation]
    BY <2>2, <1>2
  <2>4. TlbExact'
    BY <2>1, <2>2, <1>2 DEF Tables, TlbExact, Walk, Entry
  <2>5. DirsDense' /\ UnusedEmpty' /\ EntriesOK' /\ Sharing' /\ Counted'
    BY <2>1, SameTables
  <2> QED BY <1>2, <2>1, <2>3, <2>4, <2>5 DEF Tables, Types
<1>5. CASE e.addr = 0 /\ frames # <<>>
  <2> DEFINE e2 == Allocated(e, usr, TRUE)
  <2>1. /\ SetEntry(p, e2) /\ frames' = SubSeq(frames, 1, Len(frames) - 1)
        /\ frame_ref_cnt' = [frame_ref_cnt EXCEPT ![frames[Len(frames)]] = 1]
        /\ panic' = panic
    BY <1>5 DEF Alloc, e, PopFrame, AllocCounts, TopFrame
  <2>2. /\ TopFrame \in Frames /\ Mapped(Places, Addr, TopFrame) = {}
        /\ Typed(Places, [Addr EXCEPT ![PlaceOf(p)] = TopFrame], frames', frame_ref_cnt')
        /\ Conserved(Places, [Addr EXCEPT ![PlaceOf(p)] = TopFrame], frames', frame_ref_cnt')
    <3>1. /\ Typed(Places, Addr, frames, frame_ref_cnt)
          /\ Conserved(Places, Addr, frames, frame_ref_cnt)
          /\ Addr[PlaceOf(p)] = 0
      BY <1>1, <1>5, AddrTyped, PlaceTypes DEF Counted, Tables
    <3> DEFINE P == Places
               A == Addr
               m0 == PlaceOf(p)
    <3>2. /\ Typed(P, A, frames, frame_ref_cnt) /\ Conserved(P, A, frames, frame_ref_cnt)
          /\ m0 \in P /\ A[m0] = 0 /\ frames # <<>>
      BY <3>1, <1>1, <1>5
    <3> HIDE DEF P, A, m0
    <3>3. LET t == frames[Len(frames)]
              A2 == [A EXCEPT ![m0] = t]
              F2 == SubSeq(frames, 1, Len(frames) - 1)
              C2 == [frame_ref_cnt EXCEPT ![t] = 1]
          IN  /\ Typed(P, A2, F2, C2) /\ Conserved(P, A2, F2, C2)
              /\ t \in Frames /\ Mapped(P, A, t) = {}
      BY <3>2, Take
    <3> QED BY <3>3, <2>1 DEF TopFrame, P, A, m0
  <2>3. TopFrame # 0 /\ TopFrame \in 0 .. NFrames
    BY <2>2, PagingAssumption DEF Frames
  <2>4. e2 \in Entries /\ e2.addr = TopFrame /\ EntryOK(p, e2)
    BY <1>1, <2>3 DEF Entries, EntryOK, Allocated
  <2> HIDE DEF e2
  <2>5. \A m \in Places : m # PlaceOf(p) /\ e2.addr # 0 => EntryAt(m).addr # e2.addr
    BY <2>2, <2>4 DEF Mapped, Addr
  <2>6. Counted'
    BY <2>1, <2>2, <2>4, OneEntry DEF Counted, Tables
  <2>7. /\ DirsDense' /\ UnusedEmpty' /\ EntriesOK' /\ Sharing' /\ TlbExact'
        /\ tlb' \in [Pages \cup HeapPages -> {NoEntry} \cup Translation]
    BY <2>1, <2>4, <2>5, OneEntryTables
  <2>8. pte' \in [Dirs -> [Pages -> Entries]] /\ heap' \in [HeapPages -> Entries]
    BY <2>1, <2>4, OneEntry DEF Tables
  <2>9. frames' \in Seq(Frames) /\ frame_ref_cnt' \in [Frames -> Nat]
    BY <2>2 DEF Typed
  <2> QED BY <1>2, <2>1, <2>6, <2>7, <2>8, <2>9 DEF Tables, Types
<1> QED BY <1>3, <1>4, <1>5

\* A step that leaves tables and stack alone and drops a translation.
LEMMA DropStep ==
  ASSUME Tables, Counted, NEW p \in Pages \cup HeapPages, invlpg({p}),
         UNCHANGED <<frames, frame_ref_cnt, pte, heap, dirs, cur>>,
         panic' \in {"none", "no free frame", "page fault"}
  PROVE  Tables' /\ Counted'
<1>1. /\ frames \in Seq(Frames) /\ frame_ref_cnt \in [Frames -> Nat] /\ cur \in dirs
      /\ pte \in [Dirs -> [Pages -> Entries]] /\ heap \in [HeapPages -> Entries]
      /\ tlb \in [Pages \cup HeapPages -> {NoEntry} \cup Translation]
  BY DEF Tables, Types
<1>2. tlb' = [q \in Pages \cup HeapPages |-> IF q \in {p} THEN NoEntry ELSE tlb[q]]
  BY DEF invlpg
<1>3. tlb' \in [Pages \cup HeapPages -> {NoEntry} \cup Translation]
  BY <1>1, <1>2
<1>4. TlbExact'
  BY <1>1, <1>2 DEF Tables, TlbExact, Walk, Entry
<1>5. DirsDense' /\ UnusedEmpty' /\ EntriesOK' /\ Sharing' /\ Counted'
  BY SameTables
<1> QED BY <1>1, <1>3, <1>4, <1>5 DEF Tables, Types

\* An access: the TLB remembers a translation that it has or a walk finds.
LEMMA AccessStep ==
  ASSUME Tables, Counted, NEW p \in Pages \cup HeapPages, NEW x \in Translations(p),
         tlb' = [tlb EXCEPT ![p] = x],
         UNCHANGED <<frames, frame_ref_cnt, pte, heap, dirs, cur, panic>>
  PROVE  /\ Tables' /\ Counted'
         /\ x = Walk(p) /\ Entry(p).present /\ x.addr = Entry(p).addr /\ x.addr \in Frames
         /\ (x.rw <=> Entry(p).rw) /\ (x.user <=> Entry(p).user)
<1>1. /\ frames \in Seq(Frames) /\ frame_ref_cnt \in [Frames -> Nat] /\ cur \in dirs
      /\ pte \in [Dirs -> [Pages -> Entries]] /\ heap \in [HeapPages -> Entries]
      /\ tlb \in [Pages \cup HeapPages -> {NoEntry} \cup Translation]
      /\ panic \in {"none", "no free frame", "page fault"}
  BY DEF Tables, Types
<1>2. x = Walk(p) /\ Entry(p).present
  BY DEF Translations, Tables, TlbExact
<1>3. Entry(p) \in Entries /\ EntryOK(p, Entry(p))
  BY PlaceFacts, PlaceTypes DEF Tables, EntriesOK
<1>4. Entry(p).addr \in Frames
  BY <1>2, <1>3, PagingAssumption DEF Entries, EntryOK, Frames
<1>5. /\ x.addr = Entry(p).addr
      /\ (x.rw <=> Entry(p).rw) /\ (x.user <=> Entry(p).user)
  BY <1>2 DEF Walk
<1>6. x \in Translation
  BY <1>2, <1>3, <1>4 DEF Walk, Translation, Entries
<1>7. tlb' \in [Pages \cup HeapPages -> {NoEntry} \cup Translation]
  BY <1>1, <1>6
<1>8. \A q : Entry(q)' = Entry(q) /\ Walk(q)' = Walk(q)
  BY DEF Entry, Walk
<1>9. TlbExact'
  <2> SUFFICES ASSUME NEW q \in Pages \cup HeapPages, tlb'[q] # NoEntry
               PROVE  Entry(q).present /\ tlb'[q] = Walk(q)
    BY <1>8 DEF TlbExact
  <2>1. CASE q = p
    BY <2>1, <1>1, <1>2
  <2>2. CASE q # p
    BY <2>2, <1>1 DEF Tables, TlbExact
  <2> QED BY <2>1, <2>2
<1>10. DirsDense' /\ UnusedEmpty' /\ EntriesOK' /\ Sharing' /\ Counted'
  BY SameTables
<1> QED BY <1>1, <1>2, <1>4, <1>5, <1>7, <1>9, <1>10 DEF Tables, Types

\* A step that gives a page a new entry with the frame it had.
LEMMA KeepFrameStep ==
  ASSUME Tables, Counted, NEW p \in Pages \cup HeapPages, NEW e \in Entries,
         SetEntry(p, e), UNCHANGED <<frames, frame_ref_cnt, dirs, cur, panic>>, invlpg({p}),
         EntryOK(p, e), e.addr = Entry(p).addr,
         \A m \in Places : m # PlaceOf(p) /\ e.addr # 0 => EntryAt(m).addr # e.addr
  PROVE  Tables' /\ Counted'
<1>1. /\ frames \in Seq(Frames) /\ frame_ref_cnt \in [Frames -> Nat] /\ cur \in dirs
      /\ panic \in {"none", "no free frame", "page fault"}
  BY DEF Tables, Types
<1>2. Counted'
  BY SameFrames
<1>3. /\ DirsDense' /\ UnusedEmpty' /\ EntriesOK' /\ Sharing' /\ TlbExact'
      /\ tlb' \in [Pages \cup HeapPages -> {NoEntry} \cup Translation]
  BY OneEntryTables
<1>4. pte' \in [Dirs -> [Pages -> Entries]] /\ heap' \in [HeapPages -> Entries]
  BY OneEntry DEF Tables
<1> QED BY <1>1, <1>2, <1>3, <1>4 DEF Tables, Types

\* lazy_alloc.
LEMMA LazyStep ==
  ASSUME Tables, Counted, NEW p \in UserPages \cup HeapPages, NEW usr \in BOOLEAN,
         usr <=> p \in UserPages, p \notin UserPages \/ dirs = {1},
         SetEntry(p, LazyAllocated(Entry(p), usr, TRUE, usr)),
         UNCHANGED <<frames, frame_ref_cnt, dirs, cur, panic>>, invlpg({p})
  PROVE  Tables' /\ Counted'
<1> DEFINE e == LazyAllocated(Entry(p), usr, TRUE, usr)
<1>1. p \in Pages \cup HeapPages /\ p # KStack
  BY PagingAssumption DEF Pages
<1>2. Entry(p) \in Entries /\ EntryOK(p, Entry(p))
  BY <1>1, PlaceFacts, PlaceTypes DEF Tables, EntriesOK
<1>3. e \in Entries /\ e.addr = Entry(p).addr /\ EntryOK(p, e)
  <2>1. CASE Entry(p).addr = 0
    BY <1>1, <1>2, <2>1 DEF LazyAllocated, Entries, EntryOK
  <2>2. CASE Entry(p).addr # 0
    BY <1>1, <1>2, <2>2 DEF LazyAllocated, Entries, EntryOK
  <2> QED BY <2>1, <2>2
<1>4. \A m \in Places : m # PlaceOf(p) /\ e.addr # 0 => EntryAt(m).addr # e.addr
  BY <1>1, <1>3, OwnFrame
<1> HIDE DEF e
<1> SetEntry(p, e)
  BY DEF e
<1> QED BY <1>1, <1>3, <1>4, KeepFrameStep

\* free of a heap page: its frame goes back to the stack.
LEMMA FreeStep ==
  ASSUME Tables, Counted, NEW p \in HeapPages, HeapFree(p)
  PROVE  Tables' /\ Counted'
<1> DEFINE e == Entry(p)
<1>1. /\ p \in Pages \cup HeapPages /\ p \notin UserPages /\ p # KStack
      /\ e \in Entries /\ EntryOK(p, e) /\ PlaceOf(p) \in Places /\ e = EntryAt(PlaceOf(p))
  BY PlaceFacts, PlaceTypes, PagingAssumption DEF Tables, EntriesOK
<1>2. /\ frames \in Seq(Frames) /\ frame_ref_cnt \in [Frames -> Nat] /\ cur \in dirs
      /\ pte \in [Dirs -> [Pages -> Entries]] /\ heap \in [HeapPages -> Entries]
      /\ tlb \in [Pages \cup HeapPages -> {NoEntry} \cup Translation]
      /\ panic \in {"none", "no free frame", "page fault"}
  BY DEF Tables, Types
<1>3. UNCHANGED <<dirs, cur, panic>>
  BY DEF HeapFree
<1>4. \A m \in Places : m # PlaceOf(p) /\ e.addr # 0 => EntryAt(m).addr # e.addr
  BY <1>1, OwnFrame
<1> HIDE DEF e
<1>5. CASE ~(e.present /\ e.addr # 0)
  <2>1. UNCHANGED <<frames, frame_ref_cnt, pte, heap, tlb>>
    BY <1>5 DEF HeapFree, e
  <2>2. DirsDense' /\ UnusedEmpty' /\ EntriesOK' /\ Sharing' /\ Counted'
    BY <1>3, <2>1, SameTables
  <2>3. TlbExact'
    BY <1>3, <2>1 DEF Tables, TlbExact, Walk, Entry
  <2> QED BY <1>2, <1>3, <2>1, <2>2, <2>3 DEF Tables, Types
<1>6. CASE e.present /\ e.addr # 0
  <2> DEFINE e2 == Freed(e)
             left == frame_ref_cnt[e.addr] - 1
             P == Places
             A == Addr
             m0 == PlaceOf(p)
  <2>1. /\ frame_ref_cnt' = [frame_ref_cnt EXCEPT ![e.addr] = left]
        /\ frames' = IF left = 0 THEN Append(frames, e.addr) ELSE frames
        /\ SetEntry(p, e2) /\ invlpg({p})
    BY <1>6 DEF HeapFree, e, FreeInvlpg
  <2>2. /\ Typed(P, A, frames, frame_ref_cnt) /\ Conserved(P, A, frames, frame_ref_cnt)
        /\ m0 \in P /\ A[m0] # 0 /\ A[m0] = e.addr /\ \A m \in P : A[m] = EntryAt(m).addr
    BY <1>1, <1>6, AddrTyped, PlaceTypes DEF Counted, Tables
  <2>3. Mapped(P, A, A[m0]) = {m0}
    BY <2>2, <1>4, <1>6 DEF Mapped
  <2> HIDE DEF P, A, m0, e2
  <2>4. LET A2 == [A EXCEPT ![m0] = 0]
            F2 == Append(frames, A[m0])
            C2 == [frame_ref_cnt EXCEPT ![A[m0]] = 0]
        IN  frame_ref_cnt[A[m0]] = 1 /\ Typed(P, A2, F2, C2) /\ Conserved(P, A2, F2, C2)
    BY <2>2, <2>3, Give
  <2>5. left = 0
    BY <2>2, <2>4
  <2>6. /\ Typed(P, [A EXCEPT ![m0] = 0], frames', frame_ref_cnt')
        /\ Conserved(P, [A EXCEPT ![m0] = 0], frames', frame_ref_cnt')
    BY <2>1, <2>2, <2>4, <2>5
  <2>7. e2 \in Entries /\ e2.addr = 0 /\ EntryOK(p, e2)
    <3>1. e2 = [e EXCEPT !.addr = 0, !.present = FALSE, !.allocable = FALSE]
      BY DEF Freed, e2
    <3>2. /\ e2 \in Entries /\ e2.addr = 0 /\ e2.present = FALSE /\ e2.allocable = FALSE
          /\ e2.user = e.user
      <4>1. 0 \in 0 .. NFrames
        BY PagingAssumption
      <4> HIDE DEF e2
      <4> QED BY <3>1, <4>1, <1>1 DEF Entries
    <3>3. ~e.user
      BY <1>1 DEF EntryOK
    <3> QED BY <3>2, <3>3, <1>1 DEF EntryOK
  <2>8. Counted'
    BY <1>1, <1>3, <2>1, <2>6, <2>7, OneEntry DEF Counted, Tables, P, A, m0
  <2>9. /\ DirsDense' /\ UnusedEmpty' /\ EntriesOK' /\ Sharing' /\ TlbExact'
        /\ tlb' \in [Pages \cup HeapPages -> {NoEntry} \cup Translation]
    BY <1>1, <1>3, <2>1, <2>7, OneEntryTables
  <2>10. pte' \in [Dirs -> [Pages -> Entries]] /\ heap' \in [HeapPages -> Entries]
    BY <1>1, <1>3, <2>1, <2>7, OneEntry DEF Tables
  <2>11. frames' \in Seq(Frames) /\ frame_ref_cnt' \in [Frames -> Nat]
    BY <2>6 DEF Typed
  <2> QED BY <1>2, <1>3, <2>8, <2>9, <2>10, <2>11 DEF Tables, Types
<1> QED BY <1>5, <1>6

\* The write half of page_fault on a page that has a frame.
LEMMA CowStep ==
  ASSUME Tables, Counted, NEW p \in UserPages, Entry(p).addr # 0, panic = "none",
         CopyOnWrite(p), UNCHANGED <<dirs, cur>>, invlpg({p})
  PROVE  /\ Tables' /\ Counted'
         /\ \/ UNCHANGED <<pte, content>>
            \/ SetEntry(p, Reclaimed(Entry(p))) /\ UNCHANGED content
            \/ /\ TopFrame \in Frames /\ Mapped(Places, Addr, TopFrame) = {}
               /\ SetEntry(p, Allocated(Entry(p), TRUE, TRUE))
               /\ content' = [content EXCEPT ![TopFrame] = content[Entry(p).addr]]
<1> DEFINE e == Entry(p)
<1>1. /\ p \in Pages \cup HeapPages /\ p # KStack /\ p \in Pages
      /\ e \in Entries /\ EntryOK(p, e) /\ PlaceOf(p) \in Places /\ e = EntryAt(PlaceOf(p))
  <2>1. p \in Pages \cup HeapPages /\ p # KStack /\ p \in Pages
    BY PagingAssumption DEF Pages
  <2> QED BY <2>1, PlaceFacts, PlaceTypes DEF Tables, EntriesOK
<1>2. /\ frames \in Seq(Frames) /\ frame_ref_cnt \in [Frames -> Nat] /\ cur \in dirs
      /\ panic \in {"none", "no free frame", "page fault"}
  BY DEF Tables, Types
<1>3. e.addr # 0 /\ e.addr \in Frames /\ frame_ref_cnt[e.addr] \in Nat
  BY <1>1, <1>2, PagingAssumption DEF Entries, Frames
<1> DEFINE P == Places
           A == Addr
           m0 == PlaceOf(p)
<1>4. /\ Typed(P, A, frames, frame_ref_cnt) /\ Conserved(P, A, frames, frame_ref_cnt)
      /\ m0 \in P /\ A[m0] # 0 /\ A[m0] = e.addr /\ \A m \in P : A[m] = EntryAt(m).addr
  BY <1>1, AddrTyped, PlaceTypes DEF Counted, Tables
<1> HIDE DEF e, P, A, m0
<1>5. m0 \in Mapped(P, A, e.addr) /\ ~On(frames, e.addr)
  BY <1>3, <1>4 DEF Mapped, Conserved
<1>6. frame_ref_cnt[e.addr] = Cardinality(Mapped(P, A, e.addr))
  BY <1>3, <1>4, <1>5 DEF Conserved
<1>7. ASSUME UNCHANGED <<frames, frame_ref_cnt, pte, heap, content>>,
             panic' \in {"none", "no free frame", "page fault"}
      PROVE  Tables' /\ Counted' /\ UNCHANGED <<pte, content>>
  BY <1>1, <1>7, DropStep
<1>8. CASE frame_ref_cnt[e.addr] = 0
  <2>1. Segfault
    BY <1>8 DEF CopyOnWrite, e
  <2> QED BY <2>1, <1>7 DEF Segfault
<1>9. CASE frame_ref_cnt[e.addr] = 1
  <2> DEFINE e2 == Reclaimed(e)
  <2>1. SetEntry(p, e2) /\ UNCHANGED <<frames, frame_ref_cnt, content, panic>>
    BY <1>9, <1>3 DEF CopyOnWrite, e
  <2>2. Mapped(P, A, e.addr) = {m0}
    <3>1. IsFiniteSet(Mapped(P, A, e.addr))
      <4>1. Mapped(P, A, e.addr) \in SUBSET P
        BY DEF Mapped
      <4> QED BY <4>1, <1>4, FS_Subset DEF Typed
    <3>2. PICK x : Mapped(P, A, e.addr) = {x}
      BY <3>1, <1>6, <1>9, FS_Singleton
    <3> QED BY <3>2, <1>5
  <2>3. e2 \in Entries /\ e2.addr = e.addr /\ EntryOK(p, e2)
    BY <1>1, <1>3 DEF Reclaimed, Entries, EntryOK
  <2> HIDE DEF e2
  <2>4. \A m \in Places : m # PlaceOf(p) /\ e2.addr # 0 => EntryAt(m).addr # e2.addr
    BY <2>2, <2>3, <1>4 DEF Mapped, P, m0
  <2>5. Tables' /\ Counted'
    BY <1>1, <2>1, <2>3, <2>4, KeepFrameStep DEF e
  <2> QED BY <2>1, <2>5 DEF e2, e
<1>10. CASE frame_ref_cnt[e.addr] > 1 /\ frames = <<>>
  <2>1. panic' = "no free frame" /\ UNCHANGED <<frames, frame_ref_cnt, pte, heap, content>>
    <3>1. frame_ref_cnt[e.addr] # 0 /\ frame_ref_cnt[e.addr] # 1
      BY <1>10, <1>3
    <3> QED BY <3>1, <1>10, <1>3 DEF CopyOnWrite, e
  <2> QED BY <2>1, <1>7
<1>11. CASE frame_ref_cnt[e.addr] > 1 /\ frames # <<>>
  <2> DEFINE e2 == Allocated(e, TRUE, TRUE)
             t == frames[Len(frames)]
  <2>1. /\ SetEntry(p, e2) /\ frames' = SubSeq(frames, 1, Len(frames) - 1)
        /\ frame_ref_cnt' = [frame_ref_cnt EXCEPT ![e.addr] = @ - 1, ![t] = 1]
        /\ content' = [content EXCEPT ![t] = content[e.addr]] /\ panic' = panic
    <3>1. frame_ref_cnt[e.addr] # 0 /\ frame_ref_cnt[e.addr] # 1
      BY <1>11, <1>3
    <3>2. /\ SetEntry(p, e2) /\ frames' = PopFrame /\ frame_ref_cnt' = CowCounts(e.addr)
          /\ content' = CowCopied(e.addr) /\ UNCHANGED panic
      BY <3>1, <1>11, <1>3 DEF CopyOnWrite, e
    <3> QED BY <3>2 DEF PopFrame, CowCounts, CowCopied, TopFrame
  <2>2. LET A2 == [A EXCEPT ![m0] = t]
            F2 == SubSeq(frames, 1, Len(frames) - 1)
            C2 == [frame_ref_cnt EXCEPT ![A[m0]] = @ - 1, ![t] = 1]
        IN  /\ Typed(P, A2, F2, C2) /\ Conserved(P, A2, F2, C2)
            /\ t \in Frames /\ Mapped(P, A, t) = {}
    BY <1>4, <1>11, Move
  <2>3. /\ Typed(P, [A EXCEPT ![m0] = t], frames', frame_ref_cnt')
        /\ Conserved(P, [A EXCEPT ![m0] = t], frames', frame_ref_cnt')
        /\ t \in Frames /\ Mapped(P, A, t) = {}
    BY <2>1, <2>2, <1>4
  <2>4. t # 0 /\ t \in 0 .. NFrames
    BY <2>3, PagingAssumption DEF Frames
  <2>5. e2 \in Entries /\ e2.addr = t /\ EntryOK(p, e2)
    BY <1>1, <2>4 DEF Entries, EntryOK, Allocated, TopFrame
  <2> HIDE DEF e2, t
  <2>6. \A m \in Places : m # PlaceOf(p) /\ e2.addr # 0 => EntryAt(m).addr # e2.addr
    BY <2>3, <2>5, <1>4 DEF Mapped, P
  <2>7. Counted'
    BY <1>1, <2>1, <2>3, <2>5, OneEntry DEF Counted, Tables, P, A, m0
  <2>8. /\ DirsDense' /\ UnusedEmpty' /\ EntriesOK' /\ Sharing' /\ TlbExact'
        /\ tlb' \in [Pages \cup HeapPages -> {NoEntry} \cup Translation]
    BY <1>1, <2>1, <2>5, <2>6, OneEntryTables
  <2>9. pte' \in [Dirs -> [Pages -> Entries]] /\ heap' \in [HeapPages -> Entries]
    BY <1>1, <2>1, <2>5, OneEntry DEF Tables
  <2>10. frames' \in Seq(Frames) /\ frame_ref_cnt' \in [Frames -> Nat]
    BY <2>3 DEF Typed
  <2>11. Tables'
    BY <1>2, <2>1, <2>8, <2>9, <2>10 DEF Tables, Types
  <2>12. t = TopFrame
    BY DEF t, TopFrame
  <2> QED BY <2>1, <2>3, <2>7, <2>11, <2>12 DEF e2, e, P, A
<1>12. \/ frame_ref_cnt[e.addr] = 0 \/ frame_ref_cnt[e.addr] = 1
       \/ frame_ref_cnt[e.addr] > 1
  BY <1>3
<1> QED BY <1>8, <1>9, <1>10, <1>11, <1>12

\* What page_fault can come to: a panic that changes no table, the allocation
\* of a page that was lazily allocated, or copy-on-write.
LEMMA FaultCases ==
  ASSUME Tables, NEW p \in Pages \cup HeapPages, NEW w \in BOOLEAN, NEW usr \in BOOLEAN,
         Fault(p, w, usr)
  PROVE  /\ panic = "none" /\ UNCHANGED <<dirs, cur, out>> /\ invlpg({p})
         /\ \/ Segfault
            \/ /\ Entry(p).addr = 0 /\ Entry(p).allocable /\ Entry(p).rw /\ p # KStack
               /\ (Entry(p).user <=> p \in UserPages) /\ (Entry(p).fill <=> p \in UserPages)
               /\ usr => Entry(p).user
               /\ Alloc(p, Entry(p).user, TRUE) /\ content' = LazyFilled(p)
            \/ p \in UserPages /\ Entry(p).addr # 0 /\ Entry(p).user /\ CopyOnWrite(p)
<1>1. Entry(p) \in Entries /\ EntryOK(p, Entry(p))
  BY PlaceFacts, PlaceTypes DEF Tables, EntriesOK
<1>2. panic = "none" /\ UNCHANGED <<dirs, cur, out>> /\ invlpg({p})
  BY DEF Fault
<1>3. \/ ~Entry(p).present /\ page_fault(p, FALSE, w, usr)
      \/ Entry(p).present /\ page_fault(p, TRUE, w, usr)
  <2>1. ASSUME NEW x \in Translations(p) PROVE Entry(p).present
    BY DEF Translations, Tables, TlbExact
  <2> QED BY <2>1 DEF Fault
<1>4. CASE ~Entry(p).present /\ page_fault(p, FALSE, w, usr)
  <2>1. Entry(p).addr = 0
    BY <1>1, <1>4 DEF EntryOK
  <2>2. CASE ~Entry(p).allocable \/ (~Entry(p).user /\ usr)
    BY <1>2, <1>4, <2>2 DEF page_fault
  <2>3. CASE ~(~Entry(p).allocable \/ (~Entry(p).user /\ usr))
    <3>1. Alloc(p, Entry(p).user, Entry(p).rw) /\ content' = LazyFilled(p)
      BY <1>4, <2>3 DEF page_fault
    <3>2. /\ Entry(p).rw = TRUE /\ p # KStack
          /\ (Entry(p).user <=> p \in UserPages) /\ (Entry(p).fill <=> p \in UserPages)
      BY <1>1, <2>1, <2>3 DEF EntryOK, Entries
    <3> QED BY <1>2, <2>1, <2>3, <3>1, <3>2
  <2> QED BY <2>2, <2>3
<1>5. CASE Entry(p).present /\ page_fault(p, TRUE, w, usr)
  <2>1. Entry(p).addr # 0
    BY <1>1, <1>5 DEF EntryOK
  <2>2. Segfault \/ (Entry(p).user /\ Entry(p).allocable /\ CopyOnWrite(p))
    BY <1>5 DEF page_fault
  <2> QED BY <1>1, <1>2, <2>1, <2>2 DEF EntryOK
<1> QED BY <1>3, <1>4, <1>5

\* The page fault handler.
LEMMA FaultStep ==
  ASSUME IInv, NEW p \in Pages \cup HeapPages, NEW w \in BOOLEAN, NEW usr \in BOOLEAN,
         Fault(p, w, usr)
  PROVE  IInv'
<1> DEFINE e == Entry(p)
<1>1. Tables /\ Counted /\ content \in [Frames -> Values] /\ out \in Values
  BY DEF IInv, ValueTypes
<1>2. panic = "none" /\ UNCHANGED <<dirs, cur, out>> /\ invlpg({p})
  BY <1>1, FaultCases
<1>3. e \in Entries
  BY <1>1, PlaceFacts, PlaceTypes DEF Tables
<1>4. CASE Segfault
  <2>1. panic' = "page fault" /\ UNCHANGED <<frames, frame_ref_cnt, pte, heap, content>>
    BY <1>4 DEF Segfault
  <2>2. Tables' /\ Counted'
    BY <1>1, <1>2, <2>1, DropStep
  <2> QED BY <1>1, <1>2, <2>1, <2>2 DEF IInv, ValueTypes
<1>5. CASE /\ e.addr = 0 /\ (e.user <=> p \in UserPages)
           /\ Alloc(p, e.user, TRUE) /\ content' = LazyFilled(p)
  <2>1. e.user \in BOOLEAN
    BY <1>3 DEF Entries
  <2>2. Tables' /\ Counted'
    BY <1>1, <1>2, <1>5, <2>1, AllocStep
  <2>3. content' \in [Frames -> Values]
    BY <1>1, <1>5, PagingAssumption DEF LazyFilled, Filled
  <2> QED BY <1>1, <1>2, <2>2, <2>3 DEF IInv, ValueTypes
<1>6. CASE p \in UserPages /\ e.addr # 0 /\ CopyOnWrite(p)
  <2>1. /\ Tables' /\ Counted'
        /\ \/ UNCHANGED content
           \/ content' = [content EXCEPT ![TopFrame] = content[Entry(p).addr]]
    BY <1>1, <1>2, <1>6, CowStep
  <2>2. content[e.addr] \in Values
    <3>1. e.addr \in Frames
      BY <1>3, <1>6, PagingAssumption DEF Entries, Frames
    <3> QED BY <1>1, <3>1
  <2>3. content' \in [Frames -> Values]
    BY <1>1, <2>1, <2>2
  <2> QED BY <1>1, <1>2, <2>1, <2>3 DEF IInv, ValueTypes
<1> QED BY <1>1, <1>4, <1>5, <1>6, FaultCases

\* The directory that clone_directory creates.
NewDir == Cardinality(dirs) + 1

\* The tables after clone_directory, entry by entry.
LEMMA CloneTables ==
  ASSUME Tables, CloneDirectory, frames # <<>>, TopFrame \in Frames
  PROVE  /\ NewDir \in Dirs /\ NewDir \notin dirs /\ NewDir # 0 /\ NewDir # cur
         /\ dirs' = dirs \cup {NewDir} /\ DirsDense'
         /\ pte' \in [Dirs -> [Pages -> Entries]] /\ heap' = heap /\ cur' = cur
         /\ \A p \in UserPages : /\ pte'[cur][p] = clone_table(pte[cur][p])
                                 /\ pte'[NewDir][p] = clone_table(pte[cur][p])
         /\ pte'[cur][KStack] = pte[cur][KStack]
         /\ pte'[NewDir][KStack] = Allocated(NullEntry, FALSE, TRUE)
         /\ \A d \in Dirs : d # cur /\ d # NewDir => pte'[d] = pte[d]
<1> DEFINE d == NewDir
<1>1. PICK n \in 1 .. NDirs : dirs = 1 .. n
  BY DEF Tables, DirsDense, Dirs
<1>2. Cardinality(1 .. n) = n
  BY <1>1, PagingAssumption, FS_Interval
<1>3. d = n + 1 /\ n \in Nat /\ cur \in 1 .. n
  <2>1. cur \in dirs
    BY DEF Tables, Types
  <2>2. Cardinality(dirs) = n
    BY <1>1, <1>2
  <2>3. d = n + 1
    BY <2>2 DEF NewDir
  <2> QED BY <2>1, <2>3, <1>1, PagingAssumption
<1>4. d \in Dirs
  BY DEF CloneDirectory, NewDir
<1>5. d \notin dirs /\ d # 0 /\ d # cur /\ cur \in Dirs
  BY <1>1, <1>3, <1>4, PagingAssumption DEF Dirs
<1>6. /\ dirs' = dirs \cup {d}
      /\ pte' = [pte EXCEPT
           ![cur] = [p \in Pages |-> IF p \in UserPages THEN clone_table(pte[cur][p]) ELSE pte[cur][p]],
           ![d] = [p \in Pages |-> IF p \in UserPages THEN clone_table(pte[cur][p])
                                   ELSE Allocated(NullEntry, FALSE, TRUE)]]
      /\ heap' = heap /\ cur' = cur
  BY DEF CloneDirectory, NewDir
<1>7. DirsDense'
  <2>1. dirs' = 1 .. d
    BY <1>1, <1>3, <1>6
  <2> QED BY <2>1, <1>4 DEF DirsDense
<1>8. /\ pte \in [Dirs -> [Pages -> Entries]] /\ pte[cur] \in [Pages -> Entries]
      /\ \A p \in Pages : pte[cur][p] \in Entries
  BY <1>5 DEF Tables, Types
<1>9. \A e \in Entries : clone_table(e) \in Entries
  <2> SUFFICES ASSUME NEW e \in Entries PROVE clone_table(e) \in Entries
    OBVIOUS
  <2>1. CASE e.addr = 0
    BY <2>1 DEF clone_table
  <2>2. CASE e.addr # 0
    <3>1. [e EXCEPT !.rw = FALSE] \in Entries
      BY DEF Entries
    <3> QED BY <2>2, <3>1 DEF clone_table
  <2> QED BY <2>1, <2>2
<1>10. Allocated(NullEntry, FALSE, TRUE) \in Entries
  <2>1. TopFrame \in 0 .. NFrames
    BY PagingAssumption DEF Frames
  <2>2. NullEntry \in Entries
    <3>1. 0 \in 0 .. NFrames
      BY PagingAssumption
    <3> QED BY <3>1 DEF NullEntry, Entries
  <2>3. \A e \in Entries : Allocated(e, FALSE, TRUE) \in Entries
    BY <2>1 DEF Allocated, Entries
  <2> QED BY <2>2, <2>3
<1>11. KStack \in Pages /\ KStack \notin UserPages /\ UserPages \subseteq Pages
  BY PagingAssumption DEF Pages
<1> DEFINE X == [p \in Pages |-> IF p \in UserPages THEN clone_table(pte[cur][p]) ELSE pte[cur][p]]
           Y == [p \in Pages |-> IF p \in UserPages THEN clone_table(pte[cur][p])
                                 ELSE Allocated(NullEntry, FALSE, TRUE)]
<1>12. X \in [Pages -> Entries] /\ Y \in [Pages -> Entries]
  BY <1>8, <1>9, <1>10
<1>13. /\ \A p \in UserPages : X[p] = clone_table(pte[cur][p]) /\ Y[p] = clone_table(pte[cur][p])
       /\ X[KStack] = pte[cur][KStack] /\ Y[KStack] = Allocated(NullEntry, FALSE, TRUE)
  BY <1>11
<1>14. pte' = [pte EXCEPT ![cur] = X, ![d] = Y]
  BY <1>6
<1> HIDE DEF X, Y, d
<1>15. /\ pte' \in [Dirs -> [Pages -> Entries]] /\ pte'[cur] = X /\ pte'[d] = Y
       /\ \A c \in Dirs : c # cur /\ c # d => pte'[c] = pte[c]
  BY <1>4, <1>5, <1>8, <1>12, <1>14
<1>16. pte'[NewDir] = Y
  BY <1>15 DEF d
<1> QED BY <1>4, <1>5, <1>6, <1>7, <1>13, <1>15, <1>16 DEF d

\* clone_directory, when there is a frame for the new kernel stack.
LEMMA CloneStep ==
  ASSUME Tables, Counted, CloneDirectory, frames # <<>>
  PROVE  /\ Tables' /\ Counted'
         /\ TopFrame \in Frames /\ Mapped(Places, Addr, TopFrame) = {}
<1> PICK d : d = NewDir
  OBVIOUS
<1> DEFINE P == Places
           A == Addr
           N == {d} \X Pages
<1>1. /\ Typed(P, A, frames, frame_ref_cnt) /\ Conserved(P, A, frames, frame_ref_cnt)
      /\ \A m \in P : A[m] = EntryAt(m).addr /\ EntryAt(m) \in Entries
  BY AddrTyped, PlaceTypes DEF Counted, Tables
<1>2. TopFrame \in Frames /\ Mapped(P, A, TopFrame) = {}
  <2>1. frames \in Seq(Frames) /\ \A i, j \in 1 .. Len(frames) : frames[i] = frames[j] => i = j
    BY <1>1 DEF Typed, Conserved
  <2>2. TopFrame \in Frames /\ On(frames, TopFrame)
    BY <2>1, PopStack DEF TopFrame
  <2> QED BY <1>1, <2>2 DEF Conserved
<1>3. /\ d \in Dirs /\ d \notin dirs /\ d # 0 /\ d # cur /\ dirs' = dirs \cup {d} /\ DirsDense'
      /\ pte' \in [Dirs -> [Pages -> Entries]] /\ heap' = heap /\ cur' = cur
      /\ \A p \in UserPages : /\ pte'[cur][p] = clone_table(pte[cur][p])
                              /\ pte'[d][p] = clone_table(pte[cur][p])
      /\ pte'[cur][KStack] = pte[cur][KStack]
      /\ pte'[d][KStack] = Allocated(NullEntry, FALSE, TRUE)
      /\ \A c \in Dirs : c # cur /\ c # d => pte'[c] = pte[c]
  BY <1>2, CloneTables
<1>4. /\ 0 \notin dirs /\ dirs \subseteq Dirs /\ cur \in dirs /\ Pages \cap HeapPages = {}
      /\ KStack \in Pages /\ KStack \notin UserPages /\ UserPages \subseteq Pages
      /\ \A p \in Pages : p \in UserPages \/ p = KStack
  <2>1. 0 \notin dirs /\ dirs \subseteq Dirs /\ cur \in dirs /\ Pages \cap HeapPages = {}
    BY PlaceFacts DEF Tables, Types
  <2> QED BY <2>1, PagingAssumption DEF Pages
<1>5. /\ \A m \in P : \/ m[1] = 0 /\ m[2] \in HeapPages /\ m = <<0, m[2]>>
                      \/ m[1] \in dirs /\ m[2] \in Pages /\ m = <<m[1], m[2]>>
      /\ \A p \in Pages : <<cur, p>> \in P /\ EntryAt(<<cur, p>>) = pte[cur][p]
  BY <1>4, PlaceFacts DEF Tables
<1>6. Places' = P \cup N /\ N \cap P = {}
  <2>1. Places' = P \cup N
    BY <1>3 DEF Places
  <2>2. N \cap P = {}
    BY <1>3, <1>5
  <2> QED BY <2>1, <2>2
<1> DEFINE New == Allocated(NullEntry, FALSE, TRUE)
<1>7. /\ New.addr = TopFrame /\ EntryOK(KStack, New)
  <2>1. NullEntry \in Entries /\ TopFrame # 0
    <3>1. 0 \in 0 .. NFrames /\ TopFrame # 0
      BY <1>2, PagingAssumption DEF Frames
    <3> QED BY <3>1 DEF NullEntry, Entries
  <2>2. ASSUME NEW e \in Entries PROVE
          LET e2 == Allocated(e, FALSE, TRUE)
          IN  e2.addr = TopFrame /\ e2.present /\ e2.allocable /\ ~e2.user /\ e2.rw
    BY DEF Allocated, Entries
  <2>3. New.addr = TopFrame /\ New.present /\ New.allocable /\ ~New.user /\ New.rw
    BY <2>1, <2>2
  <2> HIDE DEF New
  <2> QED BY <2>1, <2>3, <1>4 DEF EntryOK
<1> HIDE DEF New
\* clone_table takes away write access and nothing else.
<1>8. ASSUME NEW p \in UserPages, NEW e \in Entries, EntryOK(p, e)
      PROVE  /\ clone_table(e).addr = e.addr /\ EntryOK(p, clone_table(e))
             /\ e.addr # 0 => ~clone_table(e).rw
             /\ e.addr = 0 => clone_table(e) = e
  <2>1. CASE e.addr = 0
    BY <1>8, <2>1 DEF clone_table
  <2>2. CASE e.addr # 0
    <3> DEFINE c == [e EXCEPT !.rw = FALSE]
    <3>1. /\ c.addr = e.addr /\ c.present = e.present /\ c.allocable = e.allocable
          /\ c.user = e.user /\ c.rw = FALSE /\ c.fill = e.fill
      BY DEF Entries
    <3>2. clone_table(e) = c
      BY <2>2 DEF clone_table
    <3> HIDE DEF c
    <3>3. EntryOK(p, c)
      BY <1>8, <1>4, <2>2, <3>1 DEF EntryOK
    <3> QED BY <2>2, <3>1, <3>2, <3>3
  <2> QED BY <2>1, <2>2
<1>9. ASSUME NEW m \in P, ~(m[1] = cur /\ m[2] \in UserPages)
      PROVE  EntryAt(m)' = EntryAt(m)
  <2>1. CASE m[1] = 0
    BY <2>1, <1>3 DEF EntryAt
  <2>2. CASE m[1] # 0 /\ m[1] # cur
    BY <2>2, <1>3, <1>4, <1>5 DEF EntryAt
  <2>3. CASE m[1] # 0 /\ m[1] = cur
    <3>1. m[2] = KStack
      BY <2>3, <1>9, <1>4, <1>5
    <3> QED BY <2>3, <3>1, <1>3 DEF EntryAt
  <2> QED BY <2>1, <2>2, <2>3
<1>10. ASSUME NEW p \in UserPages
       PROVE  /\ EntryAt(<<cur, p>>)' = clone_table(EntryAt(<<cur, p>>))
              /\ EntryAt(<<d, p>>)' = clone_table(EntryAt(<<cur, p>>))
              /\ EntryAt(<<cur, p>>) \in Entries /\ EntryOK(p, EntryAt(<<cur, p>>))
  <2>1. /\ EntryAt(<<cur, p>>)' = pte'[cur][p] /\ EntryAt(<<d, p>>)' = pte'[d][p]
        /\ EntryAt(<<cur, p>>) = pte[cur][p]
    BY <1>3, <1>4 DEF EntryAt
  <2>2. <<cur, p>> \in Places /\ <<cur, p>>[2] = p
    BY <1>4, <1>5
  <2>3. EntryAt(<<cur, p>>) \in Entries /\ EntryOK(p, EntryAt(<<cur, p>>))
    BY <2>2, <1>1 DEF Tables, EntriesOK
  <2> QED BY <2>1, <2>3, <1>3
<1>11. EntryAt(<<d, KStack>>)' = New
  BY <1>3 DEF EntryAt, New
\* Every entry but that of the new stack comes from an old entry.
<1>12. ASSUME NEW m \in Places', m # <<d, KStack>>
       PROVE  \E o \in P : /\ o[2] = m[2] /\ EntryAt(m)'.addr = EntryAt(o).addr
                           /\ EntryAt(m)'.rw => EntryAt(o).rw
                           /\ EntryOK(m[2], EntryAt(m)')
                           /\ m \in P => o = m
                           /\ m \notin P => m = <<d, o[2]>> /\ o = <<cur, o[2]>> /\ o[2] \in UserPages
                           /\ o[1] = cur /\ o[2] \in UserPages /\ EntryAt(o).addr # 0 => ~EntryAt(m)'.rw
  <2>1. CASE m \in P /\ ~(m[1] = cur /\ m[2] \in UserPages)
    <3>1. EntryAt(m)' = EntryAt(m) /\ EntryOK(m[2], EntryAt(m))
      BY <2>1, <1>9 DEF Tables, EntriesOK
    <3> QED BY <2>1, <3>1
  <2>2. CASE m \in P /\ m[1] = cur /\ m[2] \in UserPages
    <3>1. m = <<cur, m[2]>>
      BY <2>2, <1>5, <1>4
    <3>2. /\ EntryAt(m)' = clone_table(EntryAt(m))
          /\ EntryAt(m) \in Entries /\ EntryOK(m[2], EntryAt(m))
      BY <2>2, <3>1, <1>3, <1>10
    <3>3. /\ EntryAt(m)'.addr = EntryAt(m).addr /\ EntryOK(m[2], EntryAt(m)')
          /\ EntryAt(m).addr # 0 => ~EntryAt(m)'.rw
          /\ EntryAt(m).addr = 0 => EntryAt(m)' = EntryAt(m)
      BY <2>2, <3>2, <1>8
    <3> QED BY <2>2, <3>3
  <2>3. CASE m \notin P
    <3>1. m \in N
      BY <2>3, <1>6
    <3>2. PICK p \in UserPages : m = <<d, p>>
      BY <1>4, <1>12, <3>1
    <3> DEFINE o == <<cur, p>>
    <3>3. o \in P /\ o[1] = cur /\ o[2] = p /\ m[2] = p
      BY <1>4, <1>5, <3>2
    <3>4. /\ EntryAt(m)' = clone_table(EntryAt(o))
          /\ EntryAt(o) \in Entries /\ EntryOK(p, EntryAt(o))
      BY <3>2, <1>10
    <3>5. /\ EntryAt(m)'.addr = EntryAt(o).addr /\ EntryOK(p, EntryAt(m)')
          /\ EntryAt(o).addr # 0 => ~EntryAt(m)'.rw
          /\ EntryAt(o).addr = 0 => EntryAt(m)' = EntryAt(o)
      BY <3>4, <1>8
    <3>6. m = <<d, o[2]>> /\ o = <<cur, o[2]>> /\ o[2] \in UserPages
      BY <3>2
    <3> HIDE DEF o
    <3> QED BY <2>3, <3>3, <3>5, <3>6
  <2> QED BY <2>1, <2>2, <2>3
<1>13. EntriesOK'
  <2> SUFFICES ASSUME NEW m \in Places' PROVE EntryOK(m[2], EntryAt(m)')
    BY DEF EntriesOK
  <2>1. CASE m = <<d, KStack>>
    BY <2>1, <1>7, <1>11
  <2>2. CASE m # <<d, KStack>>
    BY <2>2, <1>12
  <2> QED BY <2>1, <2>2
<1>14. \A o \in P : EntryAt(o).addr # TopFrame
  BY <1>1, <1>2 DEF Mapped
<1>15. Sharing'
  <2> SUFFICES ASSUME NEW m1 \in Places', NEW m2 \in Places',
                      EntryAt(m1)'.addr # 0, EntryAt(m1)'.addr = EntryAt(m2)'.addr, m1 # m2
               PROVE  m1[2] = m2[2] /\ m1[2] \in UserPages /\ ~EntryAt(m1)'.rw
    BY DEF Sharing
  <2>1. m1 # <<d, KStack>> /\ m2 # <<d, KStack>>
    BY <1>7, <1>11, <1>12, <1>14
  <2>2. PICK o1 \in P :
          /\ o1[2] = m1[2] /\ EntryAt(m1)'.addr = EntryAt(o1).addr
          /\ EntryAt(m1)'.rw => EntryAt(o1).rw
          /\ m1 \in P => o1 = m1
          /\ m1 \notin P => m1 = <<d, o1[2]>> /\ o1 = <<cur, o1[2]>> /\ o1[2] \in UserPages
          /\ o1[1] = cur /\ o1[2] \in UserPages /\ EntryAt(o1).addr # 0 => ~EntryAt(m1)'.rw
    BY <2>1, <1>12
  <2>3. PICK o2 \in P :
          /\ o2[2] = m2[2] /\ EntryAt(m2)'.addr = EntryAt(o2).addr
          /\ m2 \in P => o2 = m2
          /\ m2 \notin P => m2 = <<d, o2[2]>> /\ o2 = <<cur, o2[2]>> /\ o2[2] \in UserPages
    BY <2>1, <1>12
  <2>4. CASE o1 # o2
    BY <2>2, <2>3, <2>4 DEF Tables, Sharing
  <2>5. CASE o1 = o2
    <3>1. m1 \notin P \/ m2 \notin P
      BY <2>2, <2>3, <2>5
    <3>2. o1[1] = cur /\ o1[2] \in UserPages
      BY <2>2, <2>3, <2>5, <3>1
    <3> QED BY <2>2, <2>3, <2>5, <3>2
  <2> QED BY <2>4, <2>5
<1>16. UnusedEmpty'
  BY <1>3, <1>4 DEF Tables, UnusedEmpty
<1>17. /\ frames \in Seq(Frames) /\ frame_ref_cnt \in [Frames -> Nat]
       /\ heap \in [HeapPages -> Entries]
       /\ tlb \in [Pages \cup HeapPages -> {NoEntry} \cup Translation]
       /\ panic \in {"none", "no free frame", "page fault"}
  BY DEF Tables, Types
<1>18. /\ frames' = SubSeq(frames, 1, Len(frames) - 1)
       /\ frame_ref_cnt' =
            [f \in Frames |->
               IF f = TopFrame THEN 1
               ELSE frame_ref_cnt[f] + Cardinality({p \in Shared : pte[cur][p].addr = f})]
       /\ tlb' = [p \in Pages \cup HeapPages |-> IF p \in Shared THEN NoEntry ELSE tlb[p]]
       /\ panic' = panic
  BY DEF CloneDirectory, PopFrame, invlpg, CloneInvlpg
\* The translations that stay are of pages whose entries stay.
<1>19. TlbExact' /\ tlb' \in [Pages \cup HeapPages -> {NoEntry} \cup Translation]
  <2>1. tlb' \in [Pages \cup HeapPages -> {NoEntry} \cup Translation]
    BY <1>17, <1>18
  <2>2. ASSUME NEW p \in Pages \cup HeapPages, tlb'[p] # NoEntry
        PROVE  Entry(p)' = Entry(p) /\ tlb'[p] = tlb[p]
    <3>1. p \notin Shared /\ tlb'[p] = tlb[p]
      BY <2>2, <1>17, <1>18
    <3>2. CASE p \in HeapPages
      BY <3>1, <3>2, <1>3 DEF Entry
    <3>3. CASE p = KStack
      BY <3>1, <3>3, <1>3 DEF Entry
    <3>4. CASE p \in UserPages
      <4>1. pte[cur][p].addr = 0 /\ p \notin HeapPages
        BY <3>1, <3>4, <1>4 DEF Shared
      <4>2. clone_table(pte[cur][p]) = pte[cur][p]
        BY <4>1 DEF clone_table
      <4> QED BY <3>1, <3>4, <4>1, <4>2, <1>3 DEF Entry
    <3> QED BY <3>2, <3>3, <3>4, <1>4
  <2>3. \A p \in Pages \cup HeapPages : tlb'[p] # NoEntry => Entry(p)'.present /\ tlb'[p] = Walk(p)'
    BY <2>2 DEF Tables, TlbExact, Walk
  <2> QED BY <2>1, <2>3 DEF TlbExact
\* The counts grow by the entries of the clone.
<1> DEFINE Q(f) == {p \in UserPages : A[<<cur, p>>] = f}
<1>20. ASSUME NEW f \in Frames
       PROVE  /\ Cardinality(Q(f)) \in Nat
              /\ f # TopFrame => frame_ref_cnt'[f] = frame_ref_cnt[f] + Cardinality(Q(f))
  <2>1. f # 0
    BY PagingAssumption DEF Frames
  <2>2. \A p \in UserPages : A[<<cur, p>>] = pte[cur][p].addr
    BY <1>1, <1>4, <1>5
  <2>3. {p \in Shared : pte[cur][p].addr = f} = Q(f)
    BY <2>1, <2>2 DEF Shared
  <2>4. IsFiniteSet(Q(f))
    <3>1. Q(f) \in SUBSET UserPages
      OBVIOUS
    <3> QED BY <3>1, FS_Subset, PagingAssumption
  <2>5. Cardinality(Q(f)) \in Nat
    BY <2>4, FS_CardinalityType
  <2> HIDE DEF Q
  <2> QED BY <2>3, <2>5, <1>18
<1>21. frame_ref_cnt' \in [Frames -> Nat] /\ frame_ref_cnt'[TopFrame] = 1
  <2>1. ASSUME NEW f \in Frames PROVE frame_ref_cnt'[f] \in Nat
    <3>1. CASE f = TopFrame
      BY <3>1, <1>18
    <3>2. CASE f # TopFrame
      <4> HIDE DEF Q
      <4>1. frame_ref_cnt[f] \in Nat /\ Cardinality(Q(f)) \in Nat
        BY <1>17, <1>20
      <4> QED BY <3>2, <4>1, <1>20
    <3> QED BY <3>1, <3>2
  <2>2. frame_ref_cnt'[TopFrame] = 1
    BY <1>2, <1>18
  <2>3. frame_ref_cnt' = [f \in Frames |-> frame_ref_cnt'[f]]
    BY <1>18
  <2> QED BY <2>1, <2>2, <2>3
<1> DEFINE A2 == Addr'
<1>22. /\ A2 \in [P \cup N -> 0 .. NFrames] /\ \A m \in P : A2[m] = A[m]
       /\ \A p \in UserPages : A2[<<d, p>>] = A[<<cur, p>>]
       /\ A2[<<d, KStack>>] = TopFrame
  <2>1. A2 = [m \in P \cup N |-> EntryAt(m)'.addr]
    BY <1>6 DEF Addr
  <2>2. TopFrame \in 0 .. NFrames
    BY <1>2, PagingAssumption DEF Frames
  <2>3. \A o \in P : A[o] \in 0 .. NFrames /\ A[o] = EntryAt(o).addr
    BY <1>1 DEF Typed
  <2>4. ASSUME NEW m \in P \cup N PROVE EntryAt(m)'.addr \in 0 .. NFrames
    <3>1. CASE m = <<d, KStack>>
      BY <3>1, <2>2, <1>7, <1>11
    <3>2. CASE m # <<d, KStack>>
      BY <3>2, <2>3, <1>6, <1>12
    <3> QED BY <3>1, <3>2
  <2>5. ASSUME NEW m \in P PROVE EntryAt(m)'.addr = A[m]
    <3>1. m # <<d, KStack>>
      BY <1>4, <1>6
    <3> QED BY <3>1, <2>3, <1>6, <1>12
  <2>6. ASSUME NEW p \in UserPages PROVE EntryAt(<<d, p>>)'.addr = A[<<cur, p>>]
    <3>1. <<cur, p>> \in P
      BY <1>4, <1>5
    <3> QED BY <3>1, <2>3, <1>8, <1>10
  <2>7. EntryAt(<<d, KStack>>)'.addr = TopFrame
    BY <1>7, <1>11
  <2>8. <<d, KStack>> \in N /\ \A p \in UserPages : <<d, p>> \in N
    BY <1>4
  <2> HIDE DEF A2, P, A, N
  <2>9. A2 \in [P \cup N -> 0 .. NFrames]
    BY <2>1, <2>4
  <2> QED BY <2>1, <2>5, <2>6, <2>7, <2>8, <2>9
<1>23. Typed(P \cup N, A2, frames', frame_ref_cnt') /\ Conserved(P \cup N, A2, frames', frame_ref_cnt')
  <2> DEFINE C2 == frame_ref_cnt'
             c == cur
             R == [f \in Frames |-> Q(f)]
             P2 == P \cup N
  <2>1. /\ \A p \in Pages : <<c, p>> \in P /\ <<d, p>> \notin P
        /\ P2 = P \cup ({d} \X Pages) /\ A2 \in [P2 -> 0 .. NFrames]
    BY <1>5, <1>6, <1>22
  <2>2. /\ \A m \in P : A2[m] = A[m]
        /\ \A p \in UserPages : A2[<<d, p>>] = A[<<c, p>>]
        /\ A2[<<d, KStack>>] = frames[Len(frames)]
    BY <1>22 DEF TopFrame
  <2>3. /\ C2 \in [Frames -> Nat] /\ C2[frames[Len(frames)]] = 1
        /\ \A f \in Frames : f # frames[Len(frames)] =>
             C2[f] = frame_ref_cnt[f] + Cardinality(R[f])
    BY <1>20, <1>21 DEF TopFrame
  <2>a. /\ \A f \in Frames : R[f] \in SUBSET UserPages
        /\ \A f \in Frames : \A p \in UserPages : p \in R[f] <=> A[<<c, p>>] = f
    OBVIOUS
  <2> HIDE DEF A2, C2, c, R, P, P2, A, N
  <2>4. /\ Typed(P2, A2, SubSeq(frames, 1, Len(frames) - 1), C2)
        /\ Conserved(P2, A2, SubSeq(frames, 1, Len(frames) - 1), C2)
    <3>1. Cloned(P, A, frames, frame_ref_cnt, c, d, P2, A2, C2, R)
      BY <2>1, <2>2, <2>3, <2>a DEF Cloned
    <3> QED BY <1>1, <3>1, Clone
  <2> QED BY <2>4, <1>18 DEF C2, P2
<1>24. Counted'
  BY <1>6, <1>23 DEF Counted
<1>25. frames' \in Seq(Frames)
  BY <1>23 DEF Typed
<1>26. cur' \in dirs' /\ heap' \in [HeapPages -> Entries]
  BY <1>3, <1>4, <1>17
<1>27. Tables'
  BY <1>3, <1>13, <1>15, <1>16, <1>17, <1>18, <1>19, <1>21, <1>25, <1>26 DEF Tables, Types
<1> QED BY <1>2, <1>24, <1>27

----------------------------------------------------------------------------
(***************************************************************************)
(* Invariance.                                                             *)
(***************************************************************************)

\* The state Page::init leaves.
LEMMA InitIInv == Init => IInv
<1> SUFFICES ASSUME Init PROVE IInv
  OBVIOUS
<1>1. NFrames \in Nat /\ NFrames >= 1 /\ NDirs \in Nat /\ NDirs >= 1
  BY PagingAssumption
<1>2. /\ KStack \in Pages /\ KStack \notin UserPages /\ KStack \notin HeapPages
      /\ \A p \in Pages : p \in UserPages \/ p = KStack
  BY PagingAssumption DEF Pages
<1>3. dirs = {1} /\ cur = 1 /\ panic = "none" /\ out = 0 /\ content = [f \in Frames |-> 0]
      /\ tlb = [p \in Pages \cup HeapPages |-> NoEntry]
  BY DEF Init
<1> DEFINE First == [NullEntry EXCEPT !.addr = 1, !.present = TRUE, !.rw = TRUE, !.allocable = TRUE]
<1>4. NullEntry \in Entries /\ NullEntry.addr = 0 /\ \A p : p # KStack => EntryOK(p, NullEntry)
  <2>1. 0 \in 0 .. NFrames
    BY <1>1
  <2> QED BY <2>1 DEF NullEntry, Entries, EntryOK
<1>5. First \in Entries /\ First.addr = 1 /\ EntryOK(KStack, First)
  <2>1. 1 \in 0 .. NFrames
    BY <1>1
  <2>2. ~NullEntry.user
    BY DEF NullEntry
  <2>3. /\ First \in Entries /\ First.addr = 1 /\ First.present = TRUE /\ First.rw = TRUE
        /\ First.allocable = TRUE /\ First.user = NullEntry.user
    <3> HIDE DEF NullEntry
    <3> QED BY <1>4, <2>1 DEF Entries
  <2> HIDE DEF First
  <2> QED BY <1>2, <2>2, <2>3 DEF EntryOK
<1> HIDE DEF First
<1>6. /\ pte = [d \in Dirs |-> [p \in Pages |-> IF d = 1 /\ p = KStack THEN First ELSE NullEntry]]
      /\ heap = [p \in HeapPages |-> NullEntry]
  BY DEF Init, First
<1>7. pte \in [Dirs -> [Pages -> Entries]] /\ heap \in [HeapPages -> Entries]
  BY <1>4, <1>5, <1>6
<1>8. 1 \in Dirs
  BY <1>1 DEF Dirs
<1>9. frames \in Seq(Frames) /\ Len(frames) = NFrames - 1
      /\ \A i \in 1 .. NFrames - 1 : frames[i] = NFrames + 1 - i
  <2>1. frames = [i \in 1 .. NFrames - 1 |-> NFrames + 1 - i]
    BY DEF Init
  <2>2. \A i \in 1 .. NFrames - 1 : NFrames + 1 - i \in Frames
    BY <1>1 DEF Frames
  <2>3. frames \in [1 .. NFrames - 1 -> Frames] /\ NFrames - 1 \in Nat
    BY <1>1, <2>1, <2>2
  <2>4. frames \in Seq(Frames)
    BY <2>3, SeqDef
  <2>5. Len(frames) = NFrames - 1
    BY <2>3, <2>4, LenProperties
  <2> QED BY <2>1, <2>4, <2>5
<1>10. frame_ref_cnt \in [Frames -> Nat] /\ frame_ref_cnt[1] = 1
  <2>1. PICK g \in {0, 1} : frame_ref_cnt = [f \in Frames |-> IF f = 1 THEN 1 ELSE g]
    BY DEF Init
  <2>2. 1 \in Frames
    BY <1>1 DEF Frames
  <2> QED BY <2>1, <2>2
<1>11. Types
  BY <1>3, <1>7, <1>9, <1>10 DEF Types
<1>12. DirsDense /\ UnusedEmpty
  <2>1. dirs = 1 .. 1
    BY <1>3
  <2>2. UnusedEmpty
    BY <1>3, <1>6 DEF UnusedEmpty
  <2> QED BY <2>1, <2>2, <1>8 DEF DirsDense
<1>13. \A m \in Places : \/ m = <<1, KStack>> /\ EntryAt(m) = First
                         \/ m[2] # KStack /\ EntryAt(m) = NullEntry
  BY <1>2, <1>3, <1>6, <1>8 DEF Places, EntryAt
<1>14. EntriesOK /\ Sharing /\ TlbExact
  <2>1. EntriesOK
    BY <1>4, <1>5, <1>13 DEF EntriesOK
  <2>2. Sharing
    BY <1>4, <1>13 DEF Sharing
  <2>3. TlbExact
    BY <1>3 DEF TlbExact
  <2> QED BY <2>1, <2>2, <2>3
<1>15. Tables
  BY <1>11, <1>12, <1>14 DEF Tables
<1>16. <<1, KStack>> \in Places /\ EntryAt(<<1, KStack>>) = First
  <2>1. <<1, KStack>> \in Places
    BY <1>2, <1>3 DEF Places
  <2>2. <<1, KStack>>[2] = KStack
    OBVIOUS
  <2> QED BY <2>1, <2>2, <1>13
<1>17. \A m \in Places : Addr[m] = IF m = <<1, KStack>> THEN 1 ELSE 0
  BY <1>4, <1>5, <1>13, <1>16 DEF Addr
<1>18. Mapped(Places, Addr, 1) = {<<1, KStack>>}
  BY <1>16, <1>17 DEF Mapped
<1>19. \A f \in Frames : f # 1 => Mapped(Places, Addr, f) = {}
  <2>1. 0 \notin Frames
    BY <1>1 DEF Frames
  <2> QED BY <2>1, <1>17 DEF Mapped
<1>20. Counted
  <2>1. \A i, j \in 1 .. Len(frames) : frames[i] = frames[j] => i = j
    BY <1>1, <1>9
  <2>2. ASSUME NEW f \in Frames PROVE On(frames, f) <=> f # 1
    <3>1. CASE f = 1
      BY <3>1, <1>1, <1>9 DEF On
    <3>2. CASE f # 1
      <4>1. NFrames + 1 - f \in 1 .. NFrames - 1
        BY <3>2, <1>1 DEF Frames
      <4>2. frames[NFrames + 1 - f] = f
        BY <4>1, <1>1, <1>9 DEF Frames
      <4> QED BY <3>2, <4>1, <4>2, <1>9 DEF On
    <3> QED BY <3>1, <3>2
  <2>3. \A f \in Frames : On(frames, f) <=> Mapped(Places, Addr, f) = {}
    BY <2>2, <1>18, <1>19
  <2>4. Cardinality({<<1, KStack>>}) = 1
    BY FS_Singleton
  <2>5. \A f \in Frames : ~On(frames, f) => frame_ref_cnt[f] = Cardinality(Mapped(Places, Addr, f))
    BY <2>2, <2>4, <1>10, <1>18
  <2> QED BY <2>1, <2>3, <2>5 DEF Counted, Conserved
<1>21. ValueTypes
  BY <1>3, PagingAssumption DEF ValueTypes
<1> QED BY <1>15, <1>20, <1>21 DEF IInv

\* Every step of Next keeps the invariant.
LEMMA NextIInv == IInv /\ [Next]_vars => IInv'
<1> SUFFICES ASSUME IInv, [Next]_vars PROVE IInv'
  OBVIOUS
<1>1. Tables /\ Counted /\ content \in [Frames -> Values] /\ out \in Values
  BY DEF IInv, ValueTypes
<1>2. CASE LoadPage
  <2>1. PICK p \in UserPages, v \in Values :
          /\ Alloc(p, TRUE, TRUE) /\ content' = Filled(p, v) /\ invlpg({p})
          /\ out' = IF panic' = "none" THEN v ELSE out
    BY <1>2 DEF LoadPage
  <2>2. dirs = {1} /\ UNCHANGED <<dirs, cur>>
    BY <1>2 DEF LoadPage, Loading
  <2>3. p \in Pages \cup HeapPages
    BY DEF Pages
  <2>4. Tables' /\ Counted'
    BY <1>1, <2>1, <2>2, <2>3, AllocStep
  <2>5. content' \in [Frames -> Values] /\ out' \in Values
    BY <1>1, <2>1 DEF Filled
  <2> QED BY <2>4, <2>5 DEF IInv, ValueTypes
<1>3. CASE LazyPage
  <2>1. PICK p \in UserPages :
          /\ SetEntry(p, LazyAllocated(Entry(p), TRUE, TRUE, TRUE))
          /\ content' = IF Entry(p).addr = 0 THEN content ELSE [content EXCEPT ![Entry(p).addr] = 0]
          /\ invlpg({p})
    BY <1>3 DEF LazyPage
  <2>2. dirs = {1} /\ UNCHANGED <<frames, frame_ref_cnt, dirs, cur, panic>> /\ out' = 0
    BY <1>3 DEF LazyPage, Loading
  <2>3. Tables' /\ Counted'
    BY <1>1, <2>1, <2>2, LazyStep
  <2>4. content' \in [Frames -> Values] /\ out' \in Values
    BY <1>1, <2>1, <2>2, PagingAssumption
  <2> QED BY <2>3, <2>4 DEF IInv, ValueTypes
<1>4. CASE HeapLazy
  <2>1. PICK p \in HeapPages :
          SetEntry(p, LazyAllocated(Entry(p), FALSE, TRUE, FALSE)) /\ invlpg({p})
    BY <1>4 DEF HeapLazy
  <2>2. UNCHANGED <<frames, frame_ref_cnt, dirs, cur, panic>> /\ UNCHANGED <<content, out>>
    BY <1>4 DEF HeapLazy
  <2>3. p \notin UserPages
    BY PagingAssumption
  <2>4. Tables' /\ Counted'
    BY <1>1, <2>1, <2>2, <2>3, LazyStep
  <2> QED BY <1>1, <2>2, <2>4 DEF IInv, ValueTypes
<1>5. CASE \E p \in HeapPages : HeapFree(p)
  <2>1. PICK p \in HeapPages : HeapFree(p)
    BY <1>5
  <2>2. UNCHANGED <<content, out>>
    BY <2>1 DEF HeapFree
  <2>3. Tables' /\ Counted'
    BY <1>1, <2>1, FreeStep
  <2> QED BY <1>1, <2>2, <2>3 DEF IInv, ValueTypes
<1>6. CASE ReadPage
  <2> PICK p \in Pages : \E x \in Translations(p) :
          tlb' = [tlb EXCEPT ![p] = x] /\ out' = content[x.addr]
    BY <1>6 DEF ReadPage
  <2>1. PICK x \in Translations(p) : tlb' = [tlb EXCEPT ![p] = x] /\ out' = content[x.addr]
    OBVIOUS
  <2>2. UNCHANGED <<frames, frame_ref_cnt, pte, heap, dirs, cur, panic>> /\ UNCHANGED content
    BY <1>6 DEF ReadPage
  <2>3. Tables' /\ Counted' /\ x.addr \in Frames
    BY <1>1, <2>1, <2>2, AccessStep
  <2> QED BY <1>1, <2>1, <2>2, <2>3 DEF IInv, ValueTypes
<1>7. CASE WritePage
  <2> PICK p \in Pages \cup HeapPages, v \in Values : \E x \in Translations(p) :
          /\ tlb' = [tlb EXCEPT ![p] = x]
          /\ content' = [content EXCEPT ![x.addr] = v]
          /\ out' = IF p \in HeapPages THEN out ELSE v
    BY <1>7 DEF WritePage
  <2>1. PICK x \in Translations(p) :
          /\ tlb' = [tlb EXCEPT ![p] = x]
          /\ content' = [content EXCEPT ![x.addr] = v]
          /\ out' = IF p \in HeapPages THEN out ELSE v
    OBVIOUS
  <2>2. UNCHANGED <<frames, frame_ref_cnt, pte, heap, dirs, cur, panic>>
    BY <1>7 DEF WritePage
  <2>3. Tables' /\ Counted'
    BY <1>1, <2>1, <2>2, AccessStep
  <2>4. content' \in [Frames -> Values] /\ out' \in Values
    BY <1>1, <2>1
  <2> QED BY <2>3, <2>4 DEF IInv, ValueTypes
<1>8. CASE PageFault
  BY <1>8, FaultStep DEF PageFault
<1>9. CASE CloneDirectory
  <2>1. CASE frames = <<>>
    <3>1. /\ UNCHANGED <<frames, frame_ref_cnt, pte, content, dirs, tlb>>
          /\ panic' = "no free frame" /\ UNCHANGED <<heap, cur, out>>
      BY <1>9, <2>1 DEF CloneDirectory
    <3>2. DirsDense' /\ UnusedEmpty' /\ EntriesOK' /\ Sharing' /\ Counted'
      BY <1>1, <3>1, SameTables
    <3>3. TlbExact'
      BY <1>1, <3>1 DEF Tables, TlbExact, Walk, Entry
    <3>4. Types'
      BY <1>1, <3>1 DEF Tables, Types
    <3> QED BY <1>1, <3>1, <3>2, <3>3, <3>4 DEF IInv, Tables, ValueTypes
  <2>2. CASE frames # <<>>
    <3>1. /\ content' = [content EXCEPT ![TopFrame] = content[pte[cur][KStack].addr]]
          /\ out' = out
      BY <1>9, <2>2 DEF CloneDirectory
    <3>2. Tables' /\ Counted'
      BY <1>1, <1>9, <2>2, CloneStep
    <3>3. content[pte[cur][KStack].addr] \in Values
      <4>1. KStack \in Pages /\ cur \in dirs
        BY <1>1 DEF Pages, Tables, Types
      <4>2. <<cur, KStack>> \in Places /\ EntryAt(<<cur, KStack>>) = pte[cur][KStack]
        BY <1>1, <4>1, PlaceFacts DEF Tables
      <4>3. EntryAt(<<cur, KStack>>) \in Entries /\ EntryOK(<<cur, KStack>>[2], EntryAt(<<cur, KStack>>))
        BY <1>1, <4>2, PlaceTypes DEF Tables, EntriesOK
      <4>4. pte[cur][KStack] \in Entries /\ pte[cur][KStack].addr # 0
        BY <4>2, <4>3 DEF EntryOK
      <4>5. pte[cur][KStack].addr \in Frames
        BY <4>4, PagingAssumption DEF Entries, Frames
      <4> QED BY <1>1, <4>5
    <3>4. content' \in [Frames -> Values]
      BY <1>1, <3>1, <3>3
    <3> QED BY <1>1, <3>1, <3>2, <3>4 DEF IInv, ValueTypes
  <2> QED BY <2>1, <2>2
<1>10. CASE SwitchDirectory
  <2>1. /\ cur' \in dirs /\ UNCHANGED <<frames, frame_ref_cnt, pte, heap, dirs>>
        /\ UNCHANGED <<content, out, panic>>
        /\ tlb' = [p \in Pages \cup HeapPages |-> NoEntry]
    BY <1>10 DEF SwitchDirectory, invlpg
  <2>2. DirsDense' /\ UnusedEmpty' /\ EntriesOK' /\ Sharing' /\ Counted'
    BY <1>1, <2>1, SameTables
  <2>3. TlbExact'
    BY <2>1 DEF TlbExact
  <2>4. Types'
    BY <1>1, <2>1 DEF Tables, Types
  <2> QED BY <1>1, <2>1, <2>2, <2>3, <2>4 DEF IInv, Tables, ValueTypes
<1>11. CASE UNCHANGED vars
  <2>1. UNCHANGED <<frames, frame_ref_cnt, pte, heap, dirs>> /\ UNCHANGED <<content, cur, tlb, out, panic>>
    BY <1>11 DEF vars
  <2>2. DirsDense' /\ UnusedEmpty' /\ EntriesOK' /\ Sharing' /\ Counted'
    BY <1>1, <2>1, SameTables
  <2>3. TlbExact'
    BY <1>1, <2>1 DEF Tables, TlbExact, Walk, Entry
  <2>4. Types'
    BY <1>1, <2>1 DEF Tables, Types
  <2> QED BY <1>1, <2>1, <2>2, <2>3, <2>4 DEF IInv, Tables, ValueTypes
<1> QED BY <1>2, <1>3, <1>4, <1>5, <1>6, <1>7, <1>8, <1>9, <1>10, <1>11 DEF Next

\* The tables, the stack of free frames, the counts and the TLB always fit
\* together: the inductive invariant of page.cpp.
THEOREM Invariance == Spec => []IInv
<1> QED BY InitIInv, NextIInv, PTL DEF Spec

----------------------------------------------------------------------------
(***************************************************************************)
(* The properties.                                                         *)
(***************************************************************************)

\* The kernel stack page of the current directory always has a frame, which is
\* not on the stack of free frames.
LEMMA StackFrame ==
  ASSUME Tables, Counted
  PROVE  \E f \in Frames : ~On(frames, f)
<1>1. KStack \in Pages /\ cur \in dirs /\ KStack \in Pages \cup HeapPages
  BY DEF Pages, Tables, Types
<1>2. <<cur, KStack>> \in Places /\ EntryAt(<<cur, KStack>>) = pte[cur][KStack]
  BY <1>1, PlaceFacts DEF Tables
<1>3. EntryAt(<<cur, KStack>>) \in Entries /\ EntryOK(<<cur, KStack>>[2], EntryAt(<<cur, KStack>>))
  BY <1>2, PlaceTypes DEF Tables, EntriesOK
<1> DEFINE f == EntryAt(<<cur, KStack>>).addr
<1>4. f # 0 /\ f \in 0 .. NFrames
  BY <1>3 DEF EntryOK, Entries
<1>5. f \in Frames
  BY <1>4, PagingAssumption DEF Frames
<1>6. <<cur, KStack>> \in Mapped(Places, Addr, f)
  BY <1>2 DEF Mapped, Addr
<1>7. ~On(frames, f)
  BY <1>5, <1>6 DEF Counted, Conserved
<1> QED BY <1>5, <1>7

\* So the stack never holds all frames.
LEMMA StackBound ==
  ASSUME Tables, Counted
  PROVE  Len(frames) < NFrames
<1>1. PICK f \in Frames : ~On(frames, f)
  BY StackFrame
<1> DEFINE n == Len(frames)
           S == Frames \ {f}
<1>2. frames \in Seq(Frames) /\ n \in Nat /\ frames \in [1 .. n -> Frames]
  <2>1. frames \in Seq(Frames)
    BY DEF Tables, Types
  <2> QED BY <2>1, LenProperties
<1>3. IsFiniteSet(Frames) /\ Cardinality(Frames) = NFrames
  <2>1. NFrames \in Nat /\ NFrames >= 1
    BY PagingAssumption
  <2> QED BY <2>1, FS_Interval DEF Frames
<1>4. IsFiniteSet(S) /\ Cardinality(S) = NFrames - 1
  BY <1>3, FS_RemoveElement
<1>5. frames \in Injection(1 .. n, S)
  <2>1. \A i \in 1 .. n : frames[i] \in S
    BY <1>1, <1>2 DEF On
  <2>2. \A i, j \in 1 .. n : frames[i] = frames[j] => i = j
    BY DEF Counted, Conserved
  <2>3. frames \in [1 .. n -> S]
    BY <1>2, <2>1
  <2> HIDE DEF S, n
  <2> QED BY <2>2, <2>3 DEF Injection, IsInjective
<1>6. IsFiniteSet(1 .. n) /\ Cardinality(1 .. n) = n
  BY <1>2, FS_Interval
<1> HIDE DEF S
<1>7. Cardinality(1 .. n) <= Cardinality(S)
  BY <1>4, <1>5, FS_Injection DEF ExistsInjection
<1>8. NFrames \in Nat
  BY PagingAssumption
<1> QED BY <1>2, <1>4, <1>6, <1>7, <1>8

\* The inductive invariant has the type invariant's content.
LEMMA IInvTypeOK == IInv => TypeOK
<1> SUFFICES ASSUME IInv PROVE TypeOK
  OBVIOUS
<1>1. Tables /\ Counted /\ ValueTypes
  BY DEF IInv
<1>2. Len(frames) < NFrames
  BY <1>1, StackBound
<1>3. dirs \subseteq Dirs
  BY <1>1, PlaceFacts DEF Tables
<1> QED BY <1>1, <1>2, <1>3 DEF TypeOK, Tables, Types, ValueTypes, Translation

\* Frames are conserved: no frame leaks, none is handed out twice, and every
\* reference count is exact, through alloc, free, copy-on-write, the reclaiming
\* of a last owner and clone_directory.
THEOREM ConservesFrames == Spec => []FramesConserved
<1>1. IInv => FramesConserved
  <2> SUFFICES ASSUME IInv PROVE FramesConserved
    OBVIOUS
  <2>1. TypeOK /\ Counted /\ Tables
    BY IInvTypeOK DEF IInv
  <2>2. ASSUME NEW f \in Frames
        PROVE  LET onStack == Cardinality({i \in 1 .. Len(frames) : frames[i] = f})
                   mapped  == Cardinality(MappingsOf(f)) IN
                 \/ onStack = 1 /\ mapped = 0
                 \/ onStack = 0 /\ mapped > 0 /\ frame_ref_cnt[f] = mapped
    <3> DEFINE I == {i \in 1 .. Len(frames) : frames[i] = f}
               M == Mapped(Places, Addr, f)
    <3>1. MappingsOf(f) = M
      BY MappingsAre
    <3>2. CASE On(frames, f)
      <4>1. M = {}
        BY <2>1, <3>2 DEF Counted, Conserved
      <4>2. PICK i \in 1 .. Len(frames) : frames[i] = f
        BY <3>2 DEF On
      <4>3. I = {i}
        BY <2>1, <4>2 DEF Counted, Conserved
      <4>4. Cardinality({i}) = 1 /\ Cardinality({}) = 0
        BY FS_Singleton, FS_EmptySet
      <4> HIDE DEF I, M
      <4>5. Cardinality(I) = 1 /\ Cardinality(MappingsOf(f)) = 0
        BY <3>1, <4>1, <4>3, <4>4
      <4> QED BY <4>5 DEF I
    <3>3. CASE ~On(frames, f)
      <4>1. M # {} /\ frame_ref_cnt[f] = Cardinality(M)
        BY <2>1, <3>3 DEF Counted, Conserved
      <4>2. IsFiniteSet(M)
        <5>1. IsFiniteSet(Places) /\ M \in SUBSET Places
          BY <2>1, PlaceTypes DEF Tables, Mapped
        <5> QED BY <5>1, FS_Subset
      <4>3. Cardinality(M) \in Nat /\ Cardinality(M) # 0
        BY <4>1, <4>2, FS_CardinalityType, FS_EmptySet
      <4>4. I = {}
        BY <3>3 DEF On
      <4>5. Cardinality({}) = 0
        BY FS_EmptySet
      <4> HIDE DEF I, M
      <4>6. Cardinality(I) = 0 /\ Cardinality(MappingsOf(f)) > 0
        BY <3>1, <4>3, <4>4, <4>5
      <4> QED BY <3>1, <4>1, <4>6 DEF I
    <3> QED BY <3>2, <3>3
  <2> QED BY <2>1, <2>2 DEF FramesConserved
<1> QED BY <1>1, Invariance, PTL

\* A frame that several directories share cannot be written through any of
\* them, neither by the tables nor by what the TLB remembers.
THEOREM SharedFramesAreReadOnly == Spec => []SharedIsReadOnly
<1>1. IInv => SharedIsReadOnly
  <2> SUFFICES ASSUME IInv, NEW d \in dirs, NEW p \in Pages, pte[d][p].addr # 0,
                      Cardinality(MappingsOf(pte[d][p].addr)) > 1
               PROVE  ~pte[d][p].rw /\ (d = cur /\ tlb[p] # NoEntry => ~tlb[p].rw)
    BY DEF SharedIsReadOnly
  <2> DEFINE f == pte[d][p].addr
             m == <<d, p>>
  <2>1. Tables
    BY DEF IInv
  <2>2. m \in Places /\ EntryAt(m) = pte[d][p]
    BY <2>1, PlaceFacts DEF Tables
  <2>3. \E o \in Places : EntryAt(o).addr = f /\ o # m
    <3> SUFFICES ASSUME \A o \in Places : EntryAt(o).addr = f => o = m PROVE FALSE
      OBVIOUS
    <3>1. MappingsOf(f) = {m}
      BY <2>2 DEF MappingsOf
    <3>2. Cardinality({m}) = 1
      BY FS_Singleton
    <3>3. Cardinality(MappingsOf(f)) = 1
      BY <3>1, <3>2
    <3> QED BY <3>3
  <2>4. ~pte[d][p].rw
    BY <2>1, <2>2, <2>3 DEF Tables, Sharing
  <2>5. ASSUME d = cur, tlb[p] # NoEntry PROVE ~tlb[p].rw
    <3>1. p \notin HeapPages
      BY <2>1, PlaceFacts DEF Tables
    <3>2. tlb[p] = Walk(p) /\ Entry(p) = pte[d][p]
      BY <2>1, <2>5, <3>1 DEF Tables, TlbExact, Entry
    <3> QED BY <2>4, <3>2 DEF Walk
  <2> QED BY <2>4, <2>5
<1> QED BY <1>1, Invariance, PTL

\* The TLB never translates to a frame the tables do not name, and never
\* grants more than they do.
THEOREM TlbStaysCoherent == Spec => []TlbCoherent
<1>1. IInv => TlbCoherent
  <2> SUFFICES ASSUME IInv, NEW p \in Pages \cup HeapPages, tlb[p] # NoEntry
               PROVE  /\ Entry(p).present
                      /\ tlb[p].addr = Entry(p).addr
                      /\ (tlb[p].rw => Entry(p).rw) /\ (tlb[p].user => Entry(p).user)
    BY DEF TlbCoherent
  <2>1. Entry(p).present /\ tlb[p] = Walk(p)
    BY DEF IInv, Tables, TlbExact
  <2> QED BY <2>1 DEF Walk
<1> QED BY <1>1, Invariance, PTL

\* One fault is enough: when page_fault returns, the tables allow the access
\* that faulted.
THEOREM OneFaultServes == Spec => FaultServes
<1> DEFINE Served(p, w, usr) == Entry(p)'.present /\ Allows(Walk(p)', usr, w)
<1>1. ASSUME IInv, NEW p \in Pages \cup HeapPages, NEW w \in BOOLEAN, NEW usr \in BOOLEAN,
             Fault(p, w, usr), panic' = "none"
      PROVE  Served(p, w, usr)
  <2> DEFINE e == Entry(p)
  <2>1. Tables /\ Counted
    BY <1>1 DEF IInv
  <2>2. e \in Entries /\ EntryOK(p, e) /\ PlaceOf(p) \in Places /\ e = EntryAt(PlaceOf(p))
    BY <2>1, PlaceFacts, PlaceTypes DEF Tables, EntriesOK
  <2>3. panic = "none" /\ UNCHANGED <<dirs, cur>> /\ ~Segfault
    BY <1>1, <2>1, FaultCases DEF Segfault
  <2>4. ASSUME NEW e2 \in Entries, SetEntry(p, e2), e2.present, e2.rw, usr => e2.user
        PROVE  Served(p, w, usr)
    <3>1. PlaceOf(p)' = PlaceOf(p) /\ Places' = Places
      BY <2>3 DEF PlaceOf, Places
    <3>2. Entry(p)' = e2
      <4>1. CASE p \in HeapPages
        <5>1. heap \in [HeapPages -> Entries] /\ heap' = [heap EXCEPT ![p] = e2]
          BY <2>1, <2>4, <4>1 DEF SetEntry, Tables, Types
        <5> QED BY <5>1, <4>1 DEF Entry
      <4>2. CASE p \notin HeapPages
        <5>1. pte \in [Dirs -> [Pages -> Entries]] /\ pte' = [pte EXCEPT ![cur][p] = e2]
          BY <2>1, <2>4, <4>2 DEF SetEntry, Tables, Types
        <5>2. cur \in Dirs /\ p \in Pages
          BY <2>1, <4>2, PlaceFacts DEF Tables, Types
        <5>3. pte'[cur][p] = e2
          BY <5>1, <5>2
        <5> QED BY <5>3, <4>2, <2>3 DEF Entry
      <4> QED BY <4>1, <4>2
    <3>3. Walk(p)' = [addr |-> e2.addr, rw |-> e2.rw, user |-> e2.user]
      BY <3>2 DEF Walk
    <3> QED BY <2>4, <3>2, <3>3 DEF Allows
  <2> HIDE DEF Served
  <2>5. CASE /\ e.addr = 0 /\ (e.user <=> p \in UserPages) /\ (usr => e.user)
             /\ Alloc(p, e.user, TRUE)
    <3> DEFINE e2 == Allocated(e, e.user, TRUE)
    <3>1. frames # <<>> /\ SetEntry(p, e2)
      BY <1>1, <2>5 DEF Alloc
    <3>2. TopFrame \in 0 .. NFrames
      <4>1. frames \in Seq(Frames) /\ \A i, j \in 1 .. Len(frames) : frames[i] = frames[j] => i = j
        BY <2>1 DEF Tables, Types, Counted, Conserved
      <4>2. TopFrame \in Frames
        BY <3>1, <4>1, PopStack DEF TopFrame
      <4> QED BY <4>2, PagingAssumption DEF Frames
    <3> HIDE DEF e
    <3>3. e2 \in Entries /\ e2.present /\ e2.rw /\ (usr => e2.user)
      BY <2>2, <2>5, <3>2 DEF Entries, Allocated
    <3> HIDE DEF e2
    <3> QED BY <2>4, <3>1, <3>3
  <2>6. CASE p \in UserPages /\ e.addr # 0 /\ e.user /\ CopyOnWrite(p)
    <3>1. e.present
      BY <2>2, <2>6 DEF EntryOK
    <3>2. CASE frame_ref_cnt[e.addr] = 0
      BY <2>3, <2>6, <3>2 DEF CopyOnWrite
    <3>3. CASE frame_ref_cnt[e.addr] = 1
      <4> DEFINE e2 == Reclaimed(e)
      <4>1. SetEntry(p, e2)
        BY <2>6, <3>3 DEF CopyOnWrite
      <4> HIDE DEF e
      <4>2. e2 \in Entries /\ e2.present /\ e2.rw /\ (usr => e2.user)
        BY <2>2, <2>6, <3>1 DEF Reclaimed, Entries
      <4> HIDE DEF e2
      <4> QED BY <2>4, <4>1, <4>2
    <3>4. CASE frame_ref_cnt[e.addr] # 0 /\ frame_ref_cnt[e.addr] # 1
      <4> DEFINE e2 == Allocated(e, TRUE, TRUE)
      <4>1. frames # <<>> /\ SetEntry(p, e2)
        BY <1>1, <2>6, <3>4 DEF CopyOnWrite
      <4>2. TopFrame \in 0 .. NFrames
        <5>1. frames \in Seq(Frames) /\ \A i, j \in 1 .. Len(frames) : frames[i] = frames[j] => i = j
          BY <2>1 DEF Tables, Types, Counted, Conserved
        <5>2. TopFrame \in Frames
          BY <4>1, <5>1, PopStack DEF TopFrame
        <5> QED BY <5>2, PagingAssumption DEF Frames
      <4> HIDE DEF e
      <4>3. e2 \in Entries /\ e2.present /\ e2.rw /\ e2.user
        BY <2>2, <4>2 DEF Entries, Allocated
      <4> HIDE DEF e2
      <4> QED BY <2>4, <4>1, <4>3
    <3> QED BY <3>2, <3>3, <3>4
  <2> QED BY <1>1, <2>1, <2>3, <2>5, <2>6, FaultCases
<1>2. IInv /\ [Next]_vars =>
        [UNCHANGED <<dirs, cur, out>> /\ panic' = "none" =>
           \A p \in Pages \cup HeapPages, w, usr \in BOOLEAN :
             (Entry(p)'.present /\ Allows(Walk(p)', usr, w)) \/ ~Fault(p, w, usr)]_vars
  BY <1>1
<1> QED BY <1>2, Invariance, PTL DEF Spec, FaultServes

----------------------------------------------------------------------------
(***************************************************************************)
(* Paging implements private memories.                                     *)
(***************************************************************************)

\* What a page with entry e holds.
ValueOf(e) ==
  IF e.addr # 0 THEN content[e.addr] ELSE IF e.allocable /\ e.fill THEN 0 ELSE Unmapped

\* The abstract memory, page by page.
LEMMA MemoryIs ==
  /\ Memory = [d \in Dirs |-> [p \in Pages |-> ValueOf(pte[d][p])]]
  /\ \A d \in Dirs, p \in Pages : Memory[d][p] = ValueOf(pte[d][p])
BY DEF Memory, ValueOf

\* Two memories with the same pages are the same.
LEMMA SameMemory ==
  ASSUME \A d \in Dirs, p \in Pages : Memory'[d][p] = Memory[d][p]
  PROVE  Memory' = Memory
<1>1. Memory = [d \in Dirs |-> [p \in Pages |-> Memory[d][p]]]
  BY DEF Memory
<1>2. Memory' = [d \in Dirs |-> [p \in Pages |-> Memory'[d][p]]]
  BY DEF Memory
<1> HIDE DEF Memory
<1>3. ASSUME NEW d \in Dirs
      PROVE  [p \in Pages |-> Memory'[d][p]] = [p \in Pages |-> Memory[d][p]]
  OBVIOUS
<1> QED BY <1>1, <1>2, <1>3

\* A memory that differs in one page.
LEMMA OnePage ==
  ASSUME NEW c \in Dirs, NEW q \in Pages,
         \A d \in Dirs, p \in Pages : d # c \/ p # q => Memory'[d][p] = Memory[d][p]
  PROVE  Memory' = [Memory EXCEPT ![c][q] = Memory'[c][q]]
<1> DEFINE M2 == [Memory EXCEPT ![c][q] = Memory'[c][q]]
<1>1. Memory = [d \in Dirs |-> [p \in Pages |-> Memory[d][p]]]
  BY DEF Memory
<1>2. Memory' = [d \in Dirs |-> [p \in Pages |-> Memory'[d][p]]]
  BY DEF Memory
<1> HIDE DEF Memory
<1>3. M2 = [d \in Dirs |-> [p \in Pages |-> IF d = c /\ p = q THEN Memory'[c][q] ELSE Memory[d][p]]]
  BY <1>1
<1>4. ASSUME NEW d \in Dirs
      PROVE  [p \in Pages |-> Memory'[d][p]] =
             [p \in Pages |-> IF d = c /\ p = q THEN Memory'[c][q] ELSE Memory[d][p]]
  OBVIOUS
<1> HIDE DEF M2
<1>5. Memory' = M2
  BY <1>2, <1>3, <1>4
<1> QED BY <1>5 DEF M2

\* The next frame to be allocated is named by no entry.
LEMMA TopIsFree ==
  ASSUME Tables, Counted, frames # <<>>
  PROVE  TopFrame \in Frames /\ TopFrame # 0 /\ \A m \in Places : EntryAt(m).addr # TopFrame
<1>1. frames \in Seq(Frames) /\ \A i, j \in 1 .. Len(frames) : frames[i] = frames[j] => i = j
  BY DEF Tables, Types, Counted, Conserved
<1>2. TopFrame \in Frames /\ On(frames, TopFrame)
  BY <1>1, PopStack DEF TopFrame
<1>3. Mapped(Places, Addr, TopFrame) = {}
  BY <1>2 DEF Counted, Conserved
<1>4. TopFrame # 0
  BY <1>2, PagingAssumption DEF Frames
<1> QED BY <1>2, <1>3, <1>4 DEF Mapped, Addr

\* A step that changes the entry of page p or its frame, and no frame that
\* another entry names, changes the memory at p only.
LEMMA MemoryStep ==
  ASSUME Tables, NEW p \in Pages \cup HeapPages,
         \A d \in Dirs, q \in Pages : <<d, q>> # PlaceOf(p) => pte'[d][q] = pte[d][q],
         \A m \in Places : m # PlaceOf(p) /\ EntryAt(m).addr # 0 =>
                             content'[EntryAt(m).addr] = content[EntryAt(m).addr]
  PROVE  /\ p \in HeapPages => Memory' = Memory
         /\ p \in Pages => Memory' = [Memory EXCEPT ![cur][p] = Memory'[cur][p]]
         /\ p \in Pages /\ Memory'[cur][p] = Memory[cur][p] => Memory' = Memory
<1>1. ASSUME NEW d \in Dirs, NEW q \in Pages, <<d, q>> # PlaceOf(p)
      PROVE  Memory'[d][q] = Memory[d][q]
  <2>1. pte'[d][q] = pte[d][q]
    BY <1>1
  <2>2. pte[d][q].addr # 0 => content'[pte[d][q].addr] = content[pte[d][q].addr]
    <3>1. CASE d \in dirs
      <4>1. <<d, q>> \in Places /\ EntryAt(<<d, q>>) = pte[d][q]
        BY <3>1, PlaceFacts DEF Tables
      <4> QED BY <1>1, <4>1
    <3>2. CASE d \notin dirs
      BY <3>2 DEF Tables, UnusedEmpty, NullEntry
    <3> QED BY <3>1, <3>2
  <2> QED BY <2>1, <2>2 DEF Memory
<1>2. cur \in Dirs /\ 0 \notin Dirs
  <2>1. cur \in Dirs
    BY PlaceFacts DEF Tables, Types
  <2>2. 0 \notin Dirs
    BY PagingAssumption DEF Dirs
  <2> QED BY <2>1, <2>2
<1>3. CASE p \in HeapPages
  <2>1. PlaceOf(p) = <<0, p>> /\ p \notin Pages
    BY <1>3, PlaceFacts DEF Tables
  <2>2. Memory' = Memory
    BY <1>1, <1>2, <2>1, SameMemory
  <2> QED BY <2>1, <2>2
<1>4. CASE p \in Pages
  <2>1. PlaceOf(p) = <<cur, p>> /\ p \notin HeapPages
    BY <1>4, PlaceFacts DEF Tables
  <2>2. \A d \in Dirs, q \in Pages : d # cur \/ q # p => Memory'[d][q] = Memory[d][q]
    BY <1>1, <2>1
  <2>3. Memory' = [Memory EXCEPT ![cur][p] = Memory'[cur][p]]
    BY <1>2, <1>4, <2>2, OnePage
  <2>4. Memory'[cur][p] = Memory[cur][p] => Memory' = Memory
    BY <2>2, SameMemory
  <2> QED BY <2>1, <2>3, <2>4
<1> QED BY <1>3, <1>4

\* What a new entry of page p does to the pages of all directories.
LEMMA SetEntryPages ==
  ASSUME Tables, NEW p \in Pages \cup HeapPages, NEW e, SetEntry(p, e)
  PROVE  /\ \A d \in Dirs, q \in Pages : <<d, q>> # PlaceOf(p) => pte'[d][q] = pte[d][q]
         /\ p \in Pages => pte'[cur][p] = e
<1>1. pte \in [Dirs -> [Pages -> Entries]] /\ cur \in Dirs
  BY PlaceFacts DEF Tables, Types
<1>2. CASE p \in HeapPages
  BY <1>2, PlaceFacts DEF SetEntry, Tables
<1>3. CASE p \notin HeapPages
  <2>1. pte' = [pte EXCEPT ![cur][p] = e] /\ p \in Pages /\ PlaceOf(p) = <<cur, p>>
    BY <1>3, PlaceFacts DEF SetEntry, Tables
  <2> QED BY <1>1, <2>1
<1> QED BY <1>2, <1>3

\* Writing v into the frame of page p, after giving it entry e: if no other
\* entry names the frame, the memory changes at p only, to v.
LEMMA StoreMemory ==
  ASSUME Tables, content \in [Frames -> Values], NEW p \in Pages \cup HeapPages,
         NEW e, NEW v, e.addr \in Frames, SetEntry(p, e) \/ (Entry(p) = e /\ UNCHANGED pte),
         content' = [content EXCEPT ![e.addr] = v],
         \A m \in Places : m # PlaceOf(p) => EntryAt(m).addr # e.addr
  PROVE  /\ p \in HeapPages => Memory' = Memory
         /\ p \in Pages => Memory' = [Memory EXCEPT ![cur][p] = v] /\ Memory'[cur][p] = v
         /\ p \in Pages /\ Memory[cur][p] = v => Memory' = Memory
<1>1. \A d \in Dirs, q \in Pages : <<d, q>> # PlaceOf(p) => pte'[d][q] = pte[d][q]
  BY SetEntryPages
<1>2. p \in Pages => pte'[cur][p] = e
  <2>1. p \in Pages => Entry(p) = pte[cur][p]
    BY PlaceFacts DEF Entry, Tables
  <2> QED BY <2>1, SetEntryPages
<1>3. ASSUME NEW m \in Places, m # PlaceOf(p), EntryAt(m).addr # 0
      PROVE  content'[EntryAt(m).addr] = content[EntryAt(m).addr]
  <2>1. EntryAt(m).addr # e.addr
    BY <1>3
  <2> QED BY <2>1
<1>4. /\ p \in HeapPages => Memory' = Memory
      /\ p \in Pages => Memory' = [Memory EXCEPT ![cur][p] = Memory'[cur][p]]
      /\ p \in Pages /\ Memory'[cur][p] = Memory[cur][p] => Memory' = Memory
  BY <1>1, <1>3, MemoryStep
<1>5. p \in Pages => Memory'[cur][p] = v
  <2> SUFFICES ASSUME p \in Pages PROVE Memory'[cur][p] = v
    OBVIOUS
  <2>1. cur \in Dirs
    BY PlaceFacts DEF Tables, Types
  <2>2. content'[e.addr] = v /\ e.addr # 0
    BY PagingAssumption DEF Frames
  <2> QED BY <1>2, <2>1, <2>2 DEF Memory
<1> QED BY <1>4, <1>5

\* Every page of the abstract memory is a value or unmapped.
LEMMA MemoryTyped ==
  ASSUME IInv
  PROVE  /\ Memory \in [Dirs -> [Pages -> Values \cup {Unmapped}]]
         /\ \A d \in Dirs, p \in Pages : pte[d][p].addr # 0 =>
              Memory[d][p] = content[pte[d][p].addr] /\ Memory[d][p] \in Values
<1>1. Tables /\ content \in [Frames -> Values] /\ pte \in [Dirs -> [Pages -> Entries]]
  BY DEF IInv, ValueTypes, Tables, Types
<1>2. ASSUME NEW d \in Dirs, NEW p \in Pages
      PROVE  /\ ValueOf(pte[d][p]) \in Values \cup {Unmapped}
             /\ pte[d][p].addr # 0 => /\ ValueOf(pte[d][p]) = content[pte[d][p].addr]
                                      /\ ValueOf(pte[d][p]) \in Values
  <2>1. pte[d][p] \in Entries
    BY <1>1
  <2>2. pte[d][p].addr # 0 => pte[d][p].addr \in Frames
    BY <2>1, PagingAssumption DEF Entries, Frames
  <2> QED BY <1>1, <2>2, PagingAssumption DEF ValueOf
<1> QED BY <1>2, MemoryIs

\* Loading: the kernel provides a page.
LEMMA LoadRefines ==
  ASSUME IInv, LoadPage
  PROVE  Abstract!Provide \/ UNCHANGED <<dirs, cur, Memory, out>>
<1>1. Tables /\ Counted /\ content \in [Frames -> Values]
  BY DEF IInv, ValueTypes
<1>2. PICK p \in UserPages, v \in Values :
        /\ Alloc(p, TRUE, TRUE) /\ content' = Filled(p, v)
        /\ out' = IF panic' = "none" THEN v ELSE out
  BY DEF LoadPage
<1>3. panic = "none" /\ dirs = {1} /\ UNCHANGED <<dirs, cur>>
  BY DEF LoadPage, Loading
<1>4. p \in Pages /\ p \in Pages \cup HeapPages
  BY DEF Pages
<1>5. dirs = {cur}
  BY <1>1, <1>3 DEF Tables, Types
<1> DEFINE e == Entry(p)
<1>6. e \in Entries /\ PlaceOf(p) \in Places /\ e = EntryAt(PlaceOf(p))
  BY <1>1, <1>4, PlaceFacts, PlaceTypes DEF Tables
<1>7. ASSUME Memory' = [Memory EXCEPT ![cur][p] = v], out' = v PROVE Abstract!Provide
  BY <1>3, <1>4, <1>5, <1>7 DEF Abstract!Provide
<1>8. CASE e.addr # 0
  <2> DEFINE e2 == [e EXCEPT !.rw = TRUE, !.user = TRUE]
  <2>1. SetEntry(p, e2) /\ panic' = "none" /\ content' = [content EXCEPT ![e.addr] = v]
    BY <1>2, <1>3, <1>8 DEF Alloc, Filled
  <2> HIDE DEF e
  <2>2. e2.addr = e.addr /\ e2.addr \in Frames
    BY <1>6, <1>8, PagingAssumption DEF Entries, Frames
  <2> HIDE DEF e2
  <2>3. \A m \in Places : m # PlaceOf(p) => EntryAt(m).addr # e2.addr
    BY <1>1, <1>3, <1>4, <1>8, <2>2, OwnFrame DEF e
  <2>4. Memory' = [Memory EXCEPT ![cur][p] = v]
    BY <1>1, <1>4, <2>1, <2>2, <2>3, StoreMemory
  <2> QED BY <1>2, <1>7, <2>1, <2>4
<1>9. CASE e.addr = 0 /\ frames = <<>>
  <2>1. panic' # "none" /\ UNCHANGED <<pte, content>>
    BY <1>2, <1>9 DEF Alloc, Filled
  <2>2. Memory' = Memory
    BY <2>1 DEF Memory
  <2> QED BY <1>2, <1>3, <2>1, <2>2
<1>10. CASE e.addr = 0 /\ frames # <<>>
  <2> DEFINE e2 == Allocated(e, TRUE, TRUE)
  <2>1. SetEntry(p, e2) /\ panic' = "none" /\ content' = [content EXCEPT ![TopFrame] = v]
    BY <1>2, <1>3, <1>10 DEF Alloc, Filled
  <2>2. TopFrame \in Frames /\ \A m \in Places : EntryAt(m).addr # TopFrame
    BY <1>1, <1>10, TopIsFree
  <2> HIDE DEF e
  <2>3. e2.addr = TopFrame
    BY <1>6 DEF Entries, Allocated
  <2> HIDE DEF e2
  <2>4. Memory' = [Memory EXCEPT ![cur][p] = v]
    BY <1>1, <1>4, <2>1, <2>2, <2>3, StoreMemory
  <2> QED BY <1>2, <1>7, <2>1, <2>4
<1> QED BY <1>8, <1>9, <1>10

\* lazy_alloc provides a zero page.
LEMMA LazyRefines ==
  ASSUME IInv, LazyPage
  PROVE  Abstract!Provide
<1>1. Tables /\ Counted /\ content \in [Frames -> Values]
  BY DEF IInv, ValueTypes
<1>2. PICK p \in UserPages :
        /\ SetEntry(p, LazyAllocated(Entry(p), TRUE, TRUE, TRUE))
        /\ content' = IF Entry(p).addr = 0 THEN content ELSE [content EXCEPT ![Entry(p).addr] = 0]
  BY DEF LazyPage
<1>3. dirs = {1} /\ UNCHANGED <<dirs, cur>> /\ out' = 0
  BY DEF LazyPage, Loading
<1>4. p \in Pages /\ p \in Pages \cup HeapPages
  BY DEF Pages
<1>5. dirs = {cur}
  BY <1>1, <1>3 DEF Tables, Types
<1> DEFINE e == Entry(p)
           e2 == LazyAllocated(e, TRUE, TRUE, TRUE)
<1>6. e \in Entries
  BY <1>1, <1>4, PlaceFacts, PlaceTypes DEF Tables
<1>7. Memory' = [Memory EXCEPT ![cur][p] = 0]
  <2>1. CASE e.addr # 0
    <3>1. content' = [content EXCEPT ![e.addr] = 0] /\ SetEntry(p, e2)
      BY <1>2, <2>1
    <3>2. \A m \in Places : m # PlaceOf(p) => EntryAt(m).addr # e.addr
      BY <1>1, <1>3, <1>4, <2>1, OwnFrame
    <3> HIDE DEF e
    <3>3. e2.addr = e.addr /\ e2.addr \in Frames
      BY <1>6, <2>1, PagingAssumption DEF Entries, Frames, LazyAllocated
    <3> HIDE DEF e2
    <3>4. PICK v : v = 0
      OBVIOUS
    <3>5. /\ content' = [content EXCEPT ![e2.addr] = v]
          /\ \A m \in Places : m # PlaceOf(p) => EntryAt(m).addr # e2.addr
      BY <3>1, <3>2, <3>3, <3>4
    <3>6. Memory' = [Memory EXCEPT ![cur][p] = v]
      BY <1>1, <1>4, <3>1, <3>3, <3>5, StoreMemory
    <3> QED BY <3>4, <3>6
  <2>2. CASE e.addr = 0
    <3>1. content' = content /\ SetEntry(p, e2)
      BY <1>2, <2>2
    <3> HIDE DEF e
    <3>2. e2.addr = 0 /\ e2.allocable /\ e2.fill
      BY <1>6, <2>2 DEF Entries, LazyAllocated
    <3> HIDE DEF e2
    <3>3. /\ \A d \in Dirs, q \in Pages : <<d, q>> # PlaceOf(p) => pte'[d][q] = pte[d][q]
          /\ pte'[cur][p] = e2
      BY <1>1, <1>4, <3>1, SetEntryPages
    <3>4. Memory' = [Memory EXCEPT ![cur][p] = Memory'[cur][p]]
      BY <1>1, <1>4, <3>1, <3>3, MemoryStep
    <3>5. Memory'[cur][p] = 0
      <4>1. cur \in Dirs
        BY <1>1, PlaceFacts DEF Tables, Types
      <4> QED BY <1>4, <3>2, <3>3, <4>1 DEF Memory
    <3> QED BY <3>4, <3>5
  <2> QED BY <2>1, <2>2
<1> QED BY <1>3, <1>4, <1>5, <1>7, PagingAssumption DEF Abstract!Provide

\* A read loads.
LEMMA ReadRefines ==
  ASSUME IInv, ReadPage
  PROVE  Abstract!Load
<1>1. Tables /\ Counted
  BY DEF IInv
<1>2. PICK p \in Pages : \E x \in Translations(p) :
        tlb' = [tlb EXCEPT ![p] = x] /\ out' = content[x.addr]
  BY DEF ReadPage
<1>3. PICK x \in Translations(p) : tlb' = [tlb EXCEPT ![p] = x] /\ out' = content[x.addr]
  BY <1>2
<1>4. UNCHANGED <<frames, frame_ref_cnt, pte, heap, dirs, cur, panic>> /\ UNCHANGED content
  BY DEF ReadPage
<1>5. x.addr = Entry(p).addr /\ x.addr \in Frames
  BY <1>1, <1>3, <1>4, AccessStep
<1>6. Entry(p) = pte[cur][p] /\ cur \in Dirs
  BY <1>1, PlaceFacts DEF Entry, Tables, Types
<1>7. pte[cur][p].addr # 0
  BY <1>5, <1>6, PagingAssumption DEF Frames
<1>8. Memory[cur][p] = content[pte[cur][p].addr] /\ Memory[cur][p] \in Values
  BY <1>6, <1>7, MemoryTyped
<1>9. Memory' = Memory
  BY <1>4 DEF Memory
<1>10. Memory[cur][p] # Unmapped /\ out' = Memory[cur][p]
  BY <1>3, <1>5, <1>6, <1>8, PagingAssumption
<1> QED BY <1>4, <1>9, <1>10 DEF Abstract!Load

\* A write stores; one to the heap is not seen.
LEMMA WriteRefines ==
  ASSUME IInv, WritePage
  PROVE  Abstract!Store \/ UNCHANGED <<dirs, cur, Memory, out>>
<1>1. Tables /\ Counted /\ content \in [Frames -> Values]
  BY DEF IInv, ValueTypes
<1>2. PICK p \in Pages \cup HeapPages, usr \in BOOLEAN, v \in Values : \E x \in Translations(p) :
        /\ Allows(x, usr, TRUE) /\ tlb' = [tlb EXCEPT ![p] = x]
        /\ content' = [content EXCEPT ![x.addr] = v]
        /\ out' = IF p \in HeapPages THEN out ELSE v
  BY DEF WritePage
<1>3. PICK x \in Translations(p) :
        /\ Allows(x, usr, TRUE) /\ tlb' = [tlb EXCEPT ![p] = x]
        /\ content' = [content EXCEPT ![x.addr] = v]
        /\ out' = IF p \in HeapPages THEN out ELSE v
  BY <1>2
<1>4. UNCHANGED <<frames, frame_ref_cnt, pte, heap, dirs, cur, panic>>
  BY DEF WritePage
<1>5. x.addr = Entry(p).addr /\ x.addr \in Frames /\ (x.rw <=> Entry(p).rw)
  BY <1>1, <1>3, <1>4, AccessStep
<1>6. Entry(p).rw
  BY <1>3, <1>5 DEF Allows
<1> DEFINE e == Entry(p)
<1>7. e.addr \in Frames /\ content' = [content EXCEPT ![e.addr] = v] /\ e.addr # 0
  BY <1>3, <1>5, PagingAssumption DEF Frames
<1>8. \A m \in Places : m # PlaceOf(p) => EntryAt(m).addr # e.addr
  BY <1>1, <1>6, <1>7, OwnFrame
<1>9. Entry(p) = e /\ UNCHANGED pte
  BY <1>4
<1>10. p \in Pages => e = pte[cur][p] /\ cur \in Dirs /\ p \notin HeapPages
  BY <1>1, PlaceFacts DEF Entry, Tables, Types
<1> HIDE DEF e
<1>11. /\ p \in HeapPages => Memory' = Memory
       /\ p \in Pages => Memory' = [Memory EXCEPT ![cur][p] = v]
  BY <1>1, <1>7, <1>8, <1>9, StoreMemory
<1>12. CASE p \in HeapPages
  BY <1>3, <1>4, <1>11, <1>12
<1>13. CASE p \in Pages
  <2>1. Memory[cur][p] \in Values
    BY <1>7, <1>10, <1>13, MemoryTyped
  <2>2. Memory[cur][p] # Unmapped /\ out' = v
    BY <1>3, <1>10, <1>13, <2>1, PagingAssumption
  <2>3. Memory' = [Memory EXCEPT ![cur][p] = out']
    BY <1>11, <1>13, <2>2
  <2> QED BY <1>4, <1>13, <2>2, <2>3 DEF Abstract!Store
<1> QED BY <1>12, <1>13

\* A page fault is not seen: neither the allocation of a lazy page nor
\* copy-on-write changes what a directory's pages hold.
LEMMA FaultRefines ==
  ASSUME IInv, PageFault
  PROVE  UNCHANGED <<dirs, cur, Memory, out>>
<1>1. Tables /\ Counted /\ content \in [Frames -> Values]
  BY DEF IInv, ValueTypes
<1>2. PICK p \in Pages \cup HeapPages, w \in BOOLEAN, usr \in BOOLEAN : Fault(p, w, usr)
  BY DEF PageFault
<1>3. UNCHANGED <<dirs, cur, out>> /\ invlpg({p}) /\ panic = "none"
  BY <1>1, <1>2, FaultCases
<1> DEFINE e == Entry(p)
<1>4. e \in Entries
  BY <1>1, PlaceFacts, PlaceTypes DEF Tables
<1>5. p \in Pages => e = pte[cur][p] /\ cur \in Dirs /\ p \notin HeapPages
  BY <1>1, PlaceFacts DEF Entry, Tables, Types
<1>6. ASSUME UNCHANGED <<pte, content>> PROVE Memory' = Memory
  BY <1>6 DEF Memory
<1>7. CASE Segfault
  BY <1>3, <1>6, <1>7 DEF Segfault
<1>8. CASE /\ e.addr = 0 /\ e.allocable /\ p # KStack /\ (e.fill <=> p \in UserPages)
           /\ Alloc(p, e.user, TRUE) /\ content' = LazyFilled(p)
  <2>1. CASE frames = <<>>
    <3>1. UNCHANGED <<pte, content>>
      BY <1>8, <2>1 DEF Alloc, LazyFilled, Filled
    <3> QED BY <1>3, <1>6, <3>1
  <2>2. CASE frames # <<>> /\ p \in HeapPages
    <3>1. ~e.fill
      BY <1>8, <2>2, PagingAssumption
    <3>2. content' = content /\ UNCHANGED pte
      BY <1>8, <2>2, <3>1 DEF Alloc, LazyFilled, SetEntry
    <3> QED BY <1>3, <1>6, <3>2
  <2>3. CASE frames # <<>> /\ p \in UserPages
    <3> DEFINE e2 == Allocated(e, e.user, TRUE)
    <3>1. SetEntry(p, e2) /\ content' = [content EXCEPT ![TopFrame] = 0]
      BY <1>8, <2>3 DEF Alloc, LazyFilled, Filled
    <3>2. TopFrame \in Frames /\ \A m \in Places : EntryAt(m).addr # TopFrame
      BY <1>1, <2>3, TopIsFree
    <3>3. p \in Pages
      BY <2>3 DEF Pages
    <3>4. Memory[cur][p] = 0
      BY <1>5, <1>8, <2>3, <3>3 DEF Memory
    <3> HIDE DEF e
    <3>5. e2.addr = TopFrame
      BY <1>4 DEF Entries, Allocated
    <3> HIDE DEF e2
    <3>6. PICK v : v = 0
      OBVIOUS
    <3>7. /\ content' = [content EXCEPT ![e2.addr] = v] /\ e2.addr \in Frames
          /\ \A m \in Places : m # PlaceOf(p) => EntryAt(m).addr # e2.addr
          /\ Memory[cur][p] = v
      BY <3>1, <3>2, <3>4, <3>5, <3>6
    <3>8. Memory' = Memory
      BY <1>1, <3>1, <3>3, <3>7, StoreMemory
    <3> QED BY <1>3, <3>8
  <2> QED BY <1>8, <2>1, <2>2, <2>3 DEF Pages
<1>9. CASE p \in UserPages /\ e.addr # 0 /\ CopyOnWrite(p)
  <2>1. \/ UNCHANGED <<pte, content>>
        \/ SetEntry(p, Reclaimed(e)) /\ UNCHANGED content
        \/ /\ TopFrame \in Frames /\ Mapped(Places, Addr, TopFrame) = {}
           /\ SetEntry(p, Allocated(e, TRUE, TRUE))
           /\ content' = [content EXCEPT ![TopFrame] = content[e.addr]]
    BY <1>1, <1>3, <1>9, CowStep
  <2>2. p \in Pages
    BY <1>9 DEF Pages
  <2>3. e.addr \in Frames /\ Memory[cur][p] = content[e.addr]
    <3>1. e.addr \in Frames
      BY <1>4, <1>9, PagingAssumption DEF Entries, Frames
    <3> QED BY <1>5, <1>9, <2>2, <3>1 DEF Memory
  <2>4. CASE /\ TopFrame \in Frames /\ Mapped(Places, Addr, TopFrame) = {}
             /\ SetEntry(p, Allocated(e, TRUE, TRUE))
             /\ content' = [content EXCEPT ![TopFrame] = content[e.addr]]
    <3> DEFINE e2 == Allocated(e, TRUE, TRUE)
               v == content[e.addr]
    <3>1. \A m \in Places : EntryAt(m).addr # TopFrame
      BY <2>4 DEF Mapped, Addr
    <3> HIDE DEF e
    <3>2. e2.addr = TopFrame
      BY <1>4 DEF Entries, Allocated
    <3>3. SetEntry(p, e2)
      BY <2>4
    <3> HIDE DEF e2
    <3>4. /\ content' = [content EXCEPT ![e2.addr] = v] /\ e2.addr \in Frames
          /\ \A m \in Places : m # PlaceOf(p) => EntryAt(m).addr # e2.addr
          /\ Memory[cur][p] = v
      BY <2>3, <2>4, <3>1, <3>2
    <3> HIDE DEF v
    <3>5. Memory' = Memory
      BY <1>1, <2>2, <3>3, <3>4, StoreMemory
    <3> QED BY <1>3, <3>5
  <2>5. CASE SetEntry(p, Reclaimed(e)) /\ UNCHANGED content
    <3>1. /\ \A d \in Dirs, q \in Pages : <<d, q>> # PlaceOf(p) => pte'[d][q] = pte[d][q]
          /\ pte'[cur][p] = Reclaimed(e)
      BY <1>1, <2>2, <2>5, SetEntryPages
    <3> HIDE DEF e
    <3>2. Reclaimed(e).addr = e.addr
      BY <1>4 DEF Entries, Reclaimed
    <3>3. Memory'[cur][p] = Memory[cur][p]
      BY <1>5, <1>9, <2>2, <2>3, <2>5, <3>1, <3>2 DEF Memory
    <3>4. Memory' = Memory
      BY <1>1, <2>2, <2>5, <3>1, <3>3, MemoryStep
    <3> QED BY <1>3, <3>4
  <2>6. CASE UNCHANGED <<pte, content>>
    BY <1>3, <1>6, <2>6
  <2> QED BY <2>1, <2>4, <2>5, <2>6
<1> QED BY <1>1, <1>2, <1>7, <1>8, <1>9, FaultCases

\* clone_directory copies the memory of the current directory at once.
LEMMA CloneRefines ==
  ASSUME IInv, CloneDirectory
  PROVE  Abstract!Copy \/ UNCHANGED <<dirs, cur, Memory, out>>
<1>1. Tables /\ Counted /\ content \in [Frames -> Values]
  BY DEF IInv, ValueTypes
<1>2. CASE frames = <<>>
  <2>1. UNCHANGED <<pte, content, dirs, cur, out>>
    BY <1>2 DEF CloneDirectory
  <2>2. Memory' = Memory
    BY <2>1 DEF Memory
  <2> QED BY <2>1, <2>2
<1>3. CASE frames # <<>>
  <2> PICK d : d = NewDir
    OBVIOUS
  <2>1. TopFrame \in Frames /\ TopFrame # 0 /\ \A m \in Places : EntryAt(m).addr # TopFrame
    BY <1>1, <1>3, TopIsFree
  <2>2. /\ d \in Dirs /\ d \notin dirs /\ d # 0 /\ d # cur /\ dirs' = dirs \cup {d}
        /\ cur' = cur
        /\ \A p \in UserPages : /\ pte'[cur][p] = clone_table(pte[cur][p])
                                /\ pte'[d][p] = clone_table(pte[cur][p])
        /\ pte'[cur][KStack] = pte[cur][KStack]
        /\ pte'[d][KStack] = Allocated(NullEntry, FALSE, TRUE)
        /\ \A c \in Dirs : c # cur /\ c # d => pte'[c] = pte[c]
    BY <1>1, <1>3, <2>1, CloneTables
  <2>3. content' = [content EXCEPT ![TopFrame] = content[pte[cur][KStack].addr]] /\ out' = out
    BY <1>3 DEF CloneDirectory
  <2>4. /\ cur \in dirs /\ cur \in Dirs /\ KStack \in Pages
        /\ \A p \in Pages : p \in UserPages \/ p = KStack
    BY <1>1, PlaceFacts DEF Tables, Types, Pages
  \* No entry names the frame that is written.
  <2>5. ASSUME NEW c \in Dirs, NEW p \in Pages
        PROVE  /\ pte[c][p].addr # TopFrame
               /\ content'[pte[c][p].addr] = content[pte[c][p].addr]
    <3>1. CASE c \in dirs
      <4>1. <<c, p>> \in Places /\ EntryAt(<<c, p>>) = pte[c][p]
        BY <1>1, <3>1, PlaceFacts DEF Tables
      <4>2. pte[c][p].addr # TopFrame
        BY <2>1, <4>1
      <4> QED BY <1>1, <2>3, <4>2
    <3>2. CASE c \notin dirs
      <4>1. pte[c][p].addr # TopFrame
        BY <1>1, <2>1, <3>2 DEF Tables, UnusedEmpty, NullEntry
      <4> QED BY <1>1, <2>3, <4>1
    <3> QED BY <3>1, <3>2
  <2>6. ASSUME NEW c \in Dirs, NEW p \in Pages, c # cur, c # d
        PROVE  Memory'[c][p] = Memory[c][p]
    BY <2>2, <2>5, <2>6 DEF Memory
  <2>7. ASSUME NEW p \in UserPages
        PROVE  Memory'[cur][p] = Memory[cur][p] /\ Memory'[d][p] = Memory[cur][p]
    <3> DEFINE e == pte[cur][p]
    <3>1. p \in Pages
      BY DEF Pages
    <3>2. e \in Entries
      BY <1>1, <2>4, <3>1 DEF Tables, Types
    <3>3. content'[e.addr] = content[e.addr] /\ pte'[cur][p] = clone_table(e) /\ pte'[d][p] = clone_table(e)
      BY <2>2, <2>4, <2>5, <3>1
    <3>4. Memory[cur][p] = ValueOf(e)
      BY <2>4, <3>1, MemoryIs
    <3> HIDE DEF e
    <3>6. /\ clone_table(e).addr = e.addr /\ clone_table(e).allocable = e.allocable
          /\ clone_table(e).fill = e.fill
      BY <3>2 DEF Entries, clone_table
    <3>7. \A c \in Dirs : pte'[c][p] = clone_table(e) => Memory'[c][p] = ValueOf(e)
      BY <3>1, <3>3, <3>6 DEF Memory, ValueOf
    <3> QED BY <2>2, <2>4, <3>3, <3>4, <3>7
  <2>8. Memory'[cur][KStack] = Memory[cur][KStack] /\ Memory'[d][KStack] = Memory[cur][KStack]
    <3> DEFINE e == pte[cur][KStack]
    <3>1. <<cur, KStack>> \in Places /\ EntryAt(<<cur, KStack>>) = e /\ <<cur, KStack>>[2] = KStack
      BY <1>1, <2>4, PlaceFacts DEF Tables
    <3>2. EntryOK(KStack, e)
      BY <1>1, <3>1 DEF Tables, EntriesOK
    <3>3. e.addr # 0
      BY <3>2 DEF EntryOK
    <3>4. Memory[cur][KStack] = content[e.addr] /\ Memory'[cur][KStack] = content'[e.addr]
      BY <2>2, <2>4, <3>3 DEF Memory
    <3>5. Allocated(NullEntry, FALSE, TRUE).addr = TopFrame
      BY DEF Allocated, NullEntry
    <3>6. Memory'[d][KStack] = content'[TopFrame]
      <4>1. pte'[d][KStack].addr = TopFrame
        BY <2>2, <3>5
      <4> QED BY <2>1, <2>2, <2>4, <4>1 DEF Memory
    <3>7. content'[TopFrame] = content[e.addr]
      BY <1>1, <2>1, <2>3
    <3> QED BY <2>4, <2>5, <3>4, <3>6, <3>7
  <2>9. Memory' = [Memory EXCEPT ![d] = Memory[cur]]
    <3>1. Memory = [c \in Dirs |-> [p \in Pages |-> Memory[c][p]]]
      BY DEF Memory
    <3>2. Memory' = [c \in Dirs |-> [p \in Pages |-> Memory'[c][p]]]
      BY DEF Memory
    <3> HIDE DEF Memory
    <3>3. ASSUME NEW c \in Dirs
          PROVE  [p \in Pages |-> Memory'[c][p]] =
                 IF c = d THEN [p \in Pages |-> Memory[cur][p]] ELSE [p \in Pages |-> Memory[c][p]]
      BY <2>4, <2>6, <2>7, <2>8
    <3>4. [Memory EXCEPT ![d] = Memory[cur]] =
            [c \in Dirs |-> IF c = d THEN [p \in Pages |-> Memory[cur][p]]
                                     ELSE [p \in Pages |-> Memory[c][p]]]
      BY <2>2, <2>4, <3>1
    <3> QED BY <3>2, <3>3, <3>4
  <2> QED BY <2>2, <2>3, <2>9 DEF Abstract!Copy
<1> QED BY <1>2, <1>3

\* Copy-on-write, lazy zero filling, reference counting and the TLB together
\* implement private memories that fork copies at once: no task ever sees
\* another's writes.
THEOREM PagingRefines == Spec => ImplementsPrivateMemory
<1>1. Init => Abstract!AInit
  <2> SUFFICES ASSUME Init PROVE Abstract!AInit
    OBVIOUS
  <2>1. Memory \in [Dirs -> [Pages -> Values \cup {Unmapped}]]
    BY InitIInv, MemoryTyped
  <2>2. dirs = {1} /\ cur = 1 /\ out = 0 /\ 1 \in Dirs /\ 0 \in Values
    BY PagingAssumption DEF Init, Dirs
  <2> QED BY <2>1, <2>2 DEF Abstract!AInit
<1>2. IInv /\ [Next]_vars => [Abstract!ANext]_(Abstract!avars)
  <2> SUFFICES ASSUME IInv, [Next]_vars
               PROVE  Abstract!ANext \/ UNCHANGED <<dirs, cur, Memory, out>>
    BY DEF Abstract!avars
  <2> USE DEF Abstract!ANext
  <2>1. CASE LoadPage
    BY <2>1, LoadRefines
  <2>2. CASE LazyPage
    BY <2>2, LazyRefines
  <2>3. CASE HeapLazy
    <3>1. UNCHANGED <<dirs, cur, out, content, pte>>
      BY <2>3 DEF HeapLazy, SetEntry
    <3> QED BY <3>1 DEF Memory
  <2>4. CASE \E p \in HeapPages : HeapFree(p)
    <3>1. UNCHANGED <<dirs, cur, out, content, pte>>
      BY <2>4 DEF HeapFree, SetEntry
    <3> QED BY <3>1 DEF Memory
  <2>5. CASE ReadPage
    BY <2>5, ReadRefines
  <2>6. CASE WritePage
    BY <2>6, WriteRefines
  <2>7. CASE PageFault
    BY <2>7, FaultRefines
  <2>8. CASE CloneDirectory
    BY <2>8, CloneRefines
  <2>9. CASE SwitchDirectory
    <3>1. cur' \in dirs /\ UNCHANGED <<dirs, out, content, pte>>
      BY <2>9 DEF SwitchDirectory
    <3>2. Memory' = Memory
      BY <3>1 DEF Memory
    <3> QED BY <3>1, <3>2 DEF Abstract!Activate
  <2>10. CASE UNCHANGED vars
    <3>1. UNCHANGED <<dirs, cur, out, content, pte>>
      BY <2>10 DEF vars
    <3> QED BY <3>1 DEF Memory
  <2> QED BY <2>1, <2>2, <2>3, <2>4, <2>5, <2>6, <2>7, <2>8, <2>9, <2>10 DEF Next
<1> QED BY <1>1, <1>2, Invariance, PTL DEF Spec, ImplementsPrivateMemory, Abstract!ASpec
=============================================================================
