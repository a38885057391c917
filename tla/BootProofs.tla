----------------------------- MODULE BootProofs -----------------------------
(***************************************************************************)
(* Theorems about Boot, for any memory map, size of a page and number of   *)
(* global objects: objects are destroyed in reverse, the chain of frame    *)
(* pointers survives move_stack, static memory is mapped to itself, and    *)
(* the frame stack holds usable frames only.                               *)
(***************************************************************************)
EXTENDS Boot, NatLemmas, FiniteSetTheorems, SequenceTheorems, TLAPS

----------------------------------------------------------------------------
(***************************************************************************)
(* Global objects.                                                         *)
(***************************************************************************)
Stages == {"magic", "preserve", "scan", "fill", "heap", "refcnt", "map", "ctors", "stack",
           "run", "finalize", "done", "halt"}

\* The table holds the objects with a destructor in the order of construction.
Registered ==
  /\ \A i, j \in DOMAIN atexit_funcs : i < j => atexit_funcs[i] < atexit_funcs[j]
  /\ \A j \in DOMAIN atexit_funcs : atexit_funcs[j] \in Destructible
  /\ \A obj \in Destructible : \E j \in DOMAIN atexit_funcs : atexit_funcs[j] = obj

\* The destructors that have run are the last ones of the table, from the end.
Reversed == \A j \in DOMAIN destroyed : destroyed[j] = atexit_funcs[Len(atexit_funcs) + 1 - j]

\* What is known of the table and of the loop of __cxa_finalize, and what is
\* left of it when the table has been emptied.
Objects ==
  /\ stage \in Stages
  /\ built \in Seq(BOOLEAN) /\ atexit_funcs \in Seq(Nat) /\ destroyed \in Seq(Nat)
  /\ stage # "done" => Registered
  /\ stage \notin {"finalize", "done"} => destroyed = <<>>
  /\ stage = "finalize" => at \in Nat /\ Len(destroyed) + at = Len(atexit_funcs) /\ Reversed
  /\ stage = "done" => DestroyedInReverse

\* A constructor adds its object to those with a destructor, or none.
LEMMA ConstructDestructible ==
  ASSUME built \in Seq(BOOLEAN), NEW dtor \in BOOLEAN, built' = Append(built, dtor)
  PROVE  /\ built' \in Seq(BOOLEAN)
         /\ Destructible' = Destructible \cup (IF dtor THEN {Len(built) + 1} ELSE {})
<1>1. /\ built' \in Seq(BOOLEAN) /\ Len(built) \in Nat
      /\ DOMAIN built = 1 .. Len(built) /\ DOMAIN built' = 1 .. Len(built) + 1
  OBVIOUS
<1>2. /\ built'[Len(built) + 1] = dtor
      /\ \A obj \in DOMAIN built : built'[obj] = built[obj]
  <2>1. built'[Len(built) + 1] = dtor
    BY AppendProperties
  <2>2. \A obj \in 1 .. Len(built) : built'[obj] = built[obj]
    BY AppendProperties
  <2> QED BY <1>1, <2>1, <2>2
<1>3. DOMAIN built' = DOMAIN built \cup {Len(built) + 1}
  BY <1>1
<1>4. Destructible' = {obj \in DOMAIN built \cup {Len(built) + 1} : built'[obj]}
  BY <1>3 DEF Destructible
<1>5. CASE dtor
  <2>1. built'[Len(built) + 1]
    BY <1>2, <1>5, Zenon
  <2> QED BY <1>1, <1>2, <1>4, <1>5, <2>1, Zenon DEF Destructible
<1>6. CASE ~dtor
  <2>1. ~built'[Len(built) + 1]
    BY <1>2, <1>6, Zenon
  <2> QED BY <1>1, <1>2, <1>4, <1>6, <2>1, Zenon DEF Destructible
<1> QED BY <1>1, <1>5, <1>6

\* A constructor.
LEMMA ConstructObjects ==
  ASSUME Objects, NEW dtor \in BOOLEAN, Construct(dtor), stage' = stage,
         stage \notin {"finalize", "done"}
  PROVE  Objects'
<1> DEFINE new == Len(built) + 1
<1>1. /\ built \in Seq(BOOLEAN) /\ atexit_funcs \in Seq(Nat) /\ destroyed = <<>> /\ Registered
  BY DEF Objects
<1>2. built' = Append(built, dtor) /\ destroyed' = destroyed
  BY DEF Construct
<1>3. built' \in Seq(BOOLEAN) /\ Destructible' = Destructible \cup (IF dtor THEN {new} ELSE {})
  BY <1>1, <1>2, ConstructDestructible
<1>4. new \in Nat /\ \A obj \in Destructible : obj \in Nat /\ obj < new
  BY <1>1 DEF Destructible
<1>5. atexit_funcs' \in Seq(Nat) /\ Registered'
  <2> HIDE DEF new
  <2>1. CASE ~dtor
    <3>1. atexit_funcs' = atexit_funcs /\ Destructible' = Destructible
      BY <1>3, <2>1 DEF Construct
    <3> QED BY <1>1, <3>1 DEF Registered
  <2>2. CASE dtor
    <3>1. atexit_funcs' = Append(atexit_funcs, new) /\ Destructible' = Destructible \cup {new}
      BY <1>3, <2>2 DEF Construct, new
    <3>2. PICK n \in Nat : n = Len(atexit_funcs)
      BY <1>1
    <3>3. /\ atexit_funcs' \in Seq(Nat)
          /\ DOMAIN atexit_funcs = 1 .. n /\ DOMAIN atexit_funcs' = 1 .. n + 1
          /\ atexit_funcs'[n + 1] = new
          /\ \A j \in 1 .. n : atexit_funcs'[j] = atexit_funcs[j]
      BY <1>1, <1>4, <3>1, <3>2
    <3>4. \A j \in 1 .. n : atexit_funcs[j] \in Destructible
      BY <1>1, <3>3 DEF Registered
    <3>5. ASSUME NEW i \in 1 .. n + 1, NEW j \in 1 .. n + 1, i < j
          PROVE  atexit_funcs'[i] < atexit_funcs'[j]
      <4>1. i \in 1 .. n
        BY <3>5
      <4>2. CASE j = n + 1
        BY <1>4, <3>3, <3>4, <4>1, <4>2
      <4>3. CASE j \in 1 .. n
        BY <1>1, <3>3, <3>5, <4>1, <4>3 DEF Registered
      <4> QED BY <4>2, <4>3
    <3>6. ASSUME NEW j \in 1 .. n + 1 PROVE atexit_funcs'[j] \in Destructible'
      <4>1. CASE j = n + 1
        BY <3>1, <3>3, <4>1
      <4>2. CASE j \in 1 .. n
        BY <3>1, <3>3, <3>4, <4>2
      <4> QED BY <4>1, <4>2
    <3>7. ASSUME NEW obj \in Destructible' PROVE \E j \in 1 .. n + 1 : atexit_funcs'[j] = obj
      <4>1. CASE obj = new
        BY <3>3, <4>1
      <4>2. CASE obj \in Destructible
        <5>1. PICK j \in 1 .. n : atexit_funcs[j] = obj
          BY <1>1, <3>3, <4>2 DEF Registered
        <5> QED BY <3>3, <5>1
      <4> QED BY <3>1, <4>1, <4>2
    <3> QED BY <3>3, <3>5, <3>6, <3>7 DEF Registered
  <2> QED BY <2>1, <2>2
<1>6. destroyed' = <<>> /\ destroyed' \in Seq(Nat)
  BY <1>1, <1>2
<1> QED BY <1>3, <1>5, <1>6 DEF Objects

\* Steps that neither construct nor destroy.
LEMMA SameObjects ==
  ASSUME Objects, UNCHANGED <<built, atexit_funcs, destroyed>>, stage \notin {"finalize", "done"},
         stage' \in Stages \ {"finalize", "done"}
  PROVE  Objects'
<1>1. Registered'
  BY DEF Objects, Registered, Destructible
<1> QED BY <1>1 DEF Objects

\* Inside __cxa_finalize the order is kept, and nothing is left at its end.
LEMMA ReversedIs ==
  ASSUME Objects, stage = "finalize"
  PROVE  /\ \A i, j \in DOMAIN destroyed : i < j => destroyed[i] > destroyed[j]
         /\ Destroyed \subseteq Destructible
         /\ \A obj \in Destroyed, later \in Destructible : later > obj => later \in Destroyed
         /\ at = 0 => Destroyed = Destructible
<1>1. /\ atexit_funcs \in Seq(Nat) /\ destroyed \in Seq(Nat) /\ Registered /\ Reversed
      /\ at \in Nat /\ Len(destroyed) + at = Len(atexit_funcs)
  BY DEF Objects
<1>2. PICK n \in Nat, d \in Nat : n = Len(atexit_funcs) /\ d = Len(destroyed) /\ d + at = n
  BY <1>1
<1>3. /\ DOMAIN atexit_funcs = 1 .. n /\ DOMAIN destroyed = 1 .. d
      /\ \A j \in 1 .. n : atexit_funcs[j] \in Nat
      /\ \A j \in 1 .. d : n + 1 - j \in 1 .. n /\ destroyed[j] = atexit_funcs[n + 1 - j]
  <2>1. at \in Nat /\ d + at = n
    BY <1>1, <1>2
  <2>2. DOMAIN atexit_funcs = 1 .. n /\ \A j \in 1 .. n : atexit_funcs[j] \in Nat
    BY <1>1, <1>2
  <2>3. DOMAIN destroyed = 1 .. d
    BY <1>1, <1>2
  <2>4. ASSUME NEW j \in 1 .. d PROVE destroyed[j] = atexit_funcs[n + 1 - j]
    BY <1>1, <1>2, <2>3 DEF Reversed
  <2>5. ASSUME NEW j \in 1 .. d PROVE n + 1 - j \in 1 .. n
    BY <2>1
  <2> QED BY <2>2, <2>3, <2>4, <2>5
<1>4. ASSUME NEW i \in DOMAIN destroyed, NEW j \in DOMAIN destroyed, i < j
      PROVE  destroyed[i] > destroyed[j]
  <2>1. /\ n + 1 - i \in 1 .. n /\ n + 1 - j \in 1 .. n /\ n + 1 - j < n + 1 - i
        /\ destroyed[i] = atexit_funcs[n + 1 - i] /\ destroyed[j] = atexit_funcs[n + 1 - j]
    BY <1>3, <1>4
  <2>2. atexit_funcs[n + 1 - j] < atexit_funcs[n + 1 - i]
    BY <1>1, <1>3, <2>1 DEF Registered
  <2> QED BY <1>3, <2>1, <2>2
<1>5. Destroyed \subseteq Destructible
  BY <1>1, <1>3 DEF Destroyed, Registered
<1>6. ASSUME NEW m \in 1 .. n, m > at PROVE atexit_funcs[m] \in Destroyed
  <2>1. at \in Nat /\ d + at = n
    BY <1>1, <1>2
  <2>2. n + 1 - m \in 1 .. d /\ n + 1 - (n + 1 - m) = m
    BY <1>6, <2>1
  <2>3. PICK j \in 1 .. d : j = n + 1 - m /\ n + 1 - j = m
    BY <2>2
  <2> QED BY <1>3, <2>3 DEF Destroyed
<1>7. ASSUME NEW obj \in Destroyed, NEW later \in Destructible, later > obj
      PROVE  later \in Destroyed
  <2>1. PICK m \in 1 .. n : atexit_funcs[m] = later
    BY <1>1, <1>3 DEF Registered
  <2>2. PICK j \in 1 .. d : destroyed[j] = obj
    BY <1>3 DEF Destroyed
  <2>3. n + 1 - j \in 1 .. n /\ atexit_funcs[n + 1 - j] = obj /\ n + 1 - j > at
    BY <1>1, <1>2, <1>3, <2>2
  <2>4. ~(m < n + 1 - j)
    <3> SUFFICES ASSUME m < n + 1 - j PROVE FALSE
      OBVIOUS
    <3>1. later < obj
      BY <1>1, <1>3, <2>1, <2>3 DEF Registered
    <3>2. later \in Nat /\ obj \in Nat
      BY <1>3, <2>1, <2>3
    <3> QED BY <1>7, <3>1, <3>2
  <2>5. m > at
    BY <1>1, <1>2, <2>3, <2>4
  <2> QED BY <1>6, <2>1, <2>5
<1>8. ASSUME at = 0, NEW obj \in Destructible PROVE obj \in Destroyed
  <2>1. PICK m \in 1 .. n : atexit_funcs[m] = obj
    BY <1>1, <1>3 DEF Registered
  <2> QED BY <1>6, <1>8, <2>1
<1> QED BY <1>4, <1>5, <1>7, <1>8

\* cxxsupport_finalize.
LEMMA FinalizeObjects ==
  ASSUME Objects, Finalize
  PROVE  Objects'
<1>1. CASE stage = "run" /\ RunDtor /\ UNCHANGED <<stage, k>>
  BY <1>1, SameObjects DEF RunDtor, Stages
<1>2. CASE stage = "run" /\ FinalizeEnter /\ Go("finalize")
  <2>1. /\ stage' = "finalize" /\ at' = Len(atexit_funcs)
        /\ UNCHANGED <<built, atexit_funcs, destroyed>>
    BY <1>2 DEF FinalizeEnter, Go
  <2>2. /\ built \in Seq(BOOLEAN) /\ atexit_funcs \in Seq(Nat) /\ destroyed = <<>> /\ Registered
    BY <1>2 DEF Objects
  <2>3. at' \in Nat /\ Len(destroyed') = 0 /\ Len(destroyed') + at' = Len(atexit_funcs')
    BY <2>1, <2>2
  <2>4. Registered' /\ Reversed'
    BY <2>1, <2>2 DEF Registered, Reversed, Destructible
  <2> QED BY <2>1, <2>2, <2>3, <2>4 DEF Objects, Stages
<1>3. CASE stage = "finalize" /\ FinalizeStep /\ UNCHANGED <<stage, k>>
  <2>1. /\ stage = "finalize" /\ stage' = stage /\ at > 0 /\ at' = at - 1
        /\ destroyed' = Append(destroyed, atexit_funcs[at]) /\ UNCHANGED <<built, atexit_funcs>>
    BY <1>3 DEF FinalizeStep, FinalizeMore
  <2>2. /\ built \in Seq(BOOLEAN) /\ atexit_funcs \in Seq(Nat) /\ destroyed \in Seq(Nat) /\ at \in Nat
        /\ Len(destroyed) + at = Len(atexit_funcs) /\ Registered /\ Reversed
    BY <2>1 DEF Objects
  <2>3. PICK n \in Nat, d \in Nat : n = Len(atexit_funcs) /\ d = Len(destroyed) /\ d + at = n
    BY <2>2
  <2>4. at \in 1 .. n /\ atexit_funcs[at] \in Nat /\ at = n + 1 - (d + 1)
    <3>1. at \in Nat /\ at > 0 /\ d + at = n
      BY <2>1, <2>2, <2>3
    <3>2. at \in 1 .. n /\ at = n + 1 - (d + 1)
      BY <3>1
    <3> QED BY <2>2, <2>3, <3>2
  <2>5. /\ destroyed' \in Seq(Nat) /\ Len(destroyed') = d + 1
        /\ destroyed'[d + 1] = atexit_funcs[at]
        /\ \A j \in 1 .. d : destroyed'[j] = destroyed[j]
    BY <2>1, <2>2, <2>3, <2>4
  <2>6. at' \in Nat /\ (d + 1) + at' = n
    BY <2>1, <2>2, <2>3
  <2>7. Reversed'
    <3> SUFFICES ASSUME NEW j \in 1 .. d + 1 PROVE destroyed'[j] = atexit_funcs[n + 1 - j]
      <4>1. DOMAIN destroyed' = 1 .. d + 1 /\ Len(atexit_funcs') = n /\ atexit_funcs' = atexit_funcs
        BY <2>1, <2>3, <2>5
      <4> QED BY <4>1 DEF Reversed
    <3>1. CASE j = d + 1
      BY <2>4, <2>5, <3>1
    <3>2. CASE j \in 1 .. d
      <4>1. j \in DOMAIN destroyed
        BY <2>2, <2>3, <3>2
      <4> QED BY <2>2, <2>3, <2>5, <3>2, <4>1 DEF Reversed
    <3> QED BY <2>3, <3>1, <3>2
  <2>8. Registered'
    BY <2>1, <2>2 DEF Registered, Destructible
  <2> QED BY <2>1, <2>2, <2>3, <2>5, <2>6, <2>7, <2>8 DEF Objects
<1>4. CASE stage = "finalize" /\ FinalizeEnd /\ Go("done")
  <2>1. /\ stage = "finalize" /\ stage' = "done" /\ ~(at > 0) /\ atexit_funcs' = <<>>
        /\ UNCHANGED <<built, at, destroyed>>
    BY <1>4 DEF FinalizeEnd, FinalizeMore, Go
  <2>2. /\ built \in Seq(BOOLEAN) /\ destroyed \in Seq(Nat) /\ at \in Nat
    BY <2>1 DEF Objects
  <2>3. at = 0 /\ atexit_funcs' \in Seq(Nat)
    BY <2>1, <2>2
  <2>4. DestroyedInReverse'
    BY <2>1, <2>3, ReversedIs DEF DestroyedInReverse, Destroyed, Destructible
  <2> QED BY <2>1, <2>2, <2>3, <2>4 DEF Objects, Stages
<1> QED BY <1>1, <1>2, <1>3, <1>4 DEF Finalize

\* A constructor in either phase.
LEMMA NextObjectObjects ==
  ASSUME Objects, NextObject, stage \in {"heap", "ctors"}
  PROVE  Objects'
<1>1. PICK dtor \in BOOLEAN :
        IF dtor /\ AtexitFull THEN Panic("too many functions") /\ UNCHANGED cxxvars
        ELSE Construct(dtor) /\ UNCHANGED <<stage, k, panic>>
  BY DEF NextObject
<1>2. CASE dtor /\ AtexitFull
  BY <1>1, <1>2, SameObjects DEF Panic, Stages, cxxvars
<1>3. CASE ~(dtor /\ AtexitFull)
  BY <1>1, <1>3, ConstructObjects
<1> QED BY <1>2, <1>3

\* Every step keeps the objects in order.
LEMMA NextObjects == Objects /\ [Next]_vars => Objects'
<1> SUFFICES ASSUME Objects, [Next]_vars PROVE Objects'
  OBVIOUS
<1>1. CASE Magic
  BY <1>1, SameObjects DEF Magic, Go, Panic, Stages, cxxvars
<1>2. CASE Preserve
  BY <1>2, SameObjects DEF Preserve, Go, Stages, cxxvars
<1>3. CASE Scan
  BY <1>3, SameObjects DEF Scan, Go, Panic, Stages, cxxvars
<1>4. CASE Fill
  BY <1>4, SameObjects DEF Fill, Go, Stages, cxxvars
<1>5. CASE KheapInit
  <2>1. stage = "heap"
    BY <1>5 DEF KheapInit
  <2>2. CASE NextObject
    BY <2>1, <2>2, NextObjectObjects
  <2>3. CASE UNCHANGED cxxvars /\ stage' = "refcnt"
    BY <2>1, <2>3, SameObjects DEF Stages, cxxvars
  <2> QED BY <1>5, <2>2, <2>3 DEF KheapInit, Go
<1>6. CASE AllocRefCnt
  BY <1>6, SameObjects DEF AllocRefCnt, Go, Panic, Stages, cxxvars
<1>7. CASE MapLow
  <2>1. stage = "map" /\ UNCHANGED cxxvars /\ stage' \in {"map", "halt", "ctors"}
    BY <1>7 DEF MapLow, Go, Panic
  <2> QED BY <2>1, SameObjects DEF Stages, cxxvars
<1>8. CASE Constructors
  <2>1. stage = "ctors"
    BY <1>8 DEF Constructors
  <2>2. CASE NextObject
    BY <2>1, <2>2, NextObjectObjects
  <2>3. CASE UNCHANGED cxxvars /\ stage' = "stack"
    BY <2>1, <2>3, SameObjects DEF Stages, cxxvars
  <2> QED BY <1>8, <2>2, <2>3 DEF Constructors, Go
<1>9. CASE MoveStack
  <2>1. stage = "stack" /\ UNCHANGED cxxvars /\ stage' = "run"
    BY <1>9 DEF MoveStack, Go
  <2> QED BY <2>1, SameObjects DEF Stages, cxxvars
<1>10. CASE Finalize
  BY <1>10, FinalizeObjects
<1>11. CASE UNCHANGED vars
  BY <1>11 DEF vars, cxxvars, Objects, Registered, Reversed, DestroyedInReverse, Destroyed, Destructible
<1> QED BY <1>1, <1>2, <1>3, <1>4, <1>5, <1>6, <1>7, <1>8, <1>9, <1>10, <1>11 DEF Next

\* Global objects with a destructor are destroyed in the reverse order of their
\* construction, each once, and all of them when kmain returns, however many
\* objects there are, whichever of them have one, and however large the table
\* of destructors is.
THEOREM DestroysInReverse == Spec => []DestroyedInReverse
<1>1. Init => Objects
  <2> SUFFICES ASSUME Init PROVE Objects
    OBVIOUS
  <2>1. /\ built = <<>> /\ atexit_funcs = <<>> /\ destroyed = <<>> /\ stage = "magic"
    BY DEF Init, CxxInit
  <2>2. Registered
    BY <2>1 DEF Registered, Destructible
  <2> QED BY <2>1, <2>2 DEF Objects, Stages
<1>2. Objects /\ [Next]_vars => Objects'
  BY NextObjects
<1>3. Objects => DestroyedInReverse
  <2> SUFFICES ASSUME Objects PROVE DestroyedInReverse
    OBVIOUS
  <2>1. CASE stage = "finalize"
    BY <2>1, ReversedIs DEF DestroyedInReverse
  <2>2. CASE stage = "done"
    BY <2>2 DEF Objects
  <2>3. CASE stage \notin {"finalize", "done"}
    <3>1. destroyed = <<>> /\ DOMAIN destroyed = {}
      BY <2>3 DEF Objects
    <3>2. Destroyed = {}
      BY <3>1 DEF Destroyed
    <3> QED BY <2>3, <3>1, <3>2 DEF DestroyedInReverse
  <2> QED BY <2>1, <2>2, <2>3
<1> QED BY <1>1, <1>2, <1>3, PTL DEF Spec

----------------------------------------------------------------------------
(***************************************************************************)
(* move_stack.                                                             *)
(***************************************************************************)

\* move_stack moves the saved frame pointers.
LEMMA MoveStackFollows ==
  ASSUME MoveStack
  PROVE  FramesFollow'
<1> DEFINE esp == StackTop - StackWords
<1>1. PICK ebp \in esp + 1 .. StackTop - 1, old \in [OldStack(esp) -> {0} \cup esp .. StackTop] :
        stack' = [esp |-> esp, ebp |-> ebp, old |-> old,
                  new |-> [a \in {x + Offset : x \in OldStack(esp)} |->
                             LET x == a - Offset IN
                             IF x \in RelocatedWords(esp, ebp) /\ old[x] < StackTop /\ old[x] > esp
                             THEN old[x] + Offset ELSE old[x]]]
  BY DEF MoveStack
<1>2. StackTop \in Nat /\ StackWords \in Nat /\ StackWords < StackTop /\ KERNEL_STACK_POS \in Nat
  BY BootAssumption
<1>3. Offset \in Int
  BY <1>2 DEF Offset
<1>4. PICK e \in Nat : e = esp
  BY <1>2
<1>5. ebp \in Int /\ ebp > e /\ ebp < StackTop /\ e < StackTop
  BY <1>2, <1>4
<1>6. stack'.esp = e /\ stack'.ebp = ebp /\ stack'.old = old
  BY <1>1, <1>4
<1>7. ebp \in OldStack(e)
  BY <1>2, <1>5 DEF OldStack
<1> SUFFICES ASSUME NEW a \in Chain'
             PROVE  /\ old[a] \in a + 1 .. StackTop - 1 => stack'.new[a + Offset] = old[a] + Offset
                    /\ old[a] \notin OldStack(e) => stack'.new[a + Offset] = old[a]
  BY <1>6 DEF FramesFollow, OldStack, Offset
<1>8. a \in OldStack(e) /\ a >= ebp
  <2> DEFINE T == {x \in OldStack(e) : x >= ebp}
  <2>1. OldStack(e) \subseteq Int
    BY <1>2 DEF OldStack
  <2>2. ebp \in T /\ T \in SUBSET OldStack(e)
    BY <1>5, <1>7
  <2>3. ASSUME NEW b \in T, old[b] \in OldStack(e), old[b] > b PROVE old[b] \in T
    BY <1>5, <2>1, <2>3
  <2> HIDE DEF T
  <2>4. Chain' = {x \in OldStack(e) :
                    \A U \in SUBSET OldStack(e) :
                      ebp \in U /\ (\A b \in U : old[b] \in OldStack(e) /\ old[b] > b => old[b] \in U)
                      => x \in U}
    BY <1>6 DEF Chain, OldStack
  <2>5. a \in OldStack(e) /\ a \in T
    BY <2>2, <2>3, <2>4
  <2> QED BY <2>5 DEF T
<1>9. a \in Int /\ a > e /\ a < StackTop
  BY <1>2, <1>5, <1>8 DEF OldStack
<1>10. old[a] \in {0} \cup e .. StackTop
  BY <1>4, <1>8
<1>11. old[a] \in Int
  BY <1>2, <1>10
<1>12. a + Offset \in {x + Offset : x \in OldStack(e)} /\ (a + Offset) - Offset = a
  BY <1>3, <1>8, <1>9
<1>13. a \in RelocatedWords(e, ebp)
  BY <1>8, <1>9 DEF RelocatedWords
<1>14. stack'.new[a + Offset] = IF old[a] < StackTop /\ old[a] > e THEN old[a] + Offset ELSE old[a]
  <2> HIDE DEF esp
  <2>1. stack'.new = [b \in {x + Offset : x \in OldStack(e)} |->
                        IF b - Offset \in RelocatedWords(e, ebp) /\ old[b - Offset] < StackTop
                           /\ old[b - Offset] > e
                        THEN old[b - Offset] + Offset ELSE old[b - Offset]]
    BY <1>1, <1>4
  <2> QED BY <1>12, <1>13, <2>1
<1>15. old[a] \in a + 1 .. StackTop - 1 => old[a] < StackTop /\ old[a] > e
  BY <1>2, <1>9, <1>11
<1>16. old[a] \notin OldStack(e) => ~(old[a] < StackTop /\ old[a] > e)
  BY <1>2, <1>11 DEF OldStack
<1> QED BY <1>14, <1>15, <1>16

\* The chain of frame pointers leads to the same frames on the new stack, for
\* every content of the old one.
THEOREM FramePointersFollow == Spec => []FramesFollow
<1>1. Init => FramesFollow
  BY DEF Init, FramesFollow
<1>2. FramesFollow /\ [Next]_vars => FramesFollow'
  <2> SUFFICES ASSUME FramesFollow, [Next]_vars PROVE FramesFollow'
    OBVIOUS
  <2>1. CASE MoveStack
    BY <2>1, MoveStackFollows
  <2>2. CASE Finalize \/ UNCHANGED vars
    <3>1. stack' = stack /\ (stage' \in {"run", "finalize"} => stage \in {"run", "finalize"})
      BY <2>2 DEF Finalize, Go, vars
    <3> QED BY <3>1 DEF FramesFollow, Chain, OldStack, Offset
  <2>3. CASE Magic \/ Preserve \/ Scan \/ Fill \/ KheapInit \/ AllocRefCnt \/ MapLow \/ Constructors
    <3>1. stage' \notin {"run", "finalize"}
      BY <2>3 DEF Magic, Preserve, Scan, Fill, KheapInit, AllocRefCnt, MapLow, Constructors, NextObject, Go, Panic
    <3> QED BY <3>1 DEF FramesFollow
  <2> QED BY <2>1, <2>2, <2>3 DEF Next
<1> QED BY <1>1, <1>2, PTL DEF Spec

----------------------------------------------------------------------------
(***************************************************************************)
(* Pages and the static heap.                                              *)
(***************************************************************************)

\* A byte is in the page of its number.
LEMMA PageIs ==
  ASSUME NEW x \in Nat
  PROVE  PageOf(x) \in Nat /\ PageOf(x) * PageSize <= x /\ x < PageOf(x) * PageSize + PageSize
<1>1. PageSize \in Nat /\ PageSize > 0
  BY BootAssumption
<1>2. PICK q \in Nat, r \in Nat : q = x \div PageSize /\ r < PageSize /\ x = q * PageSize + r
  BY <1>1, DivMod
<1>3. q * PageSize \in Nat
  BY <1>1, <1>2
<1>4. q * PageSize <= x /\ x < q * PageSize + PageSize
  BY <1>1, <1>2, <1>3
<1> QED BY <1>2, <1>4 DEF PageOf

\* And in no other.
LEMMA InPage ==
  ASSUME NEW q \in Nat, NEW x \in Nat, q * PageSize <= x, x < q * PageSize + PageSize
  PROVE  PageOf(x) = q
<1>1. PageSize \in Nat /\ PageSize > 0
  BY BootAssumption
<1>2. q * PageSize \in Nat
  BY <1>1
<1>3. PICK r \in Nat : r = x - q * PageSize
  BY <1>2
<1>4. r < PageSize /\ x = q * PageSize + r
  BY <1>1, <1>2, <1>3
<1>5. x \div PageSize = q
  BY <1>1, <1>4, DivModUnique
<1> QED BY <1>5 DEF PageOf

\* get_aligned rounds up to a multiple.
LEMMA AlignedIs ==
  ASSUME NEW x \in Nat, NEW m \in Nat, m > 0
  PROVE  /\ get_aligned(x, m) \in Nat /\ x <= get_aligned(x, m)
         /\ \E q \in Nat : get_aligned(x, m) = q * m
<1>1. CASE x = 0
  <2>1. get_aligned(x, m) = 0 /\ 0 = 0 * m
    BY <1>1 DEF get_aligned
  <2> QED BY <1>1, <2>1
<1>2. CASE x # 0
  <2>1. PICK y \in Nat : y = x - 1
    BY <1>2
  <2>2. PICK q \in Nat, r \in Nat : q = y \div m /\ r < m /\ y = q * m + r
    BY <2>1, DivMod
  <2>3. get_aligned(x, m) = (q + 1) * m
    BY <1>2, <2>1, <2>2 DEF get_aligned
  <2>4. q * m \in Nat /\ (q + 1) * m = q * m + m /\ q + 1 \in Nat
    BY <2>2
  <2>5. x <= q * m + m
    BY <2>1, <2>2, <2>4
  <2> QED BY <2>3, <2>4, <2>5
<1> QED BY <1>1, <1>2

\* The end of the static heap is an address.
LEMMA MallocIs ==
  ASSUME NEW end \in Nat, NEW size \in Nat, NEW m \in Nat, m > 0
  PROVE  kmalloc_pre_init(end, size, m) \in Nat
<1>1. PICK x \in Nat : x = Base(end, m) + size
  BY AlignedIs DEF Base
<1>2. Word \in Nat /\ Word > 0
  BY BootAssumption
<1>3. x % Word \in Nat
  BY <1>2, DivMod
<1> QED BY <1>1, <1>3 DEF kmalloc_pre_init

\* Tables for finitely many pages.
LEMMA WithTablesIs ==
  ASSUME NEW end \in Nat, NEW T, IsFiniteSet(T)
  PROVE  WithTables(end, T) \in Nat
<1>1. PICK n : n = Cardinality(T \ tables)
  OBVIOUS
<1>2. T \ tables \in SUBSET T
  OBVIOUS
<1>3. IsFiniteSet(T \ tables)
  BY <1>2, FS_Subset
<1>4. n \in Nat
  BY <1>1, <1>3, FS_CardinalityType
<1>5. PageSize \in Nat /\ PageSize > 0
  BY BootAssumption
<1>6. PICK size \in Nat : size = n * PageSize
  BY <1>4, <1>5
<1>7. kmalloc_pre_init(end, size, PageSize) \in Nat
  BY <1>5, MallocIs
<1> QED BY <1>1, <1>6, <1>7 DEF WithTables

\* The tables of the heap are finitely many.
LEMMA HeapTablesFinite == IsFiniteSet({TableOf(PageOf(x)) : x \in HeapBegin .. HeapEnd - 1})
<1> DEFINE T == {TableOf(PageOf(x)) : x \in HeapBegin .. HeapEnd - 1}
<1>1. HeapBegin \in Nat /\ HeapEnd \in Nat /\ TablePages \in Nat /\ TablePages > 0
      /\ PageSize \in Nat /\ PageSize > 0
  BY BootAssumption
<1>2. ASSUME NEW x \in HeapBegin .. HeapEnd - 1 PROVE TableOf(PageOf(x)) \in 0 .. HeapEnd
  <2>1. x \in Nat /\ x < HeapEnd
    BY <1>1
  <2>2. PICK p : p = PageOf(x)
    OBVIOUS
  <2>3. p \in Nat /\ p * PageSize <= x
    BY <2>1, <2>2, PageIs
  <2>4. p <= p * PageSize /\ p * PageSize \in Nat
    BY <1>1, <2>3
  <2>5. PICK t \in Nat, r \in Nat : t = p \div TablePages /\ p = t * TablePages + r
    BY <1>1, <2>3, DivMod
  <2>6. t <= t * TablePages /\ t * TablePages \in Nat
    BY <1>1, <2>5
  <2>7. t <= p /\ p <= x
    BY <2>1, <2>3, <2>4, <2>5, <2>6
  <2>8. t \in 0 .. HeapEnd
    BY <1>1, <2>1, <2>3, <2>5, <2>7
  <2> QED BY <2>2, <2>5, <2>8 DEF TableOf
<1>3. T \in SUBSET (0 .. HeapEnd)
  BY <1>2
<1>4. IsFiniteSet(0 .. HeapEnd)
  BY <1>1, FS_Interval
<1> HIDE DEF T
<1>5. IsFiniteSet(T)
  BY <1>3, <1>4, FS_Subset
<1> QED BY <1>5 DEF T

----------------------------------------------------------------------------
(***************************************************************************)
(* The inductive invariant, for ordinary maps.                             *)
(***************************************************************************)

\* The region with the kernel image, the only one that gives frames.
Large(r) == mmap[r].avail /\ RegionEnd(mmap[r]) > KernelStart

\* s is n frames from h downwards.
Down(s, h, n) == n \in Nat /\ h \in Nat /\ n <= h /\ h < Word /\ s = [j \in 1 .. n |-> h - j + 1]

\* They lie in region r.
InRegion(r, h, n) ==
  /\ Large(r)
  /\ mmap[r].addr <= (h - n + 1) * PageSize /\ (h + 1) * PageSize <= RegionEnd(mmap[r])

\* The frame stack.
Collected ==
  \E h, n \in Nat :
    /\ Down(frames, h, n)
    /\ n > 0 => \E r \in DOMAIN mmap : InRegion(r, h, n) /\ (stage = "fill" => r < k)

Early == {"magic", "preserve", "scan"}

\* Frames, their counts, and the static heap below them.
Stacked ==
  /\ stage = "scan" => \A r \in DOMAIN mmap : r < k /\ mmap[r].avail => RegionEnd(mmap[r]) < Word
  /\ stage \notin Early => \A r \in DOMAIN mmap : mmap[r].avail => RegionEnd(mmap[r]) < Word
  /\ Collected
  /\ stage \in Early => frames = <<>>
  /\ stage = "map" \/ Booted =>
       \A j \in DOMAIN frames : /\ frames[j] >= frame_ref_cnt.base
                                /\ frames[j] < frame_ref_cnt.base + frame_ref_cnt.len
  /\ Booted => \A j \in DOMAIN frames : frames[j] > PageOf(kheap_static_end)

\* Static memory.
Static ==
  /\ kheap_static_end \in Nat /\ kheap_static_end > KernelStart
  /\ memsize \in Nat /\ k \in Nat \ {0}
  /\ stage \notin {"map"} /\ ~Booted => identity = {}
  /\ stage = "map" => /\ identity = 1 .. k - 1
                      /\ k > 1 => (k - 1) * PageSize < kheap_static_end
  /\ Booted => /\ identity = 1 .. PageOf(kheap_static_end - 1)
               /\ kernel_low_ntable = TableOf(PageOf(kheap_static_end - 1)) + 1
               /\ USER_MEM_LOW = kheap_finish_init(kheap_static_end)

IInv ==
  /\ stage \in Stages /\ mmap \in Maps /\ mod_end \in Nat
  /\ stage # "halt" /\ OrdinaryMap => Static /\ Stacked

\* A region of the map.
LEMMA RegionIs ==
  ASSUME mmap \in Maps, NEW r \in DOMAIN mmap
  PROVE  /\ mmap[r].avail \in BOOLEAN /\ mmap[r].addr \in Nat /\ mmap[r].len \in Nat
         /\ RegionEnd(mmap[r]) \in Nat
         /\ Len(mmap) \in Nat /\ DOMAIN mmap = 1 .. Len(mmap)
<1> DEFINE Regions == [avail : BOOLEAN, addr : Nat, len : Nat]
<1>1. mmap \in Seq(Regions)
  BY BootAssumption
<1> HIDE DEF Regions
<1>2. Len(mmap) \in Nat /\ DOMAIN mmap = 1 .. Len(mmap)
  BY <1>1
<1>3. mmap[r] \in Regions
  BY <1>1, <1>2, ElementOfSeq
<1> QED BY <1>2, <1>3 DEF Regions, RegionEnd

\* Only one region is large.
LEMMA OneLarge ==
  ASSUME mmap \in Maps, OrdinaryMap, NEW r \in DOMAIN mmap, NEW s \in DOMAIN mmap, Large(r), Large(s)
  PROVE  r = s
<1> DEFINE L == {x \in DOMAIN mmap : mmap[x].avail /\ RegionEnd(mmap[x]) > KernelStart}
<1>1. Cardinality(L) = 1
  BY DEF OrdinaryMap
<1>2. r \in L /\ s \in L
  BY DEF Large
<1>3. L \in SUBSET (1 .. Len(mmap)) /\ Len(mmap) \in Nat
  BY RegionIs
<1> HIDE DEF L
<1>4. IsFiniteSet(1 .. Len(mmap))
  BY <1>3, FS_Interval
<1>5. IsFiniteSet(L)
  BY <1>3, <1>4, FS_Subset
<1>6. PICK x : L = {x}
  BY <1>1, <1>5, FS_Singleton
<1> QED BY <1>2, <1>6

\* What the second loop of init_frames pushes for a region.
LEMMA RegionGives ==
  ASSUME mmap \in Maps, OrdinaryMap, NEW r \in DOMAIN mmap, mmap[r].avail, RegionEnd(mmap[r]) < Word,
         kheap_static_end \in Nat, kheap_static_end > KernelStart
  PROVE  \E h, n \in Nat : Down(RegionFrames(mmap[r]), h, n) /\ (n > 0 => InRegion(r, h, n))
<1>1. /\ PageSize \in Nat /\ PageSize > 0 /\ Word \in Nat /\ Word > 0 /\ KernelStart \in Nat
  BY BootAssumption
<1>2. PICK e \in Nat : e = RegionEnd(mmap[r]) /\ e < Word
  BY RegionIs
<1>3. PICK p : p = PageOf(e)
  OBVIOUS
<1>4. p \in Nat /\ p >= 2 /\ p * PageSize <= e
  <2>1. p \in Nat /\ p * PageSize <= e
    BY <1>3, PageIs
  <2>2. p >= 2
    BY <1>2, <1>3 DEF OrdinaryMap
  <2> QED BY <2>1, <2>2
<1>5. p <= e
  <2>1. p <= p * PageSize /\ p * PageSize \in Nat
    BY <1>1, <1>4
  <2> QED BY <1>4, <2>1
<1>6. PICK h \in Nat : h = p - 2
  BY <1>4
<1>7. (p - 2) % Word = h
  <2>1. h < Word
    BY <1>1, <1>2, <1>4, <1>5, <1>6
  <2>2. PICK z \in Nat : z = 0
    OBVIOUS
  <2>3. h = z * Word + h
    BY <1>1, <2>2
  <2>4. h % Word = h
    BY <1>1, <2>1, <2>2, <2>3, DivModUnique
  <2> QED BY <1>6, <2>4
<1>8. PICK kend : kend = PageOf(kheap_static_end)
  OBVIOUS
<1>9. kend \in Nat /\ kheap_static_end < kend * PageSize + PageSize
  BY <1>8, PageIs
<1>10. mmap[r].addr \in Nat
  BY RegionIs
<1>11. PICK g \in Nat, start \in Nat : g = get_aligned(mmap[r].addr, PageSize) /\ g = start * PageSize
                                       /\ mmap[r].addr <= g
  BY <1>1, <1>10, AlignedIs
<1>12. g \div PageSize = start
  <2>1. PICK z \in Nat : z = 0
    OBVIOUS
  <2>2. g = start * PageSize + z
    BY <1>11, <2>1
  <2> QED BY <1>1, <1>11, <2>1, <2>2, DivModUnique
<1>13. PICK low \in Nat : low = IF start > kend THEN start ELSE kend + 1
  BY <1>9, <1>11
<1>14. low > kend /\ low >= start
  BY <1>9, <1>11, <1>13
<1>15. RegionFrames(mmap[r]) = IF h < low THEN <<>> ELSE [j \in 1 .. h - low + 1 |-> h - j + 1]
  BY <1>2, <1>3, <1>7, <1>8, <1>11, <1>12, <1>13 DEF RegionFrames
<1>16. CASE h < low
  <2>1. PICK z \in Nat : z = 0
    OBVIOUS
  <2>2. <<>> = [j \in 1 .. z |-> z - j + 1]
    BY <2>1
  <2>3. Down(RegionFrames(mmap[r]), z, z)
    BY <1>1, <1>15, <1>16, <2>1, <2>2 DEF Down
  <2> QED BY <2>1, <2>3
<1>17. CASE ~(h < low)
  <2>1. PICK n \in Nat : n = h - low + 1
    BY <1>6, <1>13, <1>17
  <2>2. h - n + 1 = low /\ n <= h
    BY <1>6, <1>9, <1>13, <1>14, <2>1
  <2>3. h < Word
    BY <1>1, <1>2, <1>4, <1>5, <1>6
  <2>4. Down(RegionFrames(mmap[r]), h, n)
    BY <1>6, <1>15, <1>17, <2>1, <2>2, <2>3 DEF Down
  <2>5. start * PageSize <= low * PageSize
    BY <1>1, <1>11, <1>13, <1>14
  <2>6. mmap[r].addr <= low * PageSize
    <3>1. low * PageSize \in Nat
      BY <1>1, <1>13
    <3> QED BY <1>10, <1>11, <2>5, <3>1
  <2>7. (h + 1) * PageSize <= e
    <3>1. (h + 1) * PageSize <= p * PageSize
      BY <1>1, <1>4, <1>6
    <3>2. (h + 1) * PageSize \in Nat /\ p * PageSize \in Nat
      BY <1>1, <1>4, <1>6
    <3> QED BY <1>2, <1>4, <3>1, <3>2
  <2>8. e > KernelStart
    <3>1. (kend + 1) * PageSize <= (h + 1) * PageSize
      BY <1>1, <1>6, <1>9, <1>13, <1>14, <1>17
    <3>2. (kend + 1) * PageSize = kend * PageSize + PageSize /\ kend * PageSize \in Nat
      BY <1>1, <1>9
    <3>3. (h + 1) * PageSize \in Nat
      BY <1>1, <1>6
    <3>4. kheap_static_end < (h + 1) * PageSize
      BY <1>1, <1>9, <3>1, <3>2, <3>3
    <3> QED BY <1>1, <1>2, <2>7, <3>3, <3>4
  <2>9. InRegion(r, h, n)
    BY <1>2, <2>2, <2>6, <2>7, <2>8 DEF InRegion, Large
  <2> QED BY <2>4, <2>9
<1> QED BY <1>16, <1>17

----------------------------------------------------------------------------
(***************************************************************************)
(* Every step keeps it.                                                    *)
(***************************************************************************)

\* What a step may assume: the boot goes on, on an ordinary map, and the
\* static heap does not wrap around.
Ordinary ==
  /\ mmap \in Maps /\ mod_end \in Nat /\ OrdinaryMap /\ Static /\ Stacked
  /\ mmap' = mmap /\ stage' # "halt" /\ kheap_static_end' >= kheap_static_end

\* No frame has been collected.
LEMMA NoFrames == ASSUME frames = <<>> PROVE Collected
<1>1. PICK z \in Nat : z = 0
  OBVIOUS
<1>2. <<>> = [j \in 1 .. z |-> z - j + 1]
  BY <1>1
<1>3. Down(frames, z, z)
  BY <1>1, <1>2, BootAssumption DEF Down
<1> QED BY <1>1, <1>3 DEF Collected

\* Collecting is over.
LEMMA SameFrames ==
  ASSUME Collected, mmap' = mmap, frames' = frames, stage' # "fill"
  PROVE  Collected'
BY DEF Collected, Down, InRegion, Large, RegionEnd

\* The end of the static heap stays behind the kernel image.
LEMMA EndMoves ==
  ASSUME Ordinary, kheap_static_end' \in Nat
  PROVE  kheap_static_end' > KernelStart
<1>1. KernelStart \in Nat /\ kheap_static_end \in Nat /\ kheap_static_end > KernelStart
      /\ kheap_static_end' >= kheap_static_end
  BY BootAssumption DEF Ordinary, Static
<1> QED BY <1>1

\* kmain up to init_frames.
LEMMA MagicStep == ASSUME Ordinary, Magic PROVE Static' /\ Stacked'
<1>1. /\ stage = "magic" /\ stage' = "preserve" /\ k' = 1
      /\ UNCHANGED <<kheap_static_end, memsize, frames, identity>>
  BY DEF Ordinary, Magic, Go, Panic, pagevars
<1>2. Static'
  BY <1>1 DEF Ordinary, Static, Booted
<1>3. frames' = <<>>
  BY <1>1 DEF Ordinary, Stacked, Early
<1>4. Collected'
  BY <1>1, SameFrames DEF Ordinary, Stacked
<1> QED BY <1>1, <1>2, <1>3, <1>4 DEF Stacked, Early, Booted

\* The boot module and the directory.
LEMMA PreserveStep == ASSUME Ordinary, Preserve PROVE Static' /\ Stacked'
<1>1. PICK kept : /\ kept = IF mod_end = 0 THEN kheap_static_end
                            ELSE kheap_preserve_mem(kheap_static_end, mod_end + 1)
                  /\ kheap_static_end' = kmalloc_pre_init(kept, 2 * PageSize + 1, PageSize)
  BY DEF Preserve
<1>2. /\ stage = "preserve" /\ stage' = "scan" /\ k' = 1
      /\ UNCHANGED <<memsize, frames, identity>>
  BY DEF Preserve, Go
<1>3. kept \in Nat
  BY <1>1 DEF Ordinary, Static, kheap_preserve_mem
<1>4. PICK size \in Nat : size = 2 * PageSize + 1
  BY BootAssumption
<1>5. kheap_static_end' \in Nat
  <2>1. PageSize \in Nat /\ PageSize > 0
    BY BootAssumption
  <2>2. kmalloc_pre_init(kept, size, PageSize) \in Nat
    BY <1>3, <2>1, MallocIs
  <2> QED BY <1>1, <1>4, <2>2
<1>6. kheap_static_end' > KernelStart
  BY <1>5, EndMoves
<1>7. Static'
  BY <1>2, <1>5, <1>6 DEF Ordinary, Static, Booted
<1>8. frames' = <<>>
  BY <1>2 DEF Ordinary, Stacked, Early
<1>9. Collected'
  BY <1>2, SameFrames DEF Ordinary, Stacked
<1>10. \A r \in DOMAIN mmap' : ~(r < k')
  <2>1. \A r \in DOMAIN mmap : r \in Int /\ r >= 1
    BY RegionIs DEF Ordinary
  <2> QED BY <1>2, <2>1 DEF Ordinary
<1> QED BY <1>2, <1>7, <1>8, <1>9, <1>10 DEF Stacked, Early, Booted

\* The first loop of init_frames.
LEMMA ScanStep == ASSUME Ordinary, Scan PROVE Static' /\ Stacked'
<1>1. stage = "scan" /\ UNCHANGED <<frames, identity>> /\ mmap' = mmap
  BY DEF Scan, Ordinary
<1>2. /\ kheap_static_end \in Nat /\ memsize \in Nat /\ k \in Nat \ {0} /\ identity = {}
      /\ kheap_static_end > KernelStart
  BY <1>1 DEF Ordinary, Static, Booted
<1>3. frames' = <<>> /\ frames = <<>>
  BY <1>1 DEF Ordinary, Stacked, Early
<1>4. \A r \in DOMAIN mmap : r < k /\ mmap[r].avail => RegionEnd(mmap[r]) < Word
  BY <1>1 DEF Ordinary, Stacked
<1>5. \A r \in DOMAIN mmap : r \in Int /\ r <= Len(mmap) /\ RegionEnd(mmap[r]) \in Nat
  BY RegionIs DEF Ordinary
<1>6. Collected'
  <2>1. PICK z \in Nat : z = 0
    OBVIOUS
  <2>2. <<>> = [j \in 1 .. z |-> z - j + 1]
    BY <2>1
  <2>3. Down(frames, z, z)'
    BY <1>3, <2>1, <2>2, BootAssumption DEF Down
  <2> QED BY <2>1, <2>3 DEF Collected
<1>7. CASE k > Len(mmap)
  <2>1. /\ kheap_static_end' = kmalloc_pre_init(kheap_static_end, PageOf(memsize), 1)
        /\ stage' = "fill" /\ k' = 1 /\ memsize' = memsize
    BY <1>7 DEF Scan, Go
  <2>2. PICK size \in Nat, one \in Nat : size = PageOf(memsize) /\ one = 1
    BY <1>2, PageIs
  <2>3. kheap_static_end' \in Nat
    BY <1>2, <2>1, <2>2, MallocIs
  <2>4. kheap_static_end' > KernelStart
    BY <2>3, EndMoves
  <2>5. Static'
    BY <1>1, <1>2, <2>1, <2>3, <2>4 DEF Static, Booted
  <2>6. Len(mmap) \in Nat
    BY BootAssumption DEF Ordinary
  <2>7. \A r \in DOMAIN mmap : mmap[r].avail => RegionEnd(mmap[r]) < Word
    <3>1. \A r \in DOMAIN mmap : r < k
      BY <1>2, <1>5, <1>7, <2>6
    <3> QED BY <1>4, <3>1
  <2>8. \A r \in DOMAIN mmap' : mmap'[r].avail => RegionEnd(mmap'[r]) < Word
    BY <1>1, <2>7 DEF RegionEnd
  <2> QED BY <1>6, <2>1, <2>5, <2>8 DEF Stacked, Early, Booted, RegionEnd
<1>8. CASE ~(k > Len(mmap))
  <2>1. ~(mmap[k].avail /\ TooLarge(mmap[k]))
    BY <1>8 DEF Scan, Panic, Ordinary
  <2>2. /\ memsize' = IF mmap[k].avail /\ RegionEnd(mmap[k]) > memsize THEN RegionEnd(mmap[k]) ELSE memsize
        /\ k' = k + 1 /\ stage' = stage /\ kheap_static_end' = kheap_static_end
    BY <1>8, <2>1 DEF Scan
  <2>3. Len(mmap) \in Nat /\ DOMAIN mmap = 1 .. Len(mmap)
    BY BootAssumption DEF Ordinary
  <2>4. k \in DOMAIN mmap
    BY <1>2, <1>8, <2>3
  <2>5. memsize' \in Nat
    BY <1>2, <1>5, <2>2, <2>4
  <2>6. k' \in Nat \ {0}
    BY <1>2, <2>2
  <2>7. Static'
    BY <1>1, <1>2, <2>2, <2>5, <2>6 DEF Static, Booted
  <2>8. ASSUME NEW r \in DOMAIN mmap, r < k + 1, mmap[r].avail PROVE RegionEnd(mmap[r]) < Word
    <3>1. CASE r = k
      <4>1. Word \in Nat /\ RegionEnd(mmap[r]) \in Nat
        BY <1>5, BootAssumption
      <4> QED BY <2>1, <2>8, <3>1, <4>1 DEF TooLarge
    <3>2. CASE r < k
      BY <1>4, <2>8, <3>2
    <3> QED BY <1>2, <1>5, <2>8, <3>1, <3>2
  <2>9. \A r \in DOMAIN mmap' : r < k' /\ mmap'[r].avail => RegionEnd(mmap'[r]) < Word
    BY <1>1, <2>2, <2>8 DEF RegionEnd
  <2> QED BY <1>1, <1>3, <1>6, <2>2, <2>7, <2>9 DEF Stacked, Early, Booted, RegionEnd
<1> QED BY <1>7, <1>8

\* The second loop.
LEMMA FillStep == ASSUME Ordinary, Fill PROVE Static' /\ Stacked'
<1>1. stage = "fill" /\ UNCHANGED <<kheap_static_end, memsize, identity, mmap>>
  BY DEF Fill, mbd
<1>2. /\ kheap_static_end \in Nat /\ memsize \in Nat /\ k \in Nat \ {0} /\ identity = {}
      /\ kheap_static_end > KernelStart /\ mmap \in Maps /\ OrdinaryMap
  BY <1>1 DEF Ordinary, Static, Booted
<1>3. \A r \in DOMAIN mmap : mmap[r].avail => RegionEnd(mmap[r]) < Word
  BY <1>1 DEF Ordinary, Stacked, Early
<1>4. \A r \in DOMAIN mmap' : mmap'[r].avail => RegionEnd(mmap'[r]) < Word
  BY <1>1, <1>3 DEF RegionEnd
<1>5. PICK h \in Nat, n \in Nat :
        /\ Down(frames, h, n)
        /\ n > 0 => \E r \in DOMAIN mmap : InRegion(r, h, n) /\ r < k
  BY <1>1 DEF Ordinary, Stacked, Collected
<1>6. CASE k > Len(mmap)
  <2>1. stage' = "heap" /\ k' = 1 /\ frames' = frames
    BY <1>6 DEF Fill, Go
  <2>2. Static'
    BY <1>1, <1>2, <2>1 DEF Static, Booted
  <2>3. Collected'
    BY <1>1, <2>1, SameFrames DEF Ordinary, Stacked
  <2> QED BY <1>4, <2>1, <2>2, <2>3 DEF Stacked, Early, Booted, RegionEnd
<1>7. CASE ~(k > Len(mmap))
  <2>1. /\ stage' = "fill" /\ k' = k + 1
        /\ frames' = IF mmap[k].avail THEN frames \o RegionFrames(mmap[k]) ELSE frames
    BY <1>1, <1>7 DEF Fill
  <2>2. Len(mmap) \in Nat /\ DOMAIN mmap = 1 .. Len(mmap)
    BY <1>2, BootAssumption
  <2>3. k \in DOMAIN mmap
    BY <1>2, <1>7, <2>2
  <2>4. k' \in Nat \ {0}
    BY <1>2, <2>1
  <2>5. Static'
    BY <1>1, <1>2, <2>1, <2>4 DEF Static, Booted
  <2>6. \A r \in DOMAIN mmap : r < k => r < k + 1
    BY <1>2, <2>2
  <2>7. ASSUME NEW g \in Nat, NEW m \in Nat, Down(frames', g, m),
               m > 0 => \E r \in DOMAIN mmap : InRegion(r, g, m) /\ r < k + 1
        PROVE  Collected'
    <3>1. Down(frames, g, m)'
      BY <2>7 DEF Down
    <3>2. m > 0 => \E r \in DOMAIN mmap' : InRegion(r, g, m)' /\ (stage' = "fill" => r < k')
      BY <1>1, <2>1, <2>7 DEF InRegion, Large, RegionEnd
    <3> QED BY <3>1, <3>2 DEF Collected
  <2>8. CASE frames' = frames
    <3>1. Down(frames', h, n)
      BY <1>5, <2>8
    <3>2. n > 0 => \E r \in DOMAIN mmap : InRegion(r, h, n) /\ r < k + 1
      BY <1>5, <2>6
    <3>3. Collected'
      BY <2>7, <3>1, <3>2
    <3> QED BY <1>4, <2>1, <2>5, <3>3 DEF Stacked, Early, Booted, RegionEnd
  <2>9. CASE mmap[k].avail
    <3>1. frames' = frames \o RegionFrames(mmap[k])
      BY <2>1, <2>9
    <3>2. RegionEnd(mmap[k]) < Word
      BY <1>3, <2>3, <2>9
    <3>3. PICK g \in Nat, m \in Nat :
            Down(RegionFrames(mmap[k]), g, m) /\ (m > 0 => InRegion(k, g, m))
      BY <1>2, <2>3, <2>9, <3>2, RegionGives
    <3>4. frames \in Seq(Int) /\ Len(frames) = n
      BY <1>5 DEF Down
    <3>5. PICK t : t = RegionFrames(mmap[k])
      OBVIOUS
    <3>6. t \in Seq(Int) /\ Len(t) = m
      BY <3>3, <3>5 DEF Down
    <3>7. m = 0 \/ n = 0
      <4> SUFFICES ASSUME m > 0, n > 0 PROVE FALSE
        BY <1>5, <3>3
      <4>1. PICK r \in DOMAIN mmap : InRegion(r, h, n) /\ r < k
        BY <1>5
      <4>2. Large(r) /\ Large(k)
        BY <3>3, <4>1 DEF InRegion
      <4>3. r = k
        BY <1>2, <2>3, <4>2, OneLarge
      <4> QED BY <1>2, <4>1, <4>3
    <3>8. CASE m = 0
      <4>1. t = <<>>
        BY <3>6, <3>8, EmptySeq
      <4>2. frames' = frames
        BY <3>1, <3>4, <3>5, <4>1, ConcatEmptySeq
      <4> QED BY <2>8, <4>2
    <3>9. CASE n = 0
      <4>1. frames = <<>>
        BY <3>4, <3>9, EmptySeq
      <4>2. frames' = t
        BY <3>1, <3>5, <3>6, <4>1, ConcatEmptySeq
      <4>3. Down(frames', g, m)
        BY <3>3, <3>5, <4>2
      <4>4. k < k + 1
        BY <1>2
      <4>5. m > 0 => \E r \in DOMAIN mmap : InRegion(r, g, m) /\ r < k + 1
        BY <2>3, <3>3, <4>4
      <4>6. Collected'
        BY <2>7, <4>3, <4>5
      <4> QED BY <1>4, <2>1, <2>5, <4>6 DEF Stacked, Early, Booted, RegionEnd
    <3> QED BY <3>7, <3>8, <3>9
  <2> QED BY <2>1, <2>8, <2>9
<1> QED BY <1>6, <1>7

\* kheap_init.
LEMMA HeapStep == ASSUME Ordinary, KheapInit PROVE Static' /\ Stacked'
<1> DEFINE T == {TableOf(PageOf(x)) : x \in HeapBegin .. HeapEnd - 1}
<1>1. stage = "heap" /\ UNCHANGED <<mmap, memsize, frames, identity>>
  BY DEF KheapInit, mbd
<1>2. \/ /\ stage' = "heap" /\ k' = k /\ kheap_static_end' = kheap_static_end
      \/ /\ stage' = "refcnt" /\ k' = 1 /\ kheap_static_end' = WithTables(kheap_static_end, T)
  BY <1>1 DEF KheapInit, NextObject, Go, Panic, Ordinary
<1>3. kheap_static_end' \in Nat
  <2>1. kheap_static_end \in Nat
    BY DEF Ordinary, Static
  <2>2. IsFiniteSet(T)
    BY HeapTablesFinite
  <2> HIDE DEF T
  <2>3. WithTables(kheap_static_end, T) \in Nat
    BY <2>1, <2>2, WithTablesIs
  <2> QED BY <1>2, <2>1, <2>3
<1>4. kheap_static_end' > KernelStart
  BY <1>3, EndMoves
<1>5. Static'
  BY <1>1, <1>2, <1>3, <1>4 DEF Ordinary, Static, Booted
<1>6. Collected'
  BY <1>1, <1>2, SameFrames DEF Ordinary, Stacked
<1>7. \A r \in DOMAIN mmap' : mmap'[r].avail => RegionEnd(mmap'[r]) < Word
  BY <1>1 DEF Ordinary, Stacked, Early, RegionEnd
<1> QED BY <1>2, <1>5, <1>6, <1>7 DEF Stacked, Early, Booted, RegionEnd

\* The counts of the frames.
LEMMA RefCntStep == ASSUME Ordinary, AllocRefCnt PROVE Static' /\ Stacked'
<1>1. /\ stage = "refcnt" /\ UNCHANGED <<mmap, memsize, frames, identity>> /\ frames # <<>>
      /\ stage' = "map" /\ k' = 1
      /\ frame_ref_cnt' = [base |-> frames[Len(frames)], len |-> RefCounts]
      /\ kheap_static_end' = kmalloc_pre_init(kheap_static_end, RefCounts, 1)
  BY DEF AllocRefCnt, mbd, Go, Panic, Ordinary
<1>2. PICK h \in Nat, n \in Nat : Down(frames, h, n)
  BY DEF Ordinary, Stacked, Collected
<1>3. /\ n <= h /\ h < Word /\ frames = [j \in 1 .. n |-> h - j + 1] /\ Word \in Nat
  BY <1>2, BootAssumption DEF Down
<1>4. frames \in Seq(Int) /\ Len(frames) = n
  BY <1>3
<1>5. n > 0
  <2>1. n = 0 => frames = <<>>
    BY <1>4, EmptySeq
  <2> QED BY <1>1, <2>1
<1>6. frames[1] = h /\ frames[n] = h - n + 1
  <2>1. 1 \in 1 .. n /\ n \in 1 .. n
    BY <1>5
  <2> QED BY <1>3, <2>1
<1>7. RefCounts = n
  <2>1. PICK z \in Nat : z = 0
    OBVIOUS
  <2>2. n < Word /\ Word > 0
    BY <1>3, <1>5
  <2>3. n = z * Word + n
    BY <1>3, <2>1
  <2>4. n % Word = n
    BY <1>3, <2>1, <2>2, <2>3, DivModUnique
  <2>5. h - (h - n + 1) + 1 = n
    OBVIOUS
  <2> QED BY <1>4, <1>6, <2>4, <2>5 DEF RefCounts
<1>8. kheap_static_end' \in Nat
  <2>1. kheap_static_end \in Nat
    BY DEF Ordinary, Static
  <2>2. PICK one \in Nat : one = 1
    OBVIOUS
  <2>3. kmalloc_pre_init(kheap_static_end, n, one) \in Nat
    BY <2>1, <2>2, MallocIs
  <2> QED BY <1>1, <1>7, <2>2, <2>3
<1>9. kheap_static_end' > KernelStart
  BY <1>8, EndMoves
<1>10. identity' = 1 .. 1 - 1
  <2>1. identity = {}
    BY <1>1 DEF Ordinary, Static, Booted
  <2> QED BY <1>1, <2>1
<1>11. Static'
  BY <1>1, <1>8, <1>9, <1>10 DEF Ordinary, Static, Booted
<1>12. Collected'
  BY <1>1, SameFrames DEF Ordinary, Stacked
<1>13. \A r \in DOMAIN mmap' : mmap'[r].avail => RegionEnd(mmap'[r]) < Word
  BY <1>1 DEF Ordinary, Stacked, Early, RegionEnd
<1>14. frame_ref_cnt'.base = h - n + 1 /\ frame_ref_cnt'.len = n
  BY <1>1, <1>4, <1>6, <1>7
<1>15. ASSUME NEW j \in DOMAIN frames'
       PROVE  /\ frames'[j] >= frame_ref_cnt'.base
              /\ frames'[j] < frame_ref_cnt'.base + frame_ref_cnt'.len
  <2>1. j \in 1 .. n /\ frames'[j] = h - j + 1
    BY <1>1, <1>3
  <2> QED BY <1>14, <2>1
<1> QED BY <1>1, <1>11, <1>12, <1>13, <1>15 DEF Stacked, Early, Booted, RegionEnd

\* The frames above the static heap are a part of the stack from its bottom.
LEMMA DroppedIs ==
  ASSUME NEW h \in Nat, NEW n \in Nat, Down(frames, h, n), NEW end \in Nat, Dropped(end) # <<>>
  PROVE  \E m \in 1 .. n : /\ Down(Dropped(end), h, m)
                           /\ \A j \in 1 .. m : Dropped(end)[j] = frames[j] /\ frames[j] > PageOf(end)
<1> DEFINE above == {j \in 1 .. Len(frames) : frames[j] > PageOf(end)}
<1>1. n <= h /\ h < Word /\ frames = [j \in 1 .. n |-> h - j + 1]
  BY DEF Down
<1>2. frames \in Seq(Int) /\ Len(frames) = n
  BY <1>1
<1>3. above # {} /\ Dropped(end) = SubSeq(frames, 1, CHOOSE j \in above : \A l \in above : l <= j)
  BY DEF Dropped
<1>4. PICK p \in Nat : p = PageOf(end)
  BY PageIs
<1>5. \A j \in above : j \in 1 .. n /\ h - j + 1 > p
  BY <1>1, <1>2, <1>4
<1>6. \A j \in 1 .. n : h - j + 1 > p => j \in above
  BY <1>1, <1>2, <1>4
<1> HIDE DEF above
<1>7. PICK i \in above : TRUE
  BY <1>3
<1>8. h > p
  BY <1>4, <1>5, <1>7
<1>9. PICK m \in Nat : m = IF n <= h - p THEN n ELSE h - p
  BY <1>4, <1>8
<1>10. m \in 1 .. n /\ h - m + 1 > p
  <2>1. n >= 1
    BY <1>5, <1>7
  <2> QED BY <1>4, <1>8, <1>9, <2>1
<1>11. m \in above /\ \A l \in above : l <= m
  BY <1>4, <1>5, <1>6, <1>9, <1>10
<1>12. (CHOOSE j \in above : \A l \in above : l <= j) = m
  <2>1. \A j \in above : (\A l \in above : l <= j) => j = m
    <3>1. \A j \in above : j \in Int
      BY <1>5
    <3> QED BY <1>11, <3>1
  <2> QED BY <1>11, <2>1
<1>13. Dropped(end) = SubSeq(frames, 1, m)
  BY <1>3, <1>12
<1>14. SubSeq(frames, 1, m) = [j \in 1 .. m |-> h - j + 1]
  <2>1. SubSeq(frames, 1, m) = [j \in 1 .. m |-> frames[j]]
    BY <1>2, <1>10
  <2>2. \A j \in 1 .. m : frames[j] = h - j + 1
    BY <1>1, <1>10
  <2> QED BY <2>1, <2>2
<1>15. Down(Dropped(end), h, m)
  BY <1>1, <1>10, <1>13, <1>14 DEF Down
<1>16. ASSUME NEW j \in 1 .. m PROVE Dropped(end)[j] = frames[j] /\ frames[j] > PageOf(end)
  <2>1. j \in 1 .. n /\ frames[j] = h - j + 1
    BY <1>1, <1>10
  <2>2. h - j + 1 > p
    BY <1>4, <1>10
  <2> QED BY <1>4, <1>13, <1>14, <2>1, <2>2
<1> QED BY <1>10, <1>15, <1>16

\* One page is mapped, or the loop ends.
LEMMA MapStep == ASSUME Ordinary, MapLow PROVE Static' /\ Stacked'
<1>1. stage = "map" /\ UNCHANGED <<mmap, memsize, frame_ref_cnt>>
  BY DEF MapLow, mbd
<1>2. /\ kheap_static_end \in Nat /\ kheap_static_end > KernelStart /\ k \in Nat \ {0}
      /\ identity = 1 .. k - 1
      /\ k > 1 => (k - 1) * PageSize < kheap_static_end
  BY <1>1 DEF Ordinary, Static
<1>3. \A j \in DOMAIN frames : /\ frames[j] >= frame_ref_cnt.base
                               /\ frames[j] < frame_ref_cnt.base + frame_ref_cnt.len
  BY <1>1 DEF Ordinary, Stacked
<1>4. \A r \in DOMAIN mmap' : mmap'[r].avail => RegionEnd(mmap'[r]) < Word
  BY <1>1 DEF Ordinary, Stacked, Early, RegionEnd
<1>5. PageSize \in Nat /\ PageSize > 0 /\ KernelStart \in Nat
  BY BootAssumption
<1>6. CASE MoreToMap(k)
  <2>1. /\ kheap_static_end' = WithTables(kheap_static_end, {TableOf(k)})
        /\ identity' = identity \cup {k} /\ k' = k + 1 /\ stage' = stage /\ frames' = frames
    BY <1>6 DEF MapLow
  <2>2. IsFiniteSet({TableOf(k)})
    BY FS_Singleton
  <2>3. kheap_static_end' \in Nat
    BY <1>2, <2>1, <2>2, WithTablesIs
  <2>4. kheap_static_end' > KernelStart
    BY <2>3, EndMoves
  <2>5. k * PageSize < kheap_static_end'
    <3>1. k * PageSize < kheap_static_end /\ kheap_static_end' >= kheap_static_end
      BY <1>6 DEF MoreToMap, Ordinary
    <3>2. k * PageSize \in Nat
      BY <1>2, <1>5
    <3> QED BY <1>2, <2>3, <3>1, <3>2
  <2>6. identity' = 1 .. k' - 1 /\ k' \in Nat \ {0} /\ k' - 1 = k
    BY <1>2, <2>1
  <2>7. Static'
    BY <1>1, <2>1, <2>3, <2>4, <2>5, <2>6 DEF Ordinary, Static, Booted
  <2>8. Collected'
    BY <1>1, <2>1, SameFrames DEF Ordinary, Stacked
  <2> QED BY <1>1, <1>3, <1>4, <2>1, <2>7, <2>8 DEF Stacked, Early, Booted, RegionEnd
<1>7. CASE ~MoreToMap(k)
  <2>1. /\ frames' = Dropped(kheap_static_end) /\ stage' = "ctors" /\ k' = 1
        /\ Dropped(kheap_static_end) # <<>>
        /\ kernel_low_ntable' = TableOf(PageOf(kheap_static_end - 1)) + 1
        /\ USER_MEM_LOW' = kheap_finish_init(kheap_static_end)
        /\ UNCHANGED <<kheap_static_end, identity>>
    BY <1>7 DEF MapLow, Go, Panic, Ordinary
  <2>2. PICK last \in Nat : last = kheap_static_end - 1
    BY <1>2, <1>5
  <2>3. PageOf(last) = k - 1
    <3>1. PICK q \in Nat : q = k - 1
      BY <1>2
    <3>2. k * PageSize = q * PageSize + PageSize /\ q * PageSize \in Nat /\ k * PageSize \in Nat
      BY <1>2, <1>5, <3>1
    <3>3. ~(k * PageSize < kheap_static_end)
      BY <1>7 DEF MoreToMap
    <3>4. last < q * PageSize + PageSize
      BY <1>2, <1>5, <2>2, <3>2, <3>3
    <3>5. q * PageSize <= last
      <4>1. CASE k > 1
        <5>1. q * PageSize < kheap_static_end
          BY <1>2, <3>1, <4>1
        <5> QED BY <1>2, <2>2, <3>2, <5>1
      <4>2. CASE k = 1
        <5>1. q = 0
          BY <3>1, <4>2
        <5>2. q * PageSize = 0
          BY <1>5, <5>1
        <5> QED BY <2>2, <5>2
      <4> QED BY <1>2, <4>1, <4>2
    <3>6. PageOf(last) = q
      BY <3>4, <3>5, InPage
    <3> QED BY <3>1, <3>6
  <2>4. identity' = 1 .. PageOf(kheap_static_end' - 1)
    BY <1>2, <2>1, <2>2, <2>3
  <2>5. kernel_low_ntable' = TableOf(PageOf(kheap_static_end' - 1)) + 1
    BY <2>1
  <2>6. USER_MEM_LOW' = kheap_finish_init(kheap_static_end')
    BY <2>1
  <2>7. Static'
    BY <1>1, <1>2, <2>1, <2>4, <2>5, <2>6
       DEF Ordinary, Static, Booted, PageOf, TableOf, kheap_finish_init, get_aligned
  <2>8. PICK h \in Nat, n \in Nat :
          Down(frames, h, n) /\ (n > 0 => \E r \in DOMAIN mmap : InRegion(r, h, n))
    BY DEF Ordinary, Stacked, Collected
  <2>9. PICK m \in 1 .. n :
          /\ Down(frames', h, m)
          /\ \A j \in 1 .. m : frames'[j] = frames[j] /\ frames[j] > PageOf(kheap_static_end)
    BY <1>2, <2>1, <2>8, DroppedIs
  <2>10. m \in Nat /\ n > 0 /\ m <= n
    BY <2>9
  <2>11. PICK r \in DOMAIN mmap : InRegion(r, h, n)
    BY <2>8, <2>10
  <2>12. InRegion(r, h, m)
    <3>1. mmap[r].addr \in Nat
      BY <2>11, RegionIs DEF Ordinary
    <3>2. n <= h
      BY <2>8 DEF Down
    <3>3. (h - n + 1) * PageSize <= (h - m + 1) * PageSize
      BY <1>5, <2>10, <3>2
    <3>4. (h - n + 1) * PageSize \in Nat /\ (h - m + 1) * PageSize \in Nat
      BY <1>5, <2>10, <3>2
    <3>5. mmap[r].addr <= (h - n + 1) * PageSize
      BY <2>11 DEF InRegion
    <3>6. mmap[r].addr <= (h - m + 1) * PageSize
      BY <3>1, <3>3, <3>4, <3>5
    <3> QED BY <2>11, <3>6 DEF InRegion
  <2>13. Collected'
    <3>1. Down(frames, h, m)'
      BY <2>9 DEF Down
    <3>2. r \in DOMAIN mmap' /\ InRegion(r, h, m)' /\ stage' # "fill"
      BY <1>1, <2>1, <2>12 DEF InRegion, Large, RegionEnd
    <3> QED BY <2>10, <3>1, <3>2 DEF Collected
  <2>14. DOMAIN frames' = 1 .. m /\ 1 .. m \subseteq DOMAIN frames
    <3>1. DOMAIN frames' = 1 .. m /\ DOMAIN frames = 1 .. n
      BY <2>8, <2>9 DEF Down
    <3> QED BY <2>10, <3>1
  <2>15. \A j \in DOMAIN frames' : /\ frames'[j] >= frame_ref_cnt'.base
                                   /\ frames'[j] < frame_ref_cnt'.base + frame_ref_cnt'.len
    BY <1>1, <1>3, <2>9, <2>14
  <2>16. \A j \in DOMAIN frames' : frames'[j] > PageOf(kheap_static_end')
    BY <2>1, <2>9, <2>14
  <2> QED BY <1>4, <2>1, <2>7, <2>13, <2>15, <2>16 DEF Stacked, Early, Booted, RegionEnd, PageOf
<1> QED BY <1>6, <1>7

\* The rest of kmain leaves the memory alone.
LEMMA KmainStep ==
  ASSUME Ordinary, UNCHANGED pagevars, Booted, Booted', k' \in Nat \ {0}
  PROVE  Static' /\ Stacked'
<1>1. UNCHANGED <<mmap, kheap_static_end, memsize, frames, frame_ref_cnt, identity, kernel_low_ntable,
                  USER_MEM_LOW>>
  BY DEF pagevars, mbd
<1>2. stage \notin Early \cup {"fill", "map"} /\ stage' \notin Early \cup {"fill", "map"}
  BY DEF Booted, Early
<1>3. Static'
  BY <1>1, <1>2 DEF Ordinary, Static, PageOf, TableOf, kheap_finish_init, get_aligned
<1>4. Collected'
  BY <1>1, <1>2, SameFrames DEF Ordinary, Stacked
<1>5. Stacked'
  <2>1. stage # "scan" /\ stage' # "scan"
    BY <1>2 DEF Early
  <2>2. \A r \in DOMAIN mmap' : mmap'[r].avail => RegionEnd(mmap'[r]) < Word
    BY <1>1, <1>2 DEF Ordinary, Stacked, RegionEnd
  <2>3. \A j \in DOMAIN frames' : /\ frames'[j] >= frame_ref_cnt'.base
                                  /\ frames'[j] < frame_ref_cnt'.base + frame_ref_cnt'.len
    BY <1>1 DEF Ordinary, Stacked
  <2>4. \A j \in DOMAIN frames' : frames'[j] > PageOf(kheap_static_end)'
    BY <1>1 DEF Ordinary, Stacked, PageOf
  <2> QED BY <1>2, <1>4, <2>1, <2>2, <2>3, <2>4 DEF Stacked, RegionEnd
<1> QED BY <1>3, <1>5

\* A step of kmain that goes on keeps the invariant.
LEMMA OrdinaryNext == ASSUME Ordinary, Next PROVE Static' /\ Stacked'
<1>1. CASE Constructors
  <2>1. UNCHANGED pagevars /\ stage = "ctors" /\ stage' \in {"ctors", "stack"} /\ k' \in {k, 1}
    BY <1>1 DEF Constructors, NextObject, Go, Panic, Ordinary
  <2>2. k' \in Nat \ {0}
    BY <2>1 DEF Ordinary, Static
  <2> QED BY <2>1, <2>2, KmainStep DEF Booted
<1>2. CASE MoveStack
  <2>1. UNCHANGED pagevars /\ stage = "stack" /\ stage' = "run" /\ k' = 1
    BY <1>2 DEF MoveStack, Go
  <2> QED BY <2>1, KmainStep DEF Booted
<1>3. CASE Finalize
  <2>1. UNCHANGED pagevars /\ stage \in {"run", "finalize"}
        /\ stage' \in {"run", "finalize", "done"} /\ k' \in {k, 1}
    BY <1>3 DEF Finalize, Go
  <2>2. k' \in Nat \ {0}
    BY <2>1 DEF Ordinary, Static
  <2> QED BY <2>1, <2>2, KmainStep DEF Booted
<1> QED BY <1>1, <1>2, <1>3, MagicStep, PreserveStep, ScanStep, FillStep, HeapStep, RefCntStep, MapStep
    DEF Next

\* The state the boot loader leaves.
LEMMA InitIInv == Init => IInv
<1> SUFFICES ASSUME Init PROVE IInv
  OBVIOUS
<1>1. /\ mmap \in Maps /\ mod_end \in ModuleEnds /\ stage = "magic" /\ k = 1 /\ memsize = 0
      /\ frames = <<>> /\ identity = {}
      /\ \E end \in ImageEnds : kheap_static_end = end + 1
  BY DEF Init
<1>2. kheap_static_end \in Nat /\ kheap_static_end > KernelStart /\ mod_end \in Nat
  BY <1>1, BootAssumption
<1>3. Static
  BY <1>1, <1>2 DEF Static, Booted
<1>4. Collected
  BY <1>1, NoFrames
<1>5. Stacked
  BY <1>1, <1>4 DEF Stacked, Early, Booted
<1> QED BY <1>1, <1>2, <1>3, <1>5 DEF IInv, Stages

\* No step changes the memory map, or leads to an unknown stage.
LEMMA SameMap ==
  ASSUME Next, stage \in Stages
  PROVE  mmap' = mmap /\ mod_end' = mod_end /\ stage' \in Stages /\ stage # "halt"
<1>1. mmap' = mmap /\ mod_end' = mod_end
  BY DEF Next, Magic, Preserve, Scan, Fill, KheapInit, AllocRefCnt, MapLow, Constructors, MoveStack,
         Finalize, pagevars, mbd
<1>2. CASE Magic \/ Preserve \/ Scan \/ Fill
  BY <1>1, <1>2 DEF Magic, Preserve, Scan, Fill, Go, Panic, Stages
<1>3. CASE KheapInit \/ AllocRefCnt \/ MapLow
  BY <1>1, <1>3 DEF KheapInit, NextObject, AllocRefCnt, MapLow, Go, Panic, Stages
<1>4. CASE Constructors \/ MoveStack \/ Finalize
  BY <1>1, <1>4 DEF Constructors, NextObject, MoveStack, Finalize, Go, Panic, Stages
<1> QED BY <1>2, <1>3, <1>4 DEF Next

\* Every step keeps the invariant, unless the static heap wraps around.
LEMMA NextIInv == IInv /\ [Next]_vars /\ [Grows]_vars => IInv'
<1> SUFFICES ASSUME IInv, [Next]_vars, [Grows]_vars PROVE IInv'
  OBVIOUS
<1>1. CASE UNCHANGED vars
  <2>1. /\ UNCHANGED <<mmap, mod_end, stage, k, kheap_static_end, memsize, frames, frame_ref_cnt>>
        /\ UNCHANGED <<identity, kernel_low_ntable, USER_MEM_LOW>>
    BY <1>1 DEF vars, pagevars, mbd
  <2>2. OrdinaryMap' = OrdinaryMap
    BY <2>1 DEF OrdinaryMap, RegionEnd, PageOf
  <2>3. Static' = Static
    BY <2>1 DEF Static, Booted, PageOf, TableOf, kheap_finish_init, get_aligned
  <2>4. Stacked' = Stacked
    BY <2>1 DEF Stacked, Collected, Down, InRegion, Large, RegionEnd, Booted, PageOf, Early
  <2> QED BY <2>1, <2>2, <2>3, <2>4 DEF IInv
<1>2. CASE Next
  <2>1. mmap' = mmap /\ mod_end' = mod_end /\ stage' \in Stages /\ stage # "halt"
    BY <1>2, SameMap DEF IInv
  <2>2. OrdinaryMap' => OrdinaryMap
    BY <2>1 DEF OrdinaryMap, RegionEnd, PageOf
  <2>3. ASSUME stage' # "halt", OrdinaryMap PROVE Static' /\ Stacked'
    <3>1. Static /\ Stacked
      BY <2>1, <2>3 DEF IInv
    <3>2. kheap_static_end' >= kheap_static_end
      <4>1. kheap_static_end \in Nat
        BY <3>1 DEF Static
      <4>2. CASE Grows
        BY <2>3, <4>2 DEF Grows
      <4>3. CASE UNCHANGED vars
        BY <4>1, <4>3 DEF vars, pagevars
      <4> QED BY <4>2, <4>3
    <3>3. Ordinary
      BY <2>1, <2>3, <3>1, <3>2 DEF Ordinary, IInv
    <3> QED BY <1>2, <3>3, OrdinaryNext
  <2> QED BY <2>1, <2>2, <2>3 DEF IInv
<1> QED BY <1>1, <1>2

----------------------------------------------------------------------------
(***************************************************************************)
(* Theorems.                                                               *)
(***************************************************************************)

\* The inductive invariant holds as long as the static heap does not wrap
\* around.
THEOREM Invariance == Spec /\ HeapGrows => []IInv
<1>1. Init => IInv
  BY InitIInv
<1>2. IInv /\ [Next]_vars /\ [Grows]_vars => IInv'
  BY NextIInv
<1> QED BY <1>1, <1>2, PTL DEF Spec, HeapGrows

\* On an ordinary map static memory is mapped to itself when paging is
\* switched on, the tables that the mapping loop itself allocates included;
\* clone_directory links the tables of static memory, and user memory begins
\* behind them.
THEOREM MapsStaticMemory == Spec /\ HeapGrows => []StaticMapped
<1>1. ASSUME IInv PROVE StaticMapped
  <2> SUFFICES ASSUME Booted, OrdinaryMap
               PROVE  /\ identity = 1 .. PageOf(kheap_static_end - 1)
                      /\ {TableOf(p) : p \in identity} \subseteq 0 .. kernel_low_ntable - 1
                      /\ TableOf(PageOf(USER_MEM_LOW)) >= kernel_low_ntable
    BY DEF StaticMapped
  <2>1. /\ kheap_static_end \in Nat /\ kheap_static_end > KernelStart
        /\ identity = 1 .. PageOf(kheap_static_end - 1)
        /\ kernel_low_ntable = TableOf(PageOf(kheap_static_end - 1)) + 1
        /\ USER_MEM_LOW = kheap_finish_init(kheap_static_end)
    BY <1>1 DEF IInv, Static, Booted
  <2>2. /\ PageSize \in Nat /\ PageSize > 0 /\ TablePages \in Nat /\ TablePages > 0 /\ KernelStart \in Nat
    BY BootAssumption
  <2>3. PICK last \in Nat : last = kheap_static_end - 1
    BY <2>1, <2>2
  <2>4. PICK q \in Nat : q = PageOf(last)
    BY PageIs
  <2>5. PICK t \in Nat : t = TableOf(q)
    BY <2>2, DivMod DEF TableOf
  <2>6. ASSUME NEW p \in identity PROVE TableOf(p) \in 0 .. kernel_low_ntable - 1
    <3>1. p \in Nat /\ p <= q
      BY <2>1, <2>3, <2>4
    <3>2. TableOf(p) \in Nat
      BY <2>2, <3>1, DivMod DEF TableOf
    <3>3. TableOf(p) <= t
      BY <2>2, <2>5, <3>1, DivMonotone DEF TableOf
    <3>4. kernel_low_ntable = t + 1
      BY <2>1, <2>3, <2>4, <2>5
    <3> QED BY <3>2, <3>3, <3>4
  <2>7. TableOf(PageOf(USER_MEM_LOW)) = t + 1
    <3>1. PICK size \in Nat : size = PageSize * TablePages /\ size > 0
      BY <2>2
    <3>2. last \div size = t
      BY <2>2, <2>4, <2>5, <3>1, DivDiv DEF PageOf, TableOf
    <3>3. kheap_static_end # 0
      BY <2>1, <2>2
    <3>4. USER_MEM_LOW = (t + 1) * size
      BY <2>1, <2>3, <3>1, <3>2, <3>3 DEF kheap_finish_init, get_aligned
    <3>5. PICK x \in Nat : x = USER_MEM_LOW
      BY <3>1, <3>4
    <3>6. x \div size = t + 1
      <4>1. PICK z \in Nat, u \in Nat : z = 0 /\ u = t + 1
        OBVIOUS
      <4>2. x = u * size + z
        BY <3>1, <3>4, <3>5, <4>1
      <4> QED BY <3>1, <4>1, <4>2, DivModUnique
    <3>7. (x \div PageSize) \div TablePages = x \div size
      BY <2>2, <3>1, DivDiv
    <3> QED BY <3>5, <3>6, <3>7 DEF PageOf, TableOf
  <2>8. TableOf(PageOf(USER_MEM_LOW)) >= kernel_low_ntable
    BY <2>1, <2>3, <2>4, <2>5, <2>7
  <2> QED BY <2>1, <2>6, <2>8
<1> QED BY <1>1, Invariance, PTL

\* On an ordinary map the frame stack holds distinct frames of available
\* memory above everything the kernel has allocated, and each of them has its
\* count inside the array.
THEOREM CollectsUsableFrames == Spec /\ HeapGrows => []FramesUsable
<1>1. ASSUME IInv PROVE FramesUsable
  <2> SUFFICES ASSUME Booted, OrdinaryMap
               PROVE  /\ Cardinality(Usable) = Len(frames)
                      /\ \A f \in Usable :
                           /\ f * PageSize >= kheap_static_end
                           /\ f >= frame_ref_cnt.base /\ f < frame_ref_cnt.base + frame_ref_cnt.len
                           /\ \E r \in DOMAIN mmap : /\ mmap[r].avail
                                                     /\ mmap[r].addr <= f * PageSize
                                                     /\ (f + 1) * PageSize <= RegionEnd(mmap[r])
    BY DEF FramesUsable
  <2>1. Static /\ Stacked /\ mmap \in Maps /\ stage \notin {"fill", "halt"}
    BY <1>1 DEF IInv, Booted
  <2>2. kheap_static_end \in Nat /\ PageSize \in Nat /\ PageSize > 0
    BY <2>1, BootAssumption DEF Static
  <2>3. PICK h \in Nat, n \in Nat :
          Down(frames, h, n) /\ (n > 0 => \E r \in DOMAIN mmap : InRegion(r, h, n))
    BY <2>1 DEF Stacked, Collected
  <2>4. n <= h /\ frames = [j \in 1 .. n |-> h - j + 1]
    BY <2>3 DEF Down
  <2>5. Len(frames) = n /\ DOMAIN frames = 1 .. n
    BY <2>4
  <2>6. PICK low \in Nat : low = h - n + 1
    BY <2>3, <2>4
  <2>7. Usable = low .. h
    <3>1. ASSUME NEW f \in Usable PROVE f \in low .. h
      <4>1. PICK j \in 1 .. n : f = h - j + 1
        BY <2>4, <3>1 DEF Usable
      <4> QED BY <2>4, <2>6, <4>1
    <3>2. ASSUME NEW f \in low .. h PROVE f \in Usable
      <4>1. PICK j \in 1 .. n : j = h - f + 1
        BY <2>4, <2>6
      <4>2. frames[j] = f
        BY <2>4, <4>1
      <4> QED BY <2>5, <4>1, <4>2 DEF Usable
    <3> QED BY <3>1, <3>2
  <2>8. Cardinality(Usable) = n
    <3>1. low \in Int /\ h \in Int
      OBVIOUS
    <3>2. Cardinality(low .. h) = IF low > h THEN 0 ELSE h - low + 1
      BY <3>1, FS_Interval
    <3> QED BY <2>4, <2>6, <2>7, <3>2
  <2>9. ASSUME NEW f \in Usable
        PROVE  /\ f * PageSize >= kheap_static_end
               /\ f >= frame_ref_cnt.base /\ f < frame_ref_cnt.base + frame_ref_cnt.len
               /\ \E r \in DOMAIN mmap : /\ mmap[r].avail
                                         /\ mmap[r].addr <= f * PageSize
                                         /\ (f + 1) * PageSize <= RegionEnd(mmap[r])
    <3>1. f \in Nat /\ low <= f /\ f <= h
      BY <2>6, <2>7
    <3>2. PICK j \in DOMAIN frames : frames[j] = f
      BY DEF Usable
    <3>3. f >= frame_ref_cnt.base /\ f < frame_ref_cnt.base + frame_ref_cnt.len
      BY <2>1, <3>2 DEF Stacked
    <3>4. PICK p : p = PageOf(kheap_static_end)
      OBVIOUS
    <3>5. p \in Nat /\ kheap_static_end < p * PageSize + PageSize /\ f > p
      BY <2>1, <2>2, <3>2, <3>4, PageIs DEF Stacked
    <3>6. f * PageSize >= kheap_static_end
      <4>1. p * PageSize + PageSize <= f * PageSize
        BY <2>2, <3>1, <3>5
      <4>2. p * PageSize \in Nat /\ f * PageSize \in Nat
        BY <2>2, <3>1, <3>5
      <4> QED BY <2>2, <3>5, <4>1, <4>2
    <3>7. n > 0
      BY <2>6, <3>1
    <3>8. PICK r \in DOMAIN mmap : InRegion(r, h, n)
      BY <2>3, <3>7
    <3>9. mmap[r].addr \in Nat /\ RegionEnd(mmap[r]) \in Nat
      BY <2>1, RegionIs
    <3>10. /\ mmap[r].avail /\ mmap[r].addr <= low * PageSize
           /\ (h + 1) * PageSize <= RegionEnd(mmap[r])
      BY <2>6, <3>8 DEF InRegion, Large
    <3>11. low * PageSize <= f * PageSize /\ (f + 1) * PageSize <= (h + 1) * PageSize
      BY <2>2, <2>6, <3>1
    <3>12. /\ low * PageSize \in Nat /\ f * PageSize \in Nat
           /\ (f + 1) * PageSize \in Nat /\ (h + 1) * PageSize \in Nat
      BY <2>2, <2>6, <3>1
    <3>13. mmap[r].addr <= f * PageSize /\ (f + 1) * PageSize <= RegionEnd(mmap[r])
      BY <3>9, <3>10, <3>11, <3>12
    <3> QED BY <3>3, <3>6, <3>10, <3>13
  <2> QED BY <2>5, <2>8, <2>9
<1> QED BY <1>1, Invariance, PTL
=============================================================================
