--------------------------------- MODULE Cxx ---------------------------------
(***************************************************************************)
(* C++ support of JKOS (lib/cxxsupport.cpp): the constructors of global    *)
(* objects, the table of destructors that __cxa_atexit fills, and          *)
(* cxxsupport_finalize, which kmain calls last: the functions of .dtors,   *)
(* then __cxa_finalize(NULL).  One step is one of these functions.  Which  *)
(* objects have a destructor is left open: the compiler calls __cxa_atexit *)
(* for those only, and of the kernel's present objects none has one.       *)
(* __cxa_finalize with a function is called by nothing.                    *)
(***************************************************************************)
EXTENDS Integers, Sequences

CONSTANTS
  NATEXIT_FUNCS_MAX,
  HeapObjects,      \* global objects of kheap.o: kheap_start_ctors .. start_ctors
  MaxObjects,       \* bound: global objects in all
  Dtors             \* functions in start_dtors .. end_dtors

ASSUME CxxAssumption ==
  /\ {NATEXIT_FUNCS_MAX, HeapObjects, MaxObjects, Dtors} \subseteq Nat
  /\ HeapObjects <= MaxObjects

VARIABLES
  built,          \* built[n]: has the n-th object constructed a destructor?
  atexit_funcs,   \* atexit_funcs[0 .. natexit_funcs - 1], by object
  called,         \* functions of .dtors called so far
  at,             \* loop variable of __cxa_finalize
  destroyed       \* objects in the order their destructors ran

cxxvars == <<built, atexit_funcs, called, at, destroyed>>

CxxInit ==
  /\ built = <<>> /\ atexit_funcs = <<>> /\ called = 0 /\ at = 0 /\ destroyed = <<>>

\* No room for another destructor: __cxa_atexit panics.
AtexitFull == Len(atexit_funcs) = NATEXIT_FUNCS_MAX

\* The next global object: its constructor runs, and __cxa_atexit notes its
\* destructor if it has one.
Construct(dtor) ==
  /\ built' = Append(built, dtor)
  /\ \/ ~dtor /\ UNCHANGED atexit_funcs
     \/ dtor /\ ~AtexitFull /\ atexit_funcs' = Append(atexit_funcs, Len(built) + 1)
  /\ UNCHANGED <<called, at, destroyed>>

\* cxxsupport_finalize calls the next function of .dtors ...
RunDtor ==
  /\ called < Dtors
  /\ called' = called + 1
  /\ UNCHANGED <<built, atexit_funcs, at, destroyed>>

\* ... and after the last one __cxa_finalize(NULL).
FinalizeEnter ==
  /\ called = Dtors
  /\ at' = Len(atexit_funcs)
  /\ UNCHANGED <<built, atexit_funcs, called, destroyed>>

\* Mutant of FinalizeMore: (-- i) > 0.
FinalizeMoreStrict == at > 1

FinalizeMore == at > 0

FinalizeStep ==
  /\ FinalizeMore
  /\ at' = at - 1
  /\ destroyed' = Append(destroyed, atexit_funcs[at])
  /\ UNCHANGED <<built, atexit_funcs, called>>

FinalizeEnd ==
  /\ ~FinalizeMore
  /\ atexit_funcs' = <<>>
  /\ UNCHANGED <<built, called, at, destroyed>>
=============================================================================
