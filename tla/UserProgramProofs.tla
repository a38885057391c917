-------------------------- MODULE UserProgramProofs --------------------------
(***************************************************************************)
(* Theorems about tasks, the console and the initial program, which        *)
(* composes them, for every number of tasks, every screen and every text.  *)
(*                                                                         *)
(* Parts: the rings of Task_queue; Task by itself (Spec); tasks under the  *)
(* program (ProgSpec); numbers and formats; the screen.                    *)
(***************************************************************************)
EXTENDS UserProgram, NatLemmas, SequenceTheorems, TLAPS

----------------------------------------------------------------------------
(***************************************************************************)
(* Task_queue::insert and Task_queue::remove keep every queue a single     *)
(* doubly linked ring, for any number of tasks and queues.                 *)
(***************************************************************************)

\* Links between the tasks of P and the queues of Q.
Links(P, Q) == [next : [P -> P \cup {NULL}], prev : [P -> P \cup {NULL}],
                ptr  : [Q -> P \cup {NULL}]]

\* A part of a ring that is closed under next and nonempty is the ring;
\* stated for one set, as the proofs use it.
LEMMA ClosedIsAll ==
  ASSUME NEW L, NEW M, OneRing(L, M), NEW S \in SUBSET M, S # {},
         \A t \in S : L.next[t] \in S
  PROVE  S = M
BY DEF OneRing

\* Task_queue::insert puts a task that is in no queue into the ring of its
\* queue and leaves the ring of the other queue alone.
LEMMA InsertRing ==
  ASSUME NEW P, NEW Q, NULL \notin P, NEW L \in Links(P, Q),
         NEW q \in Q, NEW q2 \in Q, q # q2,
         NEW M \in SUBSET P, NEW M2 \in SUBSET P,
         Ring(L, q, M), Ring(L, q2, M2),
         NEW t \in P, t \notin M, t \notin M2, M \cap M2 = {}
  PROVE  /\ Insert(L, q, t) \in Links(P, Q)
         /\ Ring(Insert(L, q, t), q, M \cup {t})
         /\ Ring(Insert(L, q, t), q2, M2)
<1> DEFINE K == Insert(L, q, t)
           p == L.ptr[q]
           n == L.next[p]
<1>0. /\ L.next \in [P -> P \cup {NULL}] /\ L.prev \in [P -> P \cup {NULL}]
      /\ L.ptr \in [Q -> P \cup {NULL}]
  BY DEF Links
<1>1. CASE M = {}
  <2>1. p = NULL
    BY <1>1 DEF Ring
  <2>2. K = [next |-> [L.next EXCEPT ![t] = t], prev |-> [L.prev EXCEPT ![t] = t],
             ptr  |-> [L.ptr EXCEPT ![q] = t]]
    BY <2>1 DEF Insert
  <2>3. K \in Links(P, Q)
    BY <2>2, <1>0 DEF Links
  <2>4. K.next[t] = t /\ K.prev[t] = t /\ K.ptr[q] = t
    BY <2>2, <1>0
  <2>5. Ring(K, q, M \cup {t})
    BY <2>4, <1>1 DEF Ring, Linked, OneRing
  <2>6. K.ptr[q2] = L.ptr[q2] /\ \A u \in M2 : K.next[u] = L.next[u] /\ K.prev[u] = L.prev[u]
    BY <2>2, <1>0
  <2>7. Ring(K, q2, M2)
    BY <2>6 DEF Ring, Linked, OneRing
  <2> QED BY <2>3, <2>5, <2>7
<1>2. CASE M # {}
  <2>1. p \in M /\ p # NULL /\ p # t /\ n \in M /\ n # t
    BY <1>2 DEF Ring, Linked
  <2>2. K = [next |-> [L.next EXCEPT ![t] = n, ![p] = t],
             prev |-> [L.prev EXCEPT ![n] = t, ![t] = p], ptr |-> L.ptr]
    BY <2>1 DEF Insert
  <2>3. K \in Links(P, Q)
    BY <2>1, <2>2, <1>0 DEF Links
  <2>4. /\ K.next[t] = n /\ K.next[p] = t
        /\ K.prev[n] = t /\ K.prev[t] = p
        /\ \A u \in P : u # t /\ u # p => K.next[u] = L.next[u]
        /\ \A u \in P : u # t /\ u # n => K.prev[u] = L.prev[u]
        /\ K.ptr = L.ptr
    BY <2>1, <2>2, <1>0
  <2>5. Linked(L, M) /\ OneRing(L, M)
    BY DEF Ring
  <2>6. Linked(K, M \cup {t})
    <3> SUFFICES ASSUME NEW u \in M \cup {t}
                 PROVE  /\ K.next[u] \in M \cup {t} /\ K.prev[K.next[u]] = u
                        /\ K.prev[u] \in M \cup {t} /\ K.next[K.prev[u]] = u
      BY DEF Linked
    <3>1. CASE u = t
      BY <3>1, <2>4, <2>1
    <3>2. CASE u # t
      <4>1. /\ L.next[u] \in M /\ L.prev[L.next[u]] = u
            /\ L.prev[u] \in M /\ L.next[L.prev[u]] = u
        BY <3>2, <2>5 DEF Linked
      <4>2. L.prev[n] = p
        BY <2>1, <2>5 DEF Linked
      <4>3. K.next[u] \in M \cup {t} /\ K.prev[K.next[u]] = u
        BY <3>2, <4>1, <4>2, <2>1, <2>4
      <4>4. K.prev[u] \in M \cup {t} /\ K.next[K.prev[u]] = u
        BY <3>2, <4>1, <4>2, <2>1, <2>4
      <4> QED BY <4>3, <4>4
    <3> QED BY <3>1, <3>2
  <2>7. OneRing(K, M \cup {t})
    <3> SUFFICES ASSUME NEW S \in SUBSET (M \cup {t}), S # {},
                        \A u \in S : K.next[u] \in S
                 PROVE  S = M \cup {t}
      BY DEF OneRing
    <3> DEFINE T == S \ {t}
    <3>1. T # {}
      <4>1. CASE t \in S
        BY <4>1, <2>1, <2>4
      <4>2. CASE t \notin S
        BY <4>2
      <4> QED BY <4>1, <4>2
    <3>2. ASSUME NEW u \in T PROVE L.next[u] \in T
      <4>1. u \in M /\ L.next[u] \in M
        BY <2>5 DEF Linked
      <4>2. CASE u = p
        BY <4>1, <4>2, <2>4
      <4>3. CASE u # p
        BY <4>1, <4>3, <2>4
      <4> QED BY <4>2, <4>3
    <3>3. T = M
      <4>1. T \in SUBSET M
        OBVIOUS
      <4> HIDE DEF T
      <4> QED BY <4>1, <3>1, <3>2, <2>5, ClosedIsAll
    <3>4. t \in S
      BY <3>3, <2>1, <2>4
    <3> QED BY <3>3, <3>4
  <2>8. Ring(K, q, M \cup {t})
    BY <2>1, <2>4, <2>6, <2>7 DEF Ring
  <2>9. K.ptr[q2] = L.ptr[q2] /\ \A u \in M2 : K.next[u] = L.next[u] /\ K.prev[u] = L.prev[u]
    BY <2>4, <2>1
  <2>10. Ring(K, q2, M2)
    BY <2>9 DEF Ring, Linked, OneRing
  <2> QED BY <2>3, <2>8, <2>10
<1> QED BY <1>1, <1>2

\* Task_queue::remove takes a task of the queue out of its ring, moves the
\* queue's pointer off it, and leaves the ring of the other queue alone.  It
\* is the step that needs "one ring": the test ptr->queue_next == ptr is
\* taken to mean that the task is the last of its queue (the kassert).
LEMMA RemoveRing ==
  ASSUME NEW P, NEW Q, NULL \notin P, NEW L \in Links(P, Q),
         NEW q \in Q, NEW q2 \in Q, q # q2,
         NEW M \in SUBSET P, NEW M2 \in SUBSET P, M \cap M2 = {},
         Ring(L, q, M), Ring(L, q2, M2), NEW t \in M
  PROVE  /\ Remove(L, q, t) \in Links(P, Q)
         /\ Ring(Remove(L, q, t), q, M \ {t})
         /\ Ring(Remove(L, q, t), q2, M2)
<1> DEFINE K == Remove(L, q, t)
           p == L.ptr[q]
           n == L.next[t]
           r == L.prev[t]
<1>0. /\ L.next \in [P -> P \cup {NULL}] /\ L.prev \in [P -> P \cup {NULL}]
      /\ L.ptr \in [Q -> P \cup {NULL}]
      /\ L = [next |-> L.next, prev |-> L.prev, ptr |-> L.ptr]
  BY DEF Links
<1>1. p \in M /\ Linked(L, M) /\ OneRing(L, M)
  BY DEF Ring
<1>2. ASSUME NEW u \in M, L.next[u] = u PROVE M = {u}
  <2> DEFINE S == {u}
  <2>1. S \in SUBSET M /\ S # {} /\ \A v \in S : L.next[v] \in S
    BY <1>2
  <2>2. S = M
    <3> HIDE DEF S
    <3> QED BY <2>1, <1>1, ClosedIsAll
  <2> QED BY <2>2
<1>3. CASE L.next[p] = p
  <2>1. M = {t} /\ p = t
    BY <1>2, <1>3, <1>1
  <2>2. K = [next |-> L.next, prev |-> L.prev, ptr |-> [L.ptr EXCEPT ![q] = NULL]]
    BY <1>3, <1>0 DEF Remove
  <2>3. K \in Links(P, Q)
    BY <2>2, <1>0 DEF Links
  <2>4. K.ptr[q] = NULL /\ K.ptr[q2] = L.ptr[q2] /\ K.next = L.next /\ K.prev = L.prev
    BY <2>2, <1>0
  <2>5. Ring(K, q, M \ {t})
    BY <2>1, <2>4 DEF Ring, Linked, OneRing
  <2>6. Ring(K, q2, M2)
    BY <2>4 DEF Ring, Linked, OneRing
  <2> QED BY <2>3, <2>5, <2>6
<1>4. CASE L.next[p] # p
  <2>1. /\ n \in M /\ r \in M /\ L.prev[n] = t /\ L.next[r] = t
    BY <1>1 DEF Linked
  <2>2. n # t /\ r # t
    BY <1>1, <1>2, <1>4, <2>1
  <2>3. K = [next |-> [L.next EXCEPT ![r] = n, ![t] = NULL],
             prev |-> [L.prev EXCEPT ![n] = r, ![t] = NULL],
             ptr  |-> IF p = t THEN [L.ptr EXCEPT ![q] = L.next[p]] ELSE L.ptr]
    BY <1>4 DEF Remove
  <2>4. K \in Links(P, Q)
    BY <2>1, <2>3, <1>0 DEF Links
  <2>5. /\ K.next[r] = n /\ K.prev[n] = r
        /\ \A u \in P : u # t /\ u # r => K.next[u] = L.next[u]
        /\ \A u \in P : u # t /\ u # n => K.prev[u] = L.prev[u]
        /\ K.ptr[q] \in M \ {t} /\ K.ptr[q2] = L.ptr[q2]
    BY <1>0, <1>1, <2>1, <2>2, <2>3
  <2>6. Linked(K, M \ {t})
    <3> SUFFICES ASSUME NEW u \in M, u # t
                 PROVE  /\ K.next[u] \in M \ {t} /\ K.prev[K.next[u]] = u
                        /\ K.prev[u] \in M \ {t} /\ K.next[K.prev[u]] = u
      BY DEF Linked
    <3>1. /\ L.next[u] \in M /\ L.prev[L.next[u]] = u
          /\ L.prev[u] \in M /\ L.next[L.prev[u]] = u
      BY <1>1 DEF Linked
    <3>2. K.next[u] \in M \ {t} /\ K.prev[K.next[u]] = u
      BY <3>1, <2>1, <2>2, <2>5
    <3>3. K.prev[u] \in M \ {t} /\ K.next[K.prev[u]] = u
      BY <3>1, <2>1, <2>2, <2>5
    <3> QED BY <3>2, <3>3
  <2>7. OneRing(K, M \ {t})
    <3> SUFFICES ASSUME NEW S \in SUBSET (M \ {t}), S # {},
                        \A u \in S : K.next[u] \in S
                 PROVE  S = M \ {t}
      BY DEF OneRing
    <3>1. CASE r \in S
      <4> DEFINE T == S \cup {t}
      <4>1. T \in SUBSET M /\ T # {}
        OBVIOUS
      <4>2. ASSUME NEW u \in T PROVE L.next[u] \in T
        <5>1. CASE u = t
          BY <5>1, <3>1, <2>5
        <5>2. CASE u = r
          BY <5>2, <2>1
        <5>3. CASE u # t /\ u # r
          BY <5>3, <2>5
        <5> QED BY <5>1, <5>2, <5>3
      <4>3. T = M
        <5> HIDE DEF T
        <5> QED BY <4>1, <4>2, <1>1, ClosedIsAll
      <4> QED BY <4>3
    <3>2. CASE r \notin S
      <4>1. S \in SUBSET M /\ \A u \in S : L.next[u] \in S
        BY <3>2, <2>5
      <4> QED BY <4>1, <1>1, ClosedIsAll
    <3> QED BY <3>1, <3>2
  <2>8. Ring(K, q, M \ {t})
    BY <2>5, <2>6, <2>7 DEF Ring
  <2>9. \A u \in M2 : K.next[u] = L.next[u] /\ K.prev[u] = L.prev[u]
    BY <2>5, <2>1
  <2>10. Ring(K, q2, M2)
    BY <2>5, <2>9 DEF Ring, Linked, OneRing
  <2> QED BY <2>4, <2>8, <2>10
<1> QED BY <1>3, <1>4

----------------------------------------------------------------------------
(***************************************************************************)
(* The inductive invariant.  LookupExact needs that pids are dense, and    *)
(* Preemptible needs to know what IF every saved context will bring back.  *)
(***************************************************************************)
PidsDense == next_pid >= 1 /\ ids = 0 .. next_pid - 1

FlagsSaved ==
  /\ \A t \in Pids : pc[t] # "run" => sysframe[t] = TRUE
  /\ pc[current_task] = "run" \/ current_task \notin user => intr = TRUE
  /\ \A t \in ids : t # current_task =>
       /\ ctx[t].pt # "none"
       /\ IF ctx[t].pt = "schedule" \/ t \in user
          THEN ctx[t].frame = TRUE ELSE ctx[t].old = TRUE

IInv == TypeOK /\ PidsDense /\ QueuesAreRings /\ FlagsSaved

Members(q) == {t \in Pids : state[t] = q}

USE MaxTasksAssumption DEF TS_NONE, TS_RUNNING, TS_SLEEPING

----------------------------------------------------------------------------
(***************************************************************************)
(* Operators.                                                              *)
(***************************************************************************)

\* With dense pids the inexact search of id2task is exact.
LEMMA LookupDense ==
  ASSUME TypeOK, PidsDense
  PROVE  \A p \in 0 .. MaxTasks : id2task(p) = IF p \in ids THEN p ELSE NULL
<1> SUFFICES ASSUME NEW p \in 0 .. MaxTasks
             PROVE  id2task(p) = IF p \in ids THEN p ELSE NULL
  OBVIOUS
<1> DEFINE ge == {i \in ids : i >= p}
<1>1. ids \subseteq Nat /\ next_pid \in Nat
  BY DEF TypeOK, Pids
<1>2. CASE p \in ids
  <2>1. p \in ge /\ \A i \in ge : (\A j \in ge : i <= j) => i = p
    BY <1>1, <1>2
  <2>2. \A j \in ge : p <= j
    BY <1>1
  <2>3. (CHOOSE i \in ge : \A j \in ge : i <= j) = p
    BY <2>1, <2>2
  <2> QED BY <2>1, <2>3, <1>2 DEF id2task
<1>3. CASE p \notin ids
  <2>1. ge = {}
    BY <1>1, <1>3 DEF PidsDense
  <2> QED BY <2>1, <1>3 DEF id2task
<1> QED BY <1>2, <1>3

\* get_next_pid hands out the counter, which names no task.
LEMMA NextPid ==
  ASSUME TypeOK, PidsDense
  PROVE  get_next_pid = next_pid
<1> DEFINE P(n) == /\ id2task(n) = NULL
                   /\ \A m \in next_pid .. n - 1 : id2task(m) # NULL
<1>1. next_pid \in 0 .. MaxTasks /\ next_pid \notin ids
  BY DEF TypeOK, PidsDense
<1>2. id2task(next_pid) = NULL
  BY <1>1, LookupDense
<1>3. P(next_pid)
  BY <1>1, <1>2
<1>4. ASSUME NEW n \in next_pid .. MaxTasks, P(n) PROVE n = next_pid
  <2>1. n # next_pid => next_pid \in next_pid .. n - 1
    BY <1>1
  <2> QED BY <2>1, <1>2, <1>4
<1>5. next_pid \in next_pid .. MaxTasks
  BY <1>1
<1>6. (CHOOSE n \in next_pid .. MaxTasks : P(n)) = next_pid
  <2> HIDE DEF P
  <2> QED BY <1>3, <1>4, <1>5
<1> QED BY <1>6 DEF get_next_pid

\* The successor of a task is a task of the same queue.
LEMMA NextInQueue ==
  ASSUME TypeOK, QueuesAreRings
  PROVE  /\ get_next_task \in ids
         /\ state[get_next_task] = state[current_task]
<1>1. current_task \in Pids /\ state[current_task] \in Queues
  BY DEF TypeOK, Queues
<1>2. Linked(links, Members(state[current_task]))
  BY <1>1 DEF QueuesAreRings, Ring, Members
<1>3. links.next[current_task] \in Members(state[current_task])
  BY <1>1, <1>2 DEF Linked, Members
<1> QED BY <1>1, <1>3 DEF get_next_task, Members, TypeOK, Queues

\* Moving a task between the queues keeps both of them rings.
LEMMA MoveRings ==
  ASSUME TypeOK, QueuesAreRings, NEW t \in ids,
         NEW from \in Queues, NEW to \in Queues, from # to,
         state[t] = from, Move(t, from, to)
  PROVE  /\ links' \in Links(Pids, Queues)
         /\ QueuesAreRings'
         /\ state' = [state EXCEPT ![t] = to]
         /\ state' \in [Pids -> {TS_NONE, TS_RUNNING, TS_SLEEPING}]
         /\ ids = {u \in Pids : state'[u] # TS_NONE}
<1> DEFINE F == Members(from)
           G == Members(to)
           K == Remove(links, from, t)
<1>1. /\ state \in [Pids -> {TS_NONE, TS_RUNNING, TS_SLEEPING}]
      /\ t \in Pids /\ NULL \notin Pids /\ links \in Links(Pids, Queues)
      /\ ids = {u \in Pids : state[u] # TS_NONE}
  BY DEF TypeOK, Links, Pids, NULL
<1>2. /\ F \in SUBSET Pids /\ G \in SUBSET Pids /\ F \cap G = {} /\ t \in F /\ t \notin G
  BY <1>1 DEF Members
<1>3. Ring(links, from, F) /\ Ring(links, to, G)
  BY DEF QueuesAreRings, Members
<1>4. K \in Links(Pids, Queues) /\ Ring(K, from, F \ {t}) /\ Ring(K, to, G)
  <2> HIDE DEF F, G
  <2> QED BY <1>1, <1>2, <1>3, RemoveRing
<1>5. /\ Insert(K, to, t) \in Links(Pids, Queues)
      /\ Ring(Insert(K, to, t), to, G \cup {t})
      /\ Ring(Insert(K, to, t), from, F \ {t})
  <2>1. F \ {t} \in SUBSET Pids /\ t \notin F \ {t} /\ G \cap (F \ {t}) = {}
    BY <1>2
  <2> HIDE DEF F, G, K
  <2> QED BY <1>1, <1>2, <1>4, <2>1, InsertRing
<1>6. links' = Insert(K, to, t) /\ state' = [state EXCEPT ![t] = to]
  BY DEF Move
<1>7. /\ {u \in Pids : state'[u] = to} = G \cup {t}
      /\ {u \in Pids : state'[u] = from} = F \ {t}
  BY <1>1, <1>6 DEF Members
<1>8. Queues = {from, to}
  BY DEF Queues
<1>9. QueuesAreRings'
  <2> HIDE DEF F, G, K
  <2> QED BY <1>5, <1>6, <1>7, <1>8 DEF QueuesAreRings
<1>10. /\ state' \in [Pids -> {TS_NONE, TS_RUNNING, TS_SLEEPING}]
       /\ ids = {u \in Pids : state'[u] # TS_NONE}
  BY <1>1, <1>6 DEF Queues
<1> QED BY <1>5, <1>6, <1>9, <1>10

----------------------------------------------------------------------------
(***************************************************************************)
(* Contexts and the interrupt flag.                                        *)
(***************************************************************************)
CallTypes ==
  /\ pc \in [Pids -> {"run", "sleep", "wakeup"}]
  /\ target \in [Pids -> Pids \cup {NULL}]
  /\ \A t \in Pids : pc[t] # "run" => target[t] \in ids
  /\ sysframe \in [Pids -> BOOLEAN]

\* The context c of task t brings IF back set.
Restores(t, c) ==
  /\ c.pt # "none"
  /\ IF c.pt = "schedule" \/ t \in user THEN c.frame = TRUE ELSE c.old = TRUE

\* Leaving a call keeps the call's variables well typed and the saved flags.
LEMMA LeaveCallTypes ==
  ASSUME TypeOK, NEW T, LeaveCall(T), ids \subseteq ids',
         \A t \in Pids : pc[t] # "run" => sysframe[t] = TRUE
  PROVE  CallTypes' /\ \A t \in Pids : /\ pc'[t] # "run" => sysframe'[t] = TRUE
                                       /\ t \in T => pc'[t] = "run"
                                       /\ t \notin T => pc'[t] = pc[t]
BY DEF TypeOK, LeaveCall, CallTypes

\* switch_task: if the context that is left behind restores IF, the task
\* switched to runs with IF set and all saved contexts still restore it.
LEMMA SwitchSafe ==
  ASSUME TypeOK, FlagsSaved, NEW t \in ids, NEW c \in Contexts,
         Restores(current_task, c), switch_task(t, c),
         ids' = ids, user' = user
  PROVE  /\ current_task' \in ids /\ ctx' \in [Pids -> Contexts]
         /\ intr' = TRUE /\ CallTypes' /\ FlagsSaved'
<1> DEFINE saved == [ctx EXCEPT ![current_task] = c]
           T == IF saved[t].pt = "schedule" THEN {} ELSE {t}
<1>1. /\ ctx \in [Pids -> Contexts] /\ ids \subseteq Pids /\ current_task \in ids
      /\ t \in Pids /\ current_task \in Pids
  BY DEF TypeOK
<1>2. /\ ctx' = [saved EXCEPT ![t] = NoContext] /\ current_task' = t
      /\ intr' = IntrOnResume(t, saved[t]) /\ LeaveCall(T)
  BY DEF switch_task
<1>3. \A u \in ids : Restores(u, saved[u])
  BY <1>1 DEF FlagsSaved, Restores
<1>4. NoContext \in Contexts
  BY DEF NoContext, Contexts, Points
<1>5. saved \in [Pids -> Contexts] /\ ctx' \in [Pids -> Contexts]
  BY <1>1, <1>2, <1>4
<1>6. intr' = TRUE
  <2>1. intr' = IF saved[t].pt = "schedule" \/ t \in user THEN saved[t].frame ELSE saved[t].old
    BY <1>2 DEF IntrOnResume
  <2> HIDE DEF saved
  <2> QED BY <2>1, <1>3 DEF Restores
<1>7. CallTypes' /\ \A u \in Pids : pc'[u] # "run" => sysframe'[u] = TRUE
  <2> HIDE DEF T
  <2> QED BY <1>2, LeaveCallTypes DEF FlagsSaved
<1>8. \A u \in ids : u # t => Restores(u, ctx'[u])
  BY <1>1, <1>2, <1>3, <1>5
<1>9. FlagsSaved'
  BY <1>2, <1>6, <1>7, <1>8 DEF FlagsSaved, Restores
<1> QED BY <1>1, <1>2, <1>5, <1>6, <1>7, <1>9

\* Return to the caller: IF is set again.
LEMMA ReturnSafe ==
  ASSUME TypeOK, FlagsSaved, Return, pc[current_task] # "run",
         ids' = ids, user' = user
  PROVE  intr' = TRUE /\ CallTypes' /\ FlagsSaved'
<1>1. current_task \in Pids
  BY DEF TypeOK
<1>2. /\ intr' = IF current_task \in user THEN sysframe[current_task] ELSE intr
      /\ LeaveCall({current_task}) /\ current_task' = current_task /\ ctx' = ctx
  BY DEF Return, IntrOnReturn
<1>3. intr' = TRUE
  BY <1>1, <1>2 DEF FlagsSaved
<1>4. CallTypes' /\ \A u \in Pids : pc'[u] # "run" => sysframe'[u] = TRUE
  BY <1>2, LeaveCallTypes DEF FlagsSaved
<1>5. FlagsSaved'
  BY <1>2, <1>3, <1>4 DEF FlagsSaved
<1> QED BY <1>3, <1>4, <1>5

\* A saved context is a context.
LEMMA ContextType ==
  ASSUME NEW pt \in Points, NEW o \in BOOLEAN, NEW f \in BOOLEAN
  PROVE  [pt |-> pt, old |-> o, frame |-> f] \in Contexts
BY DEF Contexts

----------------------------------------------------------------------------
(***************************************************************************)
(* One lemma per action.                                                   *)
(***************************************************************************)

\* The parts of TypeOK that a step proves separately.
Rest ==
  /\ uid \in [Pids -> {0}]
  /\ errno \in [Pids -> {0, EPERM, ESRCH}]
  /\ user \subseteq ids
  /\ user_mode_called \in BOOLEAN

QueueTypes ==
  /\ state \in [Pids -> {TS_NONE, TS_RUNNING, TS_SLEEPING}]
  /\ ids = {t \in Pids : state[t] # TS_NONE}
  /\ links \in Links(Pids, Queues)

\* TypeOK is the conjunction of its parts.
LEMMA TypeParts ==
  TypeOK <=> /\ ids \subseteq Pids /\ next_pid \in 0 .. MaxTasks
             /\ current_task \in ids /\ ctx \in [Pids -> Contexts]
             /\ intr \in BOOLEAN /\ QueueTypes /\ CallTypes /\ Rest
BY DEF TypeOK, QueueTypes, CallTypes, Rest, Links

\* The same after a step.
LEMMA TypePartsPrimed ==
  TypeOK' <=> /\ ids' \subseteq Pids /\ next_pid' \in 0 .. MaxTasks
              /\ current_task' \in ids' /\ ctx' \in [Pids -> Contexts]
              /\ intr' \in BOOLEAN /\ QueueTypes' /\ CallTypes' /\ Rest'
BY DEF TypeOK, QueueTypes, CallTypes, Rest, Links

\* A timer tick keeps the invariant.
LEMMA TickStep ==
  ASSUME IInv, TimerTick PROVE IInv'
<1> DEFINE c == [pt |-> "schedule", old |-> FALSE, frame |-> intr]
<1> USE DEF IInv
<1>1. get_next_task \in ids
  BY NextInQueue
<1>2. /\ intr = TRUE /\ switch_task(get_next_task, c)
      /\ UNCHANGED <<ids, next_pid, state, links, uid, errno, user, user_mode_called>>
  BY DEF TimerTick, schedule, TypeOK
<1>3. c \in Contexts /\ Restores(current_task, c)
  BY <1>2, ContextType DEF Restores, Points
<1>4. /\ current_task' \in ids /\ ctx' \in [Pids -> Contexts]
      /\ intr' = TRUE /\ CallTypes' /\ FlagsSaved'
  <2> HIDE DEF c
  <2> QED BY <1>1, <1>2, <1>3, SwitchSafe
<1>5. QueueTypes' /\ Rest'
  BY <1>2, TypeParts DEF QueueTypes, Rest
<1>6. TypeOK'
  BY <1>2, <1>4, <1>5, TypeParts, TypePartsPrimed
<1>7. PidsDense' /\ QueuesAreRings'
  BY <1>2 DEF PidsDense, QueuesAreRings
<1> QED BY <1>4, <1>6, <1>7

\* fork() keeps the invariant: the child's context is complete before IF can
\* be set again.
LEMMA ForkStep ==
  ASSUME IInv, Fork PROVE IInv'
<1> USE DEF IInv
<1> DEFINE R == Members(TS_RUNNING)
           W == Members(TS_SLEEPING)
           child == next_pid
<1>1. /\ pc[current_task] = "run" /\ child < MaxTasks
      /\ ids' = ids \cup {child} /\ next_pid' = child + 1
      /\ state' = [state EXCEPT ![child] = TS_RUNNING]
      /\ uid' = [uid EXCEPT ![child] = uid[current_task]]
      /\ links' = Insert(links, TS_RUNNING, child)
      /\ ctx' = [ctx EXCEPT ![child] = ForkContext]
      /\ user' = IF current_task \in user THEN user \cup {child} ELSE user
      /\ UNCHANGED <<current_task, errno, pc, target, sysframe, intr, user_mode_called>>
  BY NextPid DEF Fork, Registered
<1>2. /\ child \in Pids /\ child \notin ids /\ current_task \in Pids
      /\ current_task # child /\ NULL \notin Pids /\ child \notin user
      /\ next_pid' \in 0 .. MaxTasks
  <2>1. /\ ids \subseteq Pids /\ next_pid \in 0 .. MaxTasks
        /\ current_task \in ids /\ user \subseteq ids /\ ids = 0 .. next_pid - 1
    BY DEF TypeOK, PidsDense
  <2>2. child < MaxTasks /\ next_pid' = child + 1
    BY <1>1
  <2>3. child \in Pids /\ child \notin ids /\ NULL \notin Pids /\ next_pid' \in 0 .. MaxTasks
    BY <2>1, <2>2 DEF Pids, NULL
  <2> QED BY <2>1, <2>3
<1>3. /\ links' \in Links(Pids, Queues)
      /\ Ring(links', TS_RUNNING, R \cup {child}) /\ Ring(links', TS_SLEEPING, W)
  <2>1. /\ R \in SUBSET Pids /\ W \in SUBSET Pids /\ R \cap W = {}
        /\ child \notin R /\ child \notin W /\ TS_RUNNING \in Queues /\ TS_SLEEPING \in Queues
    BY <1>2, TypeParts DEF Members, QueueTypes, Queues
  <2>2. Ring(links, TS_RUNNING, R) /\ Ring(links, TS_SLEEPING, W)
    BY <2>1 DEF QueuesAreRings, Members
  <2>3. links \in Links(Pids, Queues) /\ TS_RUNNING # TS_SLEEPING
    BY TypeParts DEF QueueTypes
  <2> HIDE DEF R, W, child
  <2> QED BY <1>1, <1>2, <2>1, <2>2, <2>3, InsertRing
<1>4. state \in [Pids -> {TS_NONE, TS_RUNNING, TS_SLEEPING}] /\ ids = {t \in Pids : state[t] # TS_NONE}
  BY DEF TypeOK
<1>5. /\ {t \in Pids : state'[t] = TS_RUNNING} = R \cup {child}
      /\ {t \in Pids : state'[t] = TS_SLEEPING} = W
  BY <1>1, <1>2, <1>4 DEF Members
<1>6. QueuesAreRings'
  <2> HIDE DEF R, W
  <2> QED BY <1>3, <1>5 DEF QueuesAreRings, Queues
<1>7. QueueTypes'
  BY <1>1, <1>2, <1>3, <1>4 DEF QueueTypes
<1>8. intr = TRUE /\ ForkContext = [pt |-> "fork", old |-> IntrInCall, frame |-> TRUE]
  BY <1>1 DEF FlagsSaved, ForkContext
<1>9. IntrInCall \in BOOLEAN /\ (current_task \notin user => IntrInCall = TRUE)
  BY <1>8 DEF IntrInCall
<1>10. ForkContext \in Contexts /\ ctx' \in [Pids -> Contexts]
  BY <1>1, <1>2, <1>8, <1>9, ContextType DEF TypeOK, Points
<1>11. CallTypes' /\ Rest'
  BY <1>1, <1>2, TypeParts DEF CallTypes, Rest
<1>12. TypeOK'
  <2>1. ids' \subseteq Pids /\ current_task' \in ids' /\ intr' \in BOOLEAN
    BY <1>1, <1>2, <1>8 DEF TypeOK
  <2> QED BY <2>1, <1>2, <1>7, <1>10, <1>11, TypePartsPrimed
<1>13. PidsDense'
  BY <1>1, <1>2 DEF PidsDense, TypeOK
<1>14. FlagsSaved'
  <2>1. ctx'[child] = ForkContext /\ \A t \in ids : ctx'[t] = ctx[t] /\ (t \in user' <=> t \in user)
    BY <1>1, <1>2 DEF TypeOK
  <2>2. child \in user' <=> current_task \in user
    BY <1>1, <1>2
  <2>3. /\ ctx'[child].pt = "fork" /\ ctx'[child].frame = TRUE
        /\ child \notin user' => ctx'[child].old = TRUE
    BY <2>1, <2>2, <1>8, <1>9
  <2>4. \A t \in ids' : t # current_task' =>
          /\ ctx'[t].pt # "none"
          /\ IF ctx'[t].pt = "schedule" \/ t \in user'
             THEN ctx'[t].frame = TRUE ELSE ctx'[t].old = TRUE
    BY <1>1, <2>1, <2>3 DEF FlagsSaved
  <2>5. intr' = TRUE /\ \A t \in Pids : pc'[t] # "run" => sysframe'[t] = TRUE
    BY <1>1, <1>8 DEF FlagsSaved
  <2> QED BY <2>4, <2>5 DEF FlagsSaved
<1> QED BY <1>6, <1>12, <1>13, <1>14

\* The checks of sleep() and wakeup() keep the invariant.
LEMMA EnterStep ==
  ASSUME IInv, NEW call \in {"sleep", "wakeup"}, NEW p \in 0 .. MaxTasks,
         Enter(call, p)
  PROVE  IInv'
<1> USE DEF IInv
<1> DEFINE t == id2task(p)
<1>1. /\ pc[current_task] = "run"
      /\ UNCHANGED <<ids, next_pid, current_task, state, links, uid, ctx, user,
                     user_mode_called>>
  BY DEF Enter
<1>2. current_task \in Pids /\ intr = TRUE
  BY <1>1 DEF TypeOK, FlagsSaved
<1>3. QueueTypes' /\ QueuesAreRings' /\ PidsDense'
  BY <1>1, TypeParts DEF QueueTypes, QueuesAreRings, PidsDense
<1>4. errno' \in [Pids -> {0, EPERM, ESRCH}]
  BY <1>1, <1>2 DEF Enter, TypeOK
<1>5. Rest'
  BY <1>1, <1>4, TypeParts DEF Rest
<1>6. CallTypes' /\ intr' \in BOOLEAN /\ FlagsSaved'
  <2>1. CASE UNCHANGED <<pc, target, sysframe, intr>>
    <3>1. CallTypes'
      BY <1>1, <2>1, TypeParts DEF CallTypes
    <3>2. FlagsSaved'
      BY <1>1, <2>1 DEF FlagsSaved
    <3> QED BY <3>1, <3>2, <1>2, <2>1
  <2>2. CASE /\ t # NULL
             /\ pc' = [pc EXCEPT ![current_task] = call]
             /\ target' = [target EXCEPT ![current_task] = t]
             /\ sysframe' = [sysframe EXCEPT ![current_task] = intr]
             /\ intr' = IntrInCall
    <3>1. t \in ids /\ t \in Pids
      BY <2>2, LookupDense DEF TypeOK
    <3>2. CallTypes'
      <4> HIDE DEF t
      <4> QED BY <1>1, <1>2, <2>2, <3>1, TypeParts DEF CallTypes
    <3>3. intr' \in BOOLEAN /\ (current_task \notin user => intr' = TRUE)
      BY <1>2, <2>2 DEF IntrInCall
    <3>4. pc'[current_task] # "run" /\ \A u \in Pids : pc'[u] # "run" => sysframe'[u] = TRUE
      BY <1>2, <2>2 DEF FlagsSaved, TypeOK
    <3>5. FlagsSaved'
      BY <1>1, <3>3, <3>4 DEF FlagsSaved
    <3> QED BY <3>2, <3>3, <3>5
  <2> HIDE DEF t
  <2> QED BY <2>1, <2>2 DEF Enter, t
<1>7. TypeOK'
  BY <1>1, <1>3, <1>5, <1>6, TypeParts, TypePartsPrimed
<1> QED BY <1>3, <1>6, <1>7

\* sleep() with interrupts off keeps the invariant, and hands over from a
\* running task only to a running task.
LEMMA SleepStep ==
  ASSUME IInv, SleepBody
  PROVE  /\ IInv'
         /\ current_task' # current_task => state'[current_task'] = TS_RUNNING
<1> USE DEF IInv
<1> DEFINE t == target[current_task]
           c == [pt |-> "sleep", old |-> intr, frame |-> sysframe[current_task]]
<1>1. /\ pc[current_task] = "sleep"
      /\ UNCHANGED <<ids, next_pid, uid, errno, user, user_mode_called>>
  BY DEF SleepBody
<1>2. t \in ids /\ current_task \in ids /\ current_task \in Pids
  BY <1>1 DEF TypeOK
<1>3. PidsDense' /\ Rest'
  BY <1>1, TypeParts DEF PidsDense, Rest
<1>4. CASE state[t] # TS_RUNNING
  <2>1. Return /\ UNCHANGED <<links, state>>
    BY <1>4 DEF SleepBody
  <2>2. QueueTypes' /\ QueuesAreRings'
    BY <1>1, <2>1, TypeParts DEF QueueTypes, QueuesAreRings
  <2>3. intr' = TRUE /\ CallTypes' /\ FlagsSaved' /\ current_task' = current_task /\ ctx' = ctx
    BY <1>1, <2>1, ReturnSafe DEF Return
  <2> QED BY <1>1, <1>3, <2>2, <2>3, TypeParts, TypePartsPrimed
<1>5. CASE state[t] = TS_RUNNING /\ t # current_task
  <2>1. Return /\ Move(t, TS_RUNNING, TS_SLEEPING)
    BY <1>5 DEF SleepBody
  <2>2. QueueTypes' /\ QueuesAreRings'
    <3> HIDE DEF t
    <3> QED BY <1>1, <1>2, <1>5, <2>1, MoveRings DEF QueueTypes, Queues
  <2>3. intr' = TRUE /\ CallTypes' /\ FlagsSaved' /\ current_task' = current_task /\ ctx' = ctx
    BY <1>1, <2>1, ReturnSafe DEF Return
  <2> QED BY <1>1, <1>3, <2>2, <2>3, TypeParts, TypePartsPrimed
<1>6. CASE state[t] = TS_RUNNING /\ t = current_task
  <2>1. Move(current_task, TS_RUNNING, TS_SLEEPING) /\ switch_task(get_next_task, c)
    BY <1>6 DEF SleepBody, SleepSelf
  <2>2. /\ QueueTypes' /\ QueuesAreRings'
        /\ state' = [state EXCEPT ![current_task] = TS_SLEEPING]
    <3> HIDE DEF t, c
    <3> QED BY <1>1, <1>2, <1>6, <2>1, MoveRings DEF QueueTypes, Queues
  <2>3. get_next_task \in ids /\ state[get_next_task] = TS_RUNNING
    BY <1>6, NextInQueue
  <2>4. sysframe[current_task] = TRUE /\ intr \in BOOLEAN /\ (current_task \notin user => intr = TRUE)
    BY <1>1, <1>2 DEF FlagsSaved, TypeOK
  <2>5. c \in Contexts /\ Restores(current_task, c)
    BY <2>4, ContextType DEF Restores, Points
  <2>6. /\ current_task' \in ids /\ ctx' \in [Pids -> Contexts]
        /\ intr' = TRUE /\ CallTypes' /\ FlagsSaved'
    <3> HIDE DEF c
    <3> QED BY <1>1, <2>1, <2>3, <2>5, SwitchSafe
  <2>7. current_task' = get_next_task
    BY <2>1 DEF switch_task
  <2>8. current_task' # current_task => state'[current_task'] = TS_RUNNING
    BY <2>2, <2>3, <2>7 DEF TypeOK
  <2> QED BY <1>1, <1>3, <2>2, <2>6, <2>8, TypeParts, TypePartsPrimed
<1> QED BY <1>4, <1>5, <1>6

\* wakeup() with interrupts off keeps the invariant.
LEMMA WakeupStep ==
  ASSUME IInv, WakeupBody PROVE IInv'
<1> USE DEF IInv
<1> DEFINE t == target[current_task]
<1>1. /\ pc[current_task] = "wakeup" /\ Return
      /\ UNCHANGED <<ids, next_pid, uid, errno, user, user_mode_called>>
  BY DEF WakeupBody
<1>2. t \in ids
  BY <1>1 DEF TypeOK
<1>3. PidsDense' /\ Rest'
  BY <1>1, TypeParts DEF PidsDense, Rest
<1>4. intr' = TRUE /\ CallTypes' /\ FlagsSaved' /\ current_task' = current_task /\ ctx' = ctx
  BY <1>1, ReturnSafe DEF Return
<1>5. QueueTypes' /\ QueuesAreRings'
  <2>1. CASE state[t] = TS_SLEEPING
    <3>1. Move(t, TS_SLEEPING, TS_RUNNING)
      BY <2>1 DEF WakeupBody
    <3> HIDE DEF t
    <3> QED BY <1>1, <1>2, <2>1, <3>1, MoveRings DEF QueueTypes, Queues
  <2>2. CASE state[t] # TS_SLEEPING
    <3>1. UNCHANGED <<links, state>>
      BY <2>2 DEF WakeupBody
    <3> QED BY <1>1, <3>1, TypeParts DEF QueueTypes, QueuesAreRings
  <2> QED BY <2>1, <2>2
<1> QED BY <1>1, <1>3, <1>4, <1>5, TypeParts, TypePartsPrimed

\* switch_to_user_mode keeps the invariant.
LEMMA UserModeStep ==
  ASSUME IInv, SwitchToUserMode PROVE IInv'
<1> USE DEF IInv
<1>1. /\ user' = user \cup {current_task} /\ user_mode_called' = TRUE /\ intr' = TRUE
      /\ UNCHANGED <<ids, next_pid, current_task, state, links, uid, errno, ctx,
                     pc, target, sysframe>>
  BY DEF SwitchToUserMode
<1>2. TypeOK'
  BY <1>1 DEF TypeOK
<1>3. PidsDense' /\ QueuesAreRings'
  BY <1>1 DEF PidsDense, QueuesAreRings
<1>4. FlagsSaved'
  BY <1>1 DEF FlagsSaved
<1> QED BY <1>2, <1>3, <1>4

----------------------------------------------------------------------------
(***************************************************************************)
(* Results.                                                                *)
(***************************************************************************)

\* The state that Task::init leaves behind satisfies the invariant.
LEMMA InitInvariant == Init => IInv
<1> SUFFICES ASSUME Init PROVE IInv
  OBVIOUS
<1>1. 0 \in Pids /\ NULL \notin Pids /\ EmptyLinks \in Links(Pids, Queues)
  BY DEF Pids, NULL, EmptyLinks, Links
<1>2. \A q \in Queues : Ring(EmptyLinks, q, {})
  BY DEF Ring, Linked, OneRing, EmptyLinks
<1>3. /\ links \in Links(Pids, Queues)
      /\ Ring(links, TS_RUNNING, {0}) /\ Ring(links, TS_SLEEPING, {})
  <2>1. TS_RUNNING \in Queues /\ TS_SLEEPING \in Queues /\ TS_RUNNING # TS_SLEEPING
    BY DEF Queues
  <2>2. links = Insert(EmptyLinks, TS_RUNNING, 0) /\ {} \cup {0} = {0}
    BY DEF Init
  <2>3. /\ Insert(EmptyLinks, TS_RUNNING, 0) \in Links(Pids, Queues)
        /\ Ring(Insert(EmptyLinks, TS_RUNNING, 0), TS_RUNNING, {} \cup {0})
        /\ Ring(Insert(EmptyLinks, TS_RUNNING, 0), TS_SLEEPING, {})
    <3>1. {} \in SUBSET Pids /\ 0 \notin {} /\ {} \cap {} = {}
      OBVIOUS
    <3> QED BY <1>1, <1>2, <2>1, <3>1, InsertRing
  <2> QED BY <2>2, <2>3
<1>4. QueuesAreRings
  <2>1. {t \in Pids : state[t] = TS_RUNNING} = {0} /\ {t \in Pids : state[t] = TS_SLEEPING} = {}
    BY <1>1 DEF Init
  <2> QED BY <1>3, <2>1 DEF QueuesAreRings, Queues
<1>5. TypeOK
  <2>1. next_pid \in 0 .. MaxTasks /\ ids \subseteq Pids /\ current_task \in ids
    BY <1>1 DEF Init
  <2>2. ctx \in [Pids -> Contexts] /\ intr \in BOOLEAN
    BY DEF Init, NoContext, Contexts, Points
  <2>3. QueueTypes
    BY <1>1, <1>3 DEF Init, QueueTypes
  <2>4. CallTypes /\ Rest
    BY DEF Init, CallTypes, Rest
  <2> QED BY <2>1, <2>2, <2>3, <2>4, TypeParts
<1>6. PidsDense
  BY DEF Init, PidsDense
<1>7. FlagsSaved
  BY <1>1 DEF Init, FlagsSaved
<1> QED BY <1>4, <1>5, <1>6, <1>7 DEF IInv

\* Every step of the component keeps the invariant.
LEMMA NextInvariant == IInv /\ [Next]_vars => IInv'
<1> SUFFICES ASSUME IInv, [Next]_vars PROVE IInv'
  OBVIOUS
<1>1. CASE TimerTick          BY <1>1, TickStep
<1>2. CASE Fork               BY <1>2, ForkStep
<1>3. CASE SleepEnter         BY <1>3, EnterStep DEF SleepEnter
<1>4. CASE SleepBody          BY <1>4, SleepStep
<1>5. CASE WakeupEnter        BY <1>5, EnterStep DEF WakeupEnter
<1>6. CASE WakeupBody         BY <1>6, WakeupStep
<1>7. CASE SwitchToUserMode   BY <1>7, UserModeStep
<1>8. CASE UNCHANGED vars
  <2>1. TypeOK'
    BY <1>8 DEF vars, IInv, TypeOK
  <2>2. PidsDense' /\ QueuesAreRings'
    BY <1>8 DEF vars, IInv, PidsDense, QueuesAreRings
  <2>3. FlagsSaved'
    BY <1>8 DEF vars, IInv, FlagsSaved
  <2> QED BY <2>1, <2>2, <2>3 DEF IInv
<1> QED BY <1>1, <1>2, <1>3, <1>4, <1>5, <1>6, <1>7, <1>8 DEF Next

\* The invariant holds in every reachable state, for every MaxTasks.
THEOREM Invariance == Spec => []IInv
<1>1. Init => IInv
  BY InitInvariant
<1>2. IInv /\ [Next]_vars => IInv'
  BY NextInvariant
<1> QED BY <1>1, <1>2, PTL DEF Spec

\* The state of the task component is well typed for every number of tasks.
THEOREM TypeCorrect == Spec => []TypeOK
<1>1. IInv => TypeOK
  BY DEF IInv
<1> QED BY <1>1, Invariance, PTL

\* The running and the sleeping queue are single rings through exactly the
\* tasks in that state, whatever calls and ticks built them.
THEOREM RingsHold == Spec => []QueuesAreRings
<1>1. IInv => QueuesAreRings
  BY DEF IInv
<1> QED BY <1>1, Invariance, PTL

\* id2task, although it never compares the key it finds, is exact.
THEOREM LookupHolds == Spec => []LookupExact
<1>1. IInv => LookupExact
  BY LookupDense DEF IInv, LookupExact
<1> QED BY <1>1, Invariance, PTL

\* A switch always finds a saved context.
THEOREM ResumableHolds == Spec => []Resumable
<1>1. IInv => Resumable
  BY DEF IInv, FlagsSaved, Resumable
<1> QED BY <1>1, Invariance, PTL

\* A task executing its own code can be preempted, through every nesting of
\* CLI_SAVE_EFLAGS, RESTORE_EFLAGS, popf and iret.
THEOREM PreemptibleHolds == Spec => []Preemptible
<1>1. IInv => Preemptible
  BY DEF IInv, FlagsSaved, Preemptible
<1> QED BY <1>1, Invariance, PTL

\* A running task hands the processor only to a running task.
THEOREM SwitchHolds == Spec => SwitchToRunnable
<1> DEFINE A == current_task' # current_task /\ state[current_task] = TS_RUNNING
                  => state'[current_task'] = TS_RUNNING
<1>1. IInv /\ [Next]_vars => [A]_vars
  <2> SUFFICES ASSUME IInv, Next, current_task' # current_task,
                      state[current_task] = TS_RUNNING
               PROVE  state'[current_task'] = TS_RUNNING
    OBVIOUS
  <2>1. CASE TimerTick
    BY <2>1, NextInQueue DEF IInv, TimerTick, schedule, switch_task
  <2>2. CASE SleepBody
    BY <2>2, SleepStep
  <2>3. CASE Fork \/ SleepEnter \/ WakeupEnter \/ WakeupBody \/ SwitchToUserMode
    BY <2>3 DEF Fork, SleepEnter, WakeupEnter, Enter, WakeupBody, Return, SwitchToUserMode
  <2> QED BY <2>1, <2>2, <2>3 DEF Next
<1> QED BY <1>1, Invariance, PTL DEF Spec, SwitchToRunnable

----------------------------------------------------------------------------
(***************************************************************************)
(* Where the program can be.  Only two tasks are ever made; pid 0 goes     *)
(* through the phases below, and what pid 1 does in each of them depends   *)
(* on the calls that pid 0 has made, not on the ticks in between.          *)
(***************************************************************************)
Shape ==
  /\ DOMAIN prog = Pids
  /\ \A t \in Pids : prog[t] = [at |-> prog[t].at, pid |-> prog[t].pid, i |-> prog[t].i,
                                out |-> prog[t].out]
  /\ prog = [t \in Pids |-> prog[t]]

\* Before the fork.
Single ==
  /\ ids = {0} /\ next_pid = 1 /\ current_task = 0 /\ \A t \in Pids : pc[t] = "run"
  /\ state[0] = TS_RUNNING
  /\ prog[0].at \in {"none", "fork"} /\ prog[0].pid = 0 /\ prog[0].i = 0
  /\ user = IF prog[0].at = "none" THEN {} ELSE {0}

\* pid 1.
Child ==
  /\ prog[1].at \in {"getpid", "print", "ten"}
  /\ prog[1].at # "getpid" => prog[1].pid = 1
  /\ pc[1] # "run" => current_task = 1 /\ pc[1] = "wakeup" /\ target[1] = 0

\* pid 0 before its sleep(0) ...
Fresh ==
  /\ prog[0].at \in {"getpid", "first"} /\ prog[0].i = 0
  /\ pc[0] = "run" /\ state[0] = TS_RUNNING /\ state[1] = TS_RUNNING

\* ... in it, until a tick resumes it after pid 1's wakeup(0) ...
Resting ==
  /\ prog[0].at = Loop(0, 0) /\ prog[0].i = 0
  /\ pc[0] = "sleep" /\ target[0] = 0 /\ state[1] = TS_RUNNING
  /\ current_task = 0 => state[0] = TS_RUNNING
  /\ current_task # 0 => ctx[0].pt = "sleep"

\* ... behind it and before its sleep(1) ...
Counting ==
  /\ \/ prog[0].i < Sleep /\ prog[0].at = "print"
     \/ prog[0].i = Sleep /\ prog[0].at = "ten"
  /\ pc[0] = "run" /\ state[0] = TS_RUNNING /\ state[1] = TS_RUNNING

\* ... in that one ...
Stopping ==
  /\ prog[0].i = Sleep /\ prog[0].at = "print"
  /\ pc[0] = "sleep" /\ target[0] = 1
  /\ current_task = 0 /\ state[0] = TS_RUNNING

\* ... while pid 1 sleeps ...
Solo ==
  /\ Alone /\ prog[0].at = IF prog[0].i = Wake THEN "twenty" ELSE "print"
  /\ current_task = 0 /\ state[0] = TS_RUNNING /\ state[1] = TS_SLEEPING

\* ... and from its wakeup(1) on.
Past ==
  /\ prog[0].i >= Wake /\ prog[0].at = "print"
  /\ pc[0] # "run" => current_task = 0 /\ pc[0] = "wakeup"

Double ==
  /\ ids = {0, 1} /\ next_pid = 2 /\ user = {0, 1}
  /\ pc[current_task] # "run" => intr = FALSE
  /\ Child
  /\ prog[0].i \in 0 .. Last /\ prog[0].pid = 0
  /\ Fresh \/ Resting \/ Counting \/ Stopping \/ Solo \/ Past

PInv == IInv /\ Shape /\ (Single \/ Double)

----------------------------------------------------------------------------
\* Every step of the program is a step of the tasks.
LEMMA TaskSteps == [ProgNext]_progvars => [Next]_vars
<1> SUFFICES ASSUME [ProgNext]_progvars PROVE [Next]_vars
  OBVIOUS
<1>1. CASE Kernel BY <1>1 DEF Kernel, vars
<1>2. CASE Start BY <1>2 DEF Start, Next
<1>3. CASE Puts \/ GetpidCall \/ PrintLine
  BY <1>3 DEF Puts, GetpidCall, PrintLine, vars
<1>4. CASE ForkCall BY <1>4 DEF ForkCall, Next
<1>5. CASE SleepCall
  <2>1. 0 \in 0 .. MaxTasks /\ 1 \in 0 .. MaxTasks
    OBVIOUS
  <2>2. Call(SYS_sleep) = "sleep" /\ Call(SYS_wakeup) = "wakeup"
    BY DEF Call, isr0x80, syscall_func_addr, NR_SYSCALLS, SYS_sleep, SYS_wakeup
  <2>3. \E call \in {"sleep", "wakeup"}, p \in 0 .. MaxTasks : Enter(call, p)
    BY <1>5, <2>1, <2>2 DEF SleepCall
  <2> QED BY <2>3 DEF Next, SleepEnter, WakeupEnter
<1>6. CASE KernelStep BY <1>6 DEF KernelStep, Next
<1>7. CASE Tick BY <1>7 DEF Tick, Next
<1>8. CASE UNCHANGED progvars
  BY <1>8 DEF progvars, vars
<1> QED BY <1>1, <1>2, <1>3, <1>4, <1>5, <1>6, <1>7, <1>8 DEF ProgNext, Program

\* The successor of a running task, when it runs alone and when two do.
LEMMA Successors ==
  ASSUME IInv, NEW t \in ids, state[t] = TS_RUNNING
  PROVE  /\ links.next[t] \in ids /\ state[links.next[t]] = TS_RUNNING
         /\ \A u \in ids : u # t /\ state[u] = TS_RUNNING => links.next[t] # t
<1> DEFINE M == {u \in Pids : state[u] = TS_RUNNING}
<1>1. Ring(links, TS_RUNNING, M)
  BY DEF IInv, QueuesAreRings, Queues
<1>2. ids \subseteq Pids /\ ids = {u \in Pids : state[u] # TS_NONE}
  BY DEF IInv, TypeOK
<1>3. t \in M
  BY <1>2
<1>4. links.next[t] \in M
  BY <1>1, <1>3 DEF Ring, Linked
<1>5. ASSUME NEW u \in ids, u # t, state[u] = TS_RUNNING, links.next[t] = t PROVE FALSE
  <2>1. OneRing(links, M) /\ {t} \in SUBSET M /\ {t} # {} /\ u \in M
    BY <1>1, <1>2, <1>3, <1>5 DEF Ring
  <2>2. \A v \in {t} : links.next[v] \in {t}
    BY <1>5
  <2>3. {t} = M
    BY <2>1, <2>2 DEF OneRing
  <2> QED BY <2>1, <2>3, <1>5
<1> QED BY <1>2, <1>4, <1>5

\* A tick.
LEMMA TickIs ==
  ASSUME IInv, Tick
  PROVE  LET t == links.next[current_task] IN
         /\ intr = TRUE
         /\ current_task' = t /\ t \in ids
         /\ UNCHANGED <<ids, next_pid, state, user, prog, con>>
         /\ \A u \in ids : u # t /\ u # current_task => ctx'[u] = ctx[u]
         /\ current_task # t => ctx'[current_task].pt = "schedule"
         /\ target' = [u \in Pids |-> IF u = t /\ t # current_task /\ ctx[t].pt # "schedule"
                                      THEN NULL ELSE target[u]]
         /\ pc' = [u \in Pids |-> IF u = t /\ t # current_task /\ ctx[t].pt # "schedule"
                                  THEN "run" ELSE pc[u]]
<1> DEFINE t == links.next[current_task]
           c == [pt |-> "schedule", old |-> FALSE, frame |-> intr]
           saved == [ctx EXCEPT ![current_task] = c]
<1>1. /\ intr /\ switch_task(t, c)
      /\ UNCHANGED <<ids, next_pid, state, user, prog, con>>
  BY DEF Tick, TimerTick, schedule, get_next_task
<1>2. t \in ids /\ current_task \in ids /\ ids \subseteq Pids /\ ctx \in [Pids -> Contexts]
      /\ intr \in BOOLEAN /\ pc \in [Pids -> {"run", "sleep", "wakeup"}]
      /\ target \in [Pids -> Pids \cup {NULL}]
  BY NextInQueue DEF IInv, TypeOK, get_next_task
<1>3. /\ ctx' = [saved EXCEPT ![t] = NoContext] /\ current_task' = t
      /\ LeaveCall(IF saved[t].pt = "schedule" THEN {} ELSE {t})
  BY <1>1 DEF switch_task
<1>4. saved[t].pt = "schedule" <=> ~(t # current_task /\ ctx[t].pt # "schedule")
  <2>1. CASE t = current_task
    BY <2>1, <1>2
  <2>2. CASE t # current_task
    BY <2>2, <1>2
  <2> QED BY <2>1, <2>2
<1>5. \A u \in Pids : u \in (IF saved[t].pt = "schedule" THEN {} ELSE {t})
                      <=> u = t /\ t # current_task /\ ctx[t].pt # "schedule"
  BY <1>4
<1>6. /\ target' = [u \in Pids |-> IF u = t /\ t # current_task /\ ctx[t].pt # "schedule"
                                      THEN NULL ELSE target[u]]
      /\ pc' = [u \in Pids |-> IF u = t /\ t # current_task /\ ctx[t].pt # "schedule"
                                  THEN "run" ELSE pc[u]]
  BY <1>3, <1>5 DEF LeaveCall
<1>7. \A u \in ids : u # t /\ u # current_task => ctx'[u] = ctx[u]
  BY <1>2, <1>3
<1>8. current_task # t => ctx'[current_task].pt = "schedule"
  BY <1>2, <1>3
<1> HIDE DEF t
<1>9. intr = TRUE
  BY <1>1, <1>2
<1> QED BY <1>1, <1>2, <1>3, <1>6, <1>7, <1>8, <1>9 DEF t

\* A tick keeps the program's phase.
LEMMA TickPlaces ==
  ASSUME PInv, Tick PROVE (Single \/ Double)'
<1> DEFINE t == links.next[current_task]
<1>1. /\ intr = TRUE
      /\ current_task' = t /\ t \in ids
      /\ UNCHANGED <<ids, next_pid, state, user, prog>>
      /\ \A u \in ids : u # t /\ u # current_task => ctx'[u] = ctx[u]
      /\ target' = [u \in Pids |-> IF u = t /\ t # current_task /\ ctx[t].pt # "schedule"
                                   THEN NULL ELSE target[u]]
      /\ pc' = [u \in Pids |-> IF u = t /\ t # current_task /\ ctx[t].pt # "schedule"
                               THEN "run" ELSE pc[u]]
  BY TickIs DEF PInv
<1>2. current_task \in ids /\ ids \subseteq Pids
  BY DEF PInv, IInv, TypeOK
<1>3. state[current_task] = TS_RUNNING =>
        /\ state[t] = TS_RUNNING
        /\ \A u \in ids : u # current_task /\ state[u] = TS_RUNNING => t # current_task
  BY Successors, <1>2 DEF PInv
<1>4. state[t] = state[current_task]
  BY NextInQueue DEF PInv, IInv, get_next_task
<1> HIDE DEF t
<1>5. CASE Single
  BY <1>1, <1>2, <1>5 DEF Single
<1>6. CASE Double
  <2>1. ids = {0, 1} /\ 0 \in Pids /\ 1 \in Pids /\ t \in {0, 1} /\ current_task \in {0, 1}
    BY <1>1, <1>2, <1>6 DEF Double
  <2>2. pc[current_task] = "run"
    BY <1>1, <1>6 DEF Double
  <2>3. pc[1] = "run" /\ pc'[1] = "run"
    BY <1>1, <1>6, <2>1, <2>2 DEF Double, Child
  <2>4. pc'[0] = "run" \/ pc'[0] = pc[0]
    BY <1>1, <2>1
  <2>5. Child'
    BY <1>1, <1>6, <2>3 DEF Double, Child
  <2>6. pc[0] = "run" => pc'[0] = "run" 
    BY <2>4
  <2>7. CASE Fresh
    <3>1. Fresh'
      BY <1>1, <2>7, <2>6 DEF Fresh
    <3>2. pc'[t] = "run"
      BY <2>1, <2>3, <2>6, <2>7 DEF Fresh
    <3> QED BY <1>1, <1>6, <2>5, <3>1, <3>2 DEF Double
  <2>8. CASE Resting
    <3>1. current_task = 1
      BY <2>1, <2>2, <2>8 DEF Resting
    <3>2. CASE t = 1
      <4>1. pc'[0] = pc[0] /\ target'[0] = target[0] /\ ctx'[0] = ctx[0]
        BY <1>1, <2>1, <3>1, <3>2
      <4>2. Resting'
        BY <1>1, <2>8, <3>1, <3>2, <4>1 DEF Resting, Loop
      <4> QED BY <1>1, <1>6, <2>3, <2>5, <3>2, <4>2 DEF Double
    <3>3. CASE t = 0
      <4>1. pc'[0] = "run"
        BY <1>1, <2>1, <2>8, <3>1, <3>3 DEF Resting
      <4>2. state[0] = TS_RUNNING
        BY <1>4, <2>8, <3>1, <3>3 DEF Resting
      <4>3. \/ 0 < Sleep /\ Loop(0, 0) = "print"
            \/ 0 = Sleep /\ Loop(0, 0) = "ten"
        BY UserProgramAssumption DEF Loop
      <4>4. Counting'
        BY <1>1, <2>8, <4>1, <4>2, <4>3 DEF Resting, Counting
      <4> QED BY <1>1, <1>6, <2>5, <3>3, <4>1, <4>4 DEF Double
    <3> QED BY <2>1, <3>2, <3>3
  <2>9. CASE Counting
    <3>1. Counting'
      BY <1>1, <2>9, <2>6 DEF Counting
    <3>2. pc'[t] = "run"
      BY <2>1, <2>3, <2>6, <2>9 DEF Counting
    <3> QED BY <1>1, <1>6, <2>5, <3>1, <3>2 DEF Double
  <2>10. CASE Stopping
    BY <2>10, <2>2 DEF Stopping
  <2>11. CASE Solo
    <3>1. t = 0
      BY <1>3, <2>1, <2>11 DEF Solo
    <3>2. pc'[0] = "run" /\ pc[0] = "run"
      BY <2>11, <2>6 DEF Solo, Alone
    <3>3. Solo'
      BY <1>1, <2>11, <3>1, <3>2 DEF Solo, Alone
    <3> QED BY <1>1, <1>6, <2>5, <3>1, <3>2, <3>3 DEF Double
  <2>12. CASE Past
    <3>1. pc[0] = "run" /\ pc'[0] = "run"
      BY <2>1, <2>2, <2>12, <2>6 DEF Past
    <3>2. Past'
      BY <1>1, <2>12, <3>1 DEF Past
    <3>3. pc'[t] = "run"
      BY <2>1, <2>3, <3>1
    <3> QED BY <1>1, <1>6, <2>5, <3>2, <3>3 DEF Double
  <2> QED BY <1>6, <2>7, <2>8, <2>9, <2>10, <2>11, <2>12 DEF Double
<1> QED BY <1>5, <1>6 DEF PInv

\* Assigning to a variable of a task's program.
LEMMA AssignedOne ==
  ASSUME NEW r, r = [at |-> r.at, pid |-> r.pid, i |-> r.i, out |-> r.out], NEW x
  PROVE  /\ [r EXCEPT !.at = x] = [at |-> x, pid |-> r.pid, i |-> r.i, out |-> r.out]
         /\ [r EXCEPT !.out = x] = [at |-> r.at, pid |-> r.pid, i |-> r.i, out |-> x]
<1>1. ASSUME NEW a, NEW p, NEW k, NEW o
      PROVE  LET q == [at |-> a, pid |-> p, i |-> k, out |-> o] IN
             /\ [q EXCEPT !.at = x] = [at |-> x, pid |-> p, i |-> k, out |-> o]
             /\ [q EXCEPT !.out = x] = [at |-> a, pid |-> p, i |-> k, out |-> x]
  OBVIOUS
<1>2. PICK a, p, k, o : r = [at |-> a, pid |-> p, i |-> k, out |-> o]
  OBVIOUS
<1> QED BY <1>1, <1>2

\* Assigning to two of them.
LEMMA AssignedTwo ==
  ASSUME NEW r, r = [at |-> r.at, pid |-> r.pid, i |-> r.i, out |-> r.out], NEW x, NEW y
  PROVE  [r EXCEPT !.pid = x, !.at = y] = [at |-> y, pid |-> x, i |-> r.i, out |-> r.out]
<1>1. [r EXCEPT !.pid = x, !.at = y] = [[r EXCEPT !.pid = x] EXCEPT !.at = y]
  OBVIOUS
<1>2. [r EXCEPT !.pid = x] = [at |-> r.at, pid |-> x, i |-> r.i, out |-> r.out]
  OBVIOUS
<1>3. [[at |-> r.at, pid |-> x, i |-> r.i, out |-> r.out] EXCEPT !.at = y]
      = [at |-> y, pid |-> x, i |-> r.i, out |-> r.out]
  OBVIOUS
<1> QED BY <1>1, <1>2, <1>3

\* A step of the current task that gives its program these variables.
Stepped(a, p, k, o) ==
  /\ DOMAIN prog' = Pids /\ prog' = [t \in Pids |-> prog'[t]]
  /\ prog'[current_task] = [at |-> a, pid |-> p, i |-> k, out |-> o]
  /\ \A t \in Pids : t # current_task => prog'[t] = prog[t]

\* The processor's task is the only one whose program moves.
LEMMA SteppedIs ==
  ASSUME Shape, current_task \in Pids, NEW r, prog' = [prog EXCEPT ![current_task] = r],
         NEW a, NEW p, NEW k, NEW o, r = [at |-> a, pid |-> p, i |-> k, out |-> o]
  PROVE  Stepped(a, p, k, o) /\ Shape'
<1>1. Stepped(a, p, k, o)
  BY DEF Stepped, Shape
<1> QED BY <1>1 DEF Stepped, Shape

\* What each call of the program does to the variables.
LEMMA PutsIs ==
  ASSUME PInv, Puts
  PROVE  LET p == prog[current_task] IN
         Stepped(p.at, p.pid, p.i, Tail(p.out)) /\ Shape' /\ UNCHANGED vars
<1> DEFINE p == prog[current_task]
<1>1. current_task \in Pids /\ Shape
  BY DEF PInv, IInv, TypeOK
<1>2. prog' = [prog EXCEPT ![current_task] = [p EXCEPT !.out = Tail(p.out)]] /\ UNCHANGED vars
  BY Zenon DEF Puts
<1>3. p = [at |-> p.at, pid |-> p.pid, i |-> p.i, out |-> p.out]
  BY <1>1 DEF Shape
<1>4. [p EXCEPT !.out = Tail(p.out)] = [at |-> p.at, pid |-> p.pid, i |-> p.i, out |-> Tail(p.out)]
  <2> HIDE DEF p
  <2> QED BY <1>3, AssignedOne
<1> QED BY <1>1, <1>2, <1>4, SteppedIs

\* getpid, as an assignment to two variables.
LEMMA GetpidIs ==
  ASSUME PInv, GetpidCall
  PROVE  LET p == prog[current_task] IN
         /\ Stepped(IF current_task = 0 THEN "first" ELSE Loop(current_task, 0), current_task, p.i, p.out)
         /\ Shape' /\ UNCHANGED vars
<1> DEFINE p == prog[current_task]
           a == IF current_task = 0 THEN "first" ELSE Loop(current_task, 0)
<1>1. current_task \in Pids /\ Shape
  BY DEF PInv, IInv, TypeOK
<1>2. prog' = [prog EXCEPT ![current_task] = [p EXCEPT !.pid = current_task, !.at = a]] /\ UNCHANGED vars
  <2>1. prog' = [prog EXCEPT ![current_task].pid = current_task, ![current_task].at = a] /\ UNCHANGED vars
    BY Zenon DEF GetpidCall, getpid
  <2>2. [prog EXCEPT ![current_task].pid = current_task, ![current_task].at = a]
        = [prog EXCEPT ![current_task] = [p EXCEPT !.pid = current_task, !.at = a]]
    <3> HIDE DEF a
    <3>1. PICK t \in Pids : t = current_task
      BY <1>1
    <3>2. PICK f : f = prog
      OBVIOUS
    <3>3. f = [u \in Pids |-> f[u]]
      BY <1>1, <3>2 DEF Shape
    <3>4. [f EXCEPT ![t].pid = t, ![t].at = a] = [f EXCEPT ![t] = [f[t] EXCEPT !.pid = t, !.at = a]]
      BY <3>3
    <3> QED BY <3>1, <3>2, <3>4
  <2> QED BY <2>1, <2>2
<1>3. p = [at |-> p.at, pid |-> p.pid, i |-> p.i, out |-> p.out]
  BY <1>1 DEF Shape
<1>4. [p EXCEPT !.pid = current_task, !.at = a] = [at |-> a, pid |-> current_task, i |-> p.i, out |-> p.out]
  <2> HIDE DEF p, a
  <2> QED BY <1>3, AssignedTwo
<1> QED BY <1>1, <1>2, <1>4, SteppedIs

\* A jump to another place.
LEMMA GoIs ==
  ASSUME PInv, NEW a, Go(a)
  PROVE  LET p == prog[current_task] IN Stepped(a, p.pid, p.i, p.out) /\ Shape'
<1> DEFINE p == prog[current_task]
<1>1. current_task \in Pids /\ Shape
  BY DEF PInv, IInv, TypeOK
<1>2. prog' = [prog EXCEPT ![current_task] = [p EXCEPT !.at = a]]
  BY Zenon DEF Go
<1>3. p = [at |-> p.at, pid |-> p.pid, i |-> p.i, out |-> p.out]
  BY <1>1 DEF Shape
<1>4. [p EXCEPT !.at = a] = [at |-> a, pid |-> p.pid, i |-> p.i, out |-> p.out]
  <2> HIDE DEF p
  <2> QED BY <1>3, AssignedOne
<1> QED BY <1>1, <1>2, <1>4, SteppedIs

\* The printf of the loop.
LEMMA PrintIs ==
  ASSUME PInv, PrintLine
  PROVE  LET p == prog[current_task]
             k == IF p.i < Last THEN p.i + 1 ELSE Last
         IN  /\ \E o : Stepped(Loop(p.pid, k), p.pid, k, o)
             /\ Shape' /\ UNCHANGED vars
<1>1. current_task \in Pids /\ Shape
  BY DEF PInv, IInv, TypeOK
<1> DEFINE p == prog[current_task]
           k == IF p.i < Last THEN p.i + 1 ELSE Last
           o == Output(<<Num("d", p.pid), Lit(58), Num("d", p.i), Lit(LF)>>)
           r == [at |-> Loop(p.pid, k), pid |-> p.pid, i |-> k, out |-> o]
<1>2. prog' = [prog EXCEPT ![current_task] = r] /\ UNCHANGED vars
  BY DEF PrintLine
<1> HIDE DEF o
<1>3. Stepped(Loop(p.pid, k), p.pid, k, o) /\ Shape'
  <2> HIDE DEF k, p
  <2> QED BY <1>1, <1>2, SteppedIs DEF p
<1> QED BY <1>2, <1>3

----------------------------------------------------------------------------
(***************************************************************************)
(* Each step keeps the program's phase.                                    *)
(***************************************************************************)

\* What the steps need to know of the types.
LEMMA Basics ==
  ASSUME PInv
  PROVE  /\ current_task \in ids /\ ids \subseteq Pids /\ 0 \in Pids
         /\ state \in [Pids -> {TS_NONE, TS_RUNNING, TS_SLEEPING}]
         /\ \A t \in ids : state[t] # TS_NONE
         /\ pc \in [Pids -> {"run", "sleep", "wakeup"}]
         /\ target \in [Pids -> Pids \cup {NULL}] /\ ctx \in [Pids -> Contexts]
         /\ Double => 1 \in Pids /\ current_task \in {0, 1}
         /\ Sleep \in Nat /\ Wake \in Nat /\ Sleep < Wake /\ Last = Wake + 1
<1>1. TypeOK
  BY DEF PInv, IInv
<1>2. 0 \in Pids
  BY DEF Pids
<1> QED BY <1>1, <1>2, UserProgramAssumption DEF TypeOK, Double, Last

\* A string of the output leaves every task where it is.
LEMMA PutsPlaces ==
  ASSUME PInv, Puts PROVE (Single \/ Double)'
<1> DEFINE p == prog[current_task]
<1>1. Stepped(p.at, p.pid, p.i, Tail(p.out)) /\ UNCHANGED vars
  BY PutsIs
<1>2. \A t \in Pids : /\ prog'[t].at = prog[t].at /\ prog'[t].pid = prog[t].pid
                      /\ prog'[t].i = prog[t].i
  BY <1>1 DEF Stepped
<1>3. UNCHANGED <<ids, next_pid, current_task, state, ctx, pc, target, user, intr>>
  BY <1>1 DEF vars
<1>4. CASE Single
  BY <1>2, <1>3, <1>4, Basics DEF Single
<1>5. CASE Double
  <2>1. /\ prog'[0].at = prog[0].at /\ prog'[0].pid = prog[0].pid /\ prog'[0].i = prog[0].i
        /\ prog'[1].at = prog[1].at /\ prog'[1].pid = prog[1].pid
    BY <1>2, <1>5, Basics
  <2>2. Child'
    BY <1>3, <1>5, <2>1 DEF Double, Child
  <2>3. (Fresh \/ Resting \/ Counting \/ Stopping \/ Solo \/ Past)'
    BY <1>3, <1>5, <2>1 DEF Double, Fresh, Resting, Counting, Stopping, Solo, Alone, Past, Loop
  <2> QED BY <1>3, <1>5, <2>1, <2>2, <2>3 DEF Double
<1> QED BY <1>4, <1>5 DEF PInv

\* Where a task is that is about to make one of the calls.
LEMMA CallPlaces ==
  ASSUME PInv, NEW a, At(a), a \in {"fork", "getpid", "first", "ten", "twenty", "print"}
  PROVE  /\ pc[current_task] = "run" /\ prog[current_task].at = a
         /\ a = "fork" => Single
         /\ a # "fork" => Double
         /\ a \in {"first", "twenty"} => current_task = 0
         /\ current_task = 0 =>
              /\ a \in {"getpid", "first"} => Fresh
              /\ a = "ten" => Counting /\ prog[0].i = Sleep
              /\ a = "twenty" => Solo /\ prog[0].i = Wake
              /\ a = "print" => \/ Counting /\ prog[0].i < Sleep
                                \/ Solo /\ prog[0].i < Wake
                                \/ Past
<1>1. pc[current_task] = "run" /\ prog[current_task].at = a
  BY DEF At
<1>2. CASE Single
  BY <1>1, <1>2 DEF Single
<1>3. CASE Double
  <2>1. current_task \in {0, 1} /\ Loop(0, 0) \in {"ten", "twenty", "print"}
    BY <1>3, Basics DEF Loop
  <2>2. CASE current_task = 1
    BY <1>1, <1>3, <2>2 DEF Double, Child
  <2>3. CASE current_task = 0
    <3>1. pc[0] = "run" /\ prog[0].at = a /\ prog[0].i \in 0 .. Last
      BY <1>1, <1>3, <2>3 DEF Double
    <3>2. ~Resting /\ ~Stopping
      BY <3>1 DEF Resting, Stopping
    <3>3. CASE Fresh
      BY <3>1, <3>3, <1>3, <2>3 DEF Fresh
    <3>4. CASE Counting
      BY <3>1, <3>4, <1>3, <2>3 DEF Counting
    <3>5. CASE Solo
      <4>1. a = (IF prog[0].i = Wake THEN "twenty" ELSE "print") /\ prog[0].i \in Sleep .. Wake
        BY <3>1, <3>5, Basics DEF Solo, Alone
      <4> QED BY <3>1, <3>5, <1>3, <2>3, <4>1, Basics
    <3>6. CASE Past
      BY <3>1, <3>6, <1>3, <2>3 DEF Past
    <3> QED BY <1>3, <3>2, <3>3, <3>4, <3>5, <3>6 DEF Double
  <2> QED BY <2>1, <2>2, <2>3
<1> QED BY <1>2, <1>3 DEF PInv

\* getpid.
LEMMA GetpidPlaces ==
  ASSUME PInv, GetpidCall PROVE (Single \/ Double)'
<1> DEFINE p == prog[current_task]
           a == IF current_task = 0 THEN "first" ELSE Loop(current_task, 0)
<1>1. Stepped(a, current_task, p.i, p.out) /\ UNCHANGED vars
  BY GetpidIs
<1>2. UNCHANGED <<ids, next_pid, current_task, state, ctx, pc, target, user, intr>>
  BY <1>1 DEF vars
<1>3. At("getpid")
  BY DEF GetpidCall
<1>4. Double /\ pc[current_task] = "run"
  <2>1. "getpid" # "fork" /\ "print" # "fork"
    OBVIOUS
  <2> QED BY <1>3, <2>1, CallPlaces, Zenon
<1>5. current_task \in {0, 1} /\ 0 \in Pids /\ 1 \in Pids
  BY <1>4, Basics
<1>6. CASE current_task = 0
  <2>1. Fresh
    BY <1>3, <1>6, CallPlaces, Zenon
  <2>2. prog'[0].at = "first" /\ prog'[0].pid = 0 /\ prog'[0].i = prog[0].i /\ prog'[1] = prog[1]
    BY <1>1, <1>5, <1>6 DEF Stepped
  <2>3. Child' /\ Fresh'
    BY <1>2, <1>4, <2>1, <2>2 DEF Double, Child, Fresh
  <2> QED BY <1>2, <1>4, <2>2, <2>3 DEF Double
<1>7. CASE current_task = 1
  <2>1. prog'[1].at = Loop(1, 0) /\ prog'[1].pid = 1 /\ prog'[0] = prog[0]
    BY <1>1, <1>5, <1>7 DEF Stepped
  <2>2. Loop(1, 0) \in {"ten", "print"}
    BY DEF Loop
  <2>3. Child'
    BY <1>2, <1>4, <1>7, <2>1, <2>2 DEF Double, Child
  <2>4. (Fresh \/ Resting \/ Counting \/ Stopping \/ Solo \/ Past)'
    BY <1>2, <1>4, <2>1 DEF Double, Fresh, Resting, Counting, Stopping, Solo, Alone, Past, Loop
  <2> QED BY <1>2, <1>4, <2>1, <2>3, <2>4 DEF Double
<1> QED BY <1>5, <1>6, <1>7

\* printf and the loop's next turn.
LEMMA PrintPlaces ==
  ASSUME PInv, PrintLine PROVE (Single \/ Double)'
<1> DEFINE p == prog[current_task]
           k == IF p.i < Last THEN p.i + 1 ELSE Last
<1>1. PICK o : Stepped(Loop(p.pid, k), p.pid, k, o)
  BY PrintIs
<1>2. UNCHANGED <<ids, next_pid, current_task, state, ctx, pc, target, user, intr>>
  BY PrintIs DEF vars
<1>3. At("print")
  BY DEF PrintLine
<1>4. Double /\ pc[current_task] = "run" /\ p.at = "print"
  <2>1. "getpid" # "fork" /\ "print" # "fork"
    OBVIOUS
  <2> QED BY <1>3, <2>1, CallPlaces, Zenon
<1>5. current_task \in {0, 1} /\ 0 \in Pids /\ 1 \in Pids
  BY <1>4, Basics
<1>6. CASE current_task = 0
  <2>1. /\ prog'[0].at = Loop(0, k) /\ prog'[0].pid = 0 /\ prog'[0].i = k /\ prog'[1] = prog[1]
        /\ k = IF prog[0].i < Last THEN prog[0].i + 1 ELSE Last
    BY <1>1, <1>4, <1>5, <1>6 DEF Stepped, Double
  <2>2. Child'
    BY <1>2, <1>4, <2>1 DEF Double, Child
  <2>3. prog[0].i \in 0 .. Last /\ Sleep \in Nat /\ Wake \in Nat /\ Sleep < Wake /\ Last = Wake + 1
    BY <1>4, Basics DEF Double
  <2> HIDE DEF k
  <2>4. k \in 0 .. Last
    BY <2>1, <2>3
  <2>5. CASE Counting /\ prog[0].i < Sleep
    <3>1. Counting'
      BY <1>2, <2>1, <2>3, <2>5 DEF Counting, Loop
    <3> QED BY <1>2, <1>4, <2>1, <2>2, <2>4, <3>1 DEF Double
  <2>6. CASE Solo /\ prog[0].i < Wake
    <3>1. Solo'
      BY <1>2, <2>1, <2>3, <2>6 DEF Solo, Alone, Loop
    <3> QED BY <1>2, <1>4, <2>1, <2>2, <2>4, <3>1 DEF Double
  <2>7. CASE Past
    <3>1. Past'
      BY <1>2, <2>1, <2>3, <2>7 DEF Past, Loop
    <3> QED BY <1>2, <1>4, <2>1, <2>2, <2>4, <3>1 DEF Double
  <2>8. (Counting /\ prog[0].i < Sleep) \/ (Solo /\ prog[0].i < Wake) \/ Past
    BY <1>3, <1>6, CallPlaces, Zenon
  <2> QED BY <2>5, <2>6, <2>7, <2>8
<1>7. CASE current_task = 1
  <2>1. prog'[1].at = Loop(1, k) /\ prog'[1].pid = 1 /\ prog'[0] = prog[0]
    BY <1>1, <1>4, <1>5, <1>7 DEF Stepped, Double, Child
  <2>2. Loop(1, k) \in {"ten", "print"}
    BY DEF Loop
  <2>3. Child'
    BY <1>2, <1>4, <1>7, <2>1, <2>2 DEF Double, Child
  <2>4. (Fresh \/ Resting \/ Counting \/ Stopping \/ Solo \/ Past)'
    BY <1>2, <1>4, <2>1 DEF Double, Fresh, Resting, Counting, Stopping, Solo, Alone, Past, Loop
  <2> QED BY <1>2, <1>4, <2>1, <2>3, <2>4 DEF Double
<1> QED BY <1>5, <1>6, <1>7

\* Both calls find the task they ask for and may act on it.
LEMMA EnterIs ==
  ASSUME IInv, NEW call, NEW q \in ids, current_task \in user, Enter(call, q)
  PROVE  /\ pc' = [pc EXCEPT ![current_task] = call]
         /\ target' = [target EXCEPT ![current_task] = q]
         /\ intr' = FALSE
         /\ UNCHANGED <<ids, next_pid, current_task, state, ctx, user>>
<1>1. TypeOK /\ PidsDense
  BY DEF IInv
<1>2. q \in Pids /\ q \in 0 .. MaxTasks /\ current_task \in Pids
  BY <1>1 DEF TypeOK, Pids
<1>3. id2task(q) = q
  BY <1>1, <1>2, LookupDense
<1>4. q # NULL /\ state[q] # TS_ZOMBIE /\ Permitted(q)
  <2>1. q # NULL
    BY <1>2 DEF Pids, NULL
  <2>2. uid[q] = uid[current_task]
    BY <1>1, <1>2 DEF TypeOK
  <2>3. state[q] \in {TS_NONE, TS_RUNNING, TS_SLEEPING}
    BY <1>1, <1>2 DEF TypeOK
  <2> QED BY <2>1, <2>2, <2>3 DEF TS_ZOMBIE, Permitted
<1>5. /\ pc' = [pc EXCEPT ![current_task] = call]
      /\ target' = [target EXCEPT ![current_task] = q]
      /\ intr' = IntrInCall
      /\ UNCHANGED <<ids, next_pid, current_task, state, ctx, user>>
  BY <1>3, <1>4 DEF Enter
<1>6. IntrInCall = FALSE
  BY <1>1 DEF TypeOK, IntrInCall, GateClearsIF, SyscallGate
<1> QED BY <1>5, <1>6

\* sleep and wakeup, up to CLI_SAVE_EFLAGS.
LEMMA SleepPlaces ==
  ASSUME PInv, SleepCall PROVE (Single \/ Double)' /\ Shape'
<1> DEFINE p == prog[current_task]
<1>1. PICK a, b, call, q :
        /\ At(a) /\ Enter(call, q) /\ Go(b)
        /\ \/ a = "first" /\ b = Loop(0, 0) /\ call = "sleep" /\ q = 0
           \/ a = "ten" /\ b = "print" /\ p.pid = 1 /\ call = "wakeup" /\ q = 0
           \/ a = "ten" /\ b = "print" /\ p.pid = 0 /\ call = "sleep" /\ q = 1
           \/ a = "twenty" /\ b = "print" /\ call = "wakeup" /\ q = 1
  <2>1. Call(SYS_sleep) = "sleep" /\ Call(SYS_wakeup) = "wakeup"
    BY DEF Call, isr0x80, syscall_func_addr, NR_SYSCALLS, SYS_sleep, SYS_wakeup
  <2> QED BY <2>1 DEF SleepCall
<1>2. Double /\ pc[current_task] = "run" /\ p.at = a
  <2>1. a \in {"fork", "getpid", "first", "ten", "twenty", "print"} /\ a # "fork"
    BY <1>1
  <2> QED BY <1>1, <2>1, CallPlaces, Zenon
<1>3. current_task \in {0, 1} /\ 0 \in Pids /\ 1 \in Pids /\ ids = {0, 1} /\ current_task \in user
      /\ pc \in [Pids -> {"run", "sleep", "wakeup"}] /\ target \in [Pids -> Pids \cup {NULL}]
  BY <1>2, Basics DEF Double
<1>4. /\ pc' = [pc EXCEPT ![current_task] = call]
      /\ target' = [target EXCEPT ![current_task] = q]
      /\ intr' = FALSE
      /\ UNCHANGED <<ids, next_pid, current_task, state, ctx, user>>
  <2>1. q \in ids /\ IInv
    BY <1>1, <1>3 DEF PInv
  <2> QED BY <1>1, <1>3, <2>1, EnterIs
<1>5. Stepped(b, p.pid, p.i, p.out) /\ Shape'
  BY <1>1, GoIs
<1>6. ASSUME current_task = 0 PROVE Double'
  <2>1. /\ prog'[0].at = b /\ prog'[0].pid = 0 /\ prog'[0].i = prog[0].i /\ prog'[1] = prog[1]
    BY <1>2, <1>3, <1>5, <1>6 DEF Stepped, Double
  <2>2. pc'[0] = call /\ target'[0] = q /\ pc'[1] = pc[1] /\ target'[1] = target[1]
    BY <1>3, <1>4, <1>6
  <2>3. Child'
    BY <1>2, <1>4, <2>1, <2>2 DEF Double, Child
  <2>4. CASE a = "first"
    <3>1. Fresh
      <4>1. a \in {"fork", "getpid", "first", "ten", "twenty", "print"} /\ a \in {"getpid", "first"}
        BY <2>4
      <4> QED BY <1>1, <1>6, <4>1, CallPlaces, Zenon
    <3>2. b = Loop(0, 0) /\ call = "sleep" /\ q = 0
      BY <1>1, <2>4
    <3>3. Resting'
      BY <1>4, <1>6, <2>1, <2>2, <3>1, <3>2 DEF Fresh, Resting, Loop
    <3> QED BY <1>2, <1>4, <2>1, <2>3, <3>3 DEF Double
  <2>5. CASE a = "ten"
    <3>1. Counting /\ prog[0].i = Sleep
      <4>1. a \in {"fork", "getpid", "first", "ten", "twenty", "print"}
        BY <2>5
      <4> QED BY <1>1, <1>6, <2>5, <4>1, CallPlaces, Zenon
    <3>2. b = "print" /\ call = "sleep" /\ q = 1
      BY <1>1, <1>2, <1>6, <2>5 DEF Double
    <3>3. Stopping'
      BY <1>4, <1>6, <2>1, <2>2, <3>1, <3>2 DEF Counting, Stopping
    <3> QED BY <1>2, <1>4, <2>1, <2>3, <3>3 DEF Double
  <2>6. CASE a = "twenty"
    <3>1. Solo /\ prog[0].i = Wake
      <4>1. a \in {"fork", "getpid", "first", "ten", "twenty", "print"}
        BY <2>6
      <4> QED BY <1>1, <1>6, <2>6, <4>1, CallPlaces, Zenon
    <3>2. b = "print" /\ call = "wakeup" /\ q = 1
      BY <1>1, <2>6
    <3>3. Past'
      BY <1>4, <1>6, <2>1, <2>2, <3>1, <3>2, Basics DEF Past
    <3> QED BY <1>2, <1>4, <2>1, <2>3, <3>3 DEF Double
  <2> QED BY <1>1, <2>4, <2>5, <2>6
<1>7. ASSUME current_task = 1 PROVE Double'
  <2>1. prog[1].at = a /\ prog[1].pid = 1 /\ prog[1].at = "ten" /\ b = "print" /\ call = "wakeup" /\ q = 0
    BY <1>1, <1>2, <1>7 DEF Double, Child
  <2>2. prog'[1].at = "print" /\ prog'[1].pid = 1 /\ prog'[0] = prog[0]
    BY <1>3, <1>5, <1>7, <2>1 DEF Stepped
  <2>3. pc'[1] = "wakeup" /\ target'[1] = 0 /\ pc'[0] = pc[0] /\ target'[0] = target[0]
    BY <1>3, <1>4, <1>7, <2>1
  <2>4. Child'
    BY <1>4, <1>7, <2>2, <2>3 DEF Child
  <2>5. (Fresh \/ Resting \/ Counting \/ Stopping \/ Solo \/ Past)'
    BY <1>2, <1>4, <2>2, <2>3 DEF Double, Fresh, Resting, Counting, Stopping, Solo, Alone, Past, Loop
  <2> QED BY <1>2, <1>4, <2>2, <2>4, <2>5 DEF Double
<1> QED BY <1>3, <1>5, <1>6, <1>7

\* fork.
LEMMA ForkPlaces ==
  ASSUME PInv, ForkCall PROVE (Single \/ Double)' /\ Shape'
<1>1. At("fork") /\ Fork
      /\ prog' = [prog EXCEPT ![current_task].at = "getpid",
                              ![get_next_pid] = [prog[current_task] EXCEPT !.at = "getpid"]]
  BY Zenon DEF ForkCall
<1>2. Single
  BY <1>1, CallPlaces, Zenon
<1>3. get_next_pid = 1 /\ current_task = 0 /\ next_pid = 1
  BY <1>2, NextPid DEF PInv, IInv, Single
<1>4. /\ 1 < MaxTasks /\ 0 \in Pids /\ 1 \in Pids
      /\ ids' = {0, 1} /\ next_pid' = 2 /\ user' = {0, 1}
      /\ state'[0] = TS_RUNNING /\ state'[1] = TS_RUNNING
      /\ UNCHANGED <<current_task, pc, target, intr>>
  <2>1. /\ 1 < MaxTasks /\ ids' = ids \cup {1} /\ next_pid' = 1 + 1
        /\ state' = [state EXCEPT ![1] = TS_RUNNING]
        /\ user' = IF current_task \in user THEN user \cup {1} ELSE user
        /\ UNCHANGED <<current_task, pc, target, intr>>
    BY <1>1, <1>3 DEF Fork, Registered
  <2>2. 0 \in Pids /\ 1 \in Pids
    BY <2>1 DEF Pids
  <2>3. user = {0}
    BY <1>1, <1>2 DEF At, Single
  <2> QED BY <1>2, <1>3, <2>1, <2>2, <2>3, Basics DEF Single
<1>5. /\ DOMAIN prog' = Pids /\ prog' = [t \in Pids |-> prog'[t]]
      /\ \A t \in {0, 1} : prog'[t] = [at |-> "getpid", pid |-> prog[0].pid, i |-> prog[0].i, out |-> prog[0].out]
      /\ \A t \in Pids \ {0, 1} : prog'[t] = prog[t]
  <2>1. Shape
    BY DEF PInv
  <2>2. PICK r : r = [prog[0] EXCEPT !.at = "getpid"]
    OBVIOUS
  <2>3. r = [at |-> "getpid", pid |-> prog[0].pid, i |-> prog[0].i, out |-> prog[0].out]
    <3>1. PICK s : s = prog[0]
      OBVIOUS
    <3>2. s = [at |-> s.at, pid |-> s.pid, i |-> s.i, out |-> s.out]
      BY <2>1, <3>1, <1>4 DEF Shape
    <3>3. [s EXCEPT !.at = "getpid"] = [at |-> "getpid", pid |-> s.pid, i |-> s.i, out |-> s.out]
      BY <3>2, AssignedOne
    <3> QED BY <2>2, <3>1, <3>3
  <2>4. prog' = [prog EXCEPT ![0].at = "getpid", ![1] = [prog[0] EXCEPT !.at = "getpid"]]
    BY <1>1, <1>3
  <2>5. prog' = [prog EXCEPT ![0] = r, ![1] = r]
    BY <2>2, <2>4
  <2> HIDE <2>4, <2>2
  <2> QED BY <1>4, <2>1, <2>3, <2>5 DEF Shape
<1>6. Shape'
  <2> SUFFICES ASSUME NEW t \in Pids
               PROVE  prog'[t] = [at |-> prog'[t].at, pid |-> prog'[t].pid, i |-> prog'[t].i, out |-> prog'[t].out]
    BY <1>5 DEF Shape
  <2> QED BY <1>5 DEF PInv, Shape
<1>7. prog'[0].at = "getpid" /\ prog'[0].pid = 0 /\ prog'[0].i = 0 /\ prog'[1].at = "getpid"
  BY <1>2, <1>5 DEF Single
<1>8. pc[0] = "run" /\ pc[1] = "run"
  BY <1>2, <1>4 DEF Single
<1>9. Child' /\ Fresh'
  BY <1>4, <1>7, <1>8 DEF Child, Fresh
<1>10. 0 \in 0 .. Last
  BY Basics
<1>11. Double'
  BY <1>3, <1>4, <1>7, <1>8, <1>9, <1>10 DEF Double
<1> QED BY <1>6, <1>11

\* The kernel's part of sleep and wakeup.
LEMMA KernelPlaces ==
  ASSUME PInv, KernelStep PROVE (Single \/ Double)'
<1> DEFINE q == target[current_task]
<1>1. UNCHANGED <<ids, next_pid, user, prog>> /\ (SleepBody \/ WakeupBody) /\ pc[current_task] # "run"
  BY DEF KernelStep, SleepBody, WakeupBody
<1>2. Double
  BY <1>1, Basics DEF PInv, Single
<1>3. /\ current_task \in {0, 1} /\ 0 \in Pids /\ 1 \in Pids /\ ids = {0, 1}
      /\ pc \in [Pids -> {"run", "sleep", "wakeup"}] /\ target \in [Pids -> Pids \cup {NULL}]
      /\ state \in [Pids -> {TS_NONE, TS_RUNNING, TS_SLEEPING}]
      /\ state[1] # TS_NONE /\ state[0] # TS_NONE
  BY <1>2, Basics DEF Double
<1>4. Return => /\ UNCHANGED <<current_task, ctx>>
                /\ pc'[current_task] = "run"
                /\ \A t \in Pids : t # current_task => pc'[t] = pc[t] /\ target'[t] = target[t]
  BY <1>3 DEF Return, LeaveCall
<1>5. CASE SleepBody /\ current_task = 0
  <2>1. Resting \/ Stopping
    BY <1>1, <1>2, <1>5 DEF SleepBody, Double, Fresh, Counting, Solo, Alone, Past
  <2>2. pc[1] = "run"
    BY <1>2, <1>5 DEF Double, Child
  <2>3. CASE Resting
    <3>1. q = 0 /\ state[q] = TS_RUNNING /\ state[1] = TS_RUNNING
      BY <1>5, <2>3 DEF Resting
    <3>2. SleepSelf
      BY <1>5, <3>1 DEF SleepBody
    <3>3. links.next[0] = 1
      BY <1>3, <1>5, <3>1, Successors DEF PInv
    <3> DEFINE c == [pt |-> "sleep", old |-> intr, frame |-> sysframe[current_task]]
    <3>4. /\ state' = [state EXCEPT ![0] = TS_SLEEPING]
          /\ switch_task(1, c)
      BY <1>5, <3>2, <3>3 DEF SleepSelf, Move, get_next_task
    <3>5. /\ current_task' = 1 /\ ctx'[0].pt = "sleep"
          /\ pc'[0] = pc[0] /\ target'[0] = target[0] /\ pc'[1] = "run"
      <4> DEFINE saved == [ctx EXCEPT ![current_task] = c]
      <4>1. /\ ctx' = [saved EXCEPT ![1] = NoContext] /\ current_task' = 1
            /\ LeaveCall(IF saved[1].pt = "schedule" THEN {} ELSE {1})
        BY <3>4 DEF switch_task
      <4>2. ctx'[0] = c
        BY <4>1, <1>3, <1>5, Basics
      <4>3. \E T : T \subseteq {1} /\ LeaveCall(T)
        BY <4>1
      <4>4. pc'[0] = pc[0] /\ target'[0] = target[0] /\ pc'[1] = "run"
        BY <4>3, <2>2, <1>3 DEF LeaveCall
      <4> QED BY <4>1, <4>2, <4>4
    <3>6. Resting'
      BY <1>1, <1>3, <2>3, <3>1, <3>4, <3>5 DEF Resting, Loop
    <3>7. Child'
      BY <1>1, <1>2, <3>5 DEF Double, Child
    <3> QED BY <1>1, <1>2, <3>5, <3>6, <3>7 DEF Double
  <2>4. CASE Stopping
    <3>1. q = 1 /\ state[0] = TS_RUNNING /\ pc[0] = "sleep"
      BY <1>5, <2>4 DEF Stopping
    <3>2. Return /\ state'[0] = TS_RUNNING /\ state'[1] = TS_SLEEPING
      <4>1. CASE state[1] # TS_RUNNING
        BY <1>3, <1>5, <3>1, <4>1 DEF SleepBody
      <4>2. CASE state[1] = TS_RUNNING
        BY <1>3, <1>5, <3>1, <4>2 DEF SleepBody, Move
      <4> QED BY <4>1, <4>2
    <3>3. Solo'
      BY <1>1, <1>2, <1>4, <1>5, <2>4, <3>2, Basics DEF Solo, Alone, Stopping, Double
    <3>4. Child'
      BY <1>1, <1>2, <1>3, <1>4, <1>5, <2>2, <3>2 DEF Double, Child
    <3> QED BY <1>1, <1>2, <1>4, <3>2, <3>3, <3>4 DEF Double
  <2> QED BY <2>1, <2>3, <2>4
<1>6. CASE WakeupBody /\ current_task = 0
  <2>1. Past /\ pc[1] = "run"
    BY <1>1, <1>2, <1>6 DEF WakeupBody, Double, Child, Fresh, Resting, Counting, Stopping, Solo, Alone
  <2>2. Return
    BY <1>6 DEF WakeupBody
  <2>3. Past'
    BY <1>1, <1>4, <1>6, <2>1, <2>2 DEF Past
  <2>4. Child'
    BY <1>1, <1>2, <1>3, <1>4, <1>6, <2>1, <2>2 DEF Double, Child
  <2> QED BY <1>1, <1>2, <1>4, <2>2, <2>3, <2>4 DEF Double
<1>7. CASE current_task = 1
  <2>1. WakeupBody /\ q = 0
    BY <1>1, <1>2, <1>7 DEF SleepBody, Double, Child
  <2>2. Return
    BY <2>1 DEF WakeupBody
  <2>3. /\ current_task' = 1 /\ ctx' = ctx /\ pc'[1] = "run" /\ pc'[0] = pc[0] /\ target'[0] = target[0]
    BY <1>3, <1>4, <1>7, <2>2
  <2>4. state'[1] = state[1] /\ (state[0] = TS_RUNNING => state'[0] = TS_RUNNING)
    BY <1>3, <2>1 DEF WakeupBody, Move
  <2>5. Child'
    BY <1>1, <1>2, <2>3 DEF Double, Child
  <2>6. (Fresh \/ Resting \/ Counting \/ Past)'
    <3>1. CASE Fresh
      BY <1>1, <2>3, <2>4, <3>1 DEF Fresh
    <3>2. CASE Resting
      BY <1>1, <1>7, <2>3, <2>4, <3>2 DEF Resting, Loop
    <3>3. CASE Counting
      BY <1>1, <2>3, <2>4, <3>3 DEF Counting
    <3>4. CASE Past
      BY <1>1, <1>7, <2>3, <3>4 DEF Past
    <3> QED BY <1>2, <1>7, <3>1, <3>2, <3>3, <3>4 DEF Double, Stopping, Solo
  <2> QED BY <1>1, <1>2, <2>3, <2>5, <2>6 DEF Double
<1> QED BY <1>1, <1>3, <1>5, <1>6, <1>7

\* switch_to_user_mode and _start.
LEMMA StartPlaces ==
  ASSUME PInv, Start PROVE (Single \/ Double)' /\ Shape'
<1> DEFINE r == [at |-> "fork", pid |-> 0, i |-> 0, out |-> Output(Hello)]
<1>1. Single /\ current_task = 0 /\ user = {}
  BY DEF PInv, Double, Single, Start
<1>2. user' = {0} /\ UNCHANGED <<ids, next_pid, current_task, state, pc>>
  BY <1>1 DEF Start, SwitchToUserMode
<1>3. prog' = [prog EXCEPT ![current_task] = r] /\ current_task \in Pids
  BY Basics DEF Start
<1>4. Stepped("fork", 0, 0, Output(Hello)) /\ Shape'
  BY <1>3, SteppedIs DEF PInv
<1>5. prog'[0] = r
  BY <1>1, <1>4 DEF Stepped
<1>6. prog'[0].at = "fork" /\ prog'[0].pid = 0 /\ prog'[0].i = 0
  BY <1>5
<1> QED BY <1>1, <1>2, <1>4, <1>6 DEF Single

\* The kernel's console calls and steps that change nothing.
LEMMA SamePlaces ==
  ASSUME PInv, UNCHANGED <<vars, prog>> PROVE (Single \/ Double)' /\ Shape'
<1>1. UNCHANGED <<ids, next_pid, current_task, state, ctx, pc, target, user, intr>> /\ UNCHANGED prog
  BY DEF vars
<1>2. Single => Single'
  BY <1>1 DEF Single
<1>3. Double => Double'
  BY <1>1 DEF Double, Child, Fresh, Resting, Counting, Stopping, Solo, Alone, Past, Loop
<1>4. Shape'
  BY <1>1 DEF PInv, Shape
<1> QED BY <1>2, <1>3, <1>4 DEF PInv

\* The invariant of the program.
LEMMA ProgInitPlaces == ProgInit => PInv
<1> SUFFICES ASSUME ProgInit PROVE PInv
  OBVIOUS
<1>1. IInv
  BY InitInvariant DEF ProgInit
<1>2. prog = [t \in Pids |-> [at |-> "none", pid |-> 0, i |-> 0, out |-> <<>>]] /\ 0 \in Pids
  BY DEF ProgInit, Pids
<1>3. Shape
  BY <1>2 DEF Shape
<1>4. Single
  BY <1>2 DEF Single, ProgInit, Init
<1> QED BY <1>1, <1>3, <1>4 DEF PInv

\* Every step keeps it.
LEMMA ProgNextPlaces == PInv /\ [ProgNext]_progvars => PInv'
<1> SUFFICES ASSUME PInv, [ProgNext]_progvars PROVE PInv'
  OBVIOUS
<1>1. IInv'
  BY TaskSteps, NextInvariant DEF PInv
<1>2. CASE Kernel
  BY <1>1, <1>2, SamePlaces DEF Kernel, PInv
<1>3. CASE Start
  BY <1>1, <1>3, StartPlaces DEF PInv
<1>4. CASE Puts
  BY <1>1, <1>4, PutsPlaces, PutsIs DEF PInv
<1>5. CASE ForkCall
  BY <1>1, <1>5, ForkPlaces DEF PInv
<1>6. CASE GetpidCall
  BY <1>1, <1>6, GetpidPlaces, GetpidIs DEF PInv
<1>7. CASE SleepCall
  BY <1>1, <1>7, SleepPlaces DEF PInv
<1>8. CASE PrintLine
  BY <1>1, <1>8, PrintPlaces, PrintIs DEF PInv
<1>9. CASE KernelStep
  <2>1. Shape'
    BY <1>9 DEF KernelStep, PInv, Shape
  <2> QED BY <1>1, <1>9, <2>1, KernelPlaces DEF PInv
<1>10. CASE Tick
  <2>1. Shape'
    BY <1>10 DEF Tick, PInv, Shape
  <2> QED BY <1>1, <1>10, <2>1, TickPlaces DEF PInv
<1>11. CASE UNCHANGED progvars
  BY <1>1, <1>11, SamePlaces DEF progvars, PInv
<1> QED BY <1>2, <1>3, <1>4, <1>5, <1>6, <1>7, <1>8, <1>9, <1>10, <1>11 DEF ProgNext, Program

\* The program's phases, for every number of tasks and every turn at which
\* test_sleep acts.
THEOREM PhasesHold == ProgSpec => []PInv
<1>1. ProgInit => PInv
  BY ProgInitPlaces
<1>2. PInv /\ [ProgNext]_progvars => PInv'
  BY ProgNextPlaces
<1> QED BY <1>1, <1>2, PTL DEF ProgSpec

\* While pid 0 is alone it has the processor, and only the task that has it
\* changes its own part of the program.
LEMMA SilentStep ==
  ASSUME PInv, Alone, [ProgNext]_progvars PROVE UNCHANGED prog[1]
<1>1. Double /\ Solo
  <2>1. ~Single
    BY Basics DEF Single, Alone
  <2>2. Double /\ pc[0] = "run" /\ Sleep < Wake /\ Sleep \in Nat /\ Wake \in Nat
    BY <2>1, Basics DEF PInv, Alone
  <2>3. ~Resting /\ ~Stopping
    BY <2>2 DEF Resting, Stopping
  <2>4. ~Fresh
    BY <2>2 DEF Fresh, Alone
  <2>5. ~Counting
    BY <2>2 DEF Counting, Alone
  <2>6. ~Past
    BY <2>2 DEF Past, Alone
  <2> QED BY <2>2, <2>3, <2>4, <2>5, <2>6 DEF Double
<1>2. current_task = 0 /\ 1 \in Pids /\ user # {} /\ ~Single
  <2>1. current_task = 0 /\ 1 \in Pids /\ user # {}
    BY <1>1, Basics DEF Solo, Double
  <2>2. ~Single
    BY <1>1 DEF Single, Double
  <2> QED BY <2>1, <2>2
<1>3. CASE Kernel \/ KernelStep \/ Tick \/ UNCHANGED progvars
  BY <1>3 DEF Kernel, KernelStep, Tick, progvars
<1>4. CASE Start
  BY <1>2, <1>4 DEF Start
<1>5. CASE Puts
  BY <1>2, <1>5, PutsIs DEF Stepped
<1>6. CASE GetpidCall
  BY <1>2, <1>6, GetpidIs DEF Stepped
<1>7. CASE PrintLine
  <2>1. \E a, p, k, o : Stepped(a, p, k, o)
    BY <1>7, PrintIs
  <2> QED BY <1>2, <2>1 DEF Stepped
<1>8. CASE ForkCall
  <2>1. At("fork")
    BY <1>8 DEF ForkCall
  <2> QED BY <1>2, <2>1, CallPlaces, Zenon
<1>9. CASE SleepCall
  <2>1. PICK b : Go(b)
    BY <1>9 DEF SleepCall
  <2>2. \E a, p, k, o : Stepped(a, p, k, o)
    BY <2>1, GoIs
  <2> QED BY <1>2, <2>2 DEF Stepped
<1> QED BY <1>3, <1>4, <1>5, <1>6, <1>7, <1>8, <1>9 DEF ProgNext, Program

\* From the return of pid 0's sleep(1) to its wakeup(1) pid 1 does nothing,
\* whatever call the sleep caught it in.
THEOREM SilentHolds == ProgSpec => SleeperSilent
<1>1. PInv /\ [ProgNext]_progvars => [Alone => UNCHANGED prog[1]]_progvars
  BY SilentStep
<1> QED BY <1>1, PhasesHold, PTL DEF ProgSpec, SleeperSilent

----------------------------------------------------------------------------
(***************************************************************************)
(* Numbers.  u2s divides by the base until nothing is left; the numeral    *)
(* takes every digit from its weight.                                      *)
(***************************************************************************)

\* The powers of a base.
LEMMA PowerIs ==
  ASSUME NEW b \in Nat
  PROVE  /\ Power(b, 0) = 1
         /\ \A k \in Nat : Power(b, k) \in Nat /\ Power(b, k + 1) = b * Power(b, k)
<1> DEFINE d == [m \in Nat |-> IF m = 0 THEN 0 ELSE m - 1]
           F == [x \in Nat \X Nat |-> b * x[2]]
           Is(w) == w = [j \in Nat |-> IF j = 0 THEN 1 ELSE b * w[j - 1]]
           up == CHOOSE w : Is(w)
<1>1. Descends(Nat, d) /\ F \in [Nat \X Nat -> Nat] /\ 1 \in Nat
  BY DEF Descends
<1>2. \A m \in Nat, v \in Nat : F[<<m, v>>] = b * v
  OBVIOUS
<1>3. \A m \in Nat : m # 0 => d[m] = m - 1 /\ m - 1 \in Nat
  OBVIOUS
<1>4. \E f \in [Nat -> Nat] : Is(f)
  <2> HIDE DEF F, d
  <2>1. PICK f \in [Nat -> Nat] : Obeys(f, Nat, d, 1, F)
    BY <1>1, ObeysTyped
  <2>2. \A m \in Nat : f[m] = IF m = 0 THEN 1 ELSE b * f[m - 1]
    <3> SUFFICES ASSUME NEW m \in Nat PROVE f[m] = IF m = 0 THEN 1 ELSE b * f[m - 1]
      OBVIOUS
    <3>1. m # 0 => d[m] = m - 1 /\ f[m - 1] \in Nat
      BY <1>3
    <3>2. m # 0 => F[<<m, f[m - 1]>>] = b * f[m - 1]
      BY <1>2, <3>1
    <3> QED BY <2>1, <3>1, <3>2, Zenon DEF Obeys
  <2>3. f = [m \in Nat |-> f[m]]
    OBVIOUS
  <2>4. Is(f)
    BY <2>2, <2>3, Zenon
  <2> QED BY <2>4
<1>5. Is(up)
  BY <1>4
<1>6. \A k \in Nat : Power(b, k) = up[k]
  BY Zenon DEF Power
<1>7. \A k \in Nat : up[k] = IF k = 0 THEN 1 ELSE b * up[k - 1]
  <2> HIDE DEF up
  <2> QED BY <1>5, Zenon
<1> HIDE DEF up
<1> DEFINE S == {k \in Nat : up[k] \in Nat}
<1>8. \A k \in Nat : up[k + 1] = b * up[k]
  BY <1>7
<1>9. up[0] = 1
  BY <1>7
<1>10. \A k \in Nat : k \in S
  <2>1. 0 \in S /\ \A k \in Nat : k \in S => k + 1 \in S
    BY <1>8, <1>9
  <2> HIDE DEF S
  <2> QED BY <2>1, NatSet
<1> QED BY <1>6, <1>8, <1>9, <1>10

\* Powers of a base grow.
LEMMA PowerGrows ==
  ASSUME NEW b \in Nat, b > 1
  PROVE  /\ \A k \in Nat : Power(b, k) > 0
         /\ \A k, j \in Nat : k <= j => Power(b, k) <= Power(b, j)
<1>1. Power(b, 0) = 1 /\ \A k \in Nat : Power(b, k) \in Nat /\ Power(b, k + 1) = b * Power(b, k)
  BY PowerIs
<1> DEFINE S == {k \in Nat : Power(b, k) > 0}
<1>2. \A k \in Nat : k \in S
  <2>1. 0 \in S /\ \A k \in Nat : k \in S => k + 1 \in S
    BY <1>1
  <2> HIDE DEF S
  <2> QED BY <2>1, NatSet
<1>3. \A k \in Nat : Power(b, k) <= Power(b, k + 1)
  <2> SUFFICES ASSUME NEW k \in Nat, NEW p \in Nat, p = Power(b, k) PROVE p <= b * p
    BY <1>1
  <2> QED OBVIOUS
<1>4. ASSUME NEW k \in Nat, NEW e \in Nat PROVE Power(b, k) <= Power(b, k + e)
  <2> DEFINE T == {i \in Nat : Power(b, k) <= Power(b, k + i)}
  <2>1. 0 \in T
    BY <1>1
  <2>2. ASSUME NEW i \in Nat, i \in T PROVE i + 1 \in T
    <3>1. k + i \in Nat /\ k + (i + 1) = (k + i) + 1 /\ k + i + 1 \in Nat
      OBVIOUS
    <3>2. Power(b, k) <= Power(b, k + i) /\ Power(b, k + i) <= Power(b, (k + i) + 1)
      BY <1>3, <2>2, <3>1
    <3>3. Power(b, k) \in Nat /\ Power(b, k + i) \in Nat /\ Power(b, (k + i) + 1) \in Nat
      BY <1>1, <3>1
    <3>4. Power(b, k) <= Power(b, k + (i + 1))
      BY <3>1, <3>2, <3>3
    <3> QED BY <3>4
  <2>3. \A i \in Nat : i \in T
    <3> HIDE DEF T
    <3> QED BY <2>1, <2>2, NatSet
  <2> QED BY <2>3
<1>5. ASSUME NEW k \in Nat, NEW j \in Nat, k <= j PROVE Power(b, k) <= Power(b, j)
  <2>1. j - k \in Nat /\ k + (j - k) = j
    BY <1>5
  <2>2. Power(b, k) <= Power(b, k + (j - k))
    BY <2>1, <1>4
  <2> QED BY <2>1, <2>2
<1> QED BY <1>2, <1>5

\* Four digits of either base hold a nibble.
LEMMA PowerWide ==
  ASSUME NEW b \in {10, 16}, NEW n \in Nat
  PROVE  Power(16, n) <= Power(b, 4 * n)
<1> DEFINE S == {k \in Nat : Power(16, k) <= Power(b, 4 * k)}
<1>1. /\ Power(b, 0) = 1 /\ \A k \in Nat : Power(b, k) \in Nat /\ Power(b, k + 1) = b * Power(b, k)
      /\ Power(16, 0) = 1 /\ \A k \in Nat : Power(16, k) \in Nat /\ Power(16, k + 1) = 16 * Power(16, k)
  <2>1. b \in Nat /\ 16 \in Nat
    OBVIOUS
  <2> QED BY <2>1, PowerIs, Zenon
<1>2. 0 \in S
  BY <1>1
<1>3. ASSUME NEW k \in Nat, k \in S PROVE k + 1 \in S
  <2>1. PICK m \in Nat : m = 4 * k
    OBVIOUS
  <2>2. PICK p \in Nat : p = Power(b, m)
    BY <1>1
  <2>3. PICK q \in Nat : q = Power(16, k) /\ q <= p
    BY <1>1, <1>3, <2>1, <2>2
  <2>4. Power(b, m + 1) = b * p
    BY <1>1, <2>2
  <2>5. Power(b, m + 2) = b * (b * p)
    BY <1>1, <2>4
  <2>6. Power(b, m + 3) = b * (b * (b * p))
    BY <1>1, <2>5
  <2>7. Power(b, m + 4) = b * (b * (b * (b * p)))
    BY <1>1, <2>6
  <2>8. 16 * q <= b * (b * (b * (b * p)))
    BY <2>3
  <2>9. 4 * (k + 1) = m + 4 /\ Power(16, k + 1) = 16 * q
    BY <1>1, <2>1, <2>3
  <2> QED BY <2>7, <2>8, <2>9
<1>4. \A k \in Nat : k \in S
  <2> HIDE DEF S
  <2> QED BY <1>2, <1>3, NatSet
<1> QED BY <1>4

\* A digit is a character.
LEMMA DigitInt ==
  ASSUME NEW b \in {10, 16}, NEW n \in Nat
  PROVE  Digit(n % b, SmallA) \in Int
BY DEF Digit, SmallA

\* The loop of u2s.
LEMMA LowDigitsIs ==
  ASSUME NEW b \in {10, 16}
  PROVE  /\ LowDigits(0, b) = <<>>
         /\ \A n \in Nat : LowDigits(n, b) \in Seq(Int)
         /\ \A n \in Nat : n # 0 =>
              LowDigits(n, b) = <<Digit(n % b, SmallA)>> \o LowDigits(n \div b, b)
<1> DEFINE R == Seq(Int)
           d == [m \in Nat |-> m \div b]
           F == [x \in Nat \X R |-> <<Digit(x[1] % b, SmallA)>> \o x[2]]
           Is(w) == w = [m \in Nat |-> IF m = 0 THEN <<>>
                                       ELSE <<Digit(m % b, SmallA)>> \o w[m \div b]]
           ret == CHOOSE w : Is(w)
<1>1. Descends(Nat, d)
  BY DEF Descends
<1>2. ASSUME NEW m \in Nat, NEW v \in R PROVE <<Digit(m % b, SmallA)>> \o v \in R
  <2>1. Digit(m % b, SmallA) \in Int
    BY DigitInt
  <2> QED BY <2>1
<1>3. F \in [Nat \X R -> R] /\ <<>> \in R
  <2>1. <<>> \in R
    OBVIOUS
  <2> HIDE DEF R
  <2>2. \A x \in Nat \X R : x[1] \in Nat /\ x[2] \in R
    OBVIOUS
  <2>3. \A x \in Nat \X R : <<Digit(x[1] % b, SmallA)>> \o x[2] \in R
    BY <1>2, <2>2, Zenon
  <2> QED BY <2>1, <2>3, Zenon
<1>4. \A m \in Nat, v \in R : F[<<m, v>>] = <<Digit(m % b, SmallA)>> \o v
  OBVIOUS
<1>5. \A m \in Nat : d[m] = m \div b /\ m \div b \in Nat
  OBVIOUS
<1>6. \E f \in [Nat -> R] : Is(f)
  <2> HIDE DEF F, d, R
  <2>1. PICK f \in [Nat -> R] : Obeys(f, Nat, d, <<>>, F)
    BY <1>1, <1>3, ObeysTyped
  <2>2. \A m \in Nat : f[m] = IF m = 0 THEN <<>> ELSE <<Digit(m % b, SmallA)>> \o f[m \div b]
    <3> SUFFICES ASSUME NEW m \in Nat
                 PROVE  f[m] = IF m = 0 THEN <<>> ELSE <<Digit(m % b, SmallA)>> \o f[m \div b]
      OBVIOUS
    <3>1. d[m] = m \div b /\ f[m \div b] \in R
      BY <1>5
    <3>2. F[<<m, f[m \div b]>>] = <<Digit(m % b, SmallA)>> \o f[m \div b]
      BY <1>4, <3>1, Zenon
    <3> QED BY <2>1, <3>1, <3>2, Zenon DEF Obeys
  <2>3. f = [m \in Nat |-> f[m]]
    OBVIOUS
  <2>4. Is(f)
    BY <2>2, <2>3, Zenon
  <2> QED BY <2>4
<1>7. Is(ret)
  BY <1>6
<1>8. \A n \in Nat : LowDigits(n, b) = ret[n]
  BY Zenon DEF LowDigits
<1>9. \A n \in Nat : ret[n] = IF n = 0 THEN <<>> ELSE <<Digit(n % b, SmallA)>> \o ret[n \div b]
  <2> HIDE DEF ret
  <2> QED BY <1>7, Zenon
<1> HIDE DEF ret
<1>10. \A n \in Nat : ret[n] \in R
  <2>1. \A m \in Nat : (m # 0 => ret[d[m]] \in R) => ret[m] \in R
    <3> SUFFICES ASSUME NEW m \in Nat, m # 0 => ret[d[m]] \in R PROVE ret[m] \in R
      OBVIOUS
    <3>1. CASE m = 0
      BY <1>3, <1>9, <3>1
    <3>2. CASE m # 0
      <4>1. ret[m] = <<Digit(m % b, SmallA)>> \o ret[m \div b] /\ ret[m \div b] \in R
        BY <1>5, <1>9, <3>2
      <4> QED BY <4>1, <1>2
    <3> QED BY <3>1, <3>2
  <2> HIDE DEF R, d
  <2> QED BY <1>1, <2>1, ObeysWithin
<1>11. LowDigits(0, b) = <<>>
  BY <1>8, <1>9
<1>12. ASSUME NEW n \in Nat, n # 0
       PROVE  LowDigits(n, b) = <<Digit(n % b, SmallA)>> \o LowDigits(n \div b, b)
  BY <1>5, <1>8, <1>9, <1>12
<1> QED BY <1>8, <1>10, <1>11, <1>12

\* Its digits, one for each power of the base up to the number.
LEMMA LowDigitsAre ==
  ASSUME NEW b \in {10, 16}, NEW n \in Nat, NEW l \in Nat,
         n < Power(b, l + 1), n >= Power(b, l)
  PROVE  /\ Len(LowDigits(n, b)) = l + 1
         /\ \A j \in 1 .. l + 1 : LowDigits(n, b)[j] = Digit((n \div Power(b, j - 1)) % b, SmallA)
<1> DEFINE Good(m, k) == /\ Len(LowDigits(m, b)) = k + 1
                         /\ \A j \in 1 .. k + 1 :
                              LowDigits(m, b)[j] = Digit((m \div Power(b, j - 1)) % b, SmallA)
           S == {k \in Nat : \A m \in Nat : m < Power(b, k + 1) /\ m >= Power(b, k) => Good(m, k)}
<1>1. /\ Power(b, 0) = 1 /\ \A k \in Nat : Power(b, k) \in Nat /\ Power(b, k + 1) = b * Power(b, k)
      /\ \A k \in Nat : Power(b, k) > 0
  <2>1. b \in Nat /\ b > 1
    OBVIOUS
  <2> QED BY <2>1, PowerIs, PowerGrows, Zenon
<1>2. 0 \in S
  <2> SUFFICES ASSUME NEW m \in Nat, m < Power(b, 1), m >= Power(b, 0) PROVE Good(m, 0)
    BY <1>1
  <2>1. m # 0 /\ m \div b = 0 /\ m \div 1 = m
    BY <1>1
  <2>2. LowDigits(m, b) = <<Digit(m % b, SmallA)>> \o <<>>
    <3>1. b \in {10, 16}
      OBVIOUS
    <3>2. LowDigits(0, b) = <<>> /\ LowDigits(m, b) = <<Digit(m % b, SmallA)>> \o LowDigits(m \div b, b)
      BY <2>1, <3>1, LowDigitsIs, Zenon
    <3>3. LowDigits(m \div b, b) = <<>>
      BY <2>1, <3>2, Zenon
    <3> QED BY <3>2, <3>3, Zenon
  <2>3. LowDigits(m, b) = <<Digit(m % b, SmallA)>>
    BY <2>2, DigitInt
  <2> QED BY <1>1, <2>1, <2>3
<1>3. ASSUME NEW k \in Nat, k \in S PROVE k + 1 \in S
  <2> SUFFICES ASSUME NEW m \in Nat, m < Power(b, (k + 1) + 1), m >= Power(b, k + 1)
               PROVE  Good(m, k + 1)
    OBVIOUS
  <2>1. PICK p \in Nat : p = Power(b, k) /\ Power(b, k + 1) = b * p /\ p > 0
                         /\ Power(b, (k + 1) + 1) = b * (b * p)
    <3>1. Power(b, k) \in Nat /\ Power(b, k) > 0 /\ Power(b, k + 1) = b * Power(b, k)
          /\ Power(b, (k + 1) + 1) = b * Power(b, k + 1)
      BY <1>1
    <3> QED BY <3>1
  <2>2. PICK q \in Nat, r \in Nat : q = m \div b /\ r = m % b /\ r < b /\ m = q * b + r
    BY DivMod
  <2>3. q < b * p /\ q >= p /\ m # 0
    BY <2>1, <2>2
  <2>4. Good(q, k)
    BY <1>3, <2>1, <2>3
  <2>5. LowDigits(m, b) = <<Digit(r, SmallA)>> \o LowDigits(q, b) /\ LowDigits(q, b) \in Seq(Int)
    BY <2>2, <2>3, LowDigitsIs
  <2>6. PICK low : low = LowDigits(q, b)
    OBVIOUS
  <2>7. /\ low \in Seq(Int) /\ Len(low) = k + 1 /\ LowDigits(m, b) = <<Digit(r, SmallA)>> \o low
        /\ \A j \in 1 .. k + 1 : low[j] = Digit((q \div Power(b, j - 1)) % b, SmallA)
    BY <2>4, <2>5, <2>6
  <2>8. Digit(r, SmallA) \in Int
    BY <2>2, DigitInt
  <2>9. PICK dg \in Int : dg = Digit(r, SmallA)
    BY <2>8
  <2>10. /\ Len(LowDigits(m, b)) = (k + 1) + 1 /\ LowDigits(m, b)[1] = dg
         /\ \A j \in 2 .. (k + 1) + 1 : LowDigits(m, b)[j] = low[j - 1]
    BY <2>7, <2>9
  <2>11. ASSUME NEW j \in 1 .. (k + 1) + 1
         PROVE  LowDigits(m, b)[j] = Digit((m \div Power(b, j - 1)) % b, SmallA)
    <3>1. CASE j = 1
      <4>1. m \div 1 = m /\ Power(b, j - 1) = 1
        BY <3>1, <1>1
      <4> QED BY <2>2, <2>9, <2>10, <3>1, <4>1
    <3>2. CASE j # 1
      <4>1. j - 1 \in 1 .. k + 1 /\ j \in 2 .. (k + 1) + 1 /\ j - 2 \in Nat /\ (j - 1) - 1 = j - 2
            /\ (j - 2) + 1 = j - 1
        BY <3>2
      <4>2. PICK w \in Nat : w = Power(b, j - 2) /\ w > 0 /\ Power(b, j - 1) = b * w
        BY <4>1, <1>1
      <4>3. LowDigits(m, b)[j] = Digit((q \div w) % b, SmallA)
        BY <2>7, <2>10, <4>1, <4>2
      <4>4. m \div (b * w) = q \div w
        BY <2>2, <4>2, DivDiv
      <4> QED BY <4>2, <4>3, <4>4
    <3> QED BY <3>1, <3>2
  <2> QED BY <2>10, <2>11
<1>4. \A k \in Nat : k \in S
  <2> HIDE DEF S
  <2> QED BY <1>2, <1>3, NatSet
<1>5. Good(n, l)
  BY <1>4
<1> QED BY <1>5

\* u2s writes the numeral.
LEMMA NumeralIs ==
  ASSUME NEW b \in {10, 16}, NEW n \in 0 .. Wrap - 1
  PROVE  u2s(n, b) = Numeral(n, b) /\ u2s(n, b) \in Seq(Int)
<1> DEFINE Fits(l) == n < Power(b, l) /\ (l = 1 \/ n >= Power(b, l - 1))
           len == CHOOSE l \in 1 .. 4 * Nibbles : Fits(l)
<1>1. /\ Power(b, 0) = 1 /\ \A k \in Nat : Power(b, k) \in Nat /\ Power(b, k + 1) = b * Power(b, k)
      /\ \A k \in Nat : Power(b, k) > 0
      /\ \A k, j \in Nat : k <= j => Power(b, k) <= Power(b, j)
  <2>1. b \in Nat /\ b > 1
    OBVIOUS
  <2> QED BY <2>1, PowerIs, PowerGrows, Zenon
<1>2. Nibbles \in Nat /\ Nibbles > 0 /\ 4 * Nibbles \in Nat /\ 4 * Nibbles > 0
  BY FormatAssumption
<1>3. n \in Nat /\ n < Power(b, 4 * Nibbles)
  <2>1. Wrap \in Nat /\ Wrap <= Power(b, 4 * Nibbles) /\ Power(b, 4 * Nibbles) \in Nat
    <3>1. 16 \in Nat
      OBVIOUS
    <3>2. Power(16, Nibbles) \in Nat
      BY <1>2, <3>1, PowerIs, Zenon
    <3> QED BY <1>1, <1>2, <3>2, PowerWide DEF Wrap
  <2> QED BY <2>1
<1>4. PICK l \in 1 .. 4 * Nibbles : Fits(l)
  <2> DEFINE T == {k \in Nat : k > 0 /\ n < Power(b, k)}
  <2>1. T \in SUBSET Nat /\ T # {}
    BY <1>2, <1>3
  <2>2. PICK l \in T : \A m \in T : l <= m
    <3> HIDE DEF T
    <3> QED BY <2>1, LeastNatural
  <2>3. l \in 1 .. 4 * Nibbles
    BY <1>2, <1>3, <2>2
  <2>4. l # 1 => n >= Power(b, l - 1)
    <3> SUFFICES ASSUME l # 1, ~(n >= Power(b, l - 1)) PROVE FALSE
      OBVIOUS
    <3>1. l - 1 \in Nat /\ l - 1 > 0 /\ Power(b, l - 1) \in Nat
      BY <1>1, <2>3
    <3>2. l - 1 \in T
      BY <1>3, <3>1
    <3> QED BY <2>2, <2>3, <3>2
  <2> QED BY <2>2, <2>3, <2>4
<1>5. len \in 1 .. 4 * Nibbles /\ Fits(len)
  <2> HIDE DEF Fits
  <2> QED BY <1>4
<1>6. Numeral(n, b) = [j \in 1 .. len |-> Digit((n \div Power(b, len - j)) % b, SmallA)]
  BY Zenon DEF Numeral
<1> HIDE DEF len
<1>7. CASE n = 0
  <2>1. len = 1
    <3> SUFFICES ASSUME len # 1 PROVE FALSE
      OBVIOUS
    <3>1. len - 1 \in Nat /\ Power(b, len - 1) > 0 /\ Power(b, len - 1) \in Nat
      BY <1>1, <1>2, <1>5
    <3> QED BY <1>5, <1>7, <3>1
  <2>2. \A j \in 1 .. 1 : Digit((n \div Power(b, len - j)) % b, SmallA) = 48
    <3>1. n \div 1 = 0 /\ 0 % b = 0
      BY <1>7
    <3>2. \A j \in 1 .. 1 : len - j = 0
      BY <2>1
    <3> QED BY <1>1, <3>1, <3>2 DEF Digit
  <2>3. Numeral(n, b) = [j \in 1 .. 1 |-> 48]
    BY <1>6, <2>1, <2>2
  <2>4. u2s(n, b) = <<48>>
    BY <1>7 DEF u2s
  <2> QED BY <2>3, <2>4
<1>8. CASE n # 0
  <2>1. PICK k \in Nat : len = k + 1 /\ n < Power(b, k + 1) /\ n >= Power(b, k)
    <3>1. len - 1 \in Nat /\ len = (len - 1) + 1
      BY <1>2, <1>5
    <3>2. len = 1 => n >= Power(b, len - 1)
      BY <1>1, <1>3, <1>8
    <3> QED BY <1>5, <3>1, <3>2
  <2>2. PICK low : low = LowDigits(n, b)
    OBVIOUS
  <2>3. /\ low \in Seq(Int) /\ Len(low) = len
        /\ \A j \in 1 .. len : low[j] = Digit((n \div Power(b, j - 1)) % b, SmallA)
    BY <1>3, <2>1, <2>2, LowDigitsAre, LowDigitsIs
  <2>4. u2s(n, b) = [j \in 1 .. len |-> low[len + 1 - j]]
    BY <1>8, <2>2, <2>3 DEF u2s, Reversed
  <2>5. ASSUME NEW j \in 1 .. len
        PROVE  low[len + 1 - j] = Digit((n \div Power(b, len - j)) % b, SmallA) /\ low[len + 1 - j] \in Int
    <3>1. len \in Nat /\ len + 1 - j \in 1 .. len /\ (len + 1 - j) - 1 = len - j
      BY <2>1
    <3> QED BY <2>3, <3>1
  <2>6. u2s(n, b) = Numeral(n, b)
    BY <1>6, <2>4, <2>5, Zenon
  <2>7. u2s(n, b) \in Seq(Int)
    BY <2>1, <2>4, <2>5
  <2> QED BY <2>6, <2>7
<1> QED BY <1>7, <1>8

\* u2s of any natural number is a string.
LEMMA StringOf ==
  ASSUME NEW b \in {10, 16}, NEW n \in Nat
  PROVE  u2s(n, b) \in Seq(Int)
<1>1. CASE n = 0
  BY <1>1 DEF u2s
<1>2. CASE n # 0
  <2>1. PICK low \in Seq(Int) : low = LowDigits(n, b)
    BY LowDigitsIs
  <2>2. u2s(n, b) = [j \in 1 .. Len(low) |-> low[Len(low) + 1 - j]]
    BY <1>2, <2>1 DEF u2s, Reversed
  <2>3. \A j \in 1 .. Len(low) : low[Len(low) + 1 - j] \in Int
    OBVIOUS
  <2> QED BY <2>2, <2>3
<1> QED BY <1>1, <1>2

----------------------------------------------------------------------------
(***************************************************************************)
(* Formats.                                                                *)
(***************************************************************************)

\* u is what Joined computes of s, round by round.
Joins(u, n, s) ==
  /\ u[0] = <<>> /\ Joined(s) = u[n]
  /\ \A j \in 1 .. n : u[j] = u[j - 1] \o s[j]

\* Joined does compute that.
LEMMA JoinedIs ==
  ASSUME NEW s \in Seq(Seq(Int))
  PROVE  \E u \in [0 .. Len(s) -> Seq(Int)] : Joins(u, Len(s), s)
<1> DEFINE n == Len(s)
           R == Seq(Int)
           F == [x \in (1 .. n) \X R |-> x[2] \o s[x[1]]]
           Is(w) == w = [j \in 0 .. n |-> IF j = 0 THEN <<>> ELSE w[j - 1] \o s[j]]
           upto == CHOOSE w : Is(w)
<1>1. n \in Nat /\ <<>> \in R /\ \A j \in 1 .. n : s[j] \in R
  OBVIOUS
<1>2. \A j \in 1 .. n, v \in R : v \o s[j] \in R
  BY <1>1
<1>3. F \in [(1 .. n) \X R -> R]
  <2> HIDE DEF R, n
  <2> QED BY <1>2
<1>4. \E u \in [0 .. n -> R] : Is(u)
  <2>1. \A j \in 1 .. n, v \in R : F[<<j, v>>] = v \o s[j]
    OBVIOUS
  <2> HIDE DEF F, R, n
  <2>2. PICK u \in [0 .. n -> R] : Rounds(u, n, <<>>, F)
    BY <1>1, <1>3, RoundsExist
  <2>3. ASSUME NEW j \in 0 .. n PROVE u[j] = IF j = 0 THEN <<>> ELSE u[j - 1] \o s[j]
    <3>1. j # 0 => j \in 1 .. n /\ u[j - 1] \in R
      BY <1>1
    <3> QED BY <2>1, <2>2, <3>1, Zenon DEF Rounds
  <2>4. u = [j \in 0 .. n |-> u[j]]
    OBVIOUS
  <2>5. Is(u)
    BY <2>3, <2>4, Zenon
  <2> QED BY <2>5
<1>5. Is(upto)
  BY <1>4
<1>6. Joined(s) = upto[n]
  BY Zenon DEF Joined
<1> HIDE DEF upto, R
<1>7. \A j \in 0 .. n : upto[j] = IF j = 0 THEN <<>> ELSE upto[j - 1] \o s[j]
  BY <1>5, Zenon
<1>8. upto[0] = <<>> /\ \A j \in 1 .. n : upto[j] = upto[j - 1] \o s[j]
  <2> HIDE DEF n
  <2>1. 0 \in 0 .. n /\ \A j \in 1 .. n : j \in 0 .. n /\ j # 0
    BY <1>1
  <2> QED BY <1>7, <2>1, Zenon
<1>9. \A j \in 0 .. n : upto[j] \in R
  <2>1. upto[0] \in R
    BY <1>1, <1>8
  <2>2. \A j \in 1 .. n : upto[j - 1] \in R => upto[j] \in R
    BY <1>2, <1>8
  <2> HIDE DEF n
  <2> QED BY <1>1, <2>1, <2>2, RoundsWithin
<1>10. upto \in [0 .. n -> R]
  <2>1. upto = [j \in 0 .. n |-> upto[j]]
    <3>1. DOMAIN upto = 0 .. n
      BY <1>5, Zenon
    <3>2. upto = [j \in DOMAIN upto |-> upto[j]]
      BY <1>5, Zenon
    <3> QED BY <3>1, <3>2, Zenon
  <2> QED BY <2>1, <1>9, Zenon
<1> QED BY <1>6, <1>8, <1>10 DEF R, Joins

\* A sequence with one element more.
Extends(t, s, a) ==
  /\ t = s \o <<a>> /\ Len(t) = Len(s) + 1 /\ t[Len(s) + 1] = a
  /\ \A j \in 1 .. Len(s) : t[j] = s[j]

\* There is one.
LEMMA OneMore ==
  ASSUME NEW R, NEW s \in Seq(R), NEW a \in R
  PROVE  \E t \in Seq(R) : Extends(t, s, a)
<1>1. s \o <<a>> \in Seq(R) /\ Len(s \o <<a>>) = Len(s) + 1
  OBVIOUS
<1>2. (s \o <<a>>)[Len(s) + 1] = a /\ \A j \in 1 .. Len(s) : (s \o <<a>>)[j] = s[j]
  OBVIOUS
<1> QED BY <1>1, <1>2, Zenon DEF Extends

\* One more piece.
LEMMA JoinedMore ==
  ASSUME NEW s \in Seq(Seq(Int)), NEW a \in Seq(Int)
  PROVE  Joined(s \o <<a>>) = Joined(s) \o a /\ Joined(s) \in Seq(Int)
<1>1. PICK t \in Seq(Seq(Int)) : /\ t = s \o <<a>> /\ Len(t) = Len(s) + 1 /\ t[Len(s) + 1] = a
                                 /\ \A j \in 1 .. Len(s) : t[j] = s[j]
  <2>1. \E t \in Seq(Seq(Int)) : Extends(t, s, a)
    BY OneMore
  <2> QED BY <2>1, Zenon DEF Extends
<1>2. PICK n \in Nat : n = Len(s)
  OBVIOUS
<1>3. PICK u \in [0 .. n -> Seq(Int)] :
           /\ u[0] = <<>> /\ Joined(s) = u[n]
           /\ \A j \in 1 .. n : u[j] = u[j - 1] \o s[j]
  BY <1>2, JoinedIs, Zenon DEF Joins
<1>4. PICK v \in [0 .. n + 1 -> Seq(Int)] :
           /\ v[0] = <<>> /\ Joined(t) = v[n + 1]
           /\ \A j \in 1 .. n + 1 : v[j] = v[j - 1] \o t[j]
  <2>1. Len(t) = n + 1
    BY <1>1, <1>2
  <2>2. \E v \in [0 .. n + 1 -> Seq(Int)] : Joins(v, n + 1, t)
    BY <2>1, JoinedIs
  <2> QED BY <2>2, Zenon DEF Joins
<1> DEFINE S == {j \in 0 .. n : u[j] = v[j]}
<1>5. 0 \in S
  BY <1>3, <1>4
<1>6. ASSUME NEW j \in 0 .. n - 1, j \in S PROVE j + 1 \in S
  <2>1. j + 1 \in 1 .. n /\ j + 1 \in 1 .. n + 1 /\ (j + 1) - 1 = j /\ j + 1 \in 0 .. n
    OBVIOUS
  <2>2. u[j + 1] = u[j] \o s[j + 1] /\ v[j + 1] = v[j] \o t[j + 1] /\ t[j + 1] = s[j + 1] /\ u[j] = v[j]
    BY <1>1, <1>2, <1>3, <1>4, <1>6, <2>1
  <2>3. u[j + 1] = v[j + 1]
    BY <2>2, Zenon
  <2> QED BY <2>1, <2>3
<1>7. \A j \in 0 .. n : j \in S
  <2> HIDE DEF S
  <2> QED BY <1>5, <1>6, NatUpto
<1>8. u[n] = v[n] /\ v[n + 1] = v[n] \o t[n + 1] /\ t[n + 1] = a
  <2>1. n \in 0 .. n /\ n + 1 \in 1 .. n + 1 /\ (n + 1) - 1 = n
    OBVIOUS
  <2>2. v[n + 1] = v[n] \o t[n + 1]
    BY <1>4, <2>1, Zenon
  <2> QED BY <1>1, <1>2, <1>7, <2>1, <2>2
<1>9. Joined(s) \in Seq(Int)
  BY <1>3
<1> QED BY <1>1, <1>3, <1>4, <1>8, <1>9, Zenon

\* Items whose number has the right sign, whatever its width.
Arguments ==
  {item \in [conv : {"lit", "s", "x", "u", "d", "c", "%", "p"}, n : Int, s : Seq(Int)] :
     item.conv \in {"x", "u", "p"} => item.n \in Nat}

\* The width of an int.
LEMMA WrapIs == Wrap \in Nat /\ Wrap > 0
<1>1. 16 \in Nat /\ 16 > 1 /\ Nibbles \in Nat
  BY FormatAssumption
<1>2. Power(16, Nibbles) \in Nat /\ Power(16, Nibbles) > 0
  BY <1>1, PowerIs, PowerGrows, Zenon
<1> QED BY <1>2 DEF Wrap

\* Items have such numbers.
LEMMA ItemsAre == Items \subseteq Arguments
<1>1. \A n \in 0 .. Wrap - 1 : n \in Nat
  OBVIOUS
<1> QED BY <1>1 DEF Items, Arguments

\* A pointer has one digit for each nibble.
LEMMA PointerIs ==
  ASSUME NEW val \in Nat PROVE Pointer(val) \in Seq(Int)
<1> DEFINE dg == [j \in 1 .. Nibbles |-> Digit((val \div Power(16, Nibbles - j)) % 16, BigA)]
<1>1. Nibbles \in Nat
  BY FormatAssumption
<1>2. ASSUME NEW j \in 1 .. Nibbles
      PROVE  Digit((val \div Power(16, Nibbles - j)) % 16, BigA) \in Int
  <2>1. Nibbles - j \in Nat /\ 16 \in Nat /\ 16 > 1
    BY <1>1
  <2>2. PICK p \in Nat : p = Power(16, Nibbles - j) /\ p > 0
    <3>1. Power(16, Nibbles - j) \in Nat /\ Power(16, Nibbles - j) > 0
      BY <2>1, PowerIs, PowerGrows, Zenon
    <3> QED BY <3>1
  <2>3. val \div p \in Nat
    BY <2>2
  <2>4. (val \div p) % 16 \in Nat
    BY <2>3
  <2> QED BY <2>2, <2>4 DEF Digit, BigA
<1>3. dg \in Seq(Int)
  BY <1>1, <1>2
<1>4. <<35, 48, 120>> \in Seq(Int)
  OBVIOUS
<1>5. Pointer(val) = <<35, 48, 120>> \o dg
  BY DEF Pointer
<1> HIDE DEF dg
<1> QED BY <1>3, <1>4, <1>5

\* Joining one piece or two.
LEMMA JoinedFew ==
  /\ Joined(<<>>) = <<>>
  /\ \A a \in Seq(Int) : Joined(<<a>>) = a
  /\ \A a, b \in Seq(Int) : Joined(<<a, b>>) = a \o b
<1>1. <<>> \in Seq(Seq(Int)) /\ Len(<<>>) = 0
  OBVIOUS
<1>2. Joined(<<>>) = <<>>
  <2>1. \E u \in [0 .. 0 -> Seq(Int)] : Joins(u, 0, <<>>)
    BY <1>1, JoinedIs
  <2> QED BY <2>1 DEF Joins
<1>3. ASSUME NEW a \in Seq(Int) PROVE Joined(<<a>>) = a
  <2>1. Joined(<<>> \o <<a>>) = Joined(<<>>) \o a
    BY <1>1, JoinedMore
  <2>2. <<>> \o <<a>> = <<a>> /\ <<>> \o a = a
    OBVIOUS
  <2> QED BY <1>2, <2>1, <2>2
<1>4. ASSUME NEW a \in Seq(Int), NEW b \in Seq(Int) PROVE Joined(<<a, b>>) = a \o b
  <2>1. <<a>> \in Seq(Seq(Int))
    OBVIOUS
  <2>2. Joined(<<a>> \o <<b>>) = Joined(<<a>>) \o b
    BY <2>1, JoinedMore
  <2>3. <<a>> \o <<b>> = <<a, b>>
    <3>1. /\ <<a>> \o <<b>> \in Seq(Seq(Int)) /\ <<a, b>> \in Seq(Seq(Int))
          /\ Len(<<a>> \o <<b>>) = 2 /\ Len(<<a, b>>) = 2
      OBVIOUS
    <3>2. (<<a>> \o <<b>>)[1] = a /\ (<<a>> \o <<b>>)[2] = b
      OBVIOUS
    <3>3. \A j \in 1 .. 2 : (<<a>> \o <<b>>)[j] = <<a, b>>[j]
      BY <3>2
    <3> QED BY <3>1, <3>3, SeqEqual
  <2> QED BY <1>3, <2>2, <2>3
<1> QED BY <1>2, <1>3, <1>4

\* An item hands on one string or two.
LEMMA PiecesAre ==
  ASSUME NEW item \in Arguments
  PROVE  \/ \E a \in Seq(Int) : Pieces(item) = <<a>>
         \/ \E a, b \in Seq(Int) : Pieces(item) = <<a, b>>
<1> DEFINE n == item.n
<1>1. /\ item.conv \in {"lit", "s", "x", "u", "d", "c", "%", "p"} /\ n \in Int /\ item.s \in Seq(Int)
      /\ item.conv \in {"x", "u", "p"} => n \in Nat
  BY DEF Arguments
<1> HIDE DEF n
<1>2. CASE item.conv = "lit"
  <2>1. Pieces(item) = <<<<n>>>> /\ <<n>> \in Seq(Int)
    BY <1>1, <1>2 DEF Pieces, n
  <2> QED BY <2>1, Zenon
<1>3. CASE item.conv = "s"
  <2>1. Pieces(item) = <<IF n = 0 THEN NullText ELSE item.s>>
    BY <1>3 DEF Pieces, n
  <2>2. NullText \in Seq(Int)
    BY DEF NullText
  <2> QED BY <1>1, <2>1, <2>2, Zenon
<1>4. CASE item.conv = "x"
  <2>1. Pieces(item) = <<u2s(n, 16)>>
    BY <1>4 DEF Pieces, n
  <2>2. u2s(n, 16) \in Seq(Int)
    BY <1>1, <1>4, StringOf
  <2> QED BY <2>1, <2>2, Zenon
<1>5. CASE item.conv = "u"
  <2>1. Pieces(item) = <<u2s(n, 10)>>
    BY <1>5 DEF Pieces, n
  <2>2. u2s(n, 10) \in Seq(Int)
    BY <1>1, <1>5, StringOf
  <2> QED BY <2>1, <2>2, Zenon
<1>6. CASE item.conv = "d"
  <2>1. CASE n < 0
    <3>1. Pieces(item) = <<<<Minus>>, u2s((-n) % Wrap, 10)>>
      BY <1>6, <2>1 DEF Pieces, n
    <3>2. <<Minus>> \in Seq(Int)
      BY DEF Minus
    <3>3. (-n) % Wrap \in Nat
      BY <1>1, WrapIs
    <3>4. u2s((-n) % Wrap, 10) \in Seq(Int)
      BY <3>3, StringOf
    <3> QED BY <3>1, <3>2, <3>4, Zenon
  <2>2. CASE ~(n < 0)
    <3>1. Pieces(item) = <<u2s(n, 10)>>
      BY <1>6, <2>2 DEF Pieces, n
    <3>2. n \in Nat
      BY <1>1, <2>2
    <3>3. u2s(n, 10) \in Seq(Int)
      BY <3>2, StringOf
    <3> QED BY <3>1, <3>3, Zenon
  <2> QED BY <2>1, <2>2
<1>7. CASE item.conv = "c"
  <2>1. Pieces(item) = <<IF CharOf(n) = 0 THEN <<>> ELSE <<CharOf(n)>>>>
    BY <1>7 DEF Pieces, n
  <2>2. CharOf(n) \in Int
    BY <1>1 DEF CharOf
  <2>3. <<>> \in Seq(Int) /\ <<CharOf(n)>> \in Seq(Int)
    BY <2>2
  <2> QED BY <2>1, <2>3, Zenon
<1>8. CASE item.conv = "%"
  <2>1. Pieces(item) = <<<<Percent>>>> /\ <<Percent>> \in Seq(Int)
    BY <1>8 DEF Pieces, Percent
  <2> QED BY <2>1, Zenon
<1>9. CASE item.conv = "p"
  <2>1. Pieces(item) = <<Pointer(n)>>
    BY <1>9 DEF Pieces, n
  <2>2. Pointer(n) \in Seq(Int)
    BY <1>1, <1>9, PointerIs
  <2> QED BY <2>1, <2>2, Zenon
<1> QED BY <1>1, <1>2, <1>3, <1>4, <1>5, <1>6, <1>7, <1>8, <1>9

\* An item's pieces together are what libc's printf writes for it: numbers
\* as their numerals, the least int included.
LEMMA WrittenIs ==
  ASSUME NEW item \in Items
  PROVE  Joined(Pieces(item)) = Written(item) /\ Written(item) \in Seq(Int)
<1> DEFINE n == item.n
<1>1. /\ item.conv \in {"lit", "s", "x", "u", "d", "c", "%", "p"} /\ n \in Int
      /\ item.conv \in {"x", "u", "p"} => n \in 0 .. Wrap - 1
      /\ item.conv = "d" => n \in -(Wrap \div 2) .. Wrap \div 2 - 1
  BY DEF Items
<1>2. Joined(Pieces(item)) \in Seq(Int)
  <2>1. item \in Arguments
    BY ItemsAre
  <2>2. CASE \E a \in Seq(Int) : Pieces(item) = <<a>>
    <3>1. PICK a \in Seq(Int) : Pieces(item) = <<a>>
      BY <2>2
    <3>2. Joined(Pieces(item)) = a
      BY <3>1, JoinedFew
    <3> QED BY <3>2
  <2>3. CASE \E a, b \in Seq(Int) : Pieces(item) = <<a, b>>
    <3>1. PICK a \in Seq(Int), b \in Seq(Int) : Pieces(item) = <<a, b>>
      BY <2>3
    <3>2. Joined(Pieces(item)) = a \o b
      BY <3>1, JoinedFew
    <3> QED BY <3>2
  <2> QED BY <2>1, <2>2, <2>3, PiecesAre
<1> HIDE DEF n
<1>3. CASE item.conv \in {"x", "u"}
  <2>1. PICK b \in {10, 16} : Pieces(item) = <<u2s(n, b)>> /\ Written(item) = Numeral(n, b)
    BY <1>3 DEF Pieces, Written, n
  <2>2. u2s(n, b) = Numeral(n, b) /\ u2s(n, b) \in Seq(Int)
    BY <1>1, <1>3, NumeralIs
  <2> QED BY <1>2, <2>1, <2>2, JoinedFew
<1>4. CASE item.conv = "d"
  <2>1. Wrap \in Nat /\ Wrap > 0 /\ Wrap \div 2 \in Nat /\ Wrap \div 2 < Wrap
    BY WrapIs
  <2>2. CASE n < 0
    <3>1. Pieces(item) = <<<<Minus>>, u2s((-n) % Wrap, 10)>> /\ Written(item) = <<Minus>> \o Numeral(-n, 10)
      BY <1>4, <2>2 DEF Pieces, Written, Signed, n
    <3>2. -n \in 0 .. Wrap - 1 /\ (-n) % Wrap = -n
      BY <1>1, <1>4, <2>1, <2>2
    <3>3. u2s(-n, 10) = Numeral(-n, 10) /\ u2s(-n, 10) \in Seq(Int)
      BY <3>2, NumeralIs
    <3>4. <<Minus>> \in Seq(Int)
      BY DEF Minus
    <3>5. Joined(Pieces(item)) = <<Minus>> \o Numeral(-n, 10)
      <4>1. PICK a \in Seq(Int), b \in Seq(Int) : a = <<Minus>> /\ b = Numeral(-n, 10)
        BY <3>3, <3>4
      <4>2. Pieces(item) = <<a, b>>
        BY <3>1, <3>2, <3>3, <4>1
      <4> QED BY <4>1, <4>2, JoinedFew
    <3> QED BY <1>2, <3>1, <3>5
  <2>3. CASE ~(n < 0)
    <3>1. Pieces(item) = <<u2s(n, 10)>> /\ Written(item) = Numeral(n, 10)
      BY <1>4, <2>3 DEF Pieces, Written, Signed, n
    <3>2. n \in 0 .. Wrap - 1
      BY <1>1, <1>4, <2>1, <2>3
    <3>3. u2s(n, 10) = Numeral(n, 10) /\ u2s(n, 10) \in Seq(Int)
      BY <3>2, NumeralIs
    <3> QED BY <1>2, <3>1, <3>3, JoinedFew
  <2> QED BY <2>2, <2>3
<1>5. CASE item.conv \notin {"x", "u", "d"}
  BY <1>2, <1>5 DEF Written
<1> QED BY <1>1, <1>3, <1>4, <1>5

\* Strings are put together in any order.
LEMMA StringsAssociate ==
  ASSUME NEW q \in Seq(Int), NEW a \in Seq(Int), NEW b \in Seq(Int)
  PROVE  (q \o a) \o b = q \o (a \o b)
<1>1. PICK x \in Seq(Int), y \in Seq(Int) : x = q \o a /\ y = a \o b
  <2>1. q \o a \in Seq(Int) /\ a \o b \in Seq(Int)
    OBVIOUS
  <2> QED BY <2>1, Zenon
<1>2. /\ Len(x) = Len(q) + Len(a) /\ Len(y) = Len(a) + Len(b)
      /\ x \o b \in Seq(Int) /\ q \o y \in Seq(Int)
      /\ Len(x \o b) = Len(q) + Len(a) + Len(b) /\ Len(q \o y) = Len(q) + Len(a) + Len(b)
  BY <1>1
<1>3. ASSUME NEW j \in 1 .. Len(q) + Len(a) + Len(b) PROVE (x \o b)[j] = (q \o y)[j]
  <2>1. CASE j <= Len(q)
    BY <1>1, <1>2, <2>1
  <2>2. CASE j > Len(q) /\ j <= Len(q) + Len(a)
    BY <1>1, <1>2, <2>2
  <2>3. CASE j > Len(q) + Len(a)
    BY <1>1, <1>2, <2>3
  <2>4. j <= Len(q) \/ (j > Len(q) /\ j <= Len(q) + Len(a)) \/ j > Len(q) + Len(a)
    <3>1. Len(q) \in Nat /\ Len(a) \in Nat /\ Len(b) \in Nat
      OBVIOUS
    <3>2. PICK k \in Nat, l \in Nat, m \in Nat : k = Len(q) /\ l = Len(a) /\ m = Len(b)
      BY <3>1, Zenon
    <3>3. j \in 1 .. k + l + m
      BY <3>2
    <3>4. j <= k \/ (j > k /\ j <= k + l) \/ j > k + l
      BY <3>3
    <3> QED BY <3>2, <3>4, Zenon
  <2> QED BY <2>1, <2>2, <2>3, <2>4, Zenon
<1>4. x \o b = q \o y
  BY <1>2, <1>3, SeqEqual
<1> QED BY <1>1, <1>4

\* Joining an item's pieces to those in front of it.
LEMMA JoinedItem ==
  ASSUME NEW s \in Seq(Seq(Int)), NEW item \in Arguments
  PROVE  /\ s \o Pieces(item) \in Seq(Seq(Int))
         /\ Joined(s \o Pieces(item)) = Joined(s) \o Joined(Pieces(item))
<1>1. CASE \E a \in Seq(Int) : Pieces(item) = <<a>>
  <2>1. PICK a \in Seq(Int) : Pieces(item) = <<a>>
    BY <1>1
  <2>2. s \o <<a>> \in Seq(Seq(Int))
    OBVIOUS
  <2>3. Joined(s \o <<a>>) = Joined(s) \o a /\ Joined(<<a>>) = a
    BY JoinedMore, JoinedFew
  <2> QED BY <2>1, <2>2, <2>3
<1>2. CASE \E a, b \in Seq(Int) : Pieces(item) = <<a, b>>
  <2>1. PICK a \in Seq(Int), b \in Seq(Int) : Pieces(item) = <<a, b>>
    BY <1>2
  <2>2. PICK t \in Seq(Seq(Int)) : t = s \o <<a>>
    <3>1. s \o <<a>> \in Seq(Seq(Int))
      OBVIOUS
    <3> QED BY <3>1, Zenon
  <2>3. s \o <<a, b>> \in Seq(Seq(Int)) /\ t \o <<b>> \in Seq(Seq(Int))
    OBVIOUS
  <2>4. s \o <<a, b>> = t \o <<b>>
    <3>1. /\ Len(s \o <<a, b>>) = Len(s) + 2 /\ Len(t) = Len(s) + 1 /\ Len(t \o <<b>>) = Len(s) + 2
      BY <2>2
    <3>2. ASSUME NEW j \in 1 .. Len(s) + 2 PROVE (s \o <<a, b>>)[j] = (t \o <<b>>)[j]
      <4>1. CASE j <= Len(s)
        BY <2>2, <3>1, <4>1
      <4>2. CASE j = Len(s) + 1
        <5>1. (s \o <<a, b>>)[j] = a /\ (t \o <<b>>)[j] = t[j] /\ t[j] = a
          BY <2>2, <3>1, <4>2
        <5> QED BY <5>1
      <4>3. CASE j = Len(s) + 2
        <5>1. (s \o <<a, b>>)[j] = b /\ (t \o <<b>>)[j] = b
          BY <3>1, <4>3
        <5> QED BY <5>1
      <4>4. j <= Len(s) \/ j = Len(s) + 1 \/ j = Len(s) + 2
        <5>1. PICK l \in Nat : l = Len(s)
          OBVIOUS
        <5>2. j \in 1 .. l + 2
          BY <5>1
        <5>3. j <= l \/ j = l + 1 \/ j = l + 2
          BY <5>2
        <5> QED BY <5>1, <5>3, Zenon
      <4> QED BY <4>1, <4>2, <4>3, <4>4, Zenon
    <3> QED BY <2>3, <3>1, <3>2, SeqEqual
  <2>5. Joined(t) = Joined(s) \o a /\ Joined(s) \in Seq(Int) /\ Joined(t \o <<b>>) = Joined(t) \o b
    BY <2>2, JoinedMore
  <2>6. (Joined(s) \o a) \o b = Joined(s) \o (a \o b)
    <3>1. PICK q \in Seq(Int) : q = Joined(s)
      BY <2>5
    <3>2. (q \o a) \o b = q \o (a \o b)
      BY StringsAssociate
    <3> QED BY <3>1, <3>2, Zenon
  <2>7. Joined(<<a, b>>) = a \o b
    BY JoinedFew
  <2> QED BY <2>1, <2>3, <2>4, <2>5, <2>6, <2>7
<1> QED BY <1>1, <1>2, PiecesAre

\* u is what vprintf computes of a format, round by round.
Prints(u, n, s) ==
  /\ u[0] = <<>> /\ vprintf(s) = u[n]
  /\ \A j \in 1 .. n : u[j] = u[j - 1] \o Pieces(s[j])

\* vprintf does compute that.
LEMMA VprintfIs ==
  ASSUME NEW s \in Seq(Arguments)
  PROVE  \E u \in [0 .. Len(s) -> Seq(Seq(Int))] : Prints(u, Len(s), s)
<1> DEFINE n == Len(s)
           R == Seq(Seq(Int))
           F == [x \in (1 .. n) \X R |-> x[2] \o Pieces(s[x[1]])]
           Is(w) == w = [j \in 0 .. n |-> IF j = 0 THEN <<>> ELSE w[j - 1] \o Pieces(s[j])]
           upto == CHOOSE w : Is(w)
<1>1. n \in Nat /\ <<>> \in R /\ \A j \in 1 .. n : s[j] \in Arguments
  OBVIOUS
<1>2. \A j \in 1 .. n, v \in R : v \o Pieces(s[j]) \in R
  BY <1>1, JoinedItem
<1>3. F \in [(1 .. n) \X R -> R]
  <2> HIDE DEF R, n
  <2> QED BY <1>2
<1>4. \E u \in [0 .. n -> R] : Is(u)
  <2>1. \A j \in 1 .. n, v \in R : F[<<j, v>>] = v \o Pieces(s[j])
    OBVIOUS
  <2> HIDE DEF F, R, n
  <2>2. PICK u \in [0 .. n -> R] : Rounds(u, n, <<>>, F)
    BY <1>1, <1>3, RoundsExist
  <2>3. ASSUME NEW j \in 0 .. n PROVE u[j] = IF j = 0 THEN <<>> ELSE u[j - 1] \o Pieces(s[j])
    <3>1. j # 0 => j \in 1 .. n /\ u[j - 1] \in R
      BY <1>1
    <3> QED BY <2>1, <2>2, <3>1, Zenon DEF Rounds
  <2>4. u = [j \in 0 .. n |-> u[j]]
    OBVIOUS
  <2>5. Is(u)
    BY <2>3, <2>4, Zenon
  <2> QED BY <2>5
<1>5. Is(upto)
  BY <1>4
<1>6. vprintf(s) = upto[n]
  BY Zenon DEF vprintf
<1> HIDE DEF upto, R
<1>7. \A j \in 0 .. n : upto[j] = IF j = 0 THEN <<>> ELSE upto[j - 1] \o Pieces(s[j])
  BY <1>5, Zenon
<1>8. upto[0] = <<>> /\ \A j \in 1 .. n : upto[j] = upto[j - 1] \o Pieces(s[j])
  <2> HIDE DEF n
  <2>1. 0 \in 0 .. n /\ \A j \in 1 .. n : j \in 0 .. n /\ j # 0
    BY <1>1
  <2> QED BY <1>7, <2>1, Zenon
<1>9. \A j \in 0 .. n : upto[j] \in R
  <2>1. upto[0] \in R
    BY <1>1, <1>8
  <2>2. \A j \in 1 .. n : upto[j - 1] \in R => upto[j] \in R
    BY <1>2, <1>8
  <2> HIDE DEF n
  <2> QED BY <1>1, <2>1, <2>2, RoundsWithin
<1>10. upto \in [0 .. n -> R]
  <2>1. upto = [j \in 0 .. n |-> upto[j]]
    <3>1. DOMAIN upto = 0 .. n
      BY <1>5, Zenon
    <3>2. upto = [j \in DOMAIN upto |-> upto[j]]
      BY <1>5, Zenon
    <3> QED BY <3>1, <3>2, Zenon
  <2> QED BY <2>1, <1>9, Zenon
<1> QED BY <1>6, <1>8, <1>10 DEF R, Prints

\* u is the text of a format, item by item.
Tells(u, n, s) ==
  /\ u[0] = <<>> /\ TextOf(s) = u[n]
  /\ \A j \in 1 .. n : u[j] = u[j - 1] \o Written(s[j])

\* TextOf is that.
LEMMA TextOfIs ==
  ASSUME NEW s \in Seq(Items)
  PROVE  \E u \in [0 .. Len(s) -> Seq(Int)] : Tells(u, Len(s), s)
<1> DEFINE n == Len(s)
           R == Seq(Int)
           F == [x \in (1 .. n) \X R |-> x[2] \o Written(s[x[1]])]
           Is(w) == w = [j \in 0 .. n |-> IF j = 0 THEN <<>> ELSE w[j - 1] \o Written(s[j])]
           upto == CHOOSE w : Is(w)
<1>1. n \in Nat /\ <<>> \in R /\ \A j \in 1 .. n : s[j] \in Items
  OBVIOUS
<1>2. \A j \in 1 .. n, v \in R : v \o Written(s[j]) \in R
  <2> SUFFICES ASSUME NEW j \in 1 .. n, NEW v \in R PROVE v \o Written(s[j]) \in R
    OBVIOUS
  <2>1. Written(s[j]) \in Seq(Int)
    BY <1>1, WrittenIs
  <2> QED BY <2>1
<1>3. F \in [(1 .. n) \X R -> R]
  <2> HIDE DEF R, n
  <2> QED BY <1>2
<1>4. \E u \in [0 .. n -> R] : Is(u)
  <2>1. \A j \in 1 .. n, v \in R : F[<<j, v>>] = v \o Written(s[j])
    OBVIOUS
  <2> HIDE DEF F, R, n
  <2>2. PICK u \in [0 .. n -> R] : Rounds(u, n, <<>>, F)
    BY <1>1, <1>3, RoundsExist
  <2>3. ASSUME NEW j \in 0 .. n PROVE u[j] = IF j = 0 THEN <<>> ELSE u[j - 1] \o Written(s[j])
    <3>1. j # 0 => j \in 1 .. n /\ u[j - 1] \in R
      BY <1>1
    <3> QED BY <2>1, <2>2, <3>1, Zenon DEF Rounds
  <2>4. u = [j \in 0 .. n |-> u[j]]
    OBVIOUS
  <2>5. Is(u)
    BY <2>3, <2>4, Zenon
  <2> QED BY <2>5
<1>5. Is(upto)
  BY <1>4
<1>6. TextOf(s) = upto[n]
  BY Zenon DEF TextOf
<1> HIDE DEF upto, R
<1>7. \A j \in 0 .. n : upto[j] = IF j = 0 THEN <<>> ELSE upto[j - 1] \o Written(s[j])
  BY <1>5, Zenon
<1>8. upto[0] = <<>> /\ \A j \in 1 .. n : upto[j] = upto[j - 1] \o Written(s[j])
  <2> HIDE DEF n
  <2>1. 0 \in 0 .. n /\ \A j \in 1 .. n : j \in 0 .. n /\ j # 0
    BY <1>1
  <2> QED BY <1>7, <2>1, Zenon
<1>9. \A j \in 0 .. n : upto[j] \in R
  <2>1. upto[0] \in R
    BY <1>1, <1>8
  <2>2. \A j \in 1 .. n : upto[j - 1] \in R => upto[j] \in R
    BY <1>2, <1>8
  <2> HIDE DEF n
  <2> QED BY <1>1, <2>1, <2>2, RoundsWithin
<1>10. upto \in [0 .. n -> R]
  <2>1. upto = [j \in 0 .. n |-> upto[j]]
    <3>1. DOMAIN upto = 0 .. n
      BY <1>5, Zenon
    <3>2. upto = [j \in DOMAIN upto |-> upto[j]]
      BY <1>5, Zenon
    <3> QED BY <3>1, <3>2, Zenon
  <2> QED BY <2>1, <1>9, Zenon
<1> QED BY <1>6, <1>8, <1>10 DEF R, Tells

\* What printf hands to puts is the text of its format.
LEMMA TextIs ==
  ASSUME NEW f \in Seq(Items)
  PROVE  Joined(vprintf(f)) = TextOf(f) /\ TextOf(f) \in Seq(Int)
<1>1. f \in Seq(Arguments) /\ \A j \in 1 .. Len(f) : f[j] \in Items /\ f[j] \in Arguments
  <2>1. \A j \in 1 .. Len(f) : f[j] \in Items /\ f[j] \in Arguments
    BY ItemsAre
  <2> QED BY <2>1
<1>2. PICK n \in Nat : n = Len(f)
  OBVIOUS
<1>3. PICK u \in [0 .. n -> Seq(Seq(Int))] : Prints(u, n, f)
  BY <1>1, <1>2, VprintfIs
<1>4. PICK t \in [0 .. n -> Seq(Int)] : Tells(t, n, f)
  BY <1>2, TextOfIs
<1> DEFINE S == {j \in 0 .. n : Joined(u[j]) = t[j]}
<1>5. 0 \in S
  BY <1>3, <1>4, JoinedFew DEF Prints, Tells
<1>6. ASSUME NEW j \in 0 .. n - 1, j \in S PROVE j + 1 \in S
  <2>1. j + 1 \in 1 .. n /\ (j + 1) - 1 = j /\ j \in 0 .. n /\ j + 1 \in 0 .. n
    OBVIOUS
  <2>2. u[j + 1] = u[j] \o Pieces(f[j + 1]) /\ t[j + 1] = t[j] \o Written(f[j + 1])
    BY <1>3, <1>4, <2>1, Zenon DEF Prints, Tells
  <2>3. u[j] \in Seq(Seq(Int)) /\ f[j + 1] \in Items /\ f[j + 1] \in Arguments
    BY <1>1, <1>2, <2>1
  <2>4. Joined(u[j + 1]) = Joined(u[j]) \o Joined(Pieces(f[j + 1]))
    BY <2>2, <2>3, JoinedItem
  <2>5. Joined(Pieces(f[j + 1])) = Written(f[j + 1])
    BY <2>3, WrittenIs
  <2>6. Joined(u[j]) = t[j]
    BY <1>6
  <2> QED BY <2>1, <2>2, <2>4, <2>5, <2>6
<1>7. \A j \in 0 .. n : j \in S
  <2> HIDE DEF S
  <2> QED BY <1>5, <1>6, NatUpto
<1>8. n \in 0 .. n
  OBVIOUS
<1>9. Joined(u[n]) = t[n] /\ t[n] \in Seq(Int)
  BY <1>7, <1>8
<1> QED BY <1>3, <1>4, <1>9 DEF Prints, Tells

----------------------------------------------------------------------------
(***************************************************************************)
(* The console.                                                            *)
(***************************************************************************)
Cells == [ch : Int, color : Int]

\* Consoles with the cursor in these columns and rows, which leave the screen
\* inside putc.
Screens(xs, ys) ==
  [mono : BOOLEAN, colors : {s \in Seq(Int) : Len(s) \in 1 .. COLOR_STACK_SIZE},
   x : xs, y : ys, cursor : Int \X Int, video : [Positions -> Cells]]

Consoles == Screens(0 .. NCOL - 1, 0 .. NROW - 1)

\* What the steps need to know of the constants.
LEMMA Sizes ==
  /\ NCOL \in Nat /\ NCOL > 0 /\ NROW \in Nat /\ NROW > 0 /\ NCOL * NROW \in Nat
  /\ COLOR_STACK_SIZE \in Nat /\ COLOR_STACK_SIZE > 1
<1>1. NCOL \in Nat /\ NCOL > 0 /\ NROW \in Nat /\ NROW > 0
  BY KlogAssumption
<1>2. NCOL * NROW \in Nat
  BY <1>1
<1> QED BY <1>1, <1>2, KlogAssumption

\* A position is a column and a row.
LEMMA PositionIs ==
  ASSUME NEW x \in 0 .. NCOL - 1, NEW y \in 0 .. NROW - 1
  PROVE  x + y * NCOL \in Positions /\ y * NCOL \in Nat
<1>1. NCOL \in Nat /\ NCOL > 0 /\ NROW \in Nat /\ NROW > 0
  BY Sizes
<1>2. y * NCOL + NCOL <= NCOL * NROW
  <2>1. PICK k \in Nat : NROW = y + 1 + k
    <3>1. NROW - y - 1 \in Nat /\ NROW = y + 1 + (NROW - y - 1)
      BY <1>1
    <3> QED BY <3>1
  <2>2. NCOL * (y + 1 + k) = y * NCOL + NCOL + NCOL * k /\ NCOL * k \in Nat /\ y * NCOL \in Nat
    BY <1>1, <2>1
  <2> QED BY <2>1, <2>2, <1>1
<1>3. y * NCOL \in Nat /\ NCOL * NROW \in Nat
  BY <1>1
<1> QED BY <1>1, <1>2, <1>3 DEF Positions

\* The colour in force.
LEMMA TopInt ==
  ASSUME NEW xs, NEW ys, NEW c \in Screens(xs, ys) PROVE Top(c) \in Int /\ Blank(c) \in Cells
<1>1. c.colors \in Seq(Int) /\ Len(c.colors) \in 1 .. COLOR_STACK_SIZE
  BY DEF Screens
<1>2. Len(c.colors) \in 1 .. Len(c.colors)
  BY <1>1
<1>3. Top(c) \in Int
  BY <1>1, <1>2 DEF Top
<1> QED BY <1>3 DEF Blank, Cells, Space

\* cls.
LEMMA ClsIs ==
  ASSUME NEW xs, NEW ys, NEW c \in Screens(xs, ys)
  PROVE  cls(c) \in Consoles
<1>1. Blank(c) \in Cells /\ 0 \in 0 .. NCOL - 1 /\ 0 \in 0 .. NROW - 1
  BY TopInt, Sizes
<1>2. [p \in Positions |-> Blank(c)] \in [Positions -> Cells]
  BY <1>1
<1>3. PICK v \in [Positions -> Cells] : v = [p \in Positions |-> Blank(c)]
  BY <1>2
<1>4. cls(c) = [c EXCEPT !.x = 0, !.y = 0, !.video = v]
  BY <1>3 DEF cls
<1> QED BY <1>1, <1>4 DEF Screens, Consoles

\* The end of a line: the cursor moves down, or the rows move up.
Ended(e, c) ==
  /\ e \in Consoles /\ e.x = 0 /\ e.colors = c.colors
  /\ e.y = IF c.y + 1 < NROW THEN c.y + 1 ELSE NROW - 1
  /\ e.video = IF c.y + 1 < NROW THEN c.video
               ELSE [p \in Positions |-> IF p < (NROW - 1) * NCOL THEN c.video[p + NCOL]
                                         ELSE Blank(c)]

\* The last row but one.
LEMMA LastRow ==
  /\ (NROW - 1) * NCOL \in Nat /\ (NROW - 1) * NCOL + NCOL = NCOL * NROW
  /\ \A p \in Positions : p \in Nat /\ (p < (NROW - 1) * NCOL => p + NCOL \in Positions)
<1>1. NCOL \in Nat /\ NCOL > 0 /\ NROW \in Nat /\ NROW > 0 /\ NCOL * NROW \in Nat
  BY Sizes
<1>2. PICK k \in Nat : NROW = k + 1
  <2>1. NROW - 1 \in Nat /\ NROW = (NROW - 1) + 1
    BY <1>1
  <2> QED BY <2>1
<1>3. k * NCOL \in Nat /\ NCOL * (k + 1) = k * NCOL + NCOL /\ NROW - 1 = k
  BY <1>1, <1>2
<1>4. (NROW - 1) * NCOL \in Nat /\ (NROW - 1) * NCOL + NCOL = NCOL * NROW
  BY <1>2, <1>3
<1>5. PICK m \in Nat : m = (NROW - 1) * NCOL /\ m + NCOL = NCOL * NROW
  BY <1>4
<1>6. \A p \in Positions : p \in Nat /\ (p < m => p + NCOL \in Positions)
  BY <1>1, <1>5 DEF Positions
<1> QED BY <1>4, <1>5, <1>6

\* LineEnded at the end of a line.
LEMMA LineEndedIs ==
  ASSUME NEW c \in Screens(0 .. NCOL, 0 .. NROW - 1), NEW ch \in Int, AtLineEnd(c, ch)
  PROVE  Ended(LineEnded(c, ch), c)
<1> DEFINE d == [c EXCEPT !.x = 0, !.y = c.y + 1]
<1>1. NROW \in Nat /\ NROW > 0 /\ NCOL \in Nat /\ NCOL > 0 /\ c.y \in 0 .. NROW - 1
  BY Sizes DEF Screens
<1>2. d \in Screens({0}, {c.y + 1}) /\ d.x = 0 /\ d.y = c.y + 1 /\ d.video = c.video /\ d.colors = c.colors
  BY DEF Screens
<1>3. LineEnded(c, ch) = IF d.y = NROW THEN Scrolled(d) ELSE d
  BY DEF LineEnded
<1>4. Blank(d) = Blank(c)
  BY <1>2 DEF Blank, Top
<1> HIDE DEF d
<1>5. CASE d.y = NROW
  <2> DEFINE v == [p \in Positions |-> IF p < (NROW - 1) * NCOL THEN d.video[p + NCOL]
                                       ELSE Blank(d)]
  <2>1. v \in [Positions -> Cells]
    <3>1. Blank(d) \in Cells /\ d.video \in [Positions -> Cells]
      BY <1>2, TopInt DEF Screens
    <3>2. \A p \in Positions : p < (NROW - 1) * NCOL => p + NCOL \in Positions
      BY LastRow
    <3> QED BY <3>1, <3>2
  <2>2. Scrolled(d) = [d EXCEPT !.y = NROW - 1, !.video = v]
    BY DEF Scrolled
  <2>3. v = [p \in Positions |-> IF p < (NROW - 1) * NCOL THEN c.video[p + NCOL] ELSE Blank(c)]
    BY <1>2, <1>4
  <2> HIDE DEF v
  <2>4. /\ Scrolled(d) \in Consoles /\ Scrolled(d).x = 0 /\ Scrolled(d).y = NROW - 1
        /\ Scrolled(d).video = v /\ Scrolled(d).colors = c.colors
    <3>1. 0 \in 0 .. NCOL - 1 /\ NROW - 1 \in 0 .. NROW - 1
      BY <1>1
    <3>2. PICK e : e = [d EXCEPT !.y = NROW - 1, !.video = v]
      OBVIOUS
    <3>3. e \in Screens({0}, {NROW - 1}) /\ e.x = 0 /\ e.y = NROW - 1 /\ e.video = v /\ e.colors = d.colors
      BY <1>2, <2>1, <3>2 DEF Screens
    <3>4. e \in Consoles
      BY <3>1, <3>3 DEF Screens, Consoles
    <3> QED BY <1>2, <2>2, <3>2, <3>3, <3>4
  <2>5. ~(c.y + 1 < NROW)
    BY <1>1, <1>2, <1>5
  <2> QED BY <1>3, <1>5, <2>3, <2>4, <2>5 DEF Ended
<1>6. CASE d.y # NROW
  <2>1. c.y + 1 < NROW /\ c.y + 1 \in 0 .. NROW - 1 /\ 0 \in 0 .. NCOL - 1
    BY <1>1, <1>2, <1>6
  <2>2. d \in Consoles
    BY <1>2, <2>1 DEF Screens, Consoles
  <2> QED BY <1>2, <1>3, <1>6, <2>1, <2>2 DEF Ended
<1> QED BY <1>5, <1>6

\* The console behind a printing character, in front of the end of putc.
Inked(c, ch) ==
  [c EXCEPT !.video[c.x + c.y * NCOL] = [ch |-> ch, color |-> Top(c)], !.x = c.x + 1]

\* What it holds.
LEMMA InkedIs ==
  ASSUME NEW c \in Consoles, NEW ch \in Int
  PROVE  /\ Inked(c, ch) \in Screens(0 .. NCOL, 0 .. NROW - 1)
         /\ Inked(c, ch).x = c.x + 1 /\ Inked(c, ch).y = c.y /\ Inked(c, ch).colors = c.colors
         /\ Inked(c, ch).video = [c.video EXCEPT ![c.x + c.y * NCOL] = [ch |-> ch, color |-> Top(c)]]
<1>1. /\ c.x \in 0 .. NCOL - 1 /\ c.y \in 0 .. NROW - 1 /\ c.video \in [Positions -> Cells]
      /\ NCOL \in Nat /\ NROW \in Nat
  BY Sizes DEF Consoles, Screens
<1>2. PICK cell \in Cells : cell = [ch |-> ch, color |-> Top(c)]
  BY TopInt DEF Consoles, Cells
<1>3. c.x + c.y * NCOL \in Positions
  BY <1>1, PositionIs
<1>4. PICK p \in Positions : p = c.x + c.y * NCOL
  BY <1>3
<1>5. [c.video EXCEPT ![p] = cell] \in [Positions -> Cells]
  BY <1>1
<1>6. Inked(c, ch) = [c EXCEPT !.video = [c.video EXCEPT ![p] = cell], !.x = c.x + 1]
  BY <1>2, <1>4 DEF Inked
<1>7. PICK v \in [Positions -> Cells] : v = [c.video EXCEPT ![p] = cell]
  BY <1>5
<1>8. Inked(c, ch) = [c EXCEPT !.video = v, !.x = c.x + 1]
  BY <1>6, <1>7
<1>9. c.x + 1 \in 0 .. NCOL
  BY <1>1
<1>10. /\ Inked(c, ch) \in Screens(0 .. NCOL, 0 .. NROW - 1)
       /\ Inked(c, ch).x = c.x + 1 /\ Inked(c, ch).y = c.y /\ Inked(c, ch).colors = c.colors
       /\ Inked(c, ch).video = v
  BY <1>8, <1>9 DEF Screens, Consoles
<1> QED BY <1>2, <1>4, <1>7, <1>10

\* The cases of putc.
LEMMA PutcIs ==
  ASSUME NEW c \in Consoles, NEW ch \in Int
  PROVE  /\ ~isprint(ch) /\ ch # CR /\ ch # LF => putc(c, ch) = c
         /\ ch = CR => /\ putc(c, ch) \in Consoles /\ putc(c, ch).x = 0 /\ putc(c, ch).y = c.y
                       /\ putc(c, ch).video = c.video /\ putc(c, ch).colors = c.colors
         /\ ch = LF => Ended(putc(c, ch), c)
         /\ isprint(ch) => /\ ch # CR /\ ch # LF
                           /\ c.x + 1 < NCOL => putc(c, ch) = Inked(c, ch)
                           /\ c.x + 1 = NCOL => Ended(putc(c, ch), Inked(c, ch))
<1>1. isprint(ch) => ch # CR /\ ch # LF
  BY DEF isprint, Space, CR, LF
<1>2. CR # LF /\ ~isprint(CR) /\ ~isprint(LF)
  BY DEF isprint, Space, CR, LF
<1>3. ASSUME ch = CR PROVE /\ putc(c, ch) \in Consoles /\ putc(c, ch).x = 0 /\ putc(c, ch).y = c.y
                           /\ putc(c, ch).video = c.video /\ putc(c, ch).colors = c.colors
  <2>1. putc(c, ch) = [c EXCEPT !.x = 0] /\ 0 \in 0 .. NCOL - 1
    BY <1>2, <1>3, Sizes DEF putc
  <2> QED BY <2>1 DEF Screens, Consoles
<1>4. ASSUME ch = LF PROVE Ended(putc(c, ch), c)
  <2>1. putc(c, ch) = LineEnded(c, ch) /\ AtLineEnd(c, ch)
    BY <1>2, <1>4 DEF putc, AtLineEnd
  <2>2. c \in Screens(0 .. NCOL, 0 .. NROW - 1)
    BY Sizes DEF Consoles, Screens
  <2> QED BY <2>1, <2>2, LineEndedIs
<1>5. ASSUME isprint(ch), c.x + 1 < NCOL PROVE putc(c, ch) = Inked(c, ch)
  <2>1. putc(c, ch) = LineEnded(Inked(c, ch), ch)
    BY <1>1, <1>5 DEF putc, Inked
  <2>2. ~AtLineEnd(Inked(c, ch), ch)
    <3>1. Inked(c, ch).x = c.x + 1 /\ c.x \in 0 .. NCOL - 1
      BY InkedIs DEF Consoles, Screens
    <3>2. c.x + 1 # NCOL
      BY <1>5, <3>1, Sizes
    <3> QED BY <1>1, <1>5, <3>1, <3>2 DEF AtLineEnd
  <2> QED BY <2>1, <2>2 DEF LineEnded
<1>6. ASSUME isprint(ch), c.x + 1 = NCOL PROVE Ended(putc(c, ch), Inked(c, ch))
  <2>1. putc(c, ch) = LineEnded(Inked(c, ch), ch)
    BY <1>1, <1>6 DEF putc, Inked
  <2>2. AtLineEnd(Inked(c, ch), ch) /\ Inked(c, ch) \in Screens(0 .. NCOL, 0 .. NROW - 1)
    BY <1>6, InkedIs DEF AtLineEnd
  <2> QED BY <2>1, <2>2, LineEndedIs
<1>7. ~isprint(ch) /\ ch # CR /\ ch # LF => putc(c, ch) = c
  BY DEF putc
<1> QED BY <1>1, <1>3, <1>4, <1>5, <1>6, <1>7

\* putc keeps the console one, and its colours.
LEMMA PutcStays ==
  ASSUME NEW c \in Consoles, NEW ch \in Int
  PROVE  putc(c, ch) \in Consoles /\ putc(c, ch).colors = c.colors
<1>1. CASE ~isprint(ch) /\ ch # CR /\ ch # LF
  BY <1>1, PutcIs
<1>2. CASE ch = CR \/ ch = LF
  BY <1>2, PutcIs DEF Ended
<1>3. CASE isprint(ch) /\ c.x + 1 = NCOL
  <2>1. Ended(putc(c, ch), Inked(c, ch)) /\ Inked(c, ch).colors = c.colors
    BY <1>3, PutcIs, InkedIs
  <2> QED BY <2>1 DEF Ended
<1>4. CASE isprint(ch) /\ c.x + 1 < NCOL
  <2>1. putc(c, ch) = Inked(c, ch)
    BY <1>4, PutcIs
  <2>2. Inked(c, ch) \in Consoles
    <3>1. Inked(c, ch).x \in 0 .. NCOL - 1
      <4>1. Inked(c, ch).x = c.x + 1 /\ c.x \in 0 .. NCOL - 1
        BY InkedIs DEF Consoles, Screens
      <4>2. c.x + 1 \in 0 .. NCOL - 1
        BY <1>4, <4>1, Sizes
      <4> QED BY <4>1, <4>2
    <3> QED BY <3>1, InkedIs DEF Consoles, Screens
  <2> QED BY <2>1, <2>2, InkedIs
<1>5. c.x \in 0 .. NCOL - 1
  BY DEF Consoles, Screens
<1>6. c.x + 1 < NCOL \/ c.x + 1 = NCOL
  BY <1>5, Sizes
<1> QED BY <1>1, <1>2, <1>3, <1>4, <1>6

\* u is what puts computes, character by character.
Shows(u, n, c, s) ==
  /\ u[0] = c /\ puts(c, s) = move_cursor(u[n])
  /\ \A j \in 1 .. n : u[j] = putc(u[j - 1], s[j])

\* puts does compute that.
LEMMA PutsLoop ==
  ASSUME NEW c \in Consoles, NEW s \in Seq(Int)
  PROVE  \E u \in [0 .. Len(s) -> Consoles] : Shows(u, Len(s), c, s)
<1> DEFINE n == Len(s)
           R == Consoles
           F == [x \in (1 .. n) \X R |-> putc(x[2], s[x[1]])]
           Is(w) == w = [j \in 0 .. n |-> IF j = 0 THEN c ELSE putc(w[j - 1], s[j])]
           upto == CHOOSE w : Is(w)
<1>1. n \in Nat /\ c \in R /\ \A j \in 1 .. n : s[j] \in Int
  OBVIOUS
<1>2. \A j \in 1 .. n, v \in R : putc(v, s[j]) \in R
  BY <1>1, PutcStays
<1>3. F \in [(1 .. n) \X R -> R]
  <2> HIDE DEF R, n
  <2> QED BY <1>2
<1>4. \E u \in [0 .. n -> R] : Is(u)
  <2>1. \A j \in 1 .. n, v \in R : F[<<j, v>>] = putc(v, s[j])
    OBVIOUS
  <2> HIDE DEF F, R, n
  <2>2. PICK u \in [0 .. n -> R] : Rounds(u, n, c, F)
    BY <1>1, <1>3, RoundsExist
  <2>3. ASSUME NEW j \in 0 .. n PROVE u[j] = IF j = 0 THEN c ELSE putc(u[j - 1], s[j])
    <3>1. j # 0 => j \in 1 .. n /\ u[j - 1] \in R
      BY <1>1
    <3> QED BY <2>1, <2>2, <3>1, Zenon DEF Rounds
  <2>4. u = [j \in 0 .. n |-> u[j]]
    OBVIOUS
  <2>5. Is(u)
    BY <2>3, <2>4, Zenon
  <2> QED BY <2>5
<1>5. Is(upto)
  BY <1>4
<1>6. puts(c, s) = move_cursor(upto[n])
  BY Zenon DEF puts
<1> HIDE DEF upto, R
<1>7. \A j \in 0 .. n : upto[j] = IF j = 0 THEN c ELSE putc(upto[j - 1], s[j])
  BY <1>5, Zenon
<1>8. upto[0] = c /\ \A j \in 1 .. n : upto[j] = putc(upto[j - 1], s[j])
  <2> HIDE DEF n
  <2>1. 0 \in 0 .. n /\ \A j \in 1 .. n : j \in 0 .. n /\ j # 0
    BY <1>1
  <2> QED BY <1>7, <2>1, Zenon
<1>9. \A j \in 0 .. n : upto[j] \in R
  <2>1. upto[0] \in R
    BY <1>1, <1>8
  <2>2. \A j \in 1 .. n : upto[j - 1] \in R => upto[j] \in R
    BY <1>2, <1>8
  <2> HIDE DEF n
  <2> QED BY <1>1, <2>1, <2>2, RoundsWithin
<1>10. upto \in [0 .. n -> R]
  <2>1. upto = [j \in 0 .. n |-> upto[j]]
    <3>1. DOMAIN upto = 0 .. n
      BY <1>5, Zenon
    <3>2. upto = [j \in DOMAIN upto |-> upto[j]]
      BY <1>5, Zenon
    <3> QED BY <3>1, <3>2, Zenon
  <2> QED BY <2>1, <1>9, Zenon
<1> QED BY <1>6, <1>8, <1>10 DEF R, Shows

\* The cursor's two registers hold the position.
LEMMA CursorIs ==
  ASSUME NEW c \in Consoles
  PROVE  LET d == move_cursor(c) IN
         /\ d \in Consoles /\ d.x = c.x /\ d.y = c.y /\ d.video = c.video /\ d.colors = c.colors
         /\ d.cursor[1] * 256 + d.cursor[2] = c.y * NCOL + c.x
<1> DEFINE pos == c.y * NCOL + c.x
<1>1. c.x \in 0 .. NCOL - 1 /\ c.y \in 0 .. NROW - 1
  BY DEF Consoles, Screens
<1>2. pos \in Nat /\ pos < 256 * 256
  <2>1. c.x + c.y * NCOL \in Positions /\ c.y * NCOL \in Nat /\ c.x \in Nat
    <3>1. c.x \in Nat
      BY <1>1, Sizes
    <3>2. c.x + c.y * NCOL \in Positions /\ c.y * NCOL \in Nat
      BY <1>1, PositionIs
    <3> QED BY <3>1, <3>2
  <2>2. PICK m \in Nat : m = c.y * NCOL
    BY <2>1
  <2>3. PICK k \in Nat : k = NCOL * NROW /\ k <= 65536
    BY Sizes, KlogAssumption
  <2>4. c.x + m < k
    BY <2>1, <2>2, <2>3 DEF Positions
  <2> QED BY <2>1, <2>2, <2>3, <2>4
<1> HIDE DEF pos
<1>3. PICK hi \in Int, lo \in Int : hi = (pos \div 256) % 256 /\ lo = pos % 256
  BY <1>2
<1>4. lo + hi * 256 = pos
  BY <1>2, <1>3, TwoParts
<1>5. move_cursor(c) = [c EXCEPT !.cursor = <<hi, lo>>]
  BY <1>3 DEF move_cursor, pos
<1>6. <<hi, lo>> \in Int \X Int
  OBVIOUS
<1>7. PICK d : d = [c EXCEPT !.cursor = <<hi, lo>>]
  OBVIOUS
<1>8. /\ d \in Consoles /\ d.x = c.x /\ d.y = c.y /\ d.video = c.video /\ d.colors = c.colors
      /\ d.cursor = <<hi, lo>>
  BY <1>6, <1>7 DEF Consoles, Screens
<1>9. d.cursor[1] = hi /\ d.cursor[2] = lo
  BY <1>8
<1>10. d.cursor[1] * 256 + d.cursor[2] = pos
  BY <1>2, <1>4, <1>9
<1> QED BY <1>5, <1>7, <1>8, <1>10 DEF pos

\* puts keeps the console one, and its colours.
LEMMA PutsStays ==
  ASSUME NEW c \in Consoles, NEW s \in Seq(Int)
  PROVE  puts(c, s) \in Consoles /\ puts(c, s).colors = c.colors
<1>1. PICK n \in Nat : n = Len(s) /\ \A j \in 1 .. n : s[j] \in Int
  OBVIOUS
<1>2. PICK u \in [0 .. n -> Consoles] : Shows(u, n, c, s)
  BY <1>1, PutsLoop
<1> DEFINE R == {d \in Consoles : d.colors = c.colors}
<1>3. u[0] \in R
  BY <1>2 DEF Shows
<1>4. ASSUME NEW j \in 1 .. n, u[j - 1] \in R PROVE u[j] \in R
  <2>1. u[j] = putc(u[j - 1], s[j]) /\ u[j - 1] \in Consoles /\ u[j - 1].colors = c.colors
    BY <1>2, <1>4 DEF Shows
  <2> QED BY <1>1, <2>1, PutcStays
<1>5. \A j \in 0 .. n : u[j] \in R
  <2> HIDE DEF R
  <2> QED BY <1>3, <1>4, RoundsWithin
<1>6. u[n] \in Consoles /\ u[n].colors = c.colors /\ puts(c, s) = move_cursor(u[n])
  BY <1>2, <1>5 DEF Shows
<1> QED BY <1>6, CursorIs

\* printf, of items of any width.
LEMMA PrintfStays ==
  ASSUME NEW c \in Consoles, NEW f \in Seq(Arguments)
  PROVE  /\ vprintf(f) \in Seq(Seq(Int))
         /\ printf(c, f) \in Consoles /\ printf(c, f).colors = c.colors
<1>1. vprintf(f) \in Seq(Seq(Int))
  <2>1. PICK n \in Nat : n = Len(f)
    OBVIOUS
  <2>2. PICK u \in [0 .. n -> Seq(Seq(Int))] : Prints(u, n, f)
    BY <2>1, VprintfIs
  <2>3. n \in 0 .. n
    OBVIOUS
  <2> QED BY <2>2, <2>3 DEF Prints
<1>2. Joined(vprintf(f)) \in Seq(Int)
  <2>1. PICK s \in Seq(Seq(Int)) : s = vprintf(f)
    BY <1>1
  <2>2. <<>> \in Seq(Int)
    OBVIOUS
  <2> QED BY <2>1, <2>2, JoinedMore
<1> QED BY <1>1, <1>2, PutsStays DEF printf

\* Formats are sequences of such items.
LEMMA FormatsAre ==
  ASSUME NEW f \in Seq(Items) PROVE f \in Seq(Arguments)
<1>1. \A j \in 1 .. Len(f) : f[j] \in Arguments
  BY ItemsAre
<1> QED BY <1>1

\* Pushing a colour and popping it.
LEMMA PushIs ==
  ASSUME NEW c \in Consoles, NEW fore \in Int, NEW back \in Int
  PROVE  /\ push_color(c, fore, back) \in Consoles
         /\ Len(push_color(c, fore, back).colors)
              = IF Len(c.colors) < COLOR_STACK_SIZE THEN Len(c.colors) + 1 ELSE COLOR_STACK_SIZE
         /\ SubSeq(push_color(c, fore, back).colors, 1, Len(push_color(c, fore, back).colors) - 1)
              = IF Len(c.colors) < COLOR_STACK_SIZE THEN c.colors
                ELSE SubSeq(c.colors, 1, Len(c.colors) - 1)
<1> DEFINE n == Len(c.colors)
           kept == IF n = COLOR_STACK_SIZE THEN SubSeq(c.colors, 1, COLOR_STACK_SIZE - 1)
                   ELSE c.colors
<1>1. c.colors \in Seq(Int) /\ n \in 1 .. COLOR_STACK_SIZE /\ COLOR_STACK_SIZE \in Nat /\ COLOR_STACK_SIZE > 1
      /\ c.mono \in BOOLEAN
  BY Sizes DEF Consoles, Screens
<1>2. PICK a \in Int : a = Attribute(c, fore, back)
  BY DEF Attribute
<1>3. kept \in Seq(Int) /\ Len(kept) = IF n < COLOR_STACK_SIZE THEN n ELSE COLOR_STACK_SIZE - 1
  <2>1. CASE n = COLOR_STACK_SIZE
    <3>1. \A i \in 1 .. COLOR_STACK_SIZE - 1 : c.colors[i] \in Int
      BY <1>1, <2>1
    <3>2. 1 \in Int /\ COLOR_STACK_SIZE - 1 \in Int
      BY <1>1
    <3>3. PICK s \in Seq(Int) : s = c.colors
      BY <1>1
    <3>4. /\ SubSeq(s, 1, COLOR_STACK_SIZE - 1) \in Seq(Int)
          /\ Len(SubSeq(s, 1, COLOR_STACK_SIZE - 1)) = COLOR_STACK_SIZE - 1
      BY <1>1, <3>1, <3>2, <3>3, SubSeqProperties
    <3> QED BY <1>1, <2>1, <3>3, <3>4
  <2>2. CASE n # COLOR_STACK_SIZE
    BY <1>1, <2>2
  <2> QED BY <2>1, <2>2
<1>4. push_color(c, fore, back) = [c EXCEPT !.colors = Append(kept, a)]
  BY <1>2 DEF push_color
<1>5. kept = IF n < COLOR_STACK_SIZE THEN c.colors ELSE SubSeq(c.colors, 1, n - 1)
  BY <1>1
<1> HIDE DEF kept, n
<1>6. PICK s \in Seq(Int) : s = Append(kept, a) /\ Len(s) = Len(kept) + 1
  <2>1. kept \in Seq(Int)
    BY <1>3
  <2>2. Append(kept, a) \in Seq(Int) /\ Len(Append(kept, a)) = Len(kept) + 1
    BY <2>1
  <2> QED BY <2>2, Zenon
<1>7. SubSeq(s, 1, Len(s) - 1) = kept
  <2>1. PICK k \in Seq(Int) : k = kept
    BY <1>3
  <2>2. s = Append(k, a) /\ Len(s) - 1 = Len(k)
    BY <1>6, <2>1
  <2>3. \A i \in 1 .. Len(k) : s[i] = k[i]
    BY <2>2
  <2>4. \A i \in 1 .. Len(k) : s[i] \in Int
    BY <2>3
  <2>5. 1 \in Int /\ Len(k) \in Int /\ Len(k) \in Nat
    OBVIOUS
  <2>6. /\ SubSeq(s, 1, Len(k)) \in Seq(Int)
        /\ Len(SubSeq(s, 1, Len(k))) = Len(k)
        /\ \A i \in 1 .. Len(k) : SubSeq(s, 1, Len(k))[i] = s[1 + i - 1]
    BY <2>4, <2>5, SubSeqProperties
  <2>7. \A i \in 1 .. Len(k) : SubSeq(s, 1, Len(k))[i] = k[i]
    BY <2>3, <2>5, <2>6
  <2>8. SubSeq(s, 1, Len(k)) = k
    BY <2>6, <2>7, SeqEqual
  <2> QED BY <2>1, <2>2, <2>8
<1>8. Len(s) \in 1 .. COLOR_STACK_SIZE /\ Len(s) = IF n < COLOR_STACK_SIZE THEN n + 1 ELSE COLOR_STACK_SIZE
  BY <1>1, <1>3, <1>6
<1>9. PICK d : d = [c EXCEPT !.colors = s]
  OBVIOUS
<1>10. d \in Consoles /\ d.colors = s
  BY <1>8, <1>9 DEF Consoles, Screens
<1> QED BY <1>4, <1>5, <1>6, <1>7, <1>8, <1>9, <1>10 DEF n

\* pop_color never empties the stack.
LEMMA PopIs ==
  ASSUME NEW c \in Consoles
  PROVE  /\ pop_color(c) \in Consoles
         /\ Len(c.colors) > 1 => pop_color(c).colors = SubSeq(c.colors, 1, Len(c.colors) - 1)
<1>1. c.colors \in Seq(Int) /\ Len(c.colors) \in 1 .. COLOR_STACK_SIZE /\ COLOR_STACK_SIZE \in Nat
  BY Sizes DEF Consoles, Screens
<1>2. CASE Len(c.colors) > 1
  <2>1. PICK s \in Seq(Int) : s = c.colors
    BY <1>1
  <2>2. 1 \in Int /\ Len(s) - 1 \in Int /\ \A i \in 1 .. Len(s) - 1 : s[i] \in Int
    OBVIOUS
  <2>3. SubSeq(s, 1, Len(s) - 1) \in Seq(Int) /\ Len(SubSeq(s, 1, Len(s) - 1)) = Len(s) - 1
    BY <1>2, <2>1, <2>2, SubSeqProperties
  <2>4. PICK t \in Seq(Int) : t = SubSeq(s, 1, Len(s) - 1) /\ Len(t) = Len(s) - 1
    BY <2>3
  <2>5. pop_color(c) = [c EXCEPT !.colors = t]
    BY <1>2, <2>1, <2>4 DEF pop_color
  <2>6. Len(t) \in 1 .. COLOR_STACK_SIZE
    BY <1>1, <1>2, <2>1, <2>4
  <2>7. PICK d : d = [c EXCEPT !.colors = t]
    OBVIOUS
  <2>8. d \in Consoles /\ d.colors = t
    BY <2>6, <2>7 DEF Consoles, Screens
  <2> QED BY <2>1, <2>4, <2>5, <2>7, <2>8
<1>3. CASE ~(Len(c.colors) > 1)
  BY <1>3 DEF pop_color
<1> QED BY <1>2, <1>3

\* The prefix of a level.
LEMMA LevelIs ==
  ASSUME NEW level \in DOMAIN LEVEL_STR PROVE LEVEL_STR[level] \in Seq(Int)
<1>1. level \in {"DEBUG", "INFO", "ERROR"}
  BY DEF LEVEL_STR
<1>2. LEVEL_STR["DEBUG"] \in Seq(Int) /\ LEVEL_STR["INFO"] \in Seq(Int) /\ LEVEL_STR["ERROR"] \in Seq(Int)
  BY DEF LEVEL_STR
<1> QED BY <1>1, <1>2

\* A line of the log.
LEMMA LogIs ==
  ASSUME NEW c \in Consoles, NEW level \in DOMAIN LEVEL_STR, NEW f \in Seq(Arguments)
  PROVE  /\ log(c, level, f) \in Consoles
         /\ log(c, level, f).colors
              = IF Len(c.colors) < COLOR_STACK_SIZE THEN c.colors
                ELSE SubSeq(c.colors, 1, Len(c.colors) - 1)
<1>1. PICK c1 \in Consoles : c1 = push_color(c, LIGHT_BLUE, BLACK)
  BY PushIs DEF LIGHT_BLUE, BLACK
<1>2. /\ Len(c1.colors) = IF Len(c.colors) < COLOR_STACK_SIZE THEN Len(c.colors) + 1 ELSE COLOR_STACK_SIZE
      /\ SubSeq(c1.colors, 1, Len(c1.colors) - 1)
           = IF Len(c.colors) < COLOR_STACK_SIZE THEN c.colors
             ELSE SubSeq(c.colors, 1, Len(c.colors) - 1)
  BY <1>1, PushIs DEF LIGHT_BLUE, BLACK
<1>3. Len(c1.colors) > 1
  <2>1. Len(c.colors) \in 1 .. COLOR_STACK_SIZE
    BY DEF Consoles, Screens
  <2> QED BY <1>2, <2>1, Sizes
<1>4. PICK c2 \in Consoles : c2 = puts(c1, LEVEL_STR[level]) /\ c2.colors = c1.colors
  BY LevelIs, PutsStays
<1>5. PICK c3 \in Consoles : /\ c3 = pop_color(c2)
                             /\ c3.colors = SubSeq(c1.colors, 1, Len(c1.colors) - 1)
  BY <1>3, <1>4, PopIs
<1>6. PICK c4 \in Consoles : c4 = printf(c3, f) /\ c4.colors = c3.colors
  BY PrintfStays
<1>7. <<LF>> \in Seq(Int)
  BY DEF LF
<1>8. PICK c5 \in Consoles : c5 = puts(c4, <<LF>>) /\ c5.colors = c4.colors
  BY <1>7, PutsStays
<1>9. log(c, level, f) = c5
  BY <1>1, <1>4, <1>5, <1>6, <1>8 DEF log
<1> QED BY <1>2, <1>5, <1>6, <1>8, <1>9

\* Klog::init.
LEMMA InitializedIs ==
  ASSUME NEW mono \in BOOLEAN PROVE initialized(mono) \in Consoles
<1> DEFINE z == [p \in Positions |-> [ch |-> Space, color |-> 0]]
           c0 == [mono |-> mono, colors |-> <<>>, x |-> 0, y |-> 0, cursor |-> <<0, 0>>, video |-> z]
           f == <<Str(IF mono THEN <<109>> ELSE <<99>>), Lit(LF)>>
<1>1. z \in [Positions -> Cells]
  BY DEF Cells, Space
<1> HIDE DEF z
<1>2. PICK a \in Int : a = Attribute(c0, LIGHT_GRAY, BLACK)
  BY DEF Attribute, LIGHT_GRAY, BLACK
<1>3. push_color(c0, LIGHT_GRAY, BLACK) = [c0 EXCEPT !.colors = <<a>>]
  <2>1. c0.colors = <<>> /\ Len(<<>>) = 0 /\ 0 # COLOR_STACK_SIZE /\ Append(<<>>, a) = <<a>>
    BY Sizes
  <2> QED BY <1>2, <2>1 DEF push_color
<1>4. PICK s \in Seq(Int) : s = <<a>> /\ Len(s) = 1
  <2>1. <<a>> \in Seq(Int) /\ Len(<<a>>) = 1
    OBVIOUS
  <2> QED BY <2>1, Zenon
<1>5. c0 \in [mono : BOOLEAN, colors : Seq(Int), x : {0}, y : {0}, cursor : Int \X Int,
             video : [Positions -> Cells]]
  <2>1. <<>> \in Seq(Int) /\ <<0, 0>> \in Int \X Int
    OBVIOUS
  <2> QED BY <1>1, <2>1
<1> HIDE DEF c0
<1>6. PICK c1 : c1 = [c0 EXCEPT !.colors = s]
  OBVIOUS
<1>7. c1 \in Screens({0}, {0})
  <2>1. 1 \in 1 .. COLOR_STACK_SIZE
    BY Sizes
  <2> QED BY <1>4, <1>5, <1>6, <2>1 DEF Screens
<1>8. push_color(c0, LIGHT_GRAY, BLACK) = c1
  BY <1>3, <1>4, <1>6
<1>9. cls(c1) \in Consoles
  BY <1>7, ClsIs
<1>10. f \in Seq(Arguments)
  <2>1. PICK t \in Seq(Int) : t = IF mono THEN <<109>> ELSE <<99>>
    <3>1. <<109>> \in Seq(Int) /\ <<99>> \in Seq(Int)
      OBVIOUS
    <3> QED BY <3>1
  <2>2. <<>> \in Seq(Int)
    OBVIOUS
  <2>3. Str(t) \in Arguments /\ Lit(LF) \in Arguments
    BY <2>2 DEF Str, Lit, LF, Arguments
  <2>4. f = <<Str(t), Lit(LF)>>
    BY <2>1
  <2> HIDE DEF f
  <2> QED BY <2>3, <2>4
<1>11. initialized(mono) = printf(cls(push_color(c0, LIGHT_GRAY, BLACK)), f)
  BY DEF initialized, z, c0
<1> HIDE DEF f
<1> QED BY <1>8, <1>9, <1>10, <1>11, PrintfStays

\* Any call of the kernel keeps the console one.
LEMMA KlogStays ==
  ASSUME con \in Consoles, KlogCall PROVE con' \in Consoles
<1>1. CASE \E f \in Formats : con' = printf(con, f)
  <2>1. PICK f \in Formats : con' = printf(con, f)
    BY <1>1
  <2>2. f \in Seq(Arguments)
    BY KlogAssumption, FormatsAre
  <2> QED BY <2>1, <2>2, PrintfStays
<1>2. CASE \E level \in DOMAIN LEVEL_STR, f \in Formats : con' = log(con, level, f)
  <2>1. PICK level \in DOMAIN LEVEL_STR, f \in Formats : con' = log(con, level, f)
    BY <1>2
  <2>2. f \in Seq(Arguments)
    BY KlogAssumption, FormatsAre
  <2> QED BY <2>1, <2>2, LogIs
<1>3. CASE \E p \in Colors : con' = push_color(con, p[1], p[2])
  <2>1. PICK p \in Colors : con' = push_color(con, p[1], p[2])
    BY <1>3
  <2>2. p[1] \in Int /\ p[2] \in Int
    BY KlogAssumption
  <2> QED BY <2>1, <2>2, PushIs
<1>4. CASE con' = pop_color(con)
  BY <1>4, PopIs
<1>5. CASE con' = cls(con)
  BY <1>5, ClsIs DEF Consoles
<1> QED BY <1>1, <1>2, <1>3, <1>4, <1>5 DEF KlogCall

----------------------------------------------------------------------------
(***************************************************************************)
(* The screen is a window on the roll.                                     *)
(***************************************************************************)
Rolls == [x : Nat, y : Nat, ink : UNION {[D -> Cells] : D \in SUBSET Nat}]

\* The rows of the roll above the screen.
Above(r) == IF r.y < NROW THEN 0 ELSE r.y - (NROW - 1)

\* Console c shows the end of roll r, the columns of the cursors left aside;
\* nothing is written on the roll below the screen.
Window(c, r, color) ==
  /\ c.y = IF r.y < NROW THEN r.y ELSE NROW - 1
  /\ c.video = Shown(r, color)
  /\ \A p \in DOMAIN r.ink : p \in Nat /\ (p < NROW * NCOL \/ p < (r.y + 1) * NCOL)

\* The same with the columns.
Sees(c, r, color) ==
  /\ c \in Consoles /\ Top(c) = color /\ r \in Rolls /\ r.x = c.x /\ Window(c, r, color)

\* What is shown, cell by cell.
LEMMA ShownIs ==
  ASSUME NEW r \in Rolls, NEW color
  PROVE  Shown(r, color) = [p \in Positions |->
           IF p + Above(r) * NCOL \in DOMAIN r.ink THEN r.ink[p + Above(r) * NCOL]
           ELSE [ch |-> Space, color |-> color]]
BY Zenon DEF Shown, Above

\* The ink of a roll.
LEMMA InkIs ==
  ASSUME NEW r \in Rolls
  PROVE  /\ r.x \in Nat /\ r.y \in Nat /\ DOMAIN r.ink \subseteq Nat
         /\ \A p \in DOMAIN r.ink : r.ink[p] \in Cells
<1>1. PICK D \in SUBSET Nat : r.ink \in [D -> Cells]
  BY DEF Rolls
<1> QED BY <1>1 DEF Rolls

\* The cursors go to the start of the next line.
LEMMA NextLine ==
  ASSUME NEW c, NEW r \in Rolls, NEW color, Blank(c) = [ch |-> Space, color |-> color],
         Window(c, r, color), NEW e, Ended(e, c), NEW q \in Rolls,
         q.x = 0, q.y = r.y + 1, q.ink = r.ink
  PROVE  Window(e, q, color)
<1> DEFINE nothing == [ch |-> Space, color |-> color]
<1>1. NCOL \in Nat /\ NCOL > 0 /\ NROW \in Nat /\ NROW > 0 /\ r.y \in Nat /\ q.y = r.y + 1
  BY Sizes, InkIs
<1>2. /\ c.y = IF r.y < NROW THEN r.y ELSE NROW - 1
      /\ c.video = Shown(r, color)
      /\ \A p \in DOMAIN r.ink : p \in Nat /\ (p < NROW * NCOL \/ p < (r.y + 1) * NCOL)
  BY DEF Window
<1>3. /\ e.y = IF c.y + 1 < NROW THEN c.y + 1 ELSE NROW - 1
      /\ e.video = IF c.y + 1 < NROW THEN c.video
               ELSE [p \in Positions |-> IF p < (NROW - 1) * NCOL THEN c.video[p + NCOL]
                                         ELSE Blank(c)]
  BY DEF Ended
<1>4. c.y + 1 < NROW <=> r.y + 1 < NROW
  BY <1>1, <1>2
<1>5. e.y = IF q.y < NROW THEN q.y ELSE NROW - 1
  BY <1>1, <1>2, <1>3
<1>6. PICK m \in Nat, m1 \in Nat, w \in Nat, b \in Nat :
        /\ m = (r.y + 1) * NCOL /\ m1 = (q.y + 1) * NCOL /\ w = NROW * NCOL /\ m1 = m + NCOL
        /\ b = (NROW - 1) * NCOL /\ b + NCOL = w
  <2>1. NROW - 1 \in Nat /\ r.y + 1 \in Nat /\ q.y + 1 \in Nat
    BY <1>1
  <2>2. (r.y + 1) * NCOL \in Nat /\ (q.y + 1) * NCOL \in Nat /\ NROW * NCOL \in Nat /\ (NROW - 1) * NCOL \in Nat
    BY <1>1, <2>1
  <2>3. PICK k \in Nat : k = r.y + 1 /\ q.y + 1 = k + 1
    BY <1>1
  <2>4. (k + 1) * NCOL = k * NCOL + NCOL
    BY <1>1
  <2>5. PICK i \in Nat : i = NROW - 1 /\ NROW = i + 1
    BY <1>1, <2>1
  <2>6. (i + 1) * NCOL = i * NCOL + NCOL
    BY <1>1
  <2> QED BY <2>2, <2>3, <2>4, <2>5, <2>6
<1>7. \A p \in DOMAIN q.ink : p \in Nat /\ (p < NROW * NCOL \/ p < (q.y + 1) * NCOL)
  <2> SUFFICES ASSUME NEW p \in DOMAIN r.ink PROVE p \in Nat /\ (p < w \/ p < m1)
    BY <1>6
  <2>1. p \in Nat /\ (p < w \/ p < m)
    BY <1>2, <1>6
  <2> QED BY <1>1, <1>6, <2>1
<1>8. e.video = Shown(q, color)
  <2>1. CASE r.y + 1 < NROW
    <3>1. Above(q) = Above(r)
      BY <1>1, <2>1 DEF Above
    <3>2. Shown(q, color) = Shown(r, color)
      BY <3>1, ShownIs
    <3> QED BY <1>2, <1>3, <1>4, <2>1, <3>2
  <2>2. CASE ~(r.y + 1 < NROW)
    <3>1. PICK a \in Nat : a = Above(r) /\ Above(q) = a + 1 /\ r.y = a + (NROW - 1)
      BY <1>1, <2>2 DEF Above
    <3>2. PICK h \in Nat, h1 \in Nat : h = a * NCOL /\ h1 = (a + 1) * NCOL /\ h1 = h + NCOL
      <4>1. a * NCOL \in Nat /\ (a + 1) * NCOL = a * NCOL + NCOL /\ a * NCOL + NCOL \in Nat
        BY <1>1
      <4> QED BY <4>1
    <3>3. b + h1 = m
      <4>1. PICK i \in Nat : i = NROW - 1 /\ r.y + 1 = i + (a + 1)
        BY <1>1, <3>1
      <4>2. (i + (a + 1)) * NCOL = i * NCOL + (a + 1) * NCOL
        BY <1>1
      <4> QED BY <1>6, <3>2, <4>1, <4>2
    <3>4. w <= m
      <4>1. PICK k \in Nat : r.y + 1 = NROW + k
        <5>1. r.y + 1 - NROW \in Nat /\ r.y + 1 = NROW + (r.y + 1 - NROW)
          BY <1>1, <2>2
        <5> QED BY <5>1
      <4>2. (NROW + k) * NCOL = NROW * NCOL + k * NCOL /\ k * NCOL \in Nat
        BY <1>1
      <4> QED BY <1>6, <4>1, <4>2
    <3> DEFINE Cell(i) == IF i \in DOMAIN r.ink THEN r.ink[i] ELSE nothing
    <3>5. ASSUME NEW p \in Positions
          PROVE  (IF p < b THEN c.video[p + NCOL] ELSE nothing) = Cell(p + h1)
      <4>1. p \in Nat /\ (p < b => p + NCOL \in Positions)
        BY <1>6, LastRow
      <4>2. CASE p < b
        <5>a. c.video = [j \in Positions |-> Cell(j + h)]
          BY <1>2, <3>1, <3>2, ShownIs
        <5>1. c.video[p + NCOL] = Cell((p + NCOL) + h)
          <6> HIDE DEF Cell
          <6> QED BY <5>a, <4>1, <4>2
        <5>2. (p + NCOL) + h = p + h1
          BY <1>1, <3>2, <4>1
        <5> QED BY <4>2, <5>1, <5>2
      <4>3. CASE ~(p < b)
        <5>1. p + h1 >= m /\ p + h1 \in Nat
          BY <1>6, <3>2, <3>3, <4>1, <4>3
        <5>2. p + h1 \notin DOMAIN r.ink
          <6> SUFFICES ASSUME p + h1 \in DOMAIN r.ink PROVE FALSE
            OBVIOUS
          <6>1. p + h1 < w \/ p + h1 < m
            BY <1>2, <1>6
          <6> QED BY <3>4, <5>1, <6>1, <1>6
        <5> QED BY <4>3, <5>2
      <4> QED BY <4>2, <4>3
    <3>6. Shown(q, color) = [p \in Positions |-> Cell(p + h1)]
      BY <3>1, <3>2, ShownIs
    <3>7. e.video = [p \in Positions |-> IF p < b THEN c.video[p + NCOL] ELSE nothing]
      BY <1>3, <1>4, <1>6, <2>2
    <3> HIDE DEF Cell
    <3> QED BY <3>5, <3>6, <3>7
  <2> QED BY <2>1, <2>2
<1> QED BY <1>5, <1>7, <1>8 DEF Window

\* A printing character, written on both.
LEMMA InkBoth ==
  ASSUME NEW c, NEW r, NEW color, Sees(c, r, color), NEW ch \in Int, NEW d, NEW q \in Rolls,
         d.y = c.y,
         d.video = [c.video EXCEPT ![c.x + c.y * NCOL] = [ch |-> ch, color |-> color]],
         q.y = r.y,
         q.ink = [p \in DOMAIN r.ink \cup {r.x + r.y * NCOL} |->
                    IF p = r.x + r.y * NCOL THEN [ch |-> ch, color |-> color] ELSE r.ink[p]]
  PROVE  Window(d, q, color)
<1> DEFINE nothing == [ch |-> Space, color |-> color]
           cell == [ch |-> ch, color |-> color]
<1>1. /\ NCOL \in Nat /\ NCOL > 0 /\ NROW \in Nat /\ NROW > 0 /\ r.y \in Nat /\ r \in Rolls
      /\ c.x \in 0 .. NCOL - 1 /\ c.y \in 0 .. NROW - 1 /\ r.x = c.x /\ c.video \in [Positions -> Cells]
  BY Sizes, InkIs DEF Sees, Consoles, Screens
<1>2. /\ c.y = IF r.y < NROW THEN r.y ELSE NROW - 1
      /\ c.video = Shown(r, color)
      /\ \A p \in DOMAIN r.ink : p \in Nat /\ (p < NROW * NCOL \/ p < (r.y + 1) * NCOL)
  BY DEF Window, Sees
<1>3. PICK a \in Nat : a = Above(r) /\ Above(q) = a /\ r.y = c.y + a
  BY <1>1, <1>2 DEF Above
<1>4. PICK h \in Nat, k \in Nat, l \in Nat : h = a * NCOL /\ k = c.y * NCOL /\ l = r.y * NCOL /\ l = k + h
  <2>1. a * NCOL \in Nat /\ c.y \in Nat /\ c.y * NCOL \in Nat /\ r.y * NCOL \in Nat
    BY <1>1
  <2>2. PICK i \in Nat : i = c.y
    BY <2>1
  <2>3. (i + a) * NCOL = i * NCOL + a * NCOL
    BY <1>1
  <2> QED BY <1>3, <2>1, <2>2, <2>3
<1>5. PICK i \in Positions : i = c.x + k /\ i \in Nat /\ i + h = c.x + l
  <2>1. c.x + c.y * NCOL \in Positions
    BY <1>1, PositionIs
  <2>2. c.x \in Nat
    BY <1>1
  <2> QED BY <1>4, <2>1, <2>2
<1> DEFINE Cell(j) == IF j \in DOMAIN r.ink THEN r.ink[j] ELSE nothing
           Cell2(j) == IF j \in DOMAIN q.ink THEN q.ink[j] ELSE nothing
<1>6. c.video = [p \in Positions |-> Cell(p + h)] /\ Shown(q, color) = [p \in Positions |-> Cell2(p + h)]
  <2>1. c.video = [p \in Positions |-> Cell(p + h)]
    <3>1. Above(r) * NCOL = h
      BY <1>3, <1>4
    <3>2. Shown(r, color) = [p \in Positions |-> IF p + h \in DOMAIN r.ink THEN r.ink[p + h]
                                                ELSE [ch |-> Space, color |-> color]]
      BY <3>1, <1>1, ShownIs
    <3> QED BY <3>2, <1>2
  <2>2. Shown(q, color) = [p \in Positions |-> Cell2(p + h)]
    <3>1. Above(q) * NCOL = h
      BY <1>3, <1>4
    <3>2. Shown(q, color) = [p \in Positions |-> IF p + h \in DOMAIN q.ink THEN q.ink[p + h]
                                                ELSE [ch |-> Space, color |-> color]]
      BY <3>1, ShownIs
    <3> QED BY <3>2
  <2> QED BY <2>1, <2>2
<1>7. ASSUME NEW p \in Positions PROVE Cell2(p + h) = IF p = i THEN cell ELSE Cell(p + h)
  <2>1. p \in Nat /\ (p = i <=> p + h = i + h)
    <3>1. p \in Nat
      BY LastRow, Zenon
    <3>2. i \in Nat /\ h \in Nat
      BY <1>5
    <3> QED BY <3>1, <3>2
  <2>2. DOMAIN q.ink = DOMAIN r.ink \cup {i + h}
    BY <1>1, <1>4, <1>5
  <2>3. \A j \in DOMAIN q.ink : q.ink[j] = IF j = i + h THEN cell ELSE r.ink[j]
    BY <1>1, <1>4, <1>5
  <2> QED BY <2>1, <2>2, <2>3
<1>8. d.video = [p \in Positions |-> IF p = i THEN cell ELSE Cell(p + h)]
  <2>1. d.video = [c.video EXCEPT ![i] = cell]
    BY <1>4, <1>5
  <2> HIDE DEF Cell
  <2> QED BY <1>6, <2>1
<1>9. d.video = Shown(q, color)
  <2> HIDE DEF Cell, Cell2
  <2> QED BY <1>6, <1>7, <1>8
<1>10. \A p \in DOMAIN q.ink : p \in Nat /\ (p < NROW * NCOL \/ p < (q.y + 1) * NCOL)
  <2> SUFFICES ASSUME NEW p \in DOMAIN q.ink PROVE p \in Nat /\ (p < NROW * NCOL \/ p < (q.y + 1) * NCOL)
    OBVIOUS
  <2>1. p \in DOMAIN r.ink \/ p = i + h
    BY <1>1, <1>4, <1>5
  <2>2. CASE p \in DOMAIN r.ink
    BY <1>2, <2>2
  <2>3. CASE p = i + h
    <3>1. p = c.x + l /\ p \in Nat /\ c.x < NCOL /\ c.x \in Nat
      BY <1>1, <1>5, <2>3
    <3>2. PICK y \in Nat : y = r.y
      BY <1>1
    <3>3. (y + 1) * NCOL = y * NCOL + NCOL
      BY <1>1
    <3>4. p < (q.y + 1) * NCOL
      BY <1>1, <1>4, <3>1, <3>2, <3>3
    <3> QED BY <3>1, <3>4
  <2> QED BY <2>1, <2>2, <2>3
<1> QED BY <1>2, <1>9, <1>10 DEF Window

\* Roll i is roll r with one more character.
Marked(i, r, ch, color) ==
  /\ i \in Rolls /\ i.x = r.x + 1 /\ i.y = r.y
  /\ i.ink = [p \in DOMAIN r.ink \cup {r.x + r.y * NCOL} |->
                IF p = r.x + r.y * NCOL THEN [ch |-> ch, color |-> color] ELSE r.ink[p]]

\* One character on the roll, case by case.
LEMMA TypedIs ==
  ASSUME NEW r \in Rolls, NEW ch \in Int, NEW color \in Int, NEW q, q = Typed(r, ch, color)
  PROVE  /\ q \in Rolls
         /\ ~isprint(ch) /\ ch # CR /\ ch # LF => q = r
         /\ ch = CR => q.x = 0 /\ q.y = r.y /\ q.ink = r.ink
         /\ ch = LF => q.x = 0 /\ q.y = r.y + 1 /\ q.ink = r.ink
         /\ isprint(ch) =>
              \E i :
                /\ Marked(i, r, ch, color)
                /\ r.x < NCOL - 1 => q = i
                /\ ~(r.x < NCOL - 1) => q.x = 0 /\ q.y = r.y + 1 /\ q.ink = i.ink
<1> DEFINE at == r.x + r.y * NCOL
           ink == [p \in DOMAIN r.ink \cup {at} |-> IF p = at THEN [ch |-> ch, color |-> color]
                                                   ELSE r.ink[p]]
<1>1. /\ r.x \in Nat /\ r.y \in Nat /\ DOMAIN r.ink \subseteq Nat
      /\ \A p \in DOMAIN r.ink : r.ink[p] \in Cells
  BY InkIs
<1>2. at \in Nat
  <2>1. r.y * NCOL \in Nat
    BY <1>1, Sizes
  <2> QED BY <1>1, <2>1
<1>3. [ch |-> ch, color |-> color] \in Cells
  BY DEF Cells
<1> DEFINE Inks == UNION {[D -> Cells] : D \in SUBSET Nat}
<1>4. ink \in Inks
  <2>1. \A p \in DOMAIN r.ink \cup {at} : ink[p] \in Cells
    BY <1>1, <1>3
  <2>2. DOMAIN r.ink \cup {at} \in SUBSET Nat
    BY <1>1, <1>2
  <2>3. ink \in [DOMAIN r.ink \cup {at} -> Cells]
    BY <2>1
  <2> QED BY <2>2, <2>3
<1>5. PICK k \in Inks : k = ink
  BY <1>4
<1>a. PICK n \in Nat, l \in Nat, z \in Nat : n = r.x + 1 /\ l = r.y + 1 /\ z = 0
  BY <1>1
<1> DEFINE i == [r EXCEPT !.x = n, !.ink = k]
<1>6. r \in [x : Nat, y : Nat, ink : Inks]
  BY DEF Rolls
<1>7. i \in Rolls /\ i.x = r.x + 1 /\ i.y = r.y /\ i.ink = k
  <2> HIDE DEF Inks
  <2>1. i \in [x : Nat, y : Nat, ink : Inks] /\ i.x = n /\ i.y = r.y /\ i.ink = k
    BY <1>1, <1>6
  <2> HIDE DEF i
  <2> QED BY <1>a, <2>1 DEF Rolls, Inks
<1>8. CR # LF /\ ~isprint(CR) /\ ~isprint(LF)
  BY DEF isprint, Space, CR, LF
<1>9. q = CASE ch = LF                       -> [r EXCEPT !.x = 0, !.y = l]
           [] ch = CR                       -> [r EXCEPT !.x = 0]
           [] isprint(ch) /\ r.x < NCOL - 1 -> i
           [] isprint(ch) /\ r.x >= NCOL - 1 -> [i EXCEPT !.x = 0, !.y = l]
           [] OTHER                         -> r
  BY <1>5, <1>7, <1>a, Zenon DEF Typed
<1> HIDE DEF Inks, ink, at, i
<1>10. CASE ch = LF
  <2>1. q = [r EXCEPT !.x = z, !.y = l]
    BY <1>8, <1>9, <1>10, <1>a
  <2>2. q \in [x : Nat, y : Nat, ink : Inks] /\ q.x = z /\ q.y = l /\ q.ink = r.ink
    BY <1>1, <1>6, <2>1
  <2> QED BY <1>8, <1>10, <1>a, <2>2 DEF Rolls, Inks
<1>11. CASE ch = CR
  <2>1. q = [r EXCEPT !.x = 0]
    BY <1>8, <1>9, <1>11
  <2>2. q \in [x : Nat, y : Nat, ink : Inks] /\ q.x = 0 /\ q.y = r.y /\ q.ink = r.ink
    BY <1>1, <1>6, <2>1
  <2> QED BY <1>8, <1>11, <2>2 DEF Rolls, Inks
<1>12. CASE ~isprint(ch) /\ ch # CR /\ ch # LF
  <2>1. q = r
    BY <1>9, <1>12
  <2> QED BY <1>12, <2>1
<1>13. CASE isprint(ch) /\ r.x < NCOL - 1
  <2>a. ch # CR /\ ch # LF
    BY <1>8, <1>13
  <2>b. ~(r.x >= NCOL - 1)
    BY <1>1, <1>13, Sizes
  <2>1. q = i
    BY <2>a, <2>b, <1>9, <1>13, Zenon
  <2>2. Marked(i, r, ch, color)
    BY <1>5, <1>7, <1>a DEF Marked, ink, at
  <2> QED BY <1>7, <1>13, <2>a, <2>1, <2>2
<1>14. CASE isprint(ch) /\ ~(r.x < NCOL - 1)
  <2>b. ch # CR /\ ch # LF
    BY <1>8, <1>14
  <2>c. r.x >= NCOL - 1
    BY <1>1, <1>14, Sizes
  <2>1. q = [i EXCEPT !.x = z, !.y = l]
    BY <2>b, <2>c, <1>9, <1>14, <1>a
  <2>a. i \in [x : Nat, y : Nat, ink : Inks]
    BY <1>7 DEF Rolls, Inks
  <2>2. q \in [x : Nat, y : Nat, ink : Inks] /\ q.x = z /\ q.y = l /\ q.ink = i.ink
    BY <2>a, <2>1
  <2>3. q \in Rolls
    BY <2>2 DEF Rolls, Inks
  <2>4. Marked(i, r, ch, color)
    BY <1>5, <1>7, <1>a DEF Marked, ink, at
  <2> QED BY <1>a, <1>14, <2>b, <2>2, <2>3, <2>4
<1> QED BY <1>10, <1>11, <1>12, <1>13, <1>14

\* One character more, on the screen and on the roll.
LEMMA SeesStep ==
  ASSUME NEW c, NEW r, NEW color \in Int, Sees(c, r, color), NEW ch \in Int
  PROVE  Sees(putc(c, ch), Typed(r, ch, color), color)
<1> DEFINE d == putc(c, ch)
<1>q. PICK q : q = Typed(r, ch, color)
  OBVIOUS
<1> SUFFICES Sees(d, q, color)
  BY <1>q
<1>1. /\ c \in Consoles /\ Top(c) = color /\ r \in Rolls /\ r.x = c.x /\ Window(c, r, color)
      /\ c.x \in 0 .. NCOL - 1 /\ c.y \in 0 .. NROW - 1
  BY DEF Sees, Consoles, Screens
<1>2. d \in Consoles /\ Top(d) = color
  BY <1>1, PutcStays DEF Top
<1>3. q \in Rolls
  BY <1>1, <1>q, TypedIs
<1>4. Blank(c) = [ch |-> Space, color |-> color]
  BY <1>1 DEF Blank
<1>5. CASE ~isprint(ch) /\ ch # CR /\ ch # LF
  <2>1. d = c /\ q = r
    BY <1>1, <1>5, <1>q, PutcIs, TypedIs
  <2> QED BY <2>1
<1>6. CASE ch = CR
  <2>1. /\ q.x = 0 /\ q.y = r.y /\ q.ink = r.ink
        /\ d.x = 0 /\ d.y = c.y /\ d.video = c.video
    BY <1>1, <1>6, <1>q, PutcIs, TypedIs
  <2>2. Above(q) = Above(r)
    BY <2>1 DEF Above
  <2>3. Shown(q, color) = Shown(r, color)
    BY <1>1, <1>3, <2>1, <2>2, ShownIs
  <2>4. Window(d, q, color)
    BY <1>1, <2>1, <2>3 DEF Window
  <2> QED BY <1>2, <1>3, <2>1, <2>4 DEF Sees
<1>7. CASE ch = LF
  <2>1. q.x = 0 /\ q.y = r.y + 1 /\ q.ink = r.ink /\ Ended(d, c)
    BY <1>1, <1>7, <1>q, PutcIs, TypedIs
  <2>2. Window(d, q, color)
    BY <1>1, <1>3, <1>4, <2>1, NextLine
  <2>3. d.x = 0
    BY <2>1 DEF Ended
  <2> QED BY <1>2, <1>3, <2>1, <2>2, <2>3 DEF Sees
<1>8. CASE isprint(ch)
  <2>a. PICK i :
                /\ Marked(i, r, ch, color)
                /\ r.x < NCOL - 1 => q = i
                /\ ~(r.x < NCOL - 1) => q.x = 0 /\ q.y = r.y + 1 /\ q.ink = i.ink
    BY <1>1, <1>8, <1>q, TypedIs
  <2>1. /\ i \in Rolls /\ i.x = r.x + 1 /\ i.y = r.y
        /\ i.ink = [p \in DOMAIN r.ink \cup {r.x + r.y * NCOL} |->
             IF p = r.x + r.y * NCOL THEN [ch |-> ch, color |-> color] ELSE r.ink[p]]
    BY <2>a DEF Marked
  <2>2. PICK e : e = Inked(c, ch)
    OBVIOUS
  <2>3. /\ e \in Screens(0 .. NCOL, 0 .. NROW - 1) /\ e.x = c.x + 1 /\ e.y = c.y /\ e.colors = c.colors
        /\ e.video = [c.video EXCEPT ![c.x + c.y * NCOL] = [ch |-> ch, color |-> color]]
    BY <1>1, <2>2, InkedIs
  <2>4. Window(e, i, color)
    BY <2>1, <2>3, InkBoth
  <2>5. CASE c.x + 1 < NCOL
    <3>1. d = e /\ r.x < NCOL - 1
      BY <1>1, <1>8, <2>2, <2>5, PutcIs, Sizes
    <3> QED BY <1>1, <1>2, <1>3, <2>a, <2>1, <2>3, <2>4, <3>1 DEF Sees
  <2>6. CASE c.x + 1 = NCOL
    <3>1. Ended(d, e) /\ ~(r.x < NCOL - 1)
      BY <1>1, <1>8, <2>2, <2>6, PutcIs, Sizes
    <3>2. Blank(e) = [ch |-> Space, color |-> color]
      BY <1>4, <2>3 DEF Blank, Top
    <3>3. q.x = 0 /\ q.y = i.y + 1 /\ q.ink = i.ink
      BY <2>a, <2>1, <3>1
    <3>4. Window(d, q, color)
      BY <1>3, <2>1, <2>4, <3>1, <3>2, <3>3, NextLine
    <3>5. d.x = 0
      BY <3>1 DEF Ended
    <3> QED BY <1>2, <1>3, <3>3, <3>4, <3>5 DEF Sees
  <2>7. c.x + 1 < NCOL \/ c.x + 1 = NCOL
    BY <1>1, Sizes
  <2> QED BY <2>5, <2>6, <2>7
<1> QED BY <1>5, <1>6, <1>7, <1>8

\* v is what Behind computes, character by character.
Writes(v, n, r, s, color) ==
  /\ v[0] = r /\ Behind(r, s, color) = v[n]
  /\ \A j \in 1 .. n : v[j] = Typed(v[j - 1], s[j], color)

\* Behind does compute that.
LEMMA BehindLoop ==
  ASSUME NEW r \in Rolls, NEW s \in Seq(Int), NEW color \in Int
  PROVE  \E v \in [0 .. Len(s) -> Rolls] : Writes(v, Len(s), r, s, color)
<1> DEFINE n == Len(s)
           R == Rolls
           F == [x \in (1 .. n) \X R |-> Typed(x[2], s[x[1]], color)]
           Is(w) == w = [j \in 0 .. n |-> IF j = 0 THEN r ELSE Typed(w[j - 1], s[j], color)]
           upto == CHOOSE w : Is(w)
<1>1. n \in Nat /\ r \in R /\ \A j \in 1 .. n : s[j] \in Int
  OBVIOUS
<1>2. \A j \in 1 .. n, v \in R : Typed(v, s[j], color) \in R
  BY <1>1, TypedIs
<1>3. F \in [(1 .. n) \X R -> R]
  <2> HIDE DEF R, n
  <2> QED BY <1>2
<1>4. \E u \in [0 .. n -> R] : Is(u)
  <2>1. \A j \in 1 .. n, v \in R : F[<<j, v>>] = Typed(v, s[j], color)
    OBVIOUS
  <2> HIDE DEF F, R, n
  <2>2. PICK u \in [0 .. n -> R] : Rounds(u, n, r, F)
    BY <1>1, <1>3, RoundsExist
  <2>3. ASSUME NEW j \in 0 .. n PROVE u[j] = IF j = 0 THEN r ELSE Typed(u[j - 1], s[j], color)
    <3>1. j # 0 => j \in 1 .. n /\ u[j - 1] \in R
      BY <1>1
    <3> QED BY <2>1, <2>2, <3>1, Zenon DEF Rounds
  <2>4. u = [j \in 0 .. n |-> u[j]]
    OBVIOUS
  <2>5. Is(u)
    BY <2>3, <2>4, Zenon
  <2> QED BY <2>5
<1>5. Is(upto)
  BY <1>4
<1>6. Behind(r, s, color) = upto[n]
  BY Zenon DEF Behind
<1> HIDE DEF upto, R
<1>7. \A j \in 0 .. n : upto[j] = IF j = 0 THEN r ELSE Typed(upto[j - 1], s[j], color)
  BY <1>5, Zenon
<1>8. upto[0] = r /\ \A j \in 1 .. n : upto[j] = Typed(upto[j - 1], s[j], color)
  <2> HIDE DEF n
  <2>1. 0 \in 0 .. n /\ \A j \in 1 .. n : j \in 0 .. n /\ j # 0
    BY <1>1
  <2> QED BY <1>7, <2>1, Zenon
<1>9. \A j \in 0 .. n : upto[j] \in R
  <2>1. upto[0] \in R
    BY <1>1, <1>8
  <2>2. \A j \in 1 .. n : upto[j - 1] \in R => upto[j] \in R
    BY <1>2, <1>8
  <2> HIDE DEF n
  <2> QED BY <1>1, <2>1, <2>2, RoundsWithin
<1>10. upto \in [0 .. n -> R]
  <2>1. upto = [j \in 0 .. n |-> upto[j]]
    <3>1. DOMAIN upto = 0 .. n
      BY <1>5, Zenon
    <3>2. upto = [j \in DOMAIN upto |-> upto[j]]
      BY <1>5, Zenon
    <3> QED BY <3>1, <3>2, Zenon
  <2> QED BY <2>1, <1>9, Zenon
<1> QED BY <1>6, <1>8, <1>10 DEF R, Writes

\* The roll a call starts with.
LEMMA RollIs ==
  ASSUME NEW c \in Consoles
  PROVE  Sees(c, Roll(c), Top(c))
<1> DEFINE r == Roll(c)
<1>1. /\ c.x \in 0 .. NCOL - 1 /\ c.y \in 0 .. NROW - 1 /\ c.video \in [Positions -> Cells]
      /\ NCOL \in Nat /\ NROW \in Nat /\ NROW > 0 /\ NCOL * NROW \in Nat
  BY Sizes DEF Consoles, Screens
<1>2. c.video = [p \in Positions |-> c.video[p]] /\ Positions \in SUBSET Nat
  BY <1>1 DEF Positions
<1>3. r = [x |-> c.x, y |-> c.y, ink |-> c.video]
  BY <1>2 DEF Roll
<1>4. c.video \in UNION {[D -> Cells] : D \in SUBSET Nat}
  BY <1>1, <1>2
<1>5. r \in Rolls /\ r.x = c.x /\ r.y = c.y /\ r.ink = c.video
  <2>1. c.x \in Nat /\ c.y \in Nat
    BY <1>1
  <2> QED BY <1>3, <1>4, <2>1 DEF Rolls
<1> HIDE DEF r
<1>6. Above(r) * NCOL = 0
  <2>1. Above(r) = 0
    BY <1>1, <1>5 DEF Above
  <2> QED BY <1>1, <2>1
<1>7. Shown(r, Top(c)) = c.video
  <2>1. DOMAIN r.ink = Positions
    BY <1>1, <1>5
  <2>2. ASSUME NEW p \in Positions PROVE p + 0 = p
    <3>1. p \in Nat
      BY <1>2
    <3> QED BY <3>1
  <2>3. Shown(r, Top(c)) = [p \in Positions |-> IF p + 0 \in DOMAIN r.ink THEN r.ink[p + 0]
                                                ELSE [ch |-> Space, color |-> Top(c)]]
    BY <1>5, <1>6, ShownIs
  <2>4. Shown(r, Top(c)) = [p \in Positions |-> r.ink[p]]
    BY <2>1, <2>2, <2>3
  <2> QED BY <1>2, <1>5, <2>4
<1>8. \A p \in DOMAIN r.ink : p \in Nat /\ (p < NROW * NCOL \/ p < (r.y + 1) * NCOL)
  <2>1. NROW * NCOL = NCOL * NROW
    BY <1>1
  <2> QED BY <1>1, <1>5, <2>1 DEF Positions
<1>9. Window(c, r, Top(c))
  BY <1>1, <1>5, <1>7, <1>8 DEF Window
<1> QED BY <1>5, <1>9 DEF Sees, r

\* puts shows what is on the roll.
LEMMA PutsExact ==
  ASSUME NEW c \in Consoles, NEW s \in Seq(Int)
  PROVE  LET r == Behind(Roll(c), s, Top(c))
             d == puts(c, s)
         IN  /\ d.video = Shown(r, Top(c))
             /\ d.x = r.x /\ d.x < NCOL
             /\ d.y = (IF r.y < NROW THEN r.y ELSE NROW - 1)
             /\ d.cursor[1] * 256 + d.cursor[2] = d.y * NCOL + d.x
<1>1. Sees(c, Roll(c), Top(c)) /\ Roll(c) \in Rolls /\ Top(c) \in Int
  BY RollIs, TopInt DEF Sees, Consoles
<1>2. PICK u \in [0 .. Len(s) -> Consoles] : Shows(u, Len(s), c, s)
  BY PutsLoop
<1>3. PICK v \in [0 .. Len(s) -> Rolls] : Writes(v, Len(s), Roll(c), s, Top(c))
  BY <1>1, BehindLoop
<1> DEFINE n == Len(s)
           Same == {j \in 0 .. n : Sees(u[j], v[j], Top(c))}
<1>4. n \in Nat /\ \A j \in 1 .. n : s[j] \in Int
  OBVIOUS
<1>5. Sees(u[0], v[0], Top(c))
  BY <1>1, <1>2, <1>3 DEF Shows, Writes
<1>6. ASSUME NEW j \in 1 .. n, Sees(u[j - 1], v[j - 1], Top(c)) PROVE Sees(u[j], v[j], Top(c))
  <2>1. u[j] = putc(u[j - 1], s[j]) /\ v[j] = Typed(v[j - 1], s[j], Top(c))
    BY <1>2, <1>3 DEF Shows, Writes
  <2> QED BY <1>1, <1>4, <1>6, <2>1, SeesStep
<1>7. \A j \in 0 .. n : j \in Same
  <2> HIDE DEF n
  <2>1. 0 \in Same
    BY <1>4, <1>5
  <2>2. \A j \in 1 .. n : j - 1 \in Same => j \in Same
    BY <1>4, <1>6
  <2> HIDE DEF Same
  <2>3. PICK id : id = [j \in 0 .. n |-> j]
    OBVIOUS
  <2>4. id[0] \in Same /\ \A j \in 1 .. n : id[j - 1] \in Same => id[j] \in Same
    BY <1>4, <2>1, <2>2, <2>3
  <2>5. \A j \in 0 .. n : id[j] \in Same
    BY <1>4, <2>4, RoundsWithin
  <2> QED BY <2>3, <2>5
<1>8. Sees(u[n], v[n], Top(c)) /\ u[n] \in Consoles
  <2>1. n \in 0 .. n
    BY <1>4
  <2> QED BY <1>7, <2>1
<1>9. PICK e, r : e = u[n] /\ r = v[n]
  OBVIOUS
<1>10. PICK d : d = puts(c, s)
  OBVIOUS
<1>11. d = move_cursor(e) /\ e \in Consoles /\ Sees(e, r, Top(c)) /\ Behind(Roll(c), s, Top(c)) = r
  BY <1>2, <1>3, <1>8, <1>9, <1>10 DEF Shows, Writes
<1>12. /\ d.x = e.x /\ d.y = e.y /\ d.video = e.video
       /\ d.cursor[1] * 256 + d.cursor[2] = e.y * NCOL + e.x
  BY <1>11, CursorIs
<1>13. e.x \in 0 .. NCOL - 1 /\ e.x < NCOL
  BY <1>11, Sizes DEF Consoles, Screens
<1>14. /\ d.video = Shown(r, Top(c))
       /\ d.x = r.x /\ d.x < NCOL
       /\ d.y = (IF r.y < NROW THEN r.y ELSE NROW - 1)
       /\ d.cursor[1] * 256 + d.cursor[2] = d.y * NCOL + d.x
  BY <1>11, <1>12, <1>13 DEF Sees, Window
<1> QED BY <1>10, <1>11, <1>14

----------------------------------------------------------------------------
(***************************************************************************)
(* The console of the system.                                              *)
(***************************************************************************)

\* The variables of a task's program.
Fields(r) == r.pid \in Nat /\ r.i \in Nat /\ r.out \in Seq(Seq(Int))

\* The console is one whenever a call returns, and what the tasks still have
\* to put out are strings.
CInv == con \in Consoles /\ \A t \in Pids : Fields(prog[t])

\* A step of the current task.
LEMMA FieldsStep ==
  ASSUME CInv, PInv, NEW a, NEW p \in Nat, NEW k \in Nat, NEW o \in Seq(Seq(Int)),
         Stepped(a, p, k, o), UNCHANGED con
  PROVE  CInv'
<1>1. PICK r : r = [at |-> a, pid |-> p, i |-> k, out |-> o]
  OBVIOUS
<1>2. Fields(r)
  BY <1>1 DEF Fields
<1>3. \A t \in Pids : prog'[t] = r \/ prog'[t] = prog[t]
  BY <1>1 DEF Stepped
<1> QED BY <1>2, <1>3 DEF CInv, Fields

\* The output of a format.
LEMMA OutputIs ==
  ASSUME con \in Consoles, NEW f \in Seq(Arguments) PROVE Output(f) \in Seq(Seq(Int))
BY PrintfStays DEF Output

\* The line of test_sleep.
LEMMA LineIs ==
  ASSUME NEW p \in Nat, NEW k \in Nat
  PROVE  <<Num("d", p), Lit(58), Num("d", k), Lit(LF)>> \in Seq(Arguments)
<1>1. \A n \in Int : Num("d", n) \in Arguments /\ Lit(n) \in Arguments
  <2>1. <<>> \in Seq(Int)
    OBVIOUS
  <2> QED BY <2>1 DEF Num, Lit, Arguments
<1>2. p \in Int /\ k \in Int /\ 58 \in Int /\ LF \in Int
  BY DEF LF
<1> QED BY <1>1, <1>2

\* Initially.
LEMMA ProgInitConsole == ProgInit => CInv
<1> SUFFICES ASSUME ProgInit PROVE CInv
  OBVIOUS
<1>1. con \in Consoles
  BY InitializedIs DEF ProgInit, KlogInit
<1>2. ASSUME NEW t \in Pids PROVE Fields(prog[t])
  <2>1. prog[t] = [at |-> "none", pid |-> 0, i |-> 0, out |-> <<>>]
    BY DEF ProgInit
  <2>2. <<>> \in Seq(Seq(Int))
    OBVIOUS
  <2> QED BY <2>1, <2>2 DEF Fields
<1> QED BY <1>1, <1>2 DEF CInv

\* Every step.
LEMMA ProgNextConsole == PInv /\ CInv /\ [ProgNext]_progvars => CInv'
<1> SUFFICES ASSUME PInv, CInv, [ProgNext]_progvars PROVE CInv'
  OBVIOUS
<1> DEFINE p == prog[current_task]
<1>1. /\ current_task \in Pids /\ current_task \in Nat /\ con \in Consoles
      /\ p.pid \in Nat /\ p.i \in Nat /\ p.out \in Seq(Seq(Int))
      /\ Last \in Nat
  <2>1. current_task \in Pids
    BY Basics
  <2>2. current_task \in Nat
    BY <2>1 DEF Pids
  <2>3. Last \in Nat
    BY Basics
  <2> QED BY <2>1, <2>2, <2>3 DEF CInv, Fields
<1>2. CASE Kernel
  <2>1. con' \in Consoles
    BY <1>1, <1>2, KlogStays DEF Kernel
  <2> QED BY <1>2, <2>1 DEF Kernel, CInv, Fields
<1>3. CASE Start
  <2>1. Hello \in Seq(Arguments)
    BY UserProgramAssumption, FormatsAre
  <2>2. Output(Hello) \in Seq(Seq(Int))
    BY <1>1, <2>1, OutputIs
  <2>3. prog' = [prog EXCEPT ![current_task] =
                   [at |-> "fork", pid |-> 0, i |-> 0, out |-> Output(Hello)]] /\ UNCHANGED con
    BY <1>3 DEF Start
  <2>4. Stepped("fork", 0, 0, Output(Hello))
    BY <1>1, <2>3, SteppedIs DEF PInv
  <2> QED BY <2>2, <2>3, <2>4, FieldsStep
<1>4. CASE Puts
  <2>1. Stepped(p.at, p.pid, p.i, Tail(p.out)) /\ p.out # <<>> /\ con' = puts(con, Head(p.out))
    BY <1>4, PutsIs DEF Puts
  <2>2. Head(p.out) \in Seq(Int) /\ Tail(p.out) \in Seq(Seq(Int))
    BY <1>1, <2>1, HeadTailProperties
  <2>3. con' \in Consoles
    BY <1>1, <2>1, <2>2, PutsStays
  <2>4. PICK r : r = [at |-> p.at, pid |-> p.pid, i |-> p.i, out |-> Tail(p.out)]
    OBVIOUS
  <2>5. Fields(r)
    BY <1>1, <2>2, <2>4 DEF Fields
  <2>6. \A t \in Pids : prog'[t] = r \/ prog'[t] = prog[t]
    BY <2>1, <2>4 DEF Stepped
  <2> QED BY <2>3, <2>5, <2>6 DEF CInv, Fields
<1>5. CASE ForkCall
  <2>1. /\ UNCHANGED con
        /\ prog' = [prog EXCEPT ![current_task].at = "getpid",
                                ![get_next_pid] = [prog[current_task] EXCEPT !.at = "getpid"]]
    BY <1>5, Zenon DEF ForkCall
  <2>2. PICK r : r = [p EXCEPT !.at = "getpid"]
    OBVIOUS
  <2>3. prog' = [prog EXCEPT ![current_task] = r, ![get_next_pid] = r]
    BY <2>1, <2>2
  <2>4. Fields(r)
    <3>1. PICK s : s = p
      OBVIOUS
    <3>2. s = [at |-> s.at, pid |-> s.pid, i |-> s.i, out |-> s.out]
      BY <1>1, <3>1 DEF PInv, Shape
    <3>3. [s EXCEPT !.at = "getpid"] = [at |-> "getpid", pid |-> s.pid, i |-> s.i, out |-> s.out]
      BY <3>2, AssignedOne
    <3>4. r = [at |-> "getpid", pid |-> p.pid, i |-> p.i, out |-> p.out]
      BY <2>2, <3>1, <3>3
    <3> QED BY <1>1, <3>4 DEF Fields
  <2>5. \A t \in Pids : prog'[t] = r \/ prog'[t] = prog[t]
    <3> HIDE <2>2
    <3> QED BY <2>3 DEF PInv, Shape
  <2> QED BY <2>1, <2>4, <2>5 DEF CInv, Fields
<1>6. CASE GetpidCall
  <2>1. /\ Stepped(IF current_task = 0 THEN "first" ELSE Loop(current_task, 0), current_task, p.i, p.out)
        /\ UNCHANGED con
    BY <1>6, GetpidIs DEF GetpidCall
  <2> QED BY <1>1, <2>1, FieldsStep
<1>7. CASE SleepCall
  <2>1. PICK b : Go(b) /\ UNCHANGED con
    BY <1>7 DEF SleepCall
  <2>2. Stepped(b, p.pid, p.i, p.out)
    BY <2>1, GoIs
  <2> QED BY <1>1, <2>1, <2>2, FieldsStep
<1>8. CASE PrintLine
  <2> DEFINE k == IF p.i < Last THEN p.i + 1 ELSE Last
             o == Output(<<Num("d", p.pid), Lit(58), Num("d", p.i), Lit(LF)>>)
             r == [at |-> Loop(p.pid, k), pid |-> p.pid, i |-> k, out |-> o]
  <2>1. prog' = [prog EXCEPT ![current_task] = r] /\ UNCHANGED con
    BY <1>8 DEF PrintLine
  <2>2. o \in Seq(Seq(Int))
    BY <1>1, LineIs, OutputIs
  <2>3. k \in Nat
    BY <1>1
  <2> HIDE DEF o, k
  <2>4. Stepped(Loop(p.pid, k), p.pid, k, o)
    BY <1>1, <2>1, SteppedIs DEF PInv
  <2> QED BY <1>1, <2>1, <2>2, <2>3, <2>4, FieldsStep
<1>9. CASE KernelStep
  BY <1>9 DEF KernelStep, CInv, Fields
<1>10. CASE Tick
  BY <1>10 DEF Tick, CInv, Fields
<1>11. CASE UNCHANGED progvars
  BY <1>11 DEF progvars, CInv, Fields
<1> QED BY <1>2, <1>3, <1>4, <1>5, <1>6, <1>7, <1>8, <1>9, <1>10, <1>11 DEF ProgNext, Program

\* Whatever the kernel and the tasks print, and whenever a tick comes between
\* their calls, the cursor stays on the screen, every cell holds a character
\* and an attribute, and the colour stack has at least one entry and at most
\* COLOR_STACK_SIZE.
THEOREM ConsoleHolds == ProgSpec => []CInv
<1>1. ProgInit => CInv
  BY ProgInitConsole
<1>2. PInv /\ CInv /\ [ProgNext]_progvars => CInv'
  BY ProgNextConsole
<1> QED BY <1>1, <1>2, PhasesHold, PTL DEF ProgSpec

\* log gives back the colour that was in force, for every screen, stack and
\* format.
THEOREM LogColorHolds == ProgSpec => []LogKeepsColor
<1>1. CInv => LogKeepsColor
  <2> SUFFICES ASSUME CInv, NEW level \in DOMAIN LEVEL_STR, NEW f \in Formats
               PROVE  log(con, level, f).colors =
                        IF Len(con.colors) < COLOR_STACK_SIZE THEN con.colors
                        ELSE SubSeq(con.colors, 1, Len(con.colors) - 1)
    BY DEF LogKeepsColor
  <2>1. f \in Seq(Arguments)
    BY KlogAssumption, FormatsAre
  <2> QED BY <2>1, LogIs DEF CInv
<1> QED BY <1>1, ConsoleHolds, PTL

\* printf shows the tail of the text as it stands on a roll without an end,
\* for every screen and every format: wrapping, scrolling several times in a
\* call and the numerals of every int included.
THEOREM ScreenHolds == ProgSpec => []ScreenExact
<1>1. CInv => ScreenExact
  <2> SUFFICES ASSUME CInv, NEW f \in Probes
               PROVE  LET r == Behind(Roll(con), TextOf(f), Top(con))
                          d == printf(con, f)
                      IN  /\ d.video = Shown(r, Top(con))
                          /\ d.x = r.x /\ d.x < NCOL
                          /\ d.y = (IF r.y < NROW THEN r.y ELSE NROW - 1)
                          /\ d.cursor[1] * 256 + d.cursor[2] = d.y * NCOL + d.x
    BY DEF ScreenExact
  <2>1. f \in Seq(Items)
    BY KlogAssumption
  <2>2. Joined(vprintf(f)) = TextOf(f) /\ TextOf(f) \in Seq(Int)
    BY <2>1, TextIs
  <2>3. PICK s \in Seq(Int) : s = TextOf(f) /\ printf(con, f) = puts(con, s)
    BY <2>2 DEF printf
  <2> QED BY <2>3, PutsExact DEF CInv
<1> QED BY <1>1, ConsoleHolds, PTL
=============================================================================
