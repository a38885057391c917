----------------------------- MODULE TaskQueue -----------------------------
(***************************************************************************)
(* The circular task queues of core/task.cpp (struct Task_queue).          *)
(*                                                                         *)
(* The queues are intrusive: Task_t holds queue_next and queue_prev, and   *)
(* a queue is one pointer to an arbitrary member.  All of it is one value  *)
(*                                                                         *)
(*   links = [next, prev : tasks -> task or NULL, ptr : queues -> ... ]    *)
(*                                                                         *)
(* so that remove-then-insert, which sleep() and wakeup() perform with     *)
(* interrupts off, is the composition Insert(Remove(links, ...), ...).     *)
(***************************************************************************)
EXTENDS Integers

(* The null task pointer.  Tasks are named by their pid, a natural number. *)
NULL == -1

(***************************************************************************)
(* Task_queue::insert: a task enters right after the queue's pointer.      *)
(***************************************************************************)
Insert(L, q, t) ==
  LET p == L.ptr[q] IN
    IF p = NULL
    THEN [next |-> [L.next EXCEPT ![t] = t],
          prev |-> [L.prev EXCEPT ![t] = t],
          ptr  |-> [L.ptr EXCEPT ![q] = t]]
    ELSE [next |-> [L.next EXCEPT ![t] = L.next[p], ![p] = t],
          prev |-> [L.prev EXCEPT ![L.next[p]] = t, ![t] = p],
          ptr  |-> L.ptr]

(***************************************************************************)
(* Task_queue::remove.  The links of the last task of a queue are left as  *)
(* they are; the caller inserts the task elsewhere at once.                *)
(***************************************************************************)
\* Mutant of Remove: the queue's pointer is not moved off the removed task.
RemoveKeepsPtr(L, q, t) ==
  LET p == L.ptr[q] IN
    IF L.next[p] = p
    THEN [L EXCEPT !.ptr[q] = NULL]
    ELSE [next |-> [L.next EXCEPT ![L.prev[t]] = L.next[t], ![t] = NULL],
          prev |-> [L.prev EXCEPT ![L.next[t]] = L.prev[t], ![t] = NULL],
          ptr  |-> L.ptr]

Remove(L, q, t) ==
  LET p == L.ptr[q] IN
    IF L.next[p] = p
    THEN [L EXCEPT !.ptr[q] = NULL]
    ELSE [next |-> [L.next EXCEPT ![L.prev[t]] = L.next[t], ![t] = NULL],
          prev |-> [L.prev EXCEPT ![L.next[t]] = L.prev[t], ![t] = NULL],
          ptr  |-> IF p = t THEN [L.ptr EXCEPT ![q] = L.next[p]] ELSE L.ptr]

(***************************************************************************)
(* What a queue should be: one ring through exactly the tasks of M, in     *)
(* both directions, entered at ptr.  A nonempty part of M that is closed   *)
(* under next is all of M, which is how "one ring, not several" is said    *)
(* without recursion.                                                      *)
(***************************************************************************)
Linked(L, M) ==
  \A t \in M : /\ L.next[t] \in M /\ L.prev[L.next[t]] = t
               /\ L.prev[t] \in M /\ L.next[L.prev[t]] = t

OneRing(L, M) ==
  \A S \in SUBSET M :
    S # {} /\ (\A t \in S : L.next[t] \in S) => S = M

Ring(L, q, M) ==
  /\ IF M = {} THEN L.ptr[q] = NULL ELSE L.ptr[q] \in M
  /\ Linked(L, M)
  /\ OneRing(L, M)
=============================================================================
