-------------------------------- MODULE Task --------------------------------
(***************************************************************************)
(* Task management of JKOS (core/task.cpp): task creation, the running and *)
(* sleeping queues, preemption by the timer, fork, sleep and wakeup, with  *)
(* the processor's interrupt flag and the saved contexts that a switch     *)
(* resumes.                                                                *)
(*                                                                         *)
(* One step is one stretch of code that nothing can interleave with.  The  *)
(* kernel has one processor, so only the timer interrupt can intervene,    *)
(* and only while the interrupt flag is set.  sleep() and wakeup() look    *)
(* up their target and check permissions before they clear the flag, and   *)
(* are therefore two steps; fork() clears it first and is one.             *)
(*                                                                         *)
(* A task runs kernel code (kmain and its forks) until it calls            *)
(* switch_to_user_mode; from then on it reaches this component by int 0x80.*)
(***************************************************************************)
EXTENDS TaskQueue

CONSTANT MaxTasks       \* bound: how many tasks are ever created

ASSUME MaxTasksAssumption == MaxTasks \in Nat \ {0}

Pids == 0 .. MaxTasks - 1

TS_NONE     == "none"       \* no such task yet
TS_RUNNING  == "running"
TS_SLEEPING == "sleeping"
TS_ZOMBIE   == "zombie"     \* declared by the code, never assigned

Queues == {TS_RUNNING, TS_SLEEPING}

EPERM == 1
ESRCH == 3

VARIABLES
  ids,            \* keys of rbt_id2task
  next_pid,       \* the static counter of get_next_pid
  current_task,
  state,          \* Task_t::state
  links,          \* queue_next, queue_prev and the pointers of Queue::*
  uid,            \* Task_t::uid
  errno,          \* Task_t::errno
  ctx,            \* saved esp/ebp/eip: where a switch to the task resumes it
  pc,             \* "run", or the call the task has checked and not yet done
  target,         \* the Task_t* such a call has looked up
  sysframe,       \* interrupt flag in the frame int 0x80 pushed
  user,           \* tasks that execute user code
  intr,           \* the processor's interrupt flag (IF)
  user_mode_called \* switch_to_user_mode_called

vars == <<ids, next_pid, current_task, state, links, uid, errno, ctx, pc,
          target, sysframe, user, intr, user_mode_called>>

(***************************************************************************)
(* A context is the place switch_task jumps to and the two copies of the   *)
(* interrupt flag found on the task's stack there: old_eflags of the       *)
(* function that was left, and the frame the outermost iret pops.          *)
(***************************************************************************)
Points == {"none", "schedule", "fork", "sleep"}

Contexts == [pt : Points, old : BOOLEAN, frame : BOOLEAN]

NoContext == [pt |-> "none", old |-> FALSE, frame |-> FALSE]

----------------------------------------------------------------------------
(***************************************************************************)
(* Lookup and creation of tasks.                                           *)
(***************************************************************************)

\* id2task: find_ge answers with the least key not below the argument, and
\* the key that was found is not compared with the one that was asked for.
id2task(p) ==
  LET ge == {i \in ids : i >= p} IN
    IF ge = {} THEN NULL ELSE CHOOSE i \in ge : \A j \in ge : i <= j

\* Mutant of get_next_pid: ++next instead of next++.
get_next_pid_preinc ==
  1 + CHOOSE n \in next_pid .. MaxTasks :
        /\ id2task(n) = NULL
        /\ \A m \in next_pid .. n - 1 : id2task(m) # NULL

get_next_pid ==
  CHOOSE n \in next_pid .. MaxTasks :
    /\ id2task(n) = NULL
    /\ \A m \in next_pid .. n - 1 : id2task(m) # NULL

\* CHECK_PERM with User::cap_test: only uid 0 has CAP_KILL.
cap_test(u) == u = 0

Permitted(t) == uid[t] = uid[current_task] \/ cap_test(uid[current_task])

----------------------------------------------------------------------------
(***************************************************************************)
(* Interrupt flag across the kernel boundary.                              *)
(***************************************************************************)

\* Flags byte of the gate for int 0x80 (IDT_FLAG | 0b01100000).  The low
\* nibble is the gate type: 14 is an interrupt gate, and the processor
\* clears IF when it goes through one; 15 is a trap gate.
SyscallGate == 128 + 96 + 14

GateClearsIF(flag) == flag % 16 = 14

\* IF while the current task is inside a call of this component.
IntrInCall ==
  IF current_task \in user THEN intr /\ ~GateClearsIF(SyscallGate) ELSE intr

\* IF once the call returns: the iret of isr0x80 pops the caller's flags, a
\* kernel caller keeps what RESTORE_EFLAGS(old) put there.
IntrOnReturn(old) == IF current_task \in user THEN sysframe[current_task] ELSE old

\* IF once a task is resumed at its context: schedule() returns into the
\* interrupt stub, whose iret pops the interrupted flags; fork() and sleep()
\* do RESTORE_EFLAGS and return to their caller.
IntrOnResume(t, c) ==
  IF c.pt = "schedule" \/ t \in user THEN c.frame ELSE c.old

\* The tasks of T are back in their own code: the locals of the call and the
\* frame of int 0x80 are gone.
LeaveCall(T) ==
  /\ pc' = [t \in Pids |-> IF t \in T THEN "run" ELSE pc[t]]
  /\ target' = [t \in Pids |-> IF t \in T THEN NULL ELSE target[t]]
  /\ sysframe' = [t \in Pids |-> IF t \in T THEN FALSE ELSE sysframe[t]]

----------------------------------------------------------------------------
(***************************************************************************)
(* Switching.                                                              *)
(***************************************************************************)

\* get_next_task: the successor of the current task in whatever queue it is.
\* Mutant: the task the queue's pointer is at.
get_next_task_ptr == links.ptr[state[current_task]]

get_next_task == links.next[current_task]

\* switch_task(t): the current task has just saved context c.  The new task
\* continues at its own context, whose stack frames are gone from then on
\* (the stale esp, ebp and eip in its Task_t are not kept); fork() and
\* sleep() are over when it does.
switch_task(t, c) ==
  LET saved == [ctx EXCEPT ![current_task] = c] IN
  /\ ctx' = [saved EXCEPT ![t] = NoContext]
  /\ current_task' = t
  /\ intr' = IntrOnResume(t, saved[t])
  /\ LeaveCall(IF saved[t].pt = "schedule" THEN {} ELSE {t})

\* schedule(), called with IF cleared by the interrupt gate.
schedule ==
  switch_task(get_next_task, [pt |-> "schedule", old |-> FALSE, frame |-> intr])

\* The timer interrupt, delivered when IF is set: timer_tick.
TimerTick ==
  /\ intr
  /\ schedule
  /\ UNCHANGED <<ids, next_pid, state, links, uid, errno, user,
                 user_mode_called>>

----------------------------------------------------------------------------
(***************************************************************************)
(* fork: the child is created on a copy of the parent's kernel stack and   *)
(* is left ready to resume behind read_eip() inside fork().                *)
(***************************************************************************)
\* Mutant of ForkContext: child->eip is not set.
ForkContextUnset == NoContext

ForkContext == [pt |-> "fork", old |-> IntrInCall, frame |-> intr]

\* The constructor of Task_t enters the task into rbt_id2task.
\* Mutant: it does not.
RegisteredNot(child) == ids

Registered(child) == ids \cup {child}

Fork ==
  LET child == get_next_pid IN
  /\ pc[current_task] = "run"
  /\ child < MaxTasks
  /\ ids' = Registered(child)
  /\ next_pid' = child + 1
  /\ state' = [state EXCEPT ![child] = TS_RUNNING]
  /\ uid' = [uid EXCEPT ![child] = uid[current_task]]
  /\ links' = Insert(links, TS_RUNNING, child)
  /\ ctx' = [ctx EXCEPT ![child] = ForkContext]
  /\ user' = IF current_task \in user THEN user \cup {child} ELSE user
  /\ UNCHANGED <<current_task, errno, pc, target, sysframe, intr,
                 user_mode_called>>

----------------------------------------------------------------------------
(***************************************************************************)
(* sleep(pid, sig_wakeup) and wakeup(pid).                                 *)
(***************************************************************************)

\* Both calls up to CLI_SAVE_EFLAGS: GET_TASK_BY_ID_NOZOMBIE and CHECK_PERM.
Enter(call, p) ==
  LET t == id2task(p) IN
  /\ pc[current_task] = "run"
  /\ IF t = NULL \/ (t # NULL /\ state[t] = TS_ZOMBIE)
     THEN /\ errno' = [errno EXCEPT ![current_task] = ESRCH]
          /\ UNCHANGED <<pc, target, sysframe, intr>>
     ELSE IF ~Permitted(t)
     THEN /\ errno' = [errno EXCEPT ![current_task] = EPERM]
          /\ UNCHANGED <<pc, target, sysframe, intr>>
     ELSE /\ pc' = [pc EXCEPT ![current_task] = call]
          /\ target' = [target EXCEPT ![current_task] = t]
          /\ sysframe' = [sysframe EXCEPT ![current_task] = intr]
          /\ intr' = IntrInCall
          /\ UNCHANGED errno
  /\ UNCHANGED <<ids, next_pid, current_task, state, links, uid, ctx, user,
                 user_mode_called>>

SleepEnter == \E p \in 0 .. MaxTasks : Enter("sleep", p)

WakeupEnter == \E p \in 0 .. MaxTasks : Enter("wakeup", p)

\* Return to the caller with the interrupt flag restored.
\* Mutant of Return: no RESTORE_EFLAGS and no iret, IF stays clear.
ReturnNoRestore ==
  /\ intr' = FALSE
  /\ LeaveCall({current_task})
  /\ UNCHANGED <<current_task, ctx>>

Return ==
  /\ intr' = IntrOnReturn(intr)
  /\ LeaveCall({current_task})
  /\ UNCHANGED <<current_task, ctx>>

\* Move a task between the queues, and its state with it.
Move(t, from, to) ==
  /\ links' = Insert(Remove(links, from, t), to, t)
  /\ state' = [state EXCEPT ![t] = to]

\* Mutant of SleepSelf: get_next_task() is called after the task has moved.
SleepSelfLateNext ==
  /\ Move(current_task, TS_RUNNING, TS_SLEEPING)
  /\ switch_task(links'.next[current_task],
                 [pt |-> "sleep", old |-> intr, frame |-> sysframe[current_task]])

\* A task puts itself to sleep: the next task is chosen while the sleeper is
\* still in the running queue.
SleepSelf ==
  /\ Move(current_task, TS_RUNNING, TS_SLEEPING)
  /\ switch_task(get_next_task,
                 [pt |-> "sleep", old |-> intr, frame |-> sysframe[current_task]])

\* sleep() from CLI_SAVE_EFLAGS on.
SleepBody ==
  LET t == target[current_task] IN
  /\ pc[current_task] = "sleep"
  /\ IF state[t] # TS_RUNNING THEN Return /\ UNCHANGED <<links, state>>
     ELSE IF t # current_task THEN Return /\ Move(t, TS_RUNNING, TS_SLEEPING)
     ELSE SleepSelf
  /\ UNCHANGED <<ids, next_pid, uid, errno, user, user_mode_called>>

\* wakeup() from CLI_SAVE_EFLAGS on.
WakeupBody ==
  LET t == target[current_task] IN
  /\ pc[current_task] = "wakeup"
  /\ IF state[t] = TS_SLEEPING THEN Move(t, TS_SLEEPING, TS_RUNNING)
     ELSE UNCHANGED <<links, state>>
  /\ Return
  /\ UNCHANGED <<ids, next_pid, uid, errno, user, user_mode_called>>

----------------------------------------------------------------------------
\* switch_to_user_mode: the iret frame is built with IF set (or $0x200).
SwitchToUserMode ==
  /\ pc[current_task] = "run"
  /\ current_task \notin user
  /\ user' = user \cup {current_task}
  /\ user_mode_called' = TRUE
  /\ intr' = TRUE
  /\ UNCHANGED <<ids, next_pid, current_task, state, links, uid, errno, ctx,
                 pc, target, sysframe>>

\* is_kernel()
is_kernel == ~user_mode_called

----------------------------------------------------------------------------
(***************************************************************************)
(* Initially Task::init has run and kmain has executed sti: pid 0, the     *)
(* kernel task, is alone in the running queue.                             *)
(***************************************************************************)
EmptyLinks == [next |-> [t \in Pids |-> NULL], prev |-> [t \in Pids |-> NULL],
               ptr  |-> [q \in Queues |-> NULL]]

Init ==
  /\ ids = {0}
  /\ next_pid = 1
  /\ current_task = 0
  /\ state = [t \in Pids |-> IF t = 0 THEN TS_RUNNING ELSE TS_NONE]
  /\ links = Insert(EmptyLinks, TS_RUNNING, 0)
  /\ uid = [t \in Pids |-> 0]
  /\ errno = [t \in Pids |-> 0]
  /\ ctx = [t \in Pids |-> NoContext]
  /\ pc = [t \in Pids |-> "run"]
  /\ target = [t \in Pids |-> NULL]
  /\ sysframe = [t \in Pids |-> FALSE]
  /\ user = {}
  /\ intr = TRUE
  /\ user_mode_called = FALSE

Next ==
  \/ TimerTick
  \/ Fork
  \/ SleepEnter
  \/ SleepBody
  \/ WakeupEnter
  \/ WakeupBody
  \/ SwitchToUserMode

(***************************************************************************)
(* The processor keeps executing, so a call that has passed its checks is  *)
(* carried out.  The PIC latches the timer interrupt until the flag allows *)
(* it, so a tick that is possible again and again is delivered even if the *)
(* flag is clear in between: strong fairness.                              *)
(***************************************************************************)
Fairness ==
  /\ WF_vars(SleepBody)
  /\ WF_vars(WakeupBody)
  /\ SF_vars(TimerTick)

Spec == Init /\ [][Next]_vars /\ Fairness

----------------------------------------------------------------------------
(***************************************************************************)
(* Properties.                                                             *)
(***************************************************************************)

\* Type correctness of the task component's state.
TypeOK ==
  /\ ids \subseteq Pids
  /\ next_pid \in 0 .. MaxTasks
  /\ current_task \in ids
  /\ state \in [Pids -> {TS_NONE, TS_RUNNING, TS_SLEEPING}]
  /\ ids = {t \in Pids : state[t] # TS_NONE}
  /\ links \in [next : [Pids -> Pids \cup {NULL}],
                prev : [Pids -> Pids \cup {NULL}],
                ptr  : [Queues -> Pids \cup {NULL}]]
  /\ uid \in [Pids -> {0}]
  /\ errno \in [Pids -> {0, EPERM, ESRCH}]
  /\ ctx \in [Pids -> Contexts]
  /\ pc \in [Pids -> {"run", "sleep", "wakeup"}]
  /\ target \in [Pids -> Pids \cup {NULL}]
  /\ \A t \in Pids : pc[t] # "run" => target[t] \in ids
  /\ sysframe \in [Pids -> BOOLEAN]
  /\ user \subseteq ids
  /\ intr \in BOOLEAN
  /\ user_mode_called \in BOOLEAN

\* Each queue of Queue:: is one ring through exactly the tasks whose state
\* names that queue, whatever mix of fork, sleep, wakeup and preemption
\* built it.  The kassert in Task_queue::remove is one consequence, the
\* round-robin order of schedule() another.
QueuesAreRings ==
  \A q \in Queues : Ring(links, q, {t \in Pids : state[t] = q})

\* id2task, which takes the first key not below the one asked for, still
\* finds exactly the task asked for and nothing for a pid that does not
\* exist: sleep() and wakeup() never reach somebody else's task.
LookupExact ==
  \A p \in 0 .. MaxTasks : id2task(p) = IF p \in ids THEN p ELSE NULL

\* Every task a switch can pick has a place to resume at: esp, ebp and eip
\* have been saved before anything follows a link to the task.
Resumable ==
  \A t \in ids : t # current_task => ctx[t].pt # "none"

\* Whenever a task executes code of its own, interrupts are enabled, however
\* it got there (returned, resumed, forked, woken): a task that ran with the
\* flag clear could never be preempted again.
Preemptible == pc[current_task] = "run" => intr

\* A switch away from a task of the running queue lands on a task of the
\* running queue; in particular sleep() never hands over to a sleeper.
SwitchToRunnable ==
  [][current_task' # current_task /\ state[current_task] = TS_RUNNING
       => state'[current_task'] = TS_RUNNING]_vars

\* Round robin: once no task changes state any more, and the current task
\* is itself in the running queue, every runnable task, new children
\* included, gets the processor again and again.
RoundRobin ==
  \A t \in Pids :
    /\ <>[][UNCHANGED state]_vars
    /\ <>[](state[t] = TS_RUNNING /\ state[current_task] = TS_RUNNING)
    => []<>(current_task = t)

\* The comment in fork(): "so upon next scheduling, child will be started
\* executing": a forked child eventually runs or is put to sleep.
ForkedChildRuns ==
  \A t \in Pids :
    (t \in ids /\ ctx[t].pt = "fork") ~>
      (current_task = t \/ state[t] = TS_SLEEPING)
=============================================================================
