----------------------------- MODULE UserProgram -----------------------------
(***************************************************************************)
(* The initial program of JKOS (initrd.cpp) on the kernel: _start prints a *)
(* line and calls test_sleep, in which two tasks put each other to sleep   *)
(* and wake each other up while both print.  It composes Task, which       *)
(* carries out fork, sleep and wakeup and preempts the tasks, with the     *)
(* console of Klog, which sys_puts writes to.                              *)
(*                                                                         *)
(* Every step of the program is one system call with the computation in    *)
(* front of it; int 0x80 clears the interrupt flag, so ticks come between  *)
(* the calls.  Before the program the kernel itself writes to the console. *)
(***************************************************************************)
EXTENDS Task, Klog

CONSTANTS
  Sleep, Wake,     \* values of i at which test_sleep acts: 10 and 20
  Hello,           \* the format of _start
  MaxCalls         \* bound: console calls of the kernel before user mode

ASSUME UserProgramAssumption ==
  /\ Sleep \in Nat /\ Wake \in Nat /\ Sleep < Wake /\ MaxCalls \in Nat
  /\ Hello \in Seq(Items)

VARIABLES
  calls,           \* console calls of the kernel so far
  prog             \* [at, pid, i, out] of each task: its place and variables,
                   \* and the strings vprintf has still to put out

progvars == <<vars, con, calls, prog>>

\* Bound: i stays there once it is past everything the program compares it to.
Last == Wake + 1

----------------------------------------------------------------------------
(***************************************************************************)
(* System calls.                                                           *)
(***************************************************************************)

\* Numbers of the calls in the user's syscall.h.
SYS_puts == 0
SYS_fork == 1
SYS_getpid == 2
SYS_sleep == 3
SYS_wakeup == 4

\* Mutant of syscall_func_addr: the last two entries are swapped.
syscall_func_addr_swapped == <<"puts", "fork", "getpid", "wakeup", "sleep">>

syscall_func_addr == <<"puts", "fork", "getpid", "sleep", "wakeup">>

NR_SYSCALLS == 5

\* isr0x80: the function called for a number, if any.
isr0x80(num) == IF num >= NR_SYSCALLS THEN "none" ELSE syscall_func_addr[num + 1]

\* int $0x80 with the number in eax, as the user's syscall.h writes it.
Call(num) == isr0x80(num)

\* Task::getpid
getpid == current_task

\* The strings that the program's own vprintf passes to sys_puts.
Output(fmt) == vprintf(fmt)

\* The current task is in user mode, in the program at this place, and has
\* nothing left to put out.
At(place) ==
  /\ current_task \in user
  /\ pc[current_task] = "run"
  /\ prog[current_task].at = place
  /\ prog[current_task].out = <<>>

\* Where the loop of test_sleep goes with this i.
Loop(pid, i) ==
  IF i = Sleep /\ pid \in {0, 1} THEN "ten"
  ELSE IF i = Wake /\ pid = 0 THEN "twenty"
  ELSE "print"

Go(place) == prog' = [prog EXCEPT ![current_task].at = place]

----------------------------------------------------------------------------
(***************************************************************************)
(* The kernel before the program.                                          *)
(***************************************************************************)

Kernel ==
  /\ user = {}
  /\ calls < MaxCalls
  /\ KlogCall
  /\ calls' = calls + 1
  /\ UNCHANGED <<vars, prog>>

\* test_elf ends in switch_to_user_mode; _start calls printf.
Start ==
  /\ user = {}
  /\ SwitchToUserMode
  /\ prog' = [prog EXCEPT ![current_task] =
                [at |-> "fork", pid |-> 0, i |-> 0, out |-> Output(Hello)]]
  /\ UNCHANGED <<con, calls>>

----------------------------------------------------------------------------
(***************************************************************************)
(* The program.                                                            *)
(***************************************************************************)

\* sys_puts of the next string: a literal character or a conversion's result.
Puts ==
  /\ current_task \in user
  /\ pc[current_task] = "run"
  /\ prog[current_task].out # <<>>
  /\ Call(SYS_puts) = "puts"
  /\ con' = puts(con, Head(prog[current_task].out))
  /\ prog' = [prog EXCEPT ![current_task].out = Tail(@)]
  /\ UNCHANGED <<vars, calls>>

\* sys_fork: the child has a copy of the program's memory.
ForkCall ==
  /\ At("fork")
  /\ Call(SYS_fork) = "fork"
  /\ Fork
  /\ prog' = [prog EXCEPT ![current_task].at = "getpid",
                          ![get_next_pid] = [prog[current_task] EXCEPT !.at = "getpid"]]
  /\ UNCHANGED <<con, calls>>

\* sys_getpid and the comparison behind it.
GetpidCall ==
  /\ At("getpid")
  /\ Call(SYS_getpid) = "getpid"
  /\ prog' = [prog EXCEPT ![current_task].pid = getpid,
                          ![current_task].at = IF getpid = 0 THEN "first" ELSE Loop(getpid, 0)]
  /\ UNCHANGED <<vars, con, calls>>

\* The calls of test_sleep: sleep(0), then at Sleep wakeup(0) or sleep(1),
\* then at Wake wakeup(1).
SleepCall ==
  LET p == prog[current_task] IN
  /\ \/ At("first") /\ Enter(Call(SYS_sleep), 0) /\ Go(Loop(0, 0))
     \/ At("ten") /\ p.pid = 1 /\ Enter(Call(SYS_wakeup), 0) /\ Go("print")
     \/ At("ten") /\ p.pid = 0 /\ Enter(Call(SYS_sleep), 1) /\ Go("print")
     \/ At("twenty") /\ Enter(Call(SYS_wakeup), 1) /\ Go("print")
  /\ UNCHANGED <<con, calls>>

\* printf("pid %d: %d\n", pid, i), the delay, and the loop's next turn.
PrintLine ==
  LET p == prog[current_task]
      i == IF p.i < Last THEN p.i + 1 ELSE Last
  IN
  /\ At("print")
  /\ prog' = [prog EXCEPT ![current_task] =
                [at |-> Loop(p.pid, i), pid |-> p.pid, i |-> i,
                 out |-> Output(<<Num("d", p.pid), Lit(58), Num("d", p.i), Lit(LF)>>)]]
  /\ UNCHANGED <<vars, con, calls>>

\* The kernel's part of sleep and wakeup, and the timer.
KernelStep == (SleepBody \/ WakeupBody) /\ UNCHANGED <<con, calls, prog>>

Tick == user # {} /\ TimerTick /\ UNCHANGED <<con, calls, prog>>

ProgInit ==
  /\ Init /\ KlogInit
  /\ calls = 0
  /\ prog = [t \in Pids |-> [at |-> "none", pid |-> 0, i |-> 0, out |-> <<>>]]

Program == Puts \/ ForkCall \/ GetpidCall \/ SleepCall \/ PrintLine \/ KernelStep

ProgNext == Kernel \/ Start \/ Program \/ Tick

(***************************************************************************)
(* The processor does not stop.  A tick is short beside the timer's        *)
(* period, so a task that is given the processor again and again gets on   *)
(* with its program.  Ticks are latched as in Task.                        *)
(***************************************************************************)
ProgFairness ==
  /\ WF_progvars(Start)
  /\ SF_progvars(Tick)
  /\ \A t \in Pids : SF_progvars(current_task = t /\ Program)

ProgSpec == ProgInit /\ [][ProgNext]_progvars /\ ProgFairness

----------------------------------------------------------------------------
(***************************************************************************)
(* Properties.                                                             *)
(***************************************************************************)

\* pid 1 has called wakeup(0) although pid 0 had not yet gone to sleep.
WokenEarly ==
  /\ prog[1].i >= Sleep /\ prog[1].at # "ten"
  /\ prog[0].at \in {"getpid", "first"}

\* test_sleep: if the first wakeup does not come too early, both tasks go on
\* printing for ever; no sleep, wakeup or tick loses one of them.
BothPrint ==
  []~WokenEarly =>
    \A t \in Pids : []<>(current_task = t /\ prog[t].at = "print" /\ prog[t].i = Last)

\* pid 0 is between the return of its sleep(1) and its wakeup(1).
Alone ==
  /\ prog[0].pid = 0 /\ pc[0] = "run"
  /\ \/ prog[0].i = Sleep /\ prog[0].at = "print"
     \/ prog[0].i \in Sleep + 1 .. Wake - 1
     \/ prog[0].i = Wake /\ prog[0].at = "twenty"

\* test_sleep: from the return of pid 0's sleep(1) to its wakeup(1) pid 1
\* does nothing at all, whatever call the sleep caught it in.
SleeperSilent == [][Alone => UNCHANGED prog[1]]_progvars
=============================================================================
