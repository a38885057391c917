------------------------------ MODULE Interrupt ------------------------------
(***************************************************************************)
(* Interrupts of JKOS: the descriptor tables, the table of callbacks and   *)
(* the two interrupt controllers that core/descriptor_table.cpp sets up,   *)
(* the stubs of interrupt.S, and the handlers of the timer and the         *)
(* keyboard in main.cpp, with the devices raising requests at any time.    *)
(*                                                                         *)
(* A handler is the sequence of its effects.  They run with the interrupt  *)
(* flag clear, but timer_tick leaves for another task in its middle, and   *)
(* what is behind the switch happens when its task is resumed.             *)
(***************************************************************************)
EXTENDS Descriptors, Sequences

CONSTANTS
  Lines,          \* request lines in use, of 0 .. 15 and without the cascade
  Glitchy,        \* lines whose request may vanish before it is acknowledged
  Masks,          \* bound: masks the BIOS leaves
  Codes,          \* scan codes of the keyboard
  TssAddrs,       \* bound: addresses of tss_entry
  TssSize,        \* sizeof(TSS_entry_t)
  Exceptions,     \* bound: exceptions without a handler
  Vectors,        \* bound: vectors that are looked at
  NTasks          \* tasks the timer switches between

ASSUME InterruptAssumption ==
  /\ Lines \subseteq (0 .. 15) \ {2} /\ Glitchy \subseteq Lines
  /\ \A m \in Masks : m \subseteq 0 .. 15
  /\ Codes \subseteq Nat \ {0}
  /\ TssAddrs \subseteq 0 .. AddressSpaceSize - 1 /\ TssSize \in Nat
  /\ Vectors \subseteq 0 .. 255 /\ Exceptions \subseteq Vectors \cap (0 .. 31)
  /\ \A l \in Lines \cup {7, 15} : 32 + l \in Vectors    \* every vector the controllers send
  /\ NTasks \in Nat \ {0}

VARIABLES
  stage, k,            \* where kmain is, and the loop variable there
  tss, gdt, idt,       \* address of the TSS, descriptor tables
  isr_callback_table,
  bios, a,             \* mask the BIOS left, and what remap_PIC saved of it
  pic,                 \* [mode, offset] of controller 1 (master) and 2 (slave)
  imr, irr, isr,       \* masked, requested and in-service lines of both
  intr,                \* the processor's interrupt flag
  cur,                 \* the task that runs
  todo,                \* what each task's handler has still to do
  int_no,              \* vector of each task's handler
  kbd, last_key,       \* output buffer of the keyboard, the last code read
  panic

tables == <<tss, gdt, idt, isr_callback_table>>
picvars == <<pic, imr, irr, isr>>
cpu == <<intr, cur, todo, int_no>>
vars == <<stage, k, tables, bios, a, picvars, cpu, kbd, last_key, panic>>

Tasks == 0 .. NTasks - 1

Least(S) == CHOOSE x \in S : \A y \in S : x <= y

----------------------------------------------------------------------------
(***************************************************************************)
(* The controllers.                                                        *)
(***************************************************************************)
ChipLines(c) == IF c = 1 THEN 0 .. 7 ELSE 8 .. 15

Cascade == 2

\* The line of a controller that asks and may interrupt what is in service.
Asking(S, c) ==
  LET req == S \ imr IN
  {l \in ChipLines(c) \cap req :
     /\ l = Least(ChipLines(c) \cap req)
     /\ \A q \in isr \cap ChipLines(c) : l < q}

SlaveAsking == Asking(irr, 2)

MasterAsking == Asking(irr \cup (IF SlaveAsking # {} THEN {Cascade} ELSE {}), 1)

Ready == \A c \in {1, 2} : pic[c].mode = "ready"

\* The lines of S that stay in service after a controller's end of interrupt,
\* which is for the most urgent one.
EndOfInterrupt(c, S) ==
  LET served == S \cap ChipLines(c) IN IF served = {} THEN S ELSE S \ {Least(served)}

\* Another write to a controller.  The first word of an initialisation clears
\* the mask and whatever is pending or in service; three words follow to the
\* data port; after that the data port is the mask.
outb(c, reg, n, mask) ==
  LET next == [icw2 |-> "icw3", icw3 |-> "icw4", icw4 |-> "ready"] IN
  CASE reg = "command" ->
         /\ pic' = [pic EXCEPT ![c].mode = "icw2"]
         /\ imr' = imr \ ChipLines(c)
         /\ irr' = irr \ ChipLines(c)
         /\ isr' = isr \ ChipLines(c)
    [] reg = "data" /\ pic[c].mode # "ready" ->
         /\ pic' = [pic EXCEPT ![c].mode = next[@],
                               ![c].offset = IF pic[c].mode = "icw2" THEN n ELSE @]
         /\ UNCHANGED <<imr, irr, isr>>
    [] OTHER ->
         /\ imr' = (imr \ ChipLines(c)) \cup (mask \cap ChipLines(c))
         /\ UNCHANGED <<pic, irr, isr>>

----------------------------------------------------------------------------
(***************************************************************************)
(* init_descriptor_tables.                                                 *)
(***************************************************************************)
Go(s) == stage' = s /\ k' = 1

KERNEL_CODE_SELECTOR == 8

\* Access bytes and flags of the code; the limit of the flat segments is the
\* highest number, and the TSS gets base + size where the limit belongs.
InitGdt ==
  /\ stage = "gdt"
  /\ \E addr \in TssAddrs :
       /\ tss' = addr
       /\ gdt' = [j \in 0 .. 5 |->
            CASE j = 0 -> GDT_entry_set(0, 0, 0, 0)
              [] j = 1 -> GDT_entry_set(0, AddressSpaceSize - 1, 154, 12)
              [] j = 2 -> GDT_entry_set(0, AddressSpaceSize - 1, 146, 12)
              [] j = 3 -> GDT_entry_set(0, AddressSpaceSize - 1, 250, 12)
              [] j = 4 -> GDT_entry_set(0, AddressSpaceSize - 1, 242, 12)
              [] j = 5 -> GDT_entry_set(addr, addr + TssSize, 233, 0)]
  /\ Go("callbacks")
  /\ UNCHANGED <<idt, isr_callback_table, bios, a, picvars, cpu, kbd, last_key, panic>>

\* init_idt up to remap_PIC, which first saves the masks.
Callbacks ==
  /\ stage = "callbacks"
  /\ isr_callback_table' = [v \in Vectors |-> IF isr_callback_table[v] = "none"
                                              THEN "isr_unhandled" ELSE isr_callback_table[v]]
  /\ a' = imr
  /\ Go("remap")
  /\ UNCHANGED <<tss, gdt, idt, bios, picvars, cpu, kbd, last_key, panic>>

Word(c, reg, n) == [c |-> c, reg |-> reg, n |-> n]

\* Mutant of RemapWrites: ICW4 is not sent although ICW1 announces it, so that
\* the saved masks are taken for it.
RemapWritesNoIcw4(offset1, offset2) ==
  <<Word(1, "command", 17), Word(2, "command", 17), Word(1, "data", offset1),
    Word(2, "data", offset2), Word(1, "data", 4), Word(2, "data", 2), Word(1, "data", 0),
    Word(2, "data", 0)>>

\* The writes of remap_PIC; the last two restore the masks.
RemapWrites(offset1, offset2) ==
  <<Word(1, "command", 17), Word(2, "command", 17), Word(1, "data", offset1),
    Word(2, "data", offset2), Word(1, "data", 4), Word(2, "data", 2), Word(1, "data", 1),
    Word(2, "data", 1), Word(1, "data", 0), Word(2, "data", 0)>>

Remap ==
  LET writes == RemapWrites(32, 40) IN
  /\ stage = "remap"
  /\ IF k > Len(writes) THEN Go("gates") /\ UNCHANGED picvars
     ELSE /\ outb(writes[k].c, writes[k].reg, writes[k].n, a)
          /\ k' = k + 1
          /\ UNCHANGED stage
  /\ UNCHANGED <<tables, bios, a, cpu, kbd, last_key, panic>>

\* Vectors with a stub; the stub of vector v is at address StubAt(v).
Stubs == Vectors \cap ((0 .. 47) \cup {128})

StubAt(v) == (v * 131 + 7) % AddressSpaceSize

IDT_FLAG == 142

\* ADD_ISR for every stub, then the gate of int 0x80 for user mode.
Gates ==
  /\ stage = "gates"
  /\ idt' = [v \in Stubs |-> IDT_entry_set(StubAt(v), KERNEL_CODE_SELECTOR,
                                           IF v = 128 THEN IDT_FLAG + 96 ELSE IDT_FLAG)]
  /\ Go("register")
  /\ UNCHANGED <<tss, gdt, isr_callback_table, bios, a, picvars, cpu, kbd, last_key, panic>>

----------------------------------------------------------------------------
\* Mutant of ISR_GET_NUM_BY_IRQ: counted from 1.
ISR_GET_NUM_BY_IRQ_1(n) == n + 31

ISR_GET_NUM_BY_IRQ(n) == n + 32

\* isr_register
Registered(num, callback) ==
  IF num \in Vectors THEN [isr_callback_table EXCEPT ![num] = callback] ELSE isr_callback_table

\* The rest of kmain: init_timer, the keyboard's handler, sti.
Register ==
  /\ stage = "register"
  /\ \/ /\ k = 1
        /\ isr_callback_table' = Registered(ISR_GET_NUM_BY_IRQ(0), "timer_tick")
        /\ k' = 2
        /\ UNCHANGED <<stage, intr>>
     \/ /\ k = 2
        /\ isr_callback_table' = Registered(ISR_GET_NUM_BY_IRQ(1), "isr_kbd")
        /\ k' = 3
        /\ UNCHANGED <<stage, intr>>
     \/ /\ k = 3
        /\ intr' = TRUE
        /\ Go("run")
        /\ UNCHANGED isr_callback_table
  /\ UNCHANGED <<tss, gdt, idt, bios, a, picvars, cur, todo, int_no, kbd, last_key, panic>>

----------------------------------------------------------------------------
(***************************************************************************)
(* Handlers.                                                               *)
(***************************************************************************)

\* Mutant of timer_tick: the end of interrupt is behind the switch.
timer_tick_late == <<"schedule", "eoi">>

timer_tick == <<"eoi", "schedule">>

isr_kbd == <<"read", "eoi">>

\* What isr_unhandled does behind its message.
isr_unhandled(v) == IF v >= 32 /\ v <= 47 THEN <<"eoi">> ELSE <<"panic">>

Effects(v) ==
  CASE isr_callback_table[v] = "timer_tick" -> timer_tick
    [] isr_callback_table[v] = "isr_kbd"    -> isr_kbd
    [] OTHER                                -> isr_unhandled(v)

\* The processor takes vector v: through its gate, into the stub.
Enter(v) ==
  /\ intr' = FALSE
  /\ int_no' = [int_no EXCEPT ![cur] = v]
  /\ IF v \in DOMAIN idt
     THEN todo' = [todo EXCEPT ![cur] = Effects(v)] /\ UNCHANGED panic
     ELSE panic' = "no gate" /\ UNCHANGED todo
  /\ UNCHANGED cur

\* The processor acknowledges line l.
Deliver(l) ==
  /\ intr /\ Ready /\ panic = "none"
  /\ \/ /\ l \in MasterAsking
        /\ isr' = isr \cup {l}
        /\ Enter(pic[1].offset + l)
     \/ /\ Cascade \in MasterAsking /\ l \in SlaveAsking
        /\ isr' = isr \cup {Cascade, l}
        /\ Enter(pic[2].offset + l - 8)
  /\ irr' = irr \ {l}
  /\ UNCHANGED <<stage, k, tables, bios, a, pic, imr, kbd, last_key>>

\* The request vanishes in the meantime: the controller answers with its last
\* vector, and has nothing in service.
Spurious(l) ==
  /\ intr /\ Ready /\ panic = "none"
  /\ l \in Glitchy
  /\ \/ /\ l \in MasterAsking
        /\ Enter(pic[1].offset + 7)
        /\ UNCHANGED isr
     \/ /\ Cascade \in MasterAsking /\ l \in SlaveAsking
        /\ isr' = isr \cup {Cascade}
        /\ Enter(pic[2].offset + 7)
  /\ irr' = irr \ {l}
  /\ UNCHANGED <<stage, k, tables, bios, a, pic, imr, kbd, last_key>>

\* The code that runs raises an exception nobody has registered for.
Exception(v) ==
  /\ intr /\ panic = "none"
  /\ Enter(v)
  /\ UNCHANGED <<stage, k, tables, bios, a, picvars, kbd, last_key>>

\* Mutant of ToSlave: int_no > 40.
ToSlaveStrict(v) == v > 40

\* isr_eoi writes to the slave first if the line is the slave's.
ToSlave(v) == v >= 40

isr_eoi(v) ==
  /\ isr' = EndOfInterrupt(1, IF ToSlave(v) THEN EndOfInterrupt(2, isr) ELSE isr)
  /\ UNCHANGED <<pic, imr, irr>>

\* After the step the current task goes on with this; nothing left means iret.
Continue(rest) ==
  /\ todo' = [todo EXCEPT ![cur] = rest]
  /\ intr' = (rest = <<>>)
  /\ UNCHANGED cur

HandlerStep ==
  LET rest == Tail(todo[cur]) IN
  /\ todo[cur] # <<>> /\ panic = "none"
  /\ \/ /\ Head(todo[cur]) = "eoi"
        /\ isr_eoi(int_no[cur])
        /\ Continue(rest)
        /\ UNCHANGED <<kbd, last_key, panic>>
     \/ /\ Head(todo[cur]) = "read"      \* last_key = 0; last_key = inb(0x60)
        /\ last_key' = kbd
        /\ kbd' = 0
        /\ Continue(rest)
        /\ UNCHANGED <<picvars, panic>>
     \/ /\ Head(todo[cur]) = "schedule"
        /\ todo' = [todo EXCEPT ![cur] = rest]
        /\ cur' = (cur + 1) % NTasks
        /\ intr' = (todo'[cur'] = <<>>)
        /\ UNCHANGED <<picvars, kbd, last_key, panic>>
     \/ /\ Head(todo[cur]) = "panic"
        /\ panic' = "unhandled interrupt"
        /\ UNCHANGED <<picvars, intr, cur, todo, kbd, last_key>>
  /\ UNCHANGED <<stage, k, tables, bios, a, int_no>>

----------------------------------------------------------------------------
(***************************************************************************)
(* Devices.                                                                *)
(***************************************************************************)

\* A device raises its line; requests are latched.
Raise(l) ==
  /\ l \in Lines \ {1}
  /\ irr' = irr \cup {l}
  /\ UNCHANGED <<stage, k, tables, bios, a, pic, imr, isr, cpu, kbd, last_key, panic>>

\* A key: the keyboard raises line 1 only if the last code has been read.
Key ==
  /\ kbd = 0
  /\ kbd' \in Codes
  /\ irr' = irr \cup {1}
  /\ UNCHANGED <<stage, k, tables, bios, a, pic, imr, isr, cpu, last_key, panic>>

\* loader.S has cleared the flag, the tables are empty, and the controllers
\* have the vectors and a mask of the BIOS.
Init ==
  /\ stage = "gdt" /\ k = 1
  /\ tss = 0 /\ gdt = <<>> /\ idt = <<>>
  /\ isr_callback_table = [v \in Vectors |-> "none"]
  /\ bios \in Masks /\ imr = bios /\ a = {}
  /\ pic = <<[mode |-> "ready", offset |-> 8], [mode |-> "ready", offset |-> 112]>>
  /\ irr = {} /\ isr = {}
  /\ intr = FALSE /\ cur = 0
  /\ todo = [t \in Tasks |-> <<>>]
  /\ int_no = [t \in Tasks |-> 0]
  /\ kbd = 0 /\ last_key = 0
  /\ panic = "none"

Setup == InitGdt \/ Callbacks \/ Remap \/ Gates \/ Register

Next ==
  \/ Setup \/ HandlerStep \/ Key
  \/ \E v \in Exceptions : Exception(v)
  \/ \E l \in Lines : Deliver(l) \/ Spurious(l) \/ Raise(l)

(***************************************************************************)
(* The processor keeps executing, and acknowledges the line the controller *)
(* asks for between two instructions; a line whose turn comes again and    *)
(* again is acknowledged, unless its request vanishes.                     *)
(***************************************************************************)
Fairness ==
  /\ WF_vars(Setup) /\ WF_vars(HandlerStep)
  /\ \A l \in Lines : SF_vars(Deliver(l))

Spec == Init /\ [][Next]_vars /\ Fairness

----------------------------------------------------------------------------
(***************************************************************************)
(* Properties.                                                             *)
(***************************************************************************)

\* Whenever a task runs with interrupts enabled no controller has a line in
\* service: every handler, also the one for lines nobody registered and the
\* one a spurious interrupt reaches, has ended its interrupt on the right
\* controllers, and before the timer hands the processor to another task.
EoiExact == stage = "run" /\ intr => isr = {}

\* Only exceptions panic, hardware interrupts do not: remap_PIC moves the
\* controllers' vectors away from the exceptions, and each vector that can
\* come has a gate.  And once remap_PIC is over the mask is the one the BIOS
\* had left, although the initialisation words clear it.
RemapExact ==
  /\ panic # "none" => int_no[cur] \in Exceptions
  /\ stage \in {"gates", "register", "run"} => imr = bios

\* The processor reads from the packed descriptors what the calls of set()
\* said: flat segments over all memory, the TSS at its address and, unless it
\* lies right below a multiple of LimitSize, at least as long as the TSS,
\* every gate at its stub, and only int 0x80 open to user mode.
DescriptorsExact ==
  /\ gdt # <<>> =>
       /\ \A j \in 1 .. 4 : /\ SegmentBase(gdt[j]) = 0
                            /\ SegmentLimit(gdt[j]) = LimitSize - 1
                            /\ SegmentFlag(gdt[j]) = 12 % HB
       /\ SegmentBase(gdt[5]) = tss
       /\ (tss % LimitSize) + TssSize < LimitSize => SegmentLimit(gdt[5]) >= TssSize - 1
  /\ \A v \in DOMAIN idt :
       /\ GateOffset(idt[v]) = StubAt(v)
       /\ (idt[v].flag \div 32) % 4 = (IF v = 128 THEN 3 ELSE 0)

Open(l) == l \notin imr /\ (l >= 8 => Cascade \notin imr)

\* The order in which the controllers prefer the lines.
Rank(l) == IF l >= 8 THEN 20 + l - 8 ELSE 10 * l

\* No open request is preferred to line l at the moment.  Without moments
\* like this a fast timer alone could keep all other lines waiting.
TurnOf(l) == stage = "run" /\ intr /\ \A q \in irr : Open(q) => Rank(q) >= Rank(l)

\* A request on an open line whose turn comes again and again is acknowledged
\* or withdrawn: nothing stays in service in front of it.
RequestServed ==
  \A l \in Lines :
    []<>TurnOf(l) => ((stage = "run" /\ l \in irr /\ Open(l)) ~> (l \notin irr))

\* The keyboard was silent until remap_PIC was over, whose first word would
\* have dropped the request.
SilentBoot == [](kbd # 0 => stage \in {"gates", "register", "run"})

\* Every key reaches last_key, and the keyboard is ready for the next one.
KeysRead ==
  SilentBoot /\ []<>TurnOf(1) =>
    \A c \in Codes : (stage = "run" /\ kbd = c /\ Open(1)) ~> (last_key = c /\ kbd = 0)
=============================================================================
