--------------------------- MODULE InterruptProofs ---------------------------
(***************************************************************************)
(* Theorems about Interrupt, for any lines, masks and exceptions, any      *)
(* number of tasks and any size of a byte: descriptors are read as they    *)
(* were written, remap_PIC keeps the mask and moves the vectors out of the *)
(* way, hardware interrupts do not panic, and no line stays in service     *)
(* when interrupts are enabled.                                            *)
(***************************************************************************)
EXTENDS Interrupt, NatLemmas, TLAPS

----------------------------------------------------------------------------
(***************************************************************************)
(* Descriptors.                                                            *)
(***************************************************************************)

\* The sizes of the fields.
LEMMA FieldSizes ==
  /\ HB \in Nat /\ HB > 0 /\ B \in Nat /\ B > 0 /\ B2 \in Nat /\ B2 > 0
  /\ B2 = B * B /\ B3 = B2 * B /\ AddressSpaceSize = B2 * B2 /\ LimitSize = B2 * HB
  /\ AddressSpaceSize \in Nat /\ AddressSpaceSize > 0 /\ LimitSize \in Nat /\ LimitSize > 0
<1>1. HB \in Nat /\ HB > 0
  BY DescriptorsAssumption
<1>2. B \in Nat /\ B > 0
  BY <1>1 DEF B
<1>3. B2 = B * B /\ B2 \in Nat /\ B2 > 0
  BY <1>2 DEF B2
<1>4. LimitSize = B2 * HB /\ LimitSize \in Nat /\ LimitSize > 0
  BY <1>1, <1>3 DEF LimitSize
<1>5. AddressSpaceSize = B2 * B2 /\ AddressSpaceSize \in Nat /\ AddressSpaceSize > 0
  BY <1>3 DEF AddressSpaceSize
<1>6. B3 = B2 * B
  BY DEF B3
<1> QED BY <1>1, <1>2, <1>3, <1>4, <1>5, <1>6

\* The processor finds the offset that IDT_entry_t::set packs.
LEMMA GateExact ==
  ASSUME NEW off \in Nat, off < AddressSpaceSize, NEW sel, NEW flag
  PROVE  GateOffset(IDT_entry_set(off, sel, flag)) = off /\ IDT_entry_set(off, sel, flag).flag = flag
<1>1. B2 \in Nat /\ B2 > 0 /\ off < B2 * B2
  BY FieldSizes
<1>2. (off % B2) + ((off \div B2) % B2) * B2 = off
  BY <1>1, TwoParts
<1> HIDE DEF B2
<1> QED BY <1>2 DEF GateOffset, IDT_entry_set

\* And the base that GDT_entry_t::set packs in three fields.
LEMMA BaseExact ==
  ASSUME NEW base \in Nat, base < AddressSpaceSize, NEW limit, NEW access, NEW flag
  PROVE  SegmentBase(GDT_entry_set(base, limit, access, flag)) = base
<1>1. B \in Nat /\ B > 0 /\ B2 \in Nat /\ B2 > 0 /\ B2 = B * B /\ B3 = B2 * B /\ base < B2 * B2
  BY FieldSizes
<1>2. PICK q \in Nat, r \in Nat : q = base \div B2 /\ r = base % B2 /\ base = q * B2 + r
  BY <1>1, DivMod
<1>3. q < B * B
  BY <1>1, <1>2, DivBelow
<1>4. PICK lo : lo = q % B
  OBVIOUS
<1>5. PICK hi : hi = (q \div B) % B
  OBVIOUS
<1>6. lo \in Nat /\ hi \in Nat
  <2>1. lo \in Nat /\ q \div B \in Nat
    BY <1>1, <1>2, <1>4, DivMod
  <2> QED BY <1>1, <1>5, <2>1, DivMod
<1>7. lo + hi * B = q
  <2>1. PICK b \in Nat : b = B
    BY <1>1
  <2>2. b > 0 /\ q < b * b
    BY <1>1, <1>3, <2>1
  <2>3. (q % b) + ((q \div b) % b) * b = q
    BY <1>2, <2>2, TwoParts
  <2> QED BY <1>4, <1>5, <2>1, <2>3
<1>8. base \div B3 = q \div B
  BY <1>1, <1>2, DivDiv
<1>9. SegmentBase(GDT_entry_set(base, limit, access, flag)) = r + lo * B2 + hi * B3
  BY <1>2, <1>4, <1>5, <1>8 DEF SegmentBase, GDT_entry_set
<1>10. lo * B2 + hi * B3 = q * B2
  <2>1. hi * B3 = (hi * B) * B2
    BY <1>1, <1>6
  <2>2. PICK hb \in Nat : hb = hi * B
    BY <1>1, <1>6
  <2>3. lo * B2 + hb * B2 = (lo + hb) * B2
    BY <1>1, <1>6, <2>2
  <2> QED BY <1>7, <2>1, <2>2, <2>3
<1>11. r + lo * B2 + hi * B3 = base
  <2>1. lo * B2 \in Nat /\ hi * B3 \in Nat /\ q * B2 \in Nat
    BY <1>1, <1>2, <1>6
  <2> QED BY <1>2, <1>10, <2>1
<1> QED BY <1>9, <1>11

\* The limit is cut to five half-bytes; the flag shares a byte with it.
LEMMA LimitExact ==
  ASSUME NEW base, NEW limit \in Nat, NEW access, NEW flag \in Nat
  PROVE  /\ SegmentLimit(GDT_entry_set(base, limit, access, flag)) = limit % LimitSize
         /\ SegmentFlag(GDT_entry_set(base, limit, access, flag)) = flag % HB
<1>1. HB \in Nat /\ HB > 0 /\ B2 \in Nat /\ B2 > 0 /\ LimitSize = B2 * HB
  BY FieldSizes
<1>2. limit \div B2 \in Nat
  BY <1>1, DivMod
<1>3. PICK h \in Nat : h = (limit \div B2) % HB /\ h < HB
  BY <1>1, <1>2, DivMod
<1>4. PICK f \in Nat : f = flag % HB
  BY <1>1, DivMod
<1>5. PICK x \in Nat : x = h + f * HB
  BY <1>1, <1>3, <1>4
<1>6. x = f * HB + h
  <2>1. f * HB \in Nat
    BY <1>1, <1>4
  <2> QED BY <1>3, <1>5, <2>1
<1>7. x \div HB = f /\ x % HB = h
  BY <1>1, <1>3, <1>4, <1>6, DivModUnique
<1>8. PICK d : d = GDT_entry_set(base, limit, access, flag)
  OBVIOUS
<1>9. d.limit_low = limit % B2 /\ d.limit_high_and_flag = x
  BY <1>3, <1>4, <1>5, <1>8 DEF GDT_entry_set
<1>10. (limit % B2) + h * B2 = limit % LimitSize
  <2>1. (limit % B2) + ((limit \div B2) % HB) * B2 = limit % (B2 * HB)
    BY <1>1, TwoParts, Zenon
  <2> QED BY <1>1, <1>3, <2>1, Zenon
<1> QED BY <1>4, <1>7, <1>8, <1>9, <1>10 DEF SegmentLimit, SegmentFlag

\* The flat segments get the highest limit there is.
LEMMA FlatLimit == (AddressSpaceSize - 1) % LimitSize = LimitSize - 1
<1>1. /\ HB \in Nat /\ HB > 0 /\ B2 \in Nat /\ B2 > 0 /\ B \in Nat /\ B > 0 /\ B2 = B * B
      /\ AddressSpaceSize = B2 * B2 /\ LimitSize = B2 * HB
      /\ AddressSpaceSize \in Nat /\ AddressSpaceSize > 0 /\ LimitSize \in Nat /\ LimitSize > 0
  BY FieldSizes
<1>2. PICK c \in Nat : c = B * HB
  BY <1>1
<1>3. c > 0 /\ B2 = HB * c
  <2>1. B * B = HB * (B * HB)
    BY <1>1 DEF B
  <2>2. c > 0
    BY <1>1, <1>2
  <2> QED BY <1>1, <1>2, <2>1, <2>2
<1>4. AddressSpaceSize = c * LimitSize
  <2>1. B2 * B2 = B2 * (HB * c)
    BY <1>3
  <2>2. B2 * (HB * c) = c * (B2 * HB)
    BY <1>1, <1>2
  <2> QED BY <1>1, <2>1, <2>2
<1>5. PICK q \in Nat : q = c - 1
  BY <1>3
<1>6. PICK r \in Nat : r = LimitSize - 1
  BY <1>1
<1>7. PICK x \in Nat : x = AddressSpaceSize - 1
  BY <1>1
<1>8. x = q * LimitSize + r
  <2>1. c * LimitSize = q * LimitSize + LimitSize /\ q * LimitSize \in Nat
    BY <1>1, <1>5
  <2> QED BY <1>1, <1>4, <1>6, <1>7, <2>1
<1>9. r < LimitSize
  BY <1>1, <1>6
<1>10. x % LimitSize = r
  <2>1. PICK m \in Nat : m = LimitSize
    BY <1>1
  <2>2. m > 0 /\ r < m /\ x = q * m + r
    BY <1>1, <1>8, <1>9, <2>1
  <2>3. x % m = r
    BY <2>2, DivModUnique
  <2> QED BY <2>1, <2>3
<1> QED BY <1>6, <1>7, <1>10

\* A limit of address plus size, cut, still covers the segment, unless the
\* cut goes through it.
LEMMA CutLimit ==
  ASSUME NEW addr \in Nat, NEW size \in Nat, (addr % LimitSize) + size < LimitSize
  PROVE  (addr + size) % LimitSize = (addr % LimitSize) + size
<1>1. LimitSize \in Nat /\ LimitSize > 0
  BY FieldSizes
<1>2. PICK q \in Nat, r \in Nat : q = addr \div LimitSize /\ r = addr % LimitSize /\ addr = q * LimitSize + r
  BY <1>1, DivMod
<1>3. PICK s \in Nat : s = r + size
  BY <1>2
<1>4. PICK x \in Nat : x = addr + size
  OBVIOUS
<1>5. x = q * LimitSize + s
  <2>1. PICK w \in Nat : w = q * LimitSize
    BY <1>1, <1>2
  <2>2. addr = w + r
    BY <1>2, <2>1
  <2>3. r \in Nat /\ w \in Nat
    BY <1>2, <2>1
  <2>4. x = w + s
    BY <1>3, <1>4, <2>2, <2>3
  <2> QED BY <2>1, <2>4
<1>6. x % LimitSize = s
  BY <1>1, <1>2, <1>3, <1>5, DivModUnique
<1> QED BY <1>2, <1>3, <1>4, <1>6

----------------------------------------------------------------------------
(***************************************************************************)
(* What a handler has still to do.                                         *)
(***************************************************************************)
Timer == <<"eoi", "schedule">>
Kbd == <<"read", "eoi">>
Eoi == <<"eoi">>
Schedule == <<"schedule">>
Fatal == <<"panic">>

\* The first effect of each, and the rest.
LEMMA Programs ==
  /\ Head(Timer) = "eoi" /\ Tail(Timer) = Schedule
  /\ Head(Kbd) = "read" /\ Tail(Kbd) = Eoi
  /\ Head(Eoi) = "eoi" /\ Tail(Eoi) = <<>>
  /\ Head(Schedule) = "schedule" /\ Tail(Schedule) = <<>>
  /\ Head(Fatal) = "panic"
  /\ Timer # <<>> /\ Kbd # <<>> /\ Eoi # <<>> /\ Schedule # <<>> /\ Fatal # <<>>
<1>1. Head(Timer) = "eoi" /\ Tail(Timer) = Schedule /\ Timer # <<>>
  BY DEF Timer, Schedule
<1>2. Head(Kbd) = "read" /\ Tail(Kbd) = Eoi /\ Kbd # <<>>
  BY DEF Kbd, Eoi
<1>3. Head(Eoi) = "eoi" /\ Tail(Eoi) = <<>> /\ Eoi # <<>>
  BY DEF Eoi
<1>4. Head(Schedule) = "schedule" /\ Tail(Schedule) = <<>> /\ Schedule # <<>>
  BY DEF Schedule
<1>5. Head(Fatal) = "panic" /\ Fatal # <<>>
  BY DEF Fatal
<1> QED BY <1>1, <1>2, <1>3, <1>4, <1>5

----------------------------------------------------------------------------
(***************************************************************************)
(* The controllers.                                                        *)
(***************************************************************************)

\* The least of a one-element set.
LEMMA LeastOne == ASSUME NEW x \in Int PROVE Least({x}) = x
<1>1. \A y \in {x} : x <= y
  OBVIOUS
<1> QED BY <1>1 DEF Least

\* isr_eoi of a vector of the master ends what the master has in service.
LEMMA EndsMaster ==
  ASSUME NEW S, S = {} \/ \E l \in 0 .. 7 : S = {l}
  PROVE  EndOfInterrupt(1, S) = {}
<1>1. CASE S = {}
  BY <1>1 DEF EndOfInterrupt
<1>2. ASSUME NEW l \in 0 .. 7, S = {l} PROVE EndOfInterrupt(1, S) = {}
  <2>1. l \in Int
    OBVIOUS
  <2>2. l \in ChipLines(1)
    BY DEF ChipLines
  <2>3. S \cap ChipLines(1) = {l}
    BY <1>2, <2>2
  <2>4. Least({l}) = l
    BY <2>1, LeastOne
  <2>5. EndOfInterrupt(1, S) = S \ {l}
    BY <2>3, <2>4 DEF EndOfInterrupt
  <2> QED BY <1>2, <2>5
<1> QED BY <1>1, <1>2

\* Of a vector of the slave, what both have.
LEMMA EndsBoth ==
  ASSUME NEW S, S = {Cascade} \/ \E l \in 8 .. 15 : S = {Cascade, l}
  PROVE  EndOfInterrupt(1, EndOfInterrupt(2, S)) = {}
<1>1. EndOfInterrupt(2, S) = {Cascade}
  <2>1. CASE S = {Cascade}
    <3>1. S \cap ChipLines(2) = {}
      BY <2>1 DEF ChipLines, Cascade
    <3> QED BY <2>1, <3>1 DEF EndOfInterrupt
  <2>2. ASSUME NEW l \in 8 .. 15, S = {Cascade, l} PROVE EndOfInterrupt(2, S) = {Cascade}
    <3>1. l \in Int /\ l # Cascade
      BY DEF Cascade
    <3>2. l \in ChipLines(2) /\ Cascade \notin ChipLines(2)
      BY DEF ChipLines, Cascade
    <3>3. S \cap ChipLines(2) = {l}
      BY <2>2, <3>2
    <3>4. Least({l}) = l
      BY <3>1, LeastOne
    <3>5. EndOfInterrupt(2, S) = S \ {l}
      BY <3>3, <3>4 DEF EndOfInterrupt
    <3> QED BY <2>2, <3>1, <3>5
  <2> QED BY <2>1, <2>2
<1>2. EndOfInterrupt(1, {Cascade}) = {}
  BY EndsMaster DEF Cascade
<1> QED BY <1>1, <1>2

----------------------------------------------------------------------------
(***************************************************************************)
(* remap_PIC.                                                              *)
(***************************************************************************)
Modes == {"ready", "icw2", "icw3", "icw4"}

Controllers == [{1, 2} -> [mode : Modes, offset : Nat]]

\* The first word of an initialisation.
LEMMA OutCommand ==
  ASSUME pic \in Controllers, NEW c \in {1, 2}, NEW n, NEW m, outb(c, "command", n, m)
  PROVE  /\ pic' \in Controllers /\ pic'[c].mode = "icw2" /\ pic'[c].offset = pic[c].offset
         /\ \A d \in {1, 2} : d # c => pic'[d] = pic[d]
         /\ imr' = imr \ ChipLines(c) /\ isr' = isr \ ChipLines(c)
<1>1. /\ pic' = [pic EXCEPT ![c].mode = "icw2"]
      /\ imr' = imr \ ChipLines(c) /\ isr' = isr \ ChipLines(c)
  BY DEF outb
<1> QED BY <1>1 DEF Controllers, Modes

\* The words that follow it.
LEMMA OutWord ==
  ASSUME pic \in Controllers, NEW c \in {1, 2}, NEW n \in Nat, NEW m, outb(c, "data", n, m),
         pic[c].mode \in {"icw2", "icw3", "icw4"}
  PROVE  /\ pic' \in Controllers
         /\ pic[c].mode = "icw2" => pic'[c].mode = "icw3" /\ pic'[c].offset = n
         /\ pic[c].mode = "icw3" => pic'[c].mode = "icw4" /\ pic'[c].offset = pic[c].offset
         /\ pic[c].mode = "icw4" => pic'[c].mode = "ready" /\ pic'[c].offset = pic[c].offset
         /\ \A d \in {1, 2} : d # c => pic'[d] = pic[d]
         /\ imr' = imr /\ isr' = isr
<1>1. PICK next : next = [icw2 |-> "icw3", icw3 |-> "icw4", icw4 |-> "ready"]
  OBVIOUS
<1>2. next["icw2"] = "icw3" /\ next["icw3"] = "icw4" /\ next["icw4"] = "ready"
  BY <1>1
<1>3. /\ pic' = [pic EXCEPT ![c].mode = next[pic[c].mode],
                            ![c].offset = IF pic[c].mode = "icw2" THEN n ELSE pic[c].offset]
      /\ imr' = imr /\ isr' = isr
  BY <1>1 DEF outb
<1>4. /\ pic'[c].mode = next[pic[c].mode]
      /\ pic'[c].offset = IF pic[c].mode = "icw2" THEN n ELSE pic[c].offset
      /\ \A d \in {1, 2} : d # c => pic'[d] = pic[d]
  BY <1>3 DEF Controllers
<1>5. pic' \in Controllers
  BY <1>2, <1>3 DEF Controllers, Modes
<1> QED BY <1>2, <1>3, <1>4, <1>5

\* A write to the mask.
LEMMA OutMask ==
  ASSUME pic \in Controllers, NEW c \in {1, 2}, NEW n, NEW m, outb(c, "data", n, m), pic[c].mode = "ready"
  PROVE  /\ pic' = pic /\ isr' = isr
         /\ imr' = (imr \ ChipLines(c)) \cup (m \cap ChipLines(c))
BY DEF outb

----------------------------------------------------------------------------
(***************************************************************************)
(* The inductive invariant.                                                *)
(***************************************************************************)

\* The mode of a controller, and the mask, before the n-th write of
\* remap_PIC.
ModeAt(c, n) ==
  IF c = 1 THEN IF n = 1 THEN "ready" ELSE IF n <= 3 THEN "icw2" ELSE IF n <= 5 THEN "icw3"
                ELSE IF n <= 7 THEN "icw4" ELSE "ready"
  ELSE IF n <= 2 THEN "ready" ELSE IF n <= 4 THEN "icw2" ELSE IF n <= 6 THEN "icw3"
       ELSE IF n <= 8 THEN "icw4" ELSE "ready"

MaskAt(n) ==
  IF n = 1 THEN bios ELSE IF n = 2 THEN bios \ ChipLines(1) ELSE IF n <= 9 THEN {}
  ELSE IF n = 10 THEN bios \cap ChipLines(1) ELSE bios

\* The controllers.
Remapped ==
  /\ pic \in Controllers /\ bios \subseteq 0 .. 15
  /\ stage \in {"gdt", "callbacks"} => pic[1].mode = "ready" /\ pic[2].mode = "ready" /\ imr = bios
  /\ stage = "remap" => /\ a = bios /\ k \in 1 .. 11
                        /\ pic[1].mode = ModeAt(1, k) /\ pic[2].mode = ModeAt(2, k)
                        /\ imr = MaskAt(k)
                        /\ k >= 4 => pic[1].offset = 32
                        /\ k >= 5 => pic[2].offset = 40
  /\ stage \in {"gates", "register", "run"} => imr = bios /\ pic[1].offset = 32 /\ pic[2].offset = 40

\* The tables: exceptions keep isr_unhandled, every stub has a gate.
Filled ==
  /\ isr_callback_table \in [Vectors -> {"none", "isr_unhandled", "timer_tick", "isr_kbd"}]
  /\ stage \in {"gdt", "callbacks"} => \A v \in Vectors : isr_callback_table[v] = "none"
  /\ stage \notin {"gdt", "callbacks"} =>
       \A v \in Vectors : v \notin {32, 33} => isr_callback_table[v] = "isr_unhandled"
  /\ stage \in {"register", "run"} => DOMAIN idt = Stubs

\* Vector v of a controller is being handled, and S is in service.
Serving(v, S) ==
  \/ v \in 32 .. 39 /\ (S = {} \/ \E l \in 0 .. 7 : S = {l})
  \/ v \in 40 .. 47 /\ (S = {Cascade} \/ \E l \in 8 .. 15 : S = {Cascade, l})

\* The processor: it runs a task, or its handler is before or behind the end
\* of interrupt, or an exception is to panic or has done so.  Tasks that do
\* not run have nothing left to do in a handler.
Running ==
  /\ cur \in Tasks /\ todo \in [Tasks -> {<<>>, Timer, Kbd, Eoi, Schedule, Fatal}]
  /\ int_no \in [Tasks -> Nat]
  /\ \A t \in Tasks : t # cur => todo[t] = <<>>
  /\ stage # "run" => ~intr /\ panic = "none" /\ todo[cur] = <<>> /\ isr = {}
  /\ stage = "run" =>
       \/ intr /\ panic = "none" /\ todo[cur] = <<>> /\ isr = {}
       \/ ~intr /\ panic = "none" /\ todo[cur] \in {Timer, Kbd, Eoi} /\ Serving(int_no[cur], isr)
       \/ ~intr /\ panic = "none" /\ todo[cur] = Schedule /\ isr = {}
       \/ ~intr /\ panic \in {"none", "unhandled interrupt"} /\ todo[cur] = Fatal
          /\ int_no[cur] \in Exceptions

IInv ==
  /\ stage \in {"gdt", "callbacks", "remap", "gates", "register", "run"}
  /\ intr \in BOOLEAN
  /\ Remapped /\ Filled /\ Running /\ DescriptorsExact

\* The state after loader.S.
LEMMA InitIInv == Init => IInv
<1> SUFFICES ASSUME Init PROVE IInv
  OBVIOUS
<1>1. /\ stage = "gdt" /\ gdt = <<>> /\ idt = <<>> /\ isr = {} /\ intr = FALSE /\ cur = 0 /\ panic = "none"
      /\ isr_callback_table = [v \in Vectors |-> "none"] /\ bios \in Masks /\ imr = bios
      /\ pic = <<[mode |-> "ready", offset |-> 8], [mode |-> "ready", offset |-> 112]>>
      /\ todo = [t \in Tasks |-> <<>>] /\ int_no = [t \in Tasks |-> 0]
  BY DEF Init
<1>2. Remapped
  <2>1. pic \in Controllers /\ pic[1].mode = "ready" /\ pic[2].mode = "ready"
    BY <1>1 DEF Controllers, Modes
  <2>2. bios \subseteq 0 .. 15
    BY <1>1, InterruptAssumption
  <2> QED BY <1>1, <2>1, <2>2 DEF Remapped
<1>3. Filled
  BY <1>1 DEF Filled
<1>4. Running
  <2>1. 0 \in Tasks
    BY InterruptAssumption DEF Tasks
  <2>2. todo \in [Tasks -> {<<>>, Timer, Kbd, Eoi, Schedule, Fatal}] /\ int_no \in [Tasks -> Nat]
        /\ \A t \in Tasks : todo[t] = <<>>
    BY <1>1
  <2> QED BY <1>1, <2>1, <2>2 DEF Running
<1>5. DescriptorsExact
  BY <1>1 DEF DescriptorsExact
<1> QED BY <1>1, <1>2, <1>3, <1>4, <1>5 DEF IInv

----------------------------------------------------------------------------
(***************************************************************************)
(* init_descriptor_tables keeps it.                                        *)
(***************************************************************************)

\* The parts that speak of other variables than those a step changes.
LEMMA TablesSame ==
  ASSUME DescriptorsExact, UNCHANGED <<tss, gdt, idt>>
  PROVE  DescriptorsExact'
BY DEF DescriptorsExact, SegmentBase, SegmentLimit, SegmentFlag, GateOffset, StubAt

\* See TablesSame.
LEMMA RunningSame ==
  ASSUME Running, UNCHANGED <<cur, todo, int_no, intr, panic, isr>>, stage # "run", stage' # "run"
  PROVE  Running'
BY DEF Running

\* init_gdt.
LEMMA GdtStep ==
  ASSUME IInv, InitGdt
  PROVE  IInv'
<1>1. PICK addr \in TssAddrs :
        /\ tss' = addr
        /\ gdt' = [j \in 0 .. 5 |->
            CASE j = 0 -> GDT_entry_set(0, 0, 0, 0)
              [] j = 1 -> GDT_entry_set(0, AddressSpaceSize - 1, 154, 12)
              [] j = 2 -> GDT_entry_set(0, AddressSpaceSize - 1, 146, 12)
              [] j = 3 -> GDT_entry_set(0, AddressSpaceSize - 1, 250, 12)
              [] j = 4 -> GDT_entry_set(0, AddressSpaceSize - 1, 242, 12)
              [] j = 5 -> GDT_entry_set(addr, addr + TssSize, 233, 0)]
  BY DEF InitGdt
<1>2. /\ stage = "gdt" /\ stage' = "callbacks"
      /\ UNCHANGED <<idt, isr_callback_table, bios, a, pic, imr, irr, isr, intr, cur, todo, int_no, panic>>
  BY DEF InitGdt, Go, picvars, cpu
<1>3. /\ gdt'[1] = GDT_entry_set(0, AddressSpaceSize - 1, 154, 12)
      /\ gdt'[2] = GDT_entry_set(0, AddressSpaceSize - 1, 146, 12)
      /\ gdt'[3] = GDT_entry_set(0, AddressSpaceSize - 1, 250, 12)
      /\ gdt'[4] = GDT_entry_set(0, AddressSpaceSize - 1, 242, 12)
      /\ gdt'[5] = GDT_entry_set(addr, addr + TssSize, 233, 0)
  <2> HIDE DEF GDT_entry_set
  <2> QED BY <1>1
<1>4. /\ AddressSpaceSize \in Nat /\ AddressSpaceSize > 0 /\ LimitSize \in Nat /\ LimitSize > 0
  BY FieldSizes
<1>5. addr \in Nat /\ addr < AddressSpaceSize /\ TssSize \in Nat
  BY <1>4, InterruptAssumption
<1>6. ASSUME NEW access
      PROVE  LET d == GDT_entry_set(0, AddressSpaceSize - 1, access, 12)
             IN  SegmentBase(d) = 0 /\ SegmentLimit(d) = LimitSize - 1 /\ SegmentFlag(d) = 12 % HB
  <2>1. PICK z \in Nat : z = 0
    OBVIOUS
  <2>2. PICK limit \in Nat : limit = AddressSpaceSize - 1
    BY <1>4
  <2>3. PICK f \in Nat : f = 12
    OBVIOUS
  <2>4. z < AddressSpaceSize
    BY <1>4, <2>1
  <2>5. SegmentBase(GDT_entry_set(z, limit, access, f)) = z
    BY <2>4, BaseExact
  <2>6. /\ SegmentLimit(GDT_entry_set(z, limit, access, f)) = limit % LimitSize
        /\ SegmentFlag(GDT_entry_set(z, limit, access, f)) = f % HB
    BY LimitExact
  <2> QED BY <2>1, <2>2, <2>3, <2>5, <2>6, FlatLimit
<1>7. ASSUME NEW j \in 1 .. 4
      PROVE  /\ SegmentBase(gdt'[j]) = 0 /\ SegmentLimit(gdt'[j]) = LimitSize - 1
             /\ SegmentFlag(gdt'[j]) = 12 % HB
  <2>1. j = 1 \/ j = 2 \/ j = 3 \/ j = 4
    OBVIOUS
  <2> QED BY <1>3, <1>6, <2>1
<1>8. /\ SegmentBase(gdt'[5]) = tss'
      /\ (tss' % LimitSize) + TssSize < LimitSize => SegmentLimit(gdt'[5]) >= TssSize - 1
  <2>1. PICK limit \in Nat : limit = addr + TssSize
    BY <1>5
  <2>2. PICK f \in Nat : f = 0
    OBVIOUS
  <2>3. gdt'[5] = GDT_entry_set(addr, limit, 233, f)
    BY <1>3, <2>1, <2>2
  <2>4. SegmentBase(gdt'[5]) = addr
    BY <1>5, <2>3, BaseExact
  <2>5. SegmentLimit(gdt'[5]) = limit % LimitSize
    BY <2>3, LimitExact
  <2>6. ASSUME (addr % LimitSize) + TssSize < LimitSize PROVE SegmentLimit(gdt'[5]) >= TssSize - 1
    <3>1. limit % LimitSize = (addr % LimitSize) + TssSize
      BY <1>5, <2>1, <2>6, CutLimit
    <3>2. PICK r \in Nat : r = addr % LimitSize
      BY <1>4, <1>5, DivMod
    <3>3. SegmentLimit(gdt'[5]) = r + TssSize
      BY <2>5, <3>1, <3>2
    <3> QED BY <1>5, <3>3
  <2> QED BY <1>1, <2>4, <2>6
<1>9. \A v \in DOMAIN idt' : /\ GateOffset(idt'[v]) = StubAt(v)
                             /\ (idt'[v].flag \div 32) % 4 = (IF v = 128 THEN 3 ELSE 0)
  BY <1>2 DEF IInv, DescriptorsExact
<1>10. DescriptorsExact'
  BY <1>7, <1>8, <1>9 DEF DescriptorsExact, StubAt, SegmentBase, SegmentLimit, SegmentFlag, GateOffset
<1>11. Remapped'
  BY <1>2 DEF IInv, Remapped, Controllers, Modes
<1>12. Filled'
  BY <1>2 DEF IInv, Filled
<1>13. Running'
  BY <1>2, RunningSame DEF IInv
<1> QED BY <1>2, <1>10, <1>11, <1>12, <1>13 DEF IInv

\* The part of init_idt before remap_PIC: the mask is saved.
LEMMA CallbacksStep ==
  ASSUME IInv, Callbacks
  PROVE  IInv'
<1>1. /\ stage = "callbacks" /\ stage' = "remap" /\ k' = 1 /\ a' = imr
      /\ isr_callback_table' = [v \in Vectors |-> IF isr_callback_table[v] = "none"
                                                  THEN "isr_unhandled" ELSE isr_callback_table[v]]
      /\ UNCHANGED <<tss, gdt, idt, bios, pic, imr, isr, intr, cur, todo, int_no, panic>>
  BY DEF Callbacks, Go, picvars, cpu
<1>2. Remapped'
  <2>1. pic' \in Controllers /\ bios' \subseteq 0 .. 15 /\ imr' = bios'
        /\ pic'[1].mode = "ready" /\ pic'[2].mode = "ready"
    BY <1>1 DEF IInv, Remapped, Controllers, Modes
  <2>2. a' = bios'
    BY <1>1, <2>1
  <2>3. ModeAt(1, 1) = "ready" /\ ModeAt(2, 1) = "ready"
    BY DEF ModeAt
  <2>4. MaskAt(1)' = bios'
    BY DEF MaskAt
  <2>5. k' \in 1 .. 11 /\ ~(k' >= 4) /\ ~(k' >= 5)
    BY <1>1
  <2>6. MaskAt(k)' = bios'
    BY <1>1 DEF MaskAt
  <2> QED BY <1>1, <2>1, <2>2, <2>3, <2>5, <2>6 DEF Remapped
<1>3. Filled'
  BY <1>1 DEF IInv, Filled
<1>4. Running'
  BY <1>1, RunningSame DEF IInv
<1>5. DescriptorsExact'
  BY <1>1, TablesSame DEF IInv
<1> QED BY <1>1, <1>2, <1>3, <1>4, <1>5 DEF IInv

\* One write of remap_PIC.
LEMMA RemapStep ==
  ASSUME IInv, Remap
  PROVE  IInv'
<1> DEFINE writes == RemapWrites(32, 40)
<1>1. /\ stage = "remap" /\ UNCHANGED <<tss, gdt, idt, isr_callback_table, bios, a>>
      /\ UNCHANGED <<intr, cur, todo, int_no, panic>>
  BY DEF Remap, tables, cpu
<1>2. /\ pic \in Controllers /\ bios \subseteq 0 .. 15 /\ a = bios /\ k \in 1 .. 11
      /\ pic[1].mode = ModeAt(1, k) /\ pic[2].mode = ModeAt(2, k) /\ imr = MaskAt(k)
      /\ k >= 4 => pic[1].offset = 32
      /\ k >= 5 => pic[2].offset = 40
  BY <1>1 DEF IInv, Remapped
<1>3. Len(writes) = 10
  BY DEF RemapWrites
<1>4. isr = {}
  BY <1>1 DEF IInv, Running
<1>5. DescriptorsExact'
  BY <1>1, TablesSame DEF IInv
<1>6. CASE k = 11
  <2>1. stage' = "gates" /\ pic' = pic /\ imr' = imr /\ isr' = isr
    BY <1>3, <1>6 DEF Remap, Go, picvars
  <2>2. Remapped'
    BY <1>1, <1>2, <1>6, <2>1 DEF Remapped, MaskAt
  <2>3. Filled'
    BY <1>1, <2>1 DEF IInv, Filled
  <2>4. Running'
    BY <1>1, <2>1, RunningSame DEF IInv
  <2> QED BY <1>1, <1>5, <2>1, <2>2, <2>3, <2>4 DEF IInv
<1>7. CASE k # 11
  <2>1. /\ k \in 1 .. 10 /\ k' = k + 1 /\ stage' = stage
        /\ outb(writes[k].c, writes[k].reg, writes[k].n, a)
    BY <1>2, <1>3, <1>7 DEF Remap
  <2>2. /\ pic' \in Controllers /\ isr' = {}
        /\ pic'[1].mode = ModeAt(1, k + 1) /\ pic'[2].mode = ModeAt(2, k + 1)
        /\ imr' = MaskAt(k + 1)
        /\ k + 1 >= 4 => pic'[1].offset = 32
        /\ k + 1 >= 5 => pic'[2].offset = 40
    <3>1. CASE k = 1
      <4>1. outb(1, "command", 17, a)
        BY <2>1, <3>1 DEF RemapWrites, Word
      <4>2. /\ pic' \in Controllers /\ pic'[1].mode = "icw2" /\ pic'[2] = pic[2]
            /\ imr' = imr \ ChipLines(1) /\ isr' = isr \ ChipLines(1)
        BY <1>2, <4>1, OutCommand
      <4> QED BY <1>2, <1>4, <3>1, <4>2 DEF ModeAt, MaskAt
    <3>2. CASE k = 2
      <4>1. outb(2, "command", 17, a)
        BY <2>1, <3>2 DEF RemapWrites, Word
      <4>2. /\ pic' \in Controllers /\ pic'[2].mode = "icw2" /\ pic'[1] = pic[1]
            /\ imr' = imr \ ChipLines(2) /\ isr' = isr \ ChipLines(2)
        BY <1>2, <4>1, OutCommand
      <4>3. imr' = {}
        <5>1. imr = bios \ ChipLines(1)
          BY <1>2, <3>2 DEF MaskAt
        <5>2. \A x \in 0 .. 15 : x \in ChipLines(1) \/ x \in ChipLines(2)
          BY DEF ChipLines
        <5> QED BY <1>2, <4>2, <5>1, <5>2
      <4>4. isr' = {}
        BY <1>4, <4>2
      <4>5. MaskAt(k + 1) = {}
        BY <3>2 DEF MaskAt
      <4>6. ModeAt(1, k) = "icw2" /\ ModeAt(1, k + 1) = "icw2" /\ ModeAt(2, k + 1) = "icw2"
        BY <3>2 DEF ModeAt
      <4> QED BY <1>2, <3>2, <4>2, <4>3, <4>4, <4>5, <4>6
    <3>3. CASE k \in {3, 5, 7}
      <4>1. PICK n \in Nat : outb(1, "data", n, a) /\ (k = 3 => n = 32)
        BY <2>1, <3>3 DEF RemapWrites, Word
      <4>2. pic[1].mode \in {"icw2", "icw3", "icw4"}
        BY <1>2, <3>3 DEF ModeAt
      <4>3. /\ pic' \in Controllers
            /\ pic[1].mode = "icw2" => pic'[1].mode = "icw3" /\ pic'[1].offset = n
            /\ pic[1].mode = "icw3" => pic'[1].mode = "icw4" /\ pic'[1].offset = pic[1].offset
            /\ pic[1].mode = "icw4" => pic'[1].mode = "ready" /\ pic'[1].offset = pic[1].offset
            /\ pic'[2] = pic[2] /\ imr' = imr /\ isr' = isr
        BY <1>2, <4>1, <4>2, OutWord
      <4> QED BY <1>2, <1>4, <3>3, <4>1, <4>3 DEF ModeAt, MaskAt
    <3>4. CASE k \in {4, 6, 8}
      <4>1. PICK n \in Nat : outb(2, "data", n, a) /\ (k = 4 => n = 40)
        BY <2>1, <3>4 DEF RemapWrites, Word
      <4>2. pic[2].mode \in {"icw2", "icw3", "icw4"}
        BY <1>2, <3>4 DEF ModeAt
      <4>3. /\ pic' \in Controllers
            /\ pic[2].mode = "icw2" => pic'[2].mode = "icw3" /\ pic'[2].offset = n
            /\ pic[2].mode = "icw3" => pic'[2].mode = "icw4" /\ pic'[2].offset = pic[2].offset
            /\ pic[2].mode = "icw4" => pic'[2].mode = "ready" /\ pic'[2].offset = pic[2].offset
            /\ pic'[1] = pic[1] /\ imr' = imr /\ isr' = isr
        BY <1>2, <4>1, <4>2, OutWord
      <4> QED BY <1>2, <1>4, <3>4, <4>1, <4>3 DEF ModeAt, MaskAt
    <3>5. CASE k = 9
      <4>1. outb(1, "data", 0, a)
        BY <2>1, <3>5 DEF RemapWrites, Word
      <4>2. pic[1].mode = "ready" /\ imr = {}
        BY <1>2, <3>5 DEF ModeAt, MaskAt
      <4>3. pic' = pic /\ isr' = isr /\ imr' = (imr \ ChipLines(1)) \cup (a \cap ChipLines(1))
        BY <1>2, <4>1, <4>2, OutMask
      <4>4. imr' = bios \cap ChipLines(1)
        BY <1>2, <4>2, <4>3
      <4> QED BY <1>2, <1>4, <3>5, <4>3, <4>4 DEF ModeAt, MaskAt
    <3>6. CASE k = 10
      <4>1. outb(2, "data", 0, a)
        BY <2>1, <3>6 DEF RemapWrites, Word
      <4>2. pic[2].mode = "ready" /\ imr = bios \cap ChipLines(1)
        BY <1>2, <3>6 DEF ModeAt, MaskAt
      <4>3. pic' = pic /\ isr' = isr /\ imr' = (imr \ ChipLines(2)) \cup (a \cap ChipLines(2))
        BY <1>2, <4>1, <4>2, OutMask
      <4>4. imr' = bios
        <5>1. \A x \in 0 .. 15 : x \in ChipLines(1) <=> ~(x \in ChipLines(2))
          BY DEF ChipLines
        <5>2. \A x : x \in imr' <=> x \in bios
          BY <1>2, <4>2, <4>3, <5>1
        <5> QED BY <5>2
      <4> QED BY <1>2, <1>4, <3>6, <4>3, <4>4 DEF ModeAt, MaskAt
    <3> QED BY <2>1, <3>1, <3>2, <3>3, <3>4, <3>5, <3>6
  <2>3. MaskAt(k)' = MaskAt(k + 1)
    BY <1>1, <2>1 DEF MaskAt
  <2>4. ModeAt(1, k)' = ModeAt(1, k + 1) /\ ModeAt(2, k)' = ModeAt(2, k + 1)
    BY <2>1 DEF ModeAt
  <2>5. Remapped'
    BY <1>1, <1>2, <2>1, <2>2, <2>3, <2>4 DEF Remapped
  <2>6. Filled'
    BY <1>1, <2>1 DEF IInv, Filled
  <2>7. Running'
    BY <1>1, <1>4, <2>1, <2>2, RunningSame DEF IInv
  <2> QED BY <1>1, <1>5, <2>1, <2>5, <2>6, <2>7 DEF IInv
<1> QED BY <1>6, <1>7

\* The gates of the stubs.
LEMMA GatesStep ==
  ASSUME IInv, Gates
  PROVE  IInv'
<1> DEFINE Flag(v) == IF v = 128 THEN IDT_FLAG + 96 ELSE IDT_FLAG
<1>1. /\ stage = "gates" /\ stage' = "register" /\ k' = 1
      /\ idt' = [v \in Stubs |-> IDT_entry_set(StubAt(v), KERNEL_CODE_SELECTOR, Flag(v))]
      /\ UNCHANGED <<tss, gdt, isr_callback_table, bios, a, pic, imr, isr, intr, cur, todo, int_no, panic>>
  BY DEF Gates, Go, picvars, cpu
<1>2. Remapped'
  BY <1>1 DEF IInv, Remapped, Controllers, Modes
<1>3. DOMAIN idt' = Stubs
  BY <1>1
<1>4. Filled'
  BY <1>1, <1>3 DEF IInv, Filled, Stubs
<1>5. Running'
  BY <1>1, RunningSame DEF IInv
<1>6. ASSUME NEW v \in Stubs
      PROVE  GateOffset(idt'[v]) = StubAt(v) /\ (idt'[v].flag \div 32) % 4 = (IF v = 128 THEN 3 ELSE 0)
  <2>1. PICK x \in Nat : x = v * 131 + 7
    BY InterruptAssumption DEF Stubs
  <2>2. AddressSpaceSize \in Nat /\ AddressSpaceSize > 0
    BY FieldSizes
  <2>3. x % AddressSpaceSize \in Nat /\ x % AddressSpaceSize < AddressSpaceSize
    BY <2>2, DivMod
  <2>4. PICK off \in Nat : off = StubAt(v) /\ off < AddressSpaceSize
    BY <2>1, <2>3 DEF StubAt
  <2>5. PICK flag : flag = Flag(v)
    OBVIOUS
  <2>6. idt'[v] = IDT_entry_set(off, KERNEL_CODE_SELECTOR, flag)
    BY <1>1, <2>4, <2>5
  <2>7. GateOffset(idt'[v]) = off /\ idt'[v].flag = flag
    BY <2>4, <2>6, GateExact
  <2>8. (flag \div 32) % 4 = (IF v = 128 THEN 3 ELSE 0)
    <3>1. CASE v = 128
      <4>1. flag = 238
        BY <2>5, <3>1 DEF IDT_FLAG
      <4>2. (238 \div 32) % 4 = 3
        OBVIOUS
      <4> QED BY <3>1, <4>1, <4>2
    <3>2. CASE v # 128
      <4>1. flag = 142
        BY <2>5, <3>2 DEF IDT_FLAG
      <4>2. (142 \div 32) % 4 = 0
        OBVIOUS
      <4> QED BY <3>2, <4>1, <4>2
    <3> QED BY <3>1, <3>2
  <2> QED BY <2>4, <2>7, <2>8
<1>7. DescriptorsExact'
  <2>1. gdt' = gdt /\ tss' = tss
    BY <1>1
  <2>2. DescriptorsExact
    BY DEF IInv
  <2>3. \A v \in DOMAIN idt' : GateOffset(idt'[v]) = StubAt(v)
                               /\ (idt'[v].flag \div 32) % 4 = (IF v = 128 THEN 3 ELSE 0)
    BY <1>3, <1>6
  <2> QED BY <2>1, <2>2, <2>3 DEF DescriptorsExact, SegmentBase, SegmentLimit, SegmentFlag, GateOffset, StubAt
<1> QED BY <1>1, <1>2, <1>4, <1>5, <1>7 DEF IInv

\* The handlers of the timer and the keyboard; then interrupts are enabled.
LEMMA RegisterStep ==
  ASSUME IInv, Register
  PROVE  IInv'
<1>1. /\ stage = "register"
      /\ UNCHANGED <<tss, gdt, idt, bios, a, pic, imr, isr, cur, todo, int_no, panic>>
  BY DEF Register, picvars
<1>2. DescriptorsExact'
  BY <1>1, TablesSame DEF IInv
<1>3. \/ /\ stage' = "register" /\ intr' = intr
         /\ \E n \in {32, 33}, h \in {"timer_tick", "isr_kbd"} : isr_callback_table' = Registered(n, h)
      \/ stage' = "run" /\ intr' = TRUE /\ isr_callback_table' = isr_callback_table
  BY <1>1 DEF Register, Go, ISR_GET_NUM_BY_IRQ
<1>4. CASE stage' = "register" /\ intr' = intr
           /\ \E n \in {32, 33}, h \in {"timer_tick", "isr_kbd"} : isr_callback_table' = Registered(n, h)
  <2>1. Remapped'
    BY <1>1, <1>4 DEF IInv, Remapped, Controllers, Modes
  <2>2. Filled'
    <3>1. PICK n \in {32, 33}, h \in {"timer_tick", "isr_kbd"} : isr_callback_table' = Registered(n, h)
      BY <1>4
    <3>2. isr_callback_table' \in [Vectors -> {"none", "isr_unhandled", "timer_tick", "isr_kbd"}]
      BY <3>1 DEF Registered, IInv, Filled
    <3>3. \A v \in Vectors : v \notin {32, 33} => isr_callback_table'[v] = isr_callback_table[v]
      BY <3>1 DEF Registered, IInv, Filled
    <3>4. \A v \in Vectors : v \notin {32, 33} => isr_callback_table[v] = "isr_unhandled"
      BY <1>1 DEF IInv, Filled
    <3>5. DOMAIN idt' = Stubs
      BY <1>1 DEF IInv, Filled
    <3> QED BY <1>4, <3>2, <3>3, <3>4, <3>5 DEF Filled, Stubs
  <2>3. Running'
    BY <1>1, <1>4, RunningSame DEF IInv
  <2> QED BY <1>2, <1>4, <2>1, <2>2, <2>3 DEF IInv
<1>5. CASE stage' = "run" /\ intr' = TRUE /\ isr_callback_table' = isr_callback_table
  <2>1. Remapped'
    BY <1>1, <1>5 DEF IInv, Remapped, Controllers, Modes
  <2>2. Filled'
    BY <1>1, <1>5 DEF IInv, Filled, Stubs
  <2>3. Running'
    BY <1>1, <1>5 DEF IInv, Running
  <2> QED BY <1>2, <1>5, <2>1, <2>2, <2>3 DEF IInv
<1> QED BY <1>3, <1>4, <1>5

----------------------------------------------------------------------------
(***************************************************************************)
(* Interrupts keep it.                                                     *)
(***************************************************************************)

\* Steps that leave the tables and the masks alone.
LEMMA SetupSame ==
  ASSUME IInv, UNCHANGED <<stage, k, tss, gdt, idt, isr_callback_table, bios, a, pic, imr>>
  PROVE  Remapped' /\ Filled' /\ DescriptorsExact'
<1>1. Remapped'
  BY DEF IInv, Remapped, Controllers, Modes, ModeAt, MaskAt
<1>2. Filled'
  BY DEF IInv, Filled, Stubs
<1>3. DescriptorsExact'
  BY TablesSame DEF IInv
<1> QED BY <1>1, <1>2, <1>3

\* Interrupts are enabled only between handlers.
LEMMA WhenEnabled ==
  ASSUME IInv, intr
  PROVE  /\ stage = "run" /\ panic = "none" /\ isr = {} /\ todo[cur] = <<>>
         /\ \A t \in Tasks : todo[t] = <<>>
         /\ imr = bios /\ pic[1].offset = 32 /\ pic[2].offset = 40 /\ DOMAIN idt = Stubs
<1>1. stage = "run"
  BY DEF IInv, Running
<1>2. panic = "none" /\ isr = {} /\ todo[cur] = <<>>
  BY <1>1 DEF IInv, Running
<1>3. \A t \in Tasks : todo[t] = <<>>
  BY <1>2 DEF IInv, Running
<1>4. imr = bios /\ pic[1].offset = 32 /\ pic[2].offset = 40
  BY <1>1 DEF IInv, Remapped
<1>5. DOMAIN idt = Stubs
  BY <1>1 DEF IInv, Filled
<1> QED BY <1>1, <1>2, <1>3, <1>4, <1>5

\* A vector of a controller reaches a handler that ends the interrupt, an
\* exception does not come back.
LEMMA HandlerOf ==
  ASSUME IInv, intr, NEW v \in Vectors
  PROVE  /\ v \in 32 .. 47 => Effects(v) \in {Timer, Kbd, Eoi}
         /\ v \in Exceptions => Effects(v) = Fatal
<1>1. \A u \in Vectors : u \notin {32, 33} => isr_callback_table[u] = "isr_unhandled"
  BY WhenEnabled DEF IInv, Filled
<1>2. ASSUME v \in 32 .. 47 PROVE Effects(v) \in {Timer, Kbd, Eoi}
  BY <1>2 DEF Effects, timer_tick, isr_kbd, isr_unhandled, Timer, Kbd, Eoi
<1>3. ASSUME v \in Exceptions PROVE Effects(v) = Fatal
  <2>1. v \in 0 .. 31
    BY <1>3, InterruptAssumption
  <2>2. isr_callback_table[v] = "isr_unhandled"
    BY <1>1, <2>1
  <2>3. ~(v >= 32 /\ v <= 47)
    BY <2>1
  <2> QED BY <2>2, <2>3 DEF Effects, isr_unhandled, Fatal
<1> QED BY <1>2, <1>3

\* The processor takes vector v while S comes into service.
LEMMA Entered ==
  ASSUME IInv, intr, NEW v \in Stubs, Enter(v), stage' = stage,
         (v \in 32 .. 47 /\ Serving(v, isr')) \/ v \in Exceptions
  PROVE  Running' /\ intr' \in BOOLEAN
<1>1. stage = "run" /\ panic = "none" /\ (\A t \in Tasks : todo[t] = <<>>) /\ v \in DOMAIN idt
  BY WhenEnabled
<1>2. /\ cur \in Tasks /\ todo \in [Tasks -> {<<>>, Timer, Kbd, Eoi, Schedule, Fatal}]
      /\ int_no \in [Tasks -> Nat]
  BY DEF IInv, Running
<1>3. v \in Vectors /\ v \in Nat
  BY InterruptAssumption DEF Stubs
<1>4. PICK prog : prog = Effects(v)
  OBVIOUS
<1>5. /\ intr' = FALSE /\ cur' = cur /\ panic' = panic
      /\ int_no' = [int_no EXCEPT ![cur] = v] /\ todo' = [todo EXCEPT ![cur] = prog]
  BY <1>1, <1>4 DEF Enter
<1>6. (v \in 32 .. 47 => prog \in {Timer, Kbd, Eoi}) /\ (v \in Exceptions => prog = Fatal)
  BY <1>3, <1>4, HandlerOf
<1>7. prog \in {Timer, Kbd, Eoi, Fatal}
  BY <1>6
<1>8. /\ todo' \in [Tasks -> {<<>>, Timer, Kbd, Eoi, Schedule, Fatal}]
      /\ int_no' \in [Tasks -> Nat] /\ todo'[cur] = prog /\ int_no'[cur] = v
      /\ \A t \in Tasks : t # cur' => todo'[t] = <<>>
  BY <1>1, <1>2, <1>3, <1>5, <1>7
<1>9. CASE v \in 32 .. 47 /\ Serving(v, isr')
  <2>1. todo'[cur'] \in {Timer, Kbd, Eoi}
    BY <1>5, <1>6, <1>8, <1>9
  <2>2. Serving(int_no[cur], isr)'
    BY <1>5, <1>8, <1>9 DEF Serving
  <2> QED BY <1>1, <1>2, <1>5, <1>8, <2>1, <2>2 DEF Running
<1>10. CASE v \in Exceptions
  BY <1>1, <1>2, <1>5, <1>6, <1>8, <1>10 DEF Running
<1> QED BY <1>5, <1>9, <1>10

\* Which lines a controller asks for.
LEMMA AskingLines ==
  ASSUME NEW S, NEW c, NEW l \in Asking(S, c)
  PROVE  l \in ChipLines(c)
BY DEF Asking

\* The vectors the controllers send have gates.
LEMMA VectorsSent ==
  ASSUME NEW l \in Lines \cup {7, 15}
  PROVE  32 + l \in Stubs /\ 32 + l \in 32 .. 47
<1>1. l \in 0 .. 15
  BY InterruptAssumption
<1>2. 32 + l \in Vectors
  BY InterruptAssumption
<1>3. 32 + l \in 0 .. 47 /\ 32 + l \in 32 .. 47
  BY <1>1
<1> QED BY <1>2, <1>3 DEF Stubs

\* An interrupt is delivered.
LEMMA DeliverStep ==
  ASSUME IInv, NEW l \in Lines, Deliver(l)
  PROVE  IInv'
<1>1. /\ intr /\ UNCHANGED <<stage, k, tss, gdt, idt, isr_callback_table, bios, a, pic, imr>>
  BY DEF Deliver, tables
<1>2. isr = {} /\ pic[1].offset = 32 /\ pic[2].offset = 40
  BY <1>1, WhenEnabled
<1>3. Remapped' /\ Filled' /\ DescriptorsExact'
  BY <1>1, SetupSame
<1>4. 32 + l \in Stubs /\ 32 + l \in 32 .. 47 /\ l \in Nat
  BY VectorsSent, InterruptAssumption
<1>5. PICK v \in Stubs : v = 32 + l
  BY <1>4
<1>6. v \in 32 .. 47
  BY <1>4, <1>5
<1>7. Enter(v) /\ Serving(v, isr')
  <2>1. CASE l \in MasterAsking /\ isr' = isr \cup {l} /\ Enter(pic[1].offset + l)
    <3>1. l \in ChipLines(1)
      BY <2>1, AskingLines DEF MasterAsking
    <3>2. l \in 0 .. 7
      BY <3>1 DEF ChipLines
    <3>3. v \in 32 .. 39
      BY <1>5, <3>2
    <3>4. isr' = {l}
      BY <1>2, <2>1
    <3> QED BY <1>2, <1>5, <2>1, <3>2, <3>3, <3>4 DEF Serving
  <2>2. CASE l \in SlaveAsking /\ isr' = isr \cup {Cascade, l} /\ Enter(pic[2].offset + l - 8)
    <3>1. l \in ChipLines(2)
      BY <2>2, AskingLines DEF SlaveAsking
    <3>2. l \in 8 .. 15
      BY <3>1 DEF ChipLines
    <3>3. v \in 40 .. 47 /\ pic[2].offset + l - 8 = v
      BY <1>2, <1>5, <3>2
    <3>4. isr' = {Cascade, l}
      BY <1>2, <2>2
    <3> QED BY <2>2, <3>2, <3>3, <3>4 DEF Serving
  <2> QED BY <2>1, <2>2 DEF Deliver
<1>8. Running' /\ intr' \in BOOLEAN
  BY <1>1, <1>6, <1>7, Entered
<1> QED BY <1>1, <1>3, <1>8 DEF IInv

\* A spurious one is.
LEMMA SpuriousStep ==
  ASSUME IInv, NEW l \in Lines, Spurious(l)
  PROVE  IInv'
<1>1. /\ intr /\ UNCHANGED <<stage, k, tss, gdt, idt, isr_callback_table, bios, a, pic, imr>>
  BY DEF Spurious, tables
<1>2. isr = {} /\ pic[1].offset = 32 /\ pic[2].offset = 40
  BY <1>1, WhenEnabled
<1>3. Remapped' /\ Filled' /\ DescriptorsExact'
  BY <1>1, SetupSame
<1>4. PICK v \in Stubs : v \in 32 .. 47 /\ Enter(v) /\ Serving(v, isr')
  <2>1. CASE Enter(pic[1].offset + 7) /\ isr' = isr
    <3>1. PICK n \in Lines \cup {7, 15} : n = 7
      OBVIOUS
    <3>2. 32 + n \in Stubs
      BY VectorsSent
    <3>3. PICK v \in Stubs : v = 39
      BY <3>1, <3>2
    <3>4. Enter(v)
      BY <1>2, <2>1, <3>3
    <3>5. v \in 32 .. 47 /\ Serving(v, isr')
      BY <1>2, <2>1, <3>3 DEF Serving
    <3> QED BY <3>4, <3>5
  <2>2. CASE Enter(pic[2].offset + 7) /\ isr' = isr \cup {Cascade}
    <3>1. PICK n \in Lines \cup {7, 15} : n = 15
      OBVIOUS
    <3>2. 32 + n \in Stubs
      BY VectorsSent
    <3>3. PICK v \in Stubs : v = 47
      BY <3>1, <3>2
    <3>4. Enter(v)
      BY <1>2, <2>2, <3>3
    <3>5. isr' = {Cascade}
      BY <1>2, <2>2
    <3>6. v \in 32 .. 47 /\ v \in 40 .. 47
      BY <3>3
    <3> QED BY <3>4, <3>5, <3>6 DEF Serving
  <2> QED BY <2>1, <2>2 DEF Spurious
<1>5. Running' /\ intr' \in BOOLEAN
  BY <1>1, <1>4, Entered
<1> QED BY <1>1, <1>3, <1>5 DEF IInv

\* An exception is raised.
LEMMA ExceptionStep ==
  ASSUME IInv, NEW v \in Exceptions, Exception(v)
  PROVE  IInv'
<1>1. /\ intr /\ UNCHANGED <<stage, k, tss, gdt, idt, isr_callback_table, bios, a, pic, imr>> /\ Enter(v)
  BY DEF Exception, tables, picvars
<1>2. Remapped' /\ Filled' /\ DescriptorsExact'
  BY <1>1, SetupSame
<1>3. v \in Stubs
  BY InterruptAssumption DEF Stubs
<1>4. Running' /\ intr' \in BOOLEAN
  BY <1>1, <1>3, Entered
<1> QED BY <1>1, <1>2, <1>4 DEF IInv

\* The next effect of a handler.
LEMMA HandlerIInv ==
  ASSUME IInv, HandlerStep
  PROVE  IInv'
<1>1. /\ todo[cur] # <<>> /\ panic = "none" /\ int_no' = int_no
      /\ UNCHANGED <<stage, k, tss, gdt, idt, isr_callback_table, bios, a>>
  BY DEF HandlerStep, tables
<1>2. /\ cur \in Tasks /\ todo \in [Tasks -> {<<>>, Timer, Kbd, Eoi, Schedule, Fatal}]
      /\ int_no \in [Tasks -> Nat]
      /\ \A t \in Tasks : t # cur => todo[t] = <<>>
  BY DEF IInv, Running
<1>3. stage = "run" /\ ~intr
  BY <1>1 DEF IInv, Running
<1>4. \/ todo[cur] \in {Timer, Kbd, Eoi} /\ Serving(int_no[cur], isr)
      \/ todo[cur] = Schedule /\ isr = {}
      \/ todo[cur] = Fatal /\ int_no[cur] \in Exceptions
  BY <1>1, <1>3 DEF IInv, Running
<1>5. UNCHANGED <<pic, imr>>
  BY DEF HandlerStep, isr_eoi, picvars
<1>6. Remapped' /\ Filled' /\ DescriptorsExact'
  BY <1>1, <1>5, SetupSame
<1>7. Running' /\ intr' \in BOOLEAN
  <2>1. CASE Head(todo[cur]) = "eoi" /\ isr_eoi(int_no[cur]) /\ Continue(Tail(todo[cur])) /\ panic' = panic
    <3>1. todo[cur] \in {Timer, Eoi}
      BY <1>4, <2>1, Programs
    <3>2. Serving(int_no[cur], isr)
      BY <1>4, <3>1, Programs DEF Timer, Eoi, Schedule, Fatal
    <3>3. PICK v \in Nat : v = int_no[cur]
      BY <1>2
    <3>4. isr' = {}
      <4>1. CASE v \in 32 .. 39 /\ (isr = {} \/ \E l \in 0 .. 7 : isr = {l})
        <5>1. ~ToSlave(v)
          BY <4>1 DEF ToSlave
        <5>2. isr' = EndOfInterrupt(1, isr)
          BY <2>1, <3>3, <5>1 DEF isr_eoi
        <5> QED BY <4>1, <5>2, EndsMaster
      <4>2. CASE v \in 40 .. 47 /\ (isr = {Cascade} \/ \E l \in 8 .. 15 : isr = {Cascade, l})
        <5>1. ToSlave(v)
          BY <4>2 DEF ToSlave
        <5>2. isr' = EndOfInterrupt(1, EndOfInterrupt(2, isr))
          BY <2>1, <3>3, <5>1 DEF isr_eoi
        <5> QED BY <4>2, <5>2, EndsBoth
      <4> QED BY <3>2, <3>3, <4>1, <4>2 DEF Serving
    <3>5. PICK rest : rest = Tail(todo[cur])
      OBVIOUS
    <3>6. rest \in {<<>>, Schedule}
      BY <3>1, <3>5, Programs
    <3>7. todo' = [todo EXCEPT ![cur] = rest] /\ intr' = (rest = <<>>) /\ cur' = cur /\ panic' = "none"
      BY <1>1, <2>1, <3>5 DEF Continue
    <3>8. /\ todo' \in [Tasks -> {<<>>, Timer, Kbd, Eoi, Schedule, Fatal}] /\ todo'[cur] = rest
          /\ \A t \in Tasks : t # cur' => todo'[t] = <<>>
      BY <1>2, <3>6, <3>7
    <3>9. CASE rest = <<>>
      <4>1. intr' = TRUE
        BY <3>7, <3>9
      <4> QED BY <1>1, <1>2, <1>3, <3>4, <3>7, <3>8, <3>9, <4>1 DEF Running
    <3>10. CASE rest = Schedule
      <4>1. intr' = FALSE
        BY <3>7, <3>10, Programs
      <4> QED BY <1>1, <1>2, <1>3, <3>4, <3>7, <3>8, <3>10, <4>1 DEF Running
    <3> QED BY <3>6, <3>9, <3>10
  <2>2. CASE Head(todo[cur]) = "read" /\ Continue(Tail(todo[cur])) /\ isr' = isr /\ panic' = panic
    <3>1. todo[cur] = Kbd
      BY <1>4, <2>2, Programs
    <3>2. Serving(int_no[cur], isr)
      BY <1>4, <3>1 DEF Kbd, Schedule, Fatal
    <3>3. todo' = [todo EXCEPT ![cur] = Eoi] /\ intr' = FALSE /\ cur' = cur /\ panic' = "none"
      BY <1>1, <2>2, <3>1, Programs DEF Continue
    <3>4. /\ todo' \in [Tasks -> {<<>>, Timer, Kbd, Eoi, Schedule, Fatal}] /\ todo'[cur] = Eoi
          /\ \A t \in Tasks : t # cur' => todo'[t] = <<>>
      BY <1>2, <3>3
    <3>5. Serving(int_no[cur], isr)'
      BY <1>1, <2>2, <3>2, <3>3 DEF Serving
    <3> QED BY <1>1, <1>2, <1>3, <3>3, <3>4, <3>5 DEF Running
  <2>3. CASE /\ Head(todo[cur]) = "schedule" /\ todo' = [todo EXCEPT ![cur] = Tail(todo[cur])]
             /\ cur' = (cur + 1) % NTasks /\ intr' = (todo'[cur'] = <<>>) /\ isr' = isr /\ panic' = panic
    <3>1. todo[cur] = Schedule
      BY <1>4, <2>3, Programs
    <3>2. isr = {}
      BY <1>4, <3>1 DEF Timer, Kbd, Eoi, Schedule, Fatal
    <3>3. cur' \in Tasks
      <4>1. PICK x \in Nat : x = cur + 1
        BY <1>2, InterruptAssumption DEF Tasks
      <4>2. NTasks \in Nat /\ NTasks > 0
        BY InterruptAssumption
      <4>3. x % NTasks \in Nat /\ x % NTasks < NTasks
        BY <4>2, DivMod
      <4>4. PICK y \in Nat : y = x % NTasks /\ y < NTasks
        BY <4>3
      <4>5. y \in Tasks
        BY <4>2, <4>4 DEF Tasks
      <4> QED BY <2>3, <4>1, <4>4, <4>5
    <3>4. Tail(Schedule) = <<>>
      BY Programs
    <3>5. todo' = [todo EXCEPT ![cur] = <<>>]
      BY <2>3, <3>1, <3>4
    <3>6. /\ todo' \in [Tasks -> {<<>>, Timer, Kbd, Eoi, Schedule, Fatal}]
          /\ \A t \in Tasks : todo'[t] = <<>>
      BY <1>2, <3>5
    <3>7. intr' = TRUE
      BY <2>3, <3>3, <3>6
    <3> QED BY <1>1, <1>2, <1>3, <2>3, <3>2, <3>3, <3>6, <3>7 DEF Running
  <2>4. CASE Head(todo[cur]) = "panic" /\ panic' = "unhandled interrupt" /\ UNCHANGED <<isr, intr, cur, todo>>
    <3>1. todo[cur] = Fatal
      BY <1>4, <2>4, Programs
    <3>2. int_no[cur] \in Exceptions
      BY <1>4, <3>1 DEF Timer, Kbd, Eoi, Schedule, Fatal
    <3>3. intr' \in BOOLEAN
      BY <2>4 DEF IInv
    <3>4. Running'
      BY <1>1, <1>2, <1>3, <2>4, <3>1, <3>2 DEF Running
    <3> QED BY <3>3, <3>4
  <2> QED BY <2>1, <2>2, <2>3, <2>4 DEF HandlerStep, picvars
<1> QED BY <1>1, <1>6, <1>7 DEF IInv

\* Steps of a device.
LEMMA DeviceStep ==
  ASSUME IInv, UNCHANGED <<stage, k, tables, bios, a, pic, imr, isr, cpu, panic>>
  PROVE  IInv'
<1>1. UNCHANGED <<stage, k, tss, gdt, idt, isr_callback_table, bios, a, pic, imr>>
  BY DEF tables
<1>2. UNCHANGED <<stage, isr, intr, cur, todo, int_no, panic>>
  BY DEF cpu
<1>3. Remapped' /\ Filled' /\ DescriptorsExact'
  BY <1>1, SetupSame
<1>4. Running'
  BY <1>2 DEF IInv, Running, Serving
<1> QED BY <1>2, <1>3, <1>4 DEF IInv

\* Every step keeps the invariant.
LEMMA NextIInv == IInv /\ [Next]_vars => IInv'
<1> SUFFICES ASSUME IInv, [Next]_vars PROVE IInv'
  OBVIOUS
<1>1. CASE Setup
  BY <1>1, GdtStep, CallbacksStep, RemapStep, GatesStep, RegisterStep DEF Setup
<1>2. CASE HandlerStep
  BY <1>2, HandlerIInv
<1>3. CASE Key
  BY <1>3, DeviceStep DEF Key
<1>4. CASE \E v \in Exceptions : Exception(v)
  BY <1>4, ExceptionStep
<1>5. CASE \E l \in Lines : Deliver(l) \/ Spurious(l) \/ Raise(l)
  <2>1. PICK l \in Lines : Deliver(l) \/ Spurious(l) \/ Raise(l)
    BY <1>5
  <2>2. CASE Raise(l)
    BY <2>2, DeviceStep DEF Raise
  <2> QED BY <2>1, <2>2, DeliverStep, SpuriousStep
<1>6. CASE UNCHANGED vars
  BY <1>6, DeviceStep DEF vars, picvars
<1> QED BY <1>1, <1>2, <1>3, <1>4, <1>5, <1>6 DEF Next

----------------------------------------------------------------------------
(***************************************************************************)
(* Theorems.                                                               *)
(***************************************************************************)

\* The inductive invariant holds in every behaviour.
THEOREM Invariance == Spec => []IInv
<1>1. Init => IInv
  BY InitIInv
<1>2. IInv /\ [Next]_vars => IInv'
  BY NextIInv
<1> QED BY <1>1, <1>2, PTL DEF Spec

\* Whenever interrupts are enabled no line is in service: whatever vector the
\* controllers send, spurious ones included, isr_eoi has ended it on the
\* controllers that had it in service, before timer_tick switches tasks.
THEOREM EndsEveryInterrupt == Spec => []EoiExact
<1>1. IInv => EoiExact
  BY WhenEnabled DEF EoiExact
<1> QED BY <1>1, Invariance, PTL

\* Hardware interrupts never panic, they find their gates and handlers, and
\* remap_PIC gives back the mask the BIOS had left.
THEOREM RemapsExactly == Spec => []RemapExact
<1>1. ASSUME IInv PROVE RemapExact
  <2>1. panic # "none" => int_no[cur] \in Exceptions
    BY <1>1 DEF IInv, Running
  <2>2. stage \in {"gates", "register", "run"} => imr = bios
    BY <1>1 DEF IInv, Remapped
  <2> QED BY <2>1, <2>2 DEF RemapExact
<1> QED BY <1>1, Invariance, PTL

\* The processor reads from segment descriptors and gates what the calls of
\* set() said, for every size of a byte, every address and size of the TSS
\* and every stub.
THEOREM DescriptorsReadBack == Spec => []DescriptorsExact
<1>1. IInv => DescriptorsExact
  BY DEF IInv
<1> QED BY <1>1, Invariance, PTL
=============================================================================
