-------------------------------- MODULE Klog --------------------------------
(***************************************************************************)
(* The kernel console of JKOS (core/klog.cpp): text video memory, cursor   *)
(* position and colour stack, with the calls of the kernel as actions.  A  *)
(* call is one step: system calls run with interrupts off, and nothing but *)
(* an unhandled interrupt could print while kmain does.                    *)
(***************************************************************************)
EXTENDS Format

CONSTANTS
  NCOL, NROW, COLOR_STACK_SIZE,
  Colors,        \* bound: pairs of colours that callers push
  Formats,       \* bound: formats of printf and log
  Probes         \* bound: formats the properties ask about in every state

\* The hardware cursor has 16 bits.
ASSUME KlogAssumption ==
  /\ {NCOL, NROW} \subseteq Nat \ {0} /\ NCOL * NROW <= 65536
  /\ COLOR_STACK_SIZE \in Nat /\ COLOR_STACK_SIZE > 1
  /\ Colors \subseteq Int \X Int
  /\ \A f \in Formats \cup Probes : f \in Seq(Items)

VARIABLE con     \* the console, a record of Consoles

Positions == 0 .. NCOL * NROW - 1

BLACK == 0
LIGHT_GRAY == 7
LIGHT_BLUE == 9

\* isprint of lib/ctype.h.
isprint(ch) == ch >= Space /\ ch <= 126

----------------------------------------------------------------------------
(***************************************************************************)
(* The colour stack.                                                       *)
(***************************************************************************)

\* The attribute byte of a pair of colours.
Attribute(c, fore, back) ==
  IF c.mono THEN IF fore = back THEN 0 ELSE 7 ELSE back * 16 + fore

push_color(c, fore, back) ==
  LET kept == IF Len(c.colors) = COLOR_STACK_SIZE
              THEN SubSeq(c.colors, 1, COLOR_STACK_SIZE - 1) ELSE c.colors
  IN  [c EXCEPT !.colors = Append(kept, Attribute(c, fore, back))]

\* Mutant of pop_color: if (ncolor_stack > 2).
pop_color_two(c) ==
  IF Len(c.colors) > 2 THEN [c EXCEPT !.colors = SubSeq(@, 1, Len(@) - 1)] ELSE c

pop_color(c) ==
  IF Len(c.colors) > 1 THEN [c EXCEPT !.colors = SubSeq(@, 1, Len(@) - 1)] ELSE c

Top(c) == c.colors[Len(c.colors)]

----------------------------------------------------------------------------
(***************************************************************************)
(* The screen.                                                             *)
(***************************************************************************)
Blank(c) == [ch |-> Space, color |-> Top(c)]

cls(c) == [c EXCEPT !.x = 0, !.y = 0, !.video = [p \in Positions |-> Blank(c)]]

\* Mutant of Scrolled: bsize counts all rows, and the last row stays.
ScrolledAll(c) ==
  [c EXCEPT !.y = NROW - 1,
            !.video = [p \in Positions |-> IF p + NCOL \in Positions THEN c.video[p + NCOL]
                                           ELSE c.video[p]]]

\* The last row is left below: every row moves up, a blank one follows.
Scrolled(c) ==
  [c EXCEPT !.y = NROW - 1,
            !.video = [p \in Positions |-> IF p < (NROW - 1) * NCOL THEN c.video[p + NCOL]
                                           ELSE Blank(c)]]

AtLineEnd(c, ch) == ch = LF \/ c.x = NCOL

\* The end of putc.
LineEnded(c, ch) ==
  LET d == [c EXCEPT !.x = 0, !.y = c.y + 1] IN
  IF ~AtLineEnd(c, ch) THEN c ELSE IF d.y = NROW THEN Scrolled(d) ELSE d

putc(c, ch) ==
  IF ~isprint(ch) /\ ch # CR /\ ch # LF THEN c
  ELSE IF ch = CR THEN [c EXCEPT !.x = 0]
  ELSE IF ch = LF THEN LineEnded(c, ch)
  ELSE LineEnded([c EXCEPT !.video[c.x + c.y * NCOL] = [ch |-> ch, color |-> Top(c)],
                           !.x = c.x + 1], ch)

\* Both registers of the hardware cursor.
move_cursor(c) ==
  LET pos == c.y * NCOL + c.x IN [c EXCEPT !.cursor = <<(pos \div 256) % 256, pos % 256>>]

puts(c, s) ==
  LET upto[j \in 0 .. Len(s)] == IF j = 0 THEN c ELSE putc(upto[j - 1], s[j])
  IN  move_cursor(upto[Len(s)])

\* Klog::printf.
printf(c, fmt) == puts(c, Joined(vprintf(fmt)))

\* "[debug] ", "[info] " and "[error] ", by their first letters.
LEVEL_STR == [DEBUG |-> <<91, 100, 93>>, INFO |-> <<91, 105, 93>>, ERROR |-> <<91, 101, 93>>]

log(c, level, fmt) ==
  LET prefixed == pop_color(puts(push_color(c, LIGHT_BLUE, BLACK), LEVEL_STR[level]))
  IN  puts(printf(prefixed, fmt), <<LF>>)

\* Klog::init; mono is what the BIOS data area says, and video memory and the
\* cursor are as the boot loader left them.  "color" or "monochrome" is
\* printed by its first letter.
initialized(mono) ==
  LET c == [mono |-> mono, colors |-> <<>>, x |-> 0, y |-> 0, cursor |-> <<0, 0>>,
            video |-> [p \in Positions |-> [ch |-> Space, color |-> 0]]]
  IN  printf(cls(push_color(c, LIGHT_GRAY, BLACK)),
             <<Str(IF mono THEN <<109>> ELSE <<99>>), Lit(LF)>>)

----------------------------------------------------------------------------
KlogInit == \E mono \in BOOLEAN : con = initialized(mono)

\* Any call of the kernel.
KlogCall ==
  \/ \E f \in Formats : con' = printf(con, f)
  \/ \E level \in DOMAIN LEVEL_STR, f \in Formats : con' = log(con, level, f)
  \/ \E p \in Colors : con' = push_color(con, p[1], p[2])
  \/ con' = pop_color(con)
  \/ con' = cls(con)

----------------------------------------------------------------------------
(***************************************************************************)
(* Properties.                                                             *)
(***************************************************************************)

\* A paper roll without an end: rows are numbered from the top of the screen
\* and never move.
Roll(c) == [x |-> c.x, y |-> c.y, ink |-> [p \in Positions |-> c.video[p]]]

\* One character on the roll.
Typed(r, ch, color) ==
  LET at == r.x + r.y * NCOL
      ink == [p \in DOMAIN r.ink \cup {at} |-> IF p = at THEN [ch |-> ch, color |-> color]
                                              ELSE r.ink[p]]
      inked == [r EXCEPT !.x = @ + 1, !.ink = ink]
  IN  CASE ch = LF                        -> [r EXCEPT !.x = 0, !.y = @ + 1]
        [] ch = CR                        -> [r EXCEPT !.x = 0]
        [] isprint(ch) /\ r.x < NCOL - 1  -> inked
        [] isprint(ch) /\ r.x >= NCOL - 1 -> [inked EXCEPT !.x = 0, !.y = @ + 1]
        [] OTHER                          -> r

\* The rows of the roll that end with the cursor's, or the first NROW; what
\* has never been written there is blank.
Shown(r, color) ==
  LET above == IF r.y < NROW THEN 0 ELSE r.y - (NROW - 1)
      at(p) == p + above * NCOL
  IN  [p \in Positions |-> IF at(p) \in DOMAIN r.ink THEN r.ink[at(p)]
                           ELSE [ch |-> Space, color |-> color]]

\* The roll behind text that is written in one colour.
Behind(r, text, color) ==
  LET upto[j \in 0 .. Len(text)] == IF j = 0 THEN r ELSE Typed(upto[j - 1], text[j], color)
  IN  upto[Len(text)]

TextOf(fmt) ==
  LET upto[j \in 0 .. Len(fmt)] == IF j = 0 THEN <<>> ELSE upto[j - 1] \o Written(fmt[j])
  IN  upto[Len(fmt)]

\* printf leaves on the screen the tail of the text as it stands on the roll,
\* whatever the text and wherever the cursor was: wrapping, scrolling several
\* times in a call, carriage returns and characters that do not print
\* included.  Numbers are written as their numerals, down to the least int,
\* and the hardware cursor follows.
ScreenExact ==
  \A f \in Probes :
    LET r == Behind(Roll(con), TextOf(f), Top(con))
        d == printf(con, f)
    IN  /\ d.video = Shown(r, Top(con))
        /\ d.x = r.x /\ d.x < NCOL
        /\ d.y = (IF r.y < NROW THEN r.y ELSE NROW - 1)
        /\ d.cursor[1] * 256 + d.cursor[2] = d.y * NCOL + d.x

\* A line of the log changes the colour of nothing behind it: pushing a
\* colour, as log, panic and the heap's debug output do, and popping it again
\* gives back the colour that was in force, unless the stack was full, when
\* the colour pushed has replaced it and the one below comes back.
LogKeepsColor ==
  \A level \in DOMAIN LEVEL_STR, f \in Formats :
    LET n == Len(con.colors) IN
    log(con, level, f).colors =
      IF n < COLOR_STACK_SIZE THEN con.colors ELSE SubSeq(con.colors, 1, n - 1)
=============================================================================
