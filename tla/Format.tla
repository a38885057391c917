------------------------------- MODULE Format -------------------------------
(***************************************************************************)
(* The conversions of Klog::vprintf (core/klog.cpp) and of its copy in the *)
(* user program (initrd.cpp).  A character is its code.  A format is a     *)
(* sequence of items: a literal character, or a conversion with the        *)
(* argument va_arg yields for it.  An item's result is a sequence of       *)
(* pieces, one for each string the code hands on.                          *)
(*                                                                         *)
(* Integers have Nibbles * 4 bits (32 in the kernel).  %f, which nothing   *)
(* uses, and unknown conversions are left out.                             *)
(***************************************************************************)
EXTENDS Integers, Sequences

CONSTANT Nibbles

ASSUME FormatAssumption == Nibbles \in Nat \ {0}

\* b to the power of k.
Power(b, k) ==
  LET up[j \in Nat] == IF j = 0 THEN 1 ELSE b * up[j - 1] IN up[k]

Wrap == Power(16, Nibbles)

LF == 10
CR == 13
Space == 32
Percent == 37
Minus == 45

\* A literal character, a conversion of a number, and %s of a string; the
\* number of %s is the pointer.
Lit(ch) == [conv |-> "lit", n |-> ch, s |-> <<>>]

Num(conv, n) == [conv |-> conv, n |-> n, s |-> <<>>]

Str(s) == [conv |-> "s", n |-> 1, s |-> s]

NullStr == [conv |-> "s", n |-> 0, s |-> <<>>]

\* Items with an argument of the type that va_arg is told.
Items ==
  {item \in [conv : {"lit", "s", "x", "u", "d", "c", "%", "p"}, n : Int, s : Seq(Int)] :
     /\ item.conv \in {"x", "u", "p"} => item.n \in 0 .. Wrap - 1
     /\ item.conv = "d" => item.n \in -(Wrap \div 2) .. Wrap \div 2 - 1}

----------------------------------------------------------------------------
\* '0' + d, or a letter counted from the given one.
Digit(d, ten) == IF d < 10 THEN 48 + d ELSE ten + d - 10

SmallA == 97
BigA == 65

Reversed(s) == [j \in 1 .. Len(s) |-> s[Len(s) + 1 - j]]

\* The loop of u2s: the digits of n, lowest first.
LowDigits(n, base) ==
  LET ret[m \in Nat] == IF m = 0 THEN <<>>
                        ELSE <<Digit(m % base, SmallA)>> \o ret[m \div base]
  IN  ret[n]

u2s(n, base) == IF n = 0 THEN <<48>> ELSE Reversed(LowDigits(n, base))

\* (char) of an int.
CharOf(n) == ((n + 128) % 256) - 128

\* "(null)"
NullText == <<40, 110, 117, 108, 108, 41>>

\* "#0x" and every nibble of the pointer, the highest one first.
Pointer(val) ==
  <<35, 48, 120>> \o [j \in 1 .. Nibbles |-> Digit((val \div Power(16, Nibbles - j)) % 16, BigA)]

\* What one item of the format hands to putc and to the loop behind the
\* switch.  n = -n of an int is taken modulo its width.
Pieces(item) ==
  CASE item.conv = "lit" -> <<<<item.n>>>>
    [] item.conv = "s"   -> <<IF item.n = 0 THEN NullText ELSE item.s>>
    [] item.conv = "x"   -> <<u2s(item.n, 16)>>
    [] item.conv = "u"   -> <<u2s(item.n, 10)>>
    [] item.conv = "d"   -> IF item.n < 0 THEN <<<<Minus>>, u2s((-item.n) % Wrap, 10)>>
                            ELSE <<u2s(item.n, 10)>>
    [] item.conv = "c"   -> <<IF CharOf(item.n) = 0 THEN <<>> ELSE <<CharOf(item.n)>>>>
    [] item.conv = "%"   -> <<<<Percent>>>>
    [] item.conv = "p"   -> <<Pointer(item.n)>>

\* The strings that a whole format hands on, in order.
vprintf(fmt) ==
  LET upto[j \in 0 .. Len(fmt)] == IF j = 0 THEN <<>> ELSE upto[j - 1] \o Pieces(fmt[j])
  IN  upto[Len(fmt)]

Joined(pieces) ==
  LET upto[j \in 0 .. Len(pieces)] == IF j = 0 THEN <<>> ELSE upto[j - 1] \o pieces[j]
  IN  upto[Len(pieces)]

----------------------------------------------------------------------------
(***************************************************************************)
(* What libc's printf, which klog.h names as the model, writes.            *)
(***************************************************************************)

\* The numeral of n: every digit from its weight, no leading zero.
Numeral(n, base) ==
  LET len == CHOOSE l \in 1 .. 4 * Nibbles : n < Power(base, l) /\ (l = 1 \/ n >= Power(base, l - 1))
  IN  [j \in 1 .. len |-> Digit((n \div Power(base, len - j)) % base, SmallA)]

Signed(n) == IF n < 0 THEN <<Minus>> \o Numeral(-n, 10) ELSE Numeral(n, 10)

Written(item) ==
  CASE item.conv = "d" -> Signed(item.n)
    [] item.conv = "u" -> Numeral(item.n, 10)
    [] item.conv = "x" -> Numeral(item.n, 16)
    [] OTHER           -> Joined(Pieces(item))
=============================================================================
