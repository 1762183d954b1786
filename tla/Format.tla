-------------------------------- MODULE Format --------------------------------
(***************************************************************************)
(* lib/src/str_utils.c and the directives of printf: what a conversion     *)
(* puts in the output buffer.                                              *)
(*                                                                         *)
(* Characters are one-letter strings and a text is a sequence of them.  A  *)
(* directive is what stands between '%' and the conversion letter, already *)
(* split into its parts; a number taken from the argument list is the bit  *)
(* pattern found there, and Bits gives the width of each C type.           *)
(***************************************************************************)
EXTENDS Integers, Sequences, SequencesExt, FiniteSets

CONSTANTS
    Bits,           \* [hh, h, int, l |-> widths of char, short, int, long]
    BUFSZ,          \* size of printf's buf (256)
    NULL            \* the null string

ASSUME FormatAssumption ==
    /\ BUFSZ \in Nat \ {0}
    /\ \A k \in {"hh", "h", "int", "l"} : Bits[k] \in Nat \ {0}

digits_lower == <<"0", "1", "2", "3", "4", "5", "6", "7", "8", "9", "a", "b", "c", "d", "e", "f">>
digits_upper == <<"0", "1", "2", "3", "4", "5", "6", "7", "8", "9", "A", "B", "C", "D", "E", "F">>

Fill(ch, n) == [i \in 1..n |-> ch]
Larger(a, b) == IF a > b THEN a ELSE b

(* The digits come out least significant first and are then reversed. *)
utoa64(num, radix, uppercase) ==
    LET base == IF radix < 2 \/ radix > 16 THEN 10 ELSE radix
        digits == IF uppercase THEN digits_upper ELSE digits_lower
        loop[n \in 0..num] ==
            IF n = 0 THEN <<>> ELSE <<digits[(n % base) + 1]>> \o loop[n \div base]
    IN  IF num = 0 THEN <<"0">> ELSE Reverse(loop[num])

(* Mistake: the one is not added back. *)
MagnitudeShort(num) == IF num < 0 THEN -(num + 1) ELSE num

(* |num| computed without leaving int64_t, so that its minimum works too. *)
Magnitude(num) == IF num < 0 THEN (-(num + 1)) + 1 ELSE num

Prefix(num, radix, flags) ==
    CASE "hash" \notin flags \/ num = 0 -> <<>>
      [] radix = 16 -> <<"0", IF "upper" \in flags THEN "X" ELSE "x">>
      [] radix = 8  -> <<"0">>
      [] radix = 2  -> <<"0", IF "upper" \in flags THEN "B" ELSE "b">>
      [] OTHER -> <<>>

Sign(num, flags) ==
    CASE num < 0 -> <<"-">>
      [] num >= 0 /\ "plus" \in flags -> <<"+">>
      [] num >= 0 /\ "plus" \notin flags /\ "space" \in flags -> <<" ">>
      [] OTHER -> <<>>

(* The part format_unsigned and format_signed share: `lead' is the prefix  *)
(* or the sign, `number' the digits.  Whatever width and precision ask for *)
(* is written (see Overruns).                                              *)
Padded(lead, number, spec) ==
    LET precision == IF spec.precision < 0 THEN 1 ELSE spec.precision
        num_zeros == Larger(precision - Len(number), 0)
        padding == Larger(spec.width - (Len(lead) + Len(number) + num_zeros), 0)
        left == "left" \in spec.flags
        zero_pad == "zero" \in spec.flags /\ ~left /\ spec.precision < 0
        spaces == Fill(" ", IF zero_pad THEN 0 ELSE padding)
        zeros == Fill("0", num_zeros + IF zero_pad THEN padding ELSE 0)
    IN  (IF left THEN <<>> ELSE spaces) \o lead \o zeros \o number \o (IF left THEN spaces ELSE <<>>)

format_unsigned(num, radix, spec) ==
    Padded(Prefix(num, radix, spec.flags), utoa64(num, radix, "upper" \in spec.flags), spec)

format_signed(num, radix, spec) ==
    Padded(Sign(num, spec.flags), utoa64(Magnitude(num), radix, FALSE), spec)

(* At most BUFSZ - 1 characters: every loop stops there. *)
format_string(str, spec) ==
    LET text == IF str = NULL THEN <<"(", "n", "u", "l", "l", ")">> ELSE str
        shown == IF spec.precision >= 0 /\ spec.precision < Len(text)
                 THEN SubSeq(text, 1, spec.precision) ELSE text
        spaces == Fill(" ", Larger(spec.width - Len(shown), 0))
        whole == IF "left" \in spec.flags THEN shown \o spaces ELSE spaces \o shown
    IN  SubSeq(whole, 1, IF Len(whole) < BUFSZ - 1 THEN Len(whole) ELSE BUFSZ - 1)

(***************************************************************************)
(* A directive d: d.flags, d.width and d.precision as written (-1 when     *)
(* absent), d.star when they come from the arguments (and may then be      *)
(* negative), d.length, d.conv, and the argument, a word d.arg or a text   *)
(* d.str.                                                                  *)
(***************************************************************************)

fmt_spec(d) ==
    [flags |-> d.flags \cup (IF d.star /\ d.width < 0 THEN {"left"} ELSE {}),
     width |-> IF d.star THEN (IF d.width < 0 THEN -d.width ELSE d.width)
               ELSE (IF d.width <= 0 THEN -1 ELSE d.width),
     precision |-> IF d.precision < 0 THEN -1 ELSE d.precision]

TypeOf(length) == IF length \in {"hh", "h"} THEN length
                  ELSE IF length \in {"l", "ll", "z"} THEN "l" ELSE "int"

(* va_arg and the cast to the type the length modifier names. *)
UnsignedArg(d) == d.arg % (2 ^ Bits[TypeOf(d.length)])

SignedArg(d) ==
    LET w == Bits[TypeOf(d.length)]
    IN  IF UnsignedArg(d) >= 2 ^ (w - 1) THEN UnsignedArg(d) - (2 ^ w) ELSE UnsignedArg(d)

radix_of == [u |-> 10, x |-> 16, X |-> 16, o |-> 8, b |-> 2, p |-> 16]

Unsigned == {"u", "x", "X", "o", "b"}

(* What the conversion leaves in buf; d.conv = "i" is the case of "d". *)
ConvertUnsigned(d) ==
    LET spec == fmt_spec(d)
    IN  format_unsigned(UnsignedArg(d), radix_of[d.conv],
            [spec EXCEPT !.flags = @ \cup (IF d.conv = "X" THEN {"upper"} ELSE {})])

(* "%p" takes the whole 64-bit word and always shows "0x". *)
ConvertPointer(d) ==
    LET spec == fmt_spec(d)
    IN  format_unsigned(d.arg, 16,
            [spec EXCEPT !.flags = @ \cup {"hash"},
                         !.precision = IF @ < 0 THEN 1 ELSE @])

Convert(d) ==
    CASE d.conv \in {"d", "i"} -> format_signed(SignedArg(d), 10, fmt_spec(d))
      [] d.conv \in Unsigned   -> ConvertUnsigned(d)
      [] d.conv = "p"          -> ConvertPointer(d)
      [] d.conv = "s"          -> format_string(d.str, fmt_spec(d))

Buffered == {"d", "i", "p", "s"} \cup Unsigned

(* format_unsigned and format_signed write every character of the field    *)
(* and the terminating 0 without looking at the size of printf's buf;      *)
(* format_string is given the size.                                        *)
Overruns(d) == d.conv \in Buffered \ {"s"} /\ Len(Convert(d)) >= BUFSZ

(* The spaces "%c" prints itself, before or after the character. *)
CharPadding(d, after) ==
    LET spec == fmt_spec(d)
    IN  IF spec.width > 1 /\ (("left" \in spec.flags) = after)
        THEN Fill(" ", spec.width - 1) ELSE <<>>

(***************************************************************************)
(* The contract of a number's field, stated without the way it is built.   *)
(***************************************************************************)
ValueOf(digits, radix) ==
    FoldLeft(LAMBDA n, ch : (n * radix)
        + ((SelectInSeq(digits_lower \o digits_upper, LAMBDA e : e = ch) - 1) % 16),
             0, digits)

Wanted(d) ==
    [value |-> IF d.conv \in {"d", "i"} THEN SignedArg(d)
               ELSE IF d.conv = "p" THEN d.arg ELSE UnsignedArg(d),
     radix |-> IF d.conv \in {"d", "i"} THEN 10 ELSE radix_of[d.conv],
     width |-> IF d.star /\ d.width < 0 THEN -d.width ELSE d.width,
     left  |-> "left" \in d.flags \/ (d.star /\ d.width < 0)]

(* Some decomposition of the text into spaces, sign or prefix, zeros,      *)
(* digits and spaces fits the directive.                                   *)
IsField(text, d) ==
    LET w == Wanted(d)
        lead == IF d.conv \in {"d", "i"} THEN Sign(w.value, d.flags)
                ELSE IF w.value # 0 /\ ("hash" \in d.flags \/ d.conv = "p")
                     THEN CASE d.conv \in {"x", "p"} -> <<"0", "x">>
                            [] d.conv = "X" -> <<"0", "X">>
                            [] d.conv = "o" -> <<"0">>
                            [] d.conv = "b" -> <<"0", "b">>
                            [] d.conv = "u" -> <<>>
                     ELSE <<>>
        magnitude == IF w.value < 0 THEN -w.value ELSE w.value
    IN  \E from \in 1..Len(text), to \in 1..Len(text), z \in 0..Len(text) :
          LET before == from - 1 - z - Len(lead)
              after == Len(text) - to
              digits == SubSeq(text, from, to)
          IN  /\ from <= to /\ before >= 0
              /\ text = Fill(" ", before) \o lead \o Fill("0", z) \o digits \o Fill(" ", after)
              /\ Range(digits) \subseteq Range(digits_lower \o digits_upper)
              /\ ValueOf(digits, w.radix) = magnitude
              /\ digits[1] = "0" => digits = <<"0">>
              /\ w.left => before = 0
              /\ ~w.left => after = 0
              /\ ("zero" \in d.flags /\ ~w.left /\ d.precision < 0 /\ d.conv # "p") => before = 0
              /\ (w.left \/ d.precision >= 0 \/ "zero" \notin d.flags \/ d.conv = "p")
                    => z = Larger(d.precision - Len(digits), 0)
              /\ Len(text) = Larger(w.width, Len(lead) + Larger(Larger(d.precision, 1), Len(digits)))

(* A string's field: the argument cut to the precision, padded to the      *)
(* width, and never more than the buffer holds.                            *)
IsStringField(text, d) ==
    LET w == Wanted([d EXCEPT !.conv = "u"])
        arg == IF d.str = NULL THEN <<"(", "n", "u", "l", "l", ")">> ELSE d.str
        n == IF d.precision < 0 \/ Len(arg) < d.precision THEN Len(arg) ELSE d.precision
    IN  /\ Len(text) < BUFSZ
        /\ Larger(w.width, n) < BUFSZ =>
             /\ Len(text) = Larger(w.width, n)
             /\ \A i \in 1..n : text[IF w.left THEN i ELSE Len(text) - n + i] = arg[i]
             /\ \A i \in 1..Len(text) :
                  (IF w.left THEN i > n ELSE i <= Len(text) - n) => text[i] = " "
=============================================================================
