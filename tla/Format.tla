------------------------------- MODULE Format -------------------------------
(***************************************************************************)
(* How the two firmwares turn numbers into text: console_writef and its    *)
(* prvAppend functions (STM32), mini_vsnprintf and fmt_uint (LM3S6965).    *)
(*                                                                         *)
(* A character is a digit's value, or one of Minus, Blank and Letter; the  *)
(* text of a format is n times Letter.                                     *)
(***************************************************************************)
EXTENDS Integers, Sequences

Minus  == 16
Blank  == 17
Letter == 18

Text(n) == [i \in 1..n |-> Letter]

\* The digits of value, the first the most significant; 0 has one.
Digits(value, base) ==
    LET digits[v \in Nat] == IF v < base THEN <<v>>
                             ELSE Append(digits[v \div base], v % base)
    IN  digits[value]

Padding(n, char) == [i \in 1..(IF n > 0 THEN n ELSE 0) |-> char]
Pad(zero) == IF zero THEN 0 ELSE Blank

-----------------------------------------------------------------------------
\* Mutant: the width is not obeyed.
prvAppendUnsigned_NoWidth(value, base, width, zero_pad) == Digits(value, base)

prvAppendUnsigned(value, base, width, zero_pad) ==
    LET digits == Digits(value, base)
    IN  Padding(width - Len(digits), Pad(zero_pad)) \o digits

\* The sign is not counted in the width.
prvAppendSigned(value, width, zero_pad) ==
    IF value < 0
    THEN <<Minus>> \o prvAppendUnsigned(-value, 10, width, zero_pad)
    ELSE prvAppendUnsigned(value, 10, width, zero_pad)

\* Left-aligned, it is blanks that follow, whatever pad is.
fmt_uint(val, base, width, zero_pad, left_align) ==
    LET digits == Digits(val, base)
        n      == width - Len(digits)
    IN  IF left_align THEN digits \o Padding(n, Blank)
        ELSE Padding(n, Pad(zero_pad)) \o digits

\* %d of mini_vsnprintf: the sign is counted in the width, and precedes the padding.
fmt_int(val, width, zero_pad, left_align) ==
    IF val < 0
    THEN <<Minus>> \o fmt_uint(-val, 10, IF width > 0 THEN width - 1 ELSE width,
                               zero_pad, left_align)
    ELSE fmt_uint(val, 10, width, zero_pad, left_align)

\* What a buffer of size bytes takes: prvAppendChar and buf_putc keep one for
\* the terminator, and drop what comes after.
Buffered(chars, size) == SubSeq(chars, 1, IF Len(chars) < size THEN Len(chars) ELSE size - 1)
=============================================================================
