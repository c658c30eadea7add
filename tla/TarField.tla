------------------------------ MODULE TarField ------------------------------
(***************************************************************************)
(* parse_octal_field of consumer/src/installer.c: what TarParse takes for  *)
(* the value of a size or checksum field.                                  *)
(*                                                                         *)
(* A byte is its octal digit, Pad for NUL and space, Odd for the rest.     *)
(***************************************************************************)
EXTENDS Numeral

OctalDigit == 0..7
Pad == 8
Odd == 9

\* The loop's state; over once the number has ended or a byte is malformed.
FieldStart == [value |-> 0, seen_digit |-> FALSE, state |-> "RUNNING"]

\* Mutant: the first padding ends the field.
ReadByte_StopAtPad(s, byte) ==
    CASE s.state # "RUNNING" -> s
      [] s.state = "RUNNING" /\ byte = Pad -> [s EXCEPT !.state = "ENDED"]
      [] s.state = "RUNNING" /\ byte = Odd -> [s EXCEPT !.state = "MALFORMED"]
      [] OTHER -> [s EXCEPT !.value = @ * 8 + byte, !.seen_digit = TRUE]

\* Padding before the first digit is passed over, after it ends the number.
ReadByte(s, byte) ==
    CASE s.state # "RUNNING" -> s
      [] s.state = "RUNNING" /\ byte = Pad ->
            IF s.seen_digit THEN [s EXCEPT !.state = "ENDED"] ELSE s
      [] s.state = "RUNNING" /\ byte = Odd -> [s EXCEPT !.state = "MALFORMED"]
      [] OTHER -> [s EXCEPT !.value = @ * 8 + byte, !.seen_digit = TRUE]

\* {value} for 0, {} for -1.
parse_octal_field(field) ==
    LET after[n \in 0..Len(field)] ==
            IF n = 0 THEN FieldStart ELSE ReadByte(after[n - 1], field[n])
        end == after[Len(field)]
    IN  IF end.state # "MALFORMED" /\ end.seen_digit THEN {end.value} ELSE {}

-----------------------------------------------------------------------------
(* What a field means.                                                     *)

\* The digits of a field that is well formed: nothing but padding before
\* them, padding or the end of the field after them.  What follows is free.
IsNumber(field, from, to) ==
    /\ from <= to
    /\ \A k \in 1..(from - 1) : field[k] = Pad
    /\ \A k \in from..to : field[k] \in OctalDigit
    /\ to = Len(field) \/ field[to + 1] = Pad

\* The numbers a field holds: one, or none.
NumbersIn(field) ==
    {NumberOf(SubSeq(field, r[1], r[2]), 8) : r \in
        {q \in (DOMAIN field) \X (DOMAIN field) : IsNumber(field, q[1], q[2])}}

=============================================================================
