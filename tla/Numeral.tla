------------------------------ MODULE Numeral ------------------------------
(***************************************************************************)
(* The number a sequence of digits stands for, by the place of each digit. *)
(* The parsers are compared with it; none of them computes it so.          *)
(***************************************************************************)
EXTENDS Integers, Sequences

\* What a digit with n others behind it counts.
Place(base, n) ==
    LET place[i \in Nat] == IF i = 0 THEN 1 ELSE base * place[i - 1]
    IN  place[n]

\* From the last digit to the first.
NumberOf(digits, base) ==
    LET n == Len(digits)
        sum[i \in 0..n] == IF i = 0 THEN 0
                          ELSE sum[i - 1] + digits[n + 1 - i] * Place(base, i - 1)
    IN  sum[n]

=============================================================================
