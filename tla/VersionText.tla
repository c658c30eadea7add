---------------------------- MODULE VersionText ----------------------------
(***************************************************************************)
(* The text of a version: fota_version_parse and what the version file of  *)
(* consumer/src/version.c reads as.  It grounds the version files of       *)
(* FotaVersion, which are named by their meaning.                          *)
(*                                                                         *)
(* A character is a decimal digit, Dot, White for the four characters that *)
(* are trimmed, Nul, or Strange for any other.                             *)
(***************************************************************************)
EXTENDS FotaVersion, Numeral, SequencesExt

CONSTANTS
    Wrap,        \* a component is accumulated modulo this: 2^64
    BufferSize   \* FOTA_VERSION_READ_BUF_SIZE

ASSUME WrapAssumption == Wrap \in Nat /\ 10 * MaxPart + 9 < Wrap

\* Tens has every power of ten that a component can reach.
ASSUME TensAssumption == MaxPart \div 1000000000 < 10

Digit == 0..9
Dot == 10
White == 11
Nul == 12
Strange == 13

Character == Digit \cup {Dot, White, Nul, Strange}

\* What precedes the first NUL.
ContentOf(data) ==
    LET ends == {i \in DOMAIN data : data[i] = Nul} \cup {Len(data) + 1}
    IN  SubSeq(data, 1, Min(ends) - 1)

\* Mutant: the bound is tested when all digits have been taken.
Component_CheckedLast(digits) ==
    LET value == FoldLeft(LAMBDA v, d : (v * 10 + d) % Wrap, 0, digits)
    IN  IF value > MaxPart THEN {} ELSE {value}

\* The value of one component, {} if it exceeds the bound at any digit.
Component(digits) ==
    LET after[i \in 0..Len(digits)] ==
            IF i = 0 THEN {0}
            ELSE {w \in {(v * 10 + digits[i]) % Wrap : v \in after[i - 1]} :
                    w <= MaxPart}
    IN  after[Len(digits)]

\* The loop over the content; the end of the content is a boundary too.
ParseStart == [ok |-> TRUE, parts |-> <<>>, digits |-> <<>>]

ParseChar(s, c) ==
    CASE ~s.ok -> s
      [] s.ok /\ c \in Digit -> [s EXCEPT !.digits = Append(@, c)]
      [] s.ok /\ c = Dot /\ s.digits # <<>> /\ Len(s.parts) < 4
              /\ Component(s.digits) # {} ->
            [s EXCEPT !.parts = Append(@, CHOOSE v \in Component(s.digits) : TRUE),
                      !.digits = <<>>]
      [] OTHER -> [s EXCEPT !.ok = FALSE]

\* {version} for OK, {} for MALFORMED.
fota_version_parse(data) ==
    LET text == Append(ContentOf(data), Dot)
        after[i \in 0..Len(text)] ==
            IF i = 0 THEN ParseStart ELSE ParseChar(after[i - 1], text[i])
        end == after[Len(text)]
    IN  IF end.ok /\ Len(end.parts) = 4 THEN {end.parts} ELSE {}

-----------------------------------------------------------------------------
(* The version file.                                                       *)

Trimmed(text) ==
    LET kept == {i \in DOMAIN text : text[i] # White} \cup {0}
    IN  SubSeq(text, 1, Max(kept))

\* fota_version_read_installed on a file with this text.
Reading(text) ==
    CASE Len(text) > BufferSize -> MalformedFile
      [] Len(text) <= BufferSize /\ Trimmed(text) = <<>> -> BlankFile
      [] OTHER -> IF fota_version_parse(Trimmed(text)) = {} THEN MalformedFile
                  ELSE FileOf(CHOOSE v \in fota_version_parse(Trimmed(text)) : TRUE)

Decimal[n \in Nat] ==
    IF n < 10 THEN <<n>> ELSE Append(Decimal[n \div 10], n % 10)

\* The longest line fits the buffer: it has 44 characters, and 64 are read.
ASSUME BufferAssumption ==
    BufferSize \in Nat /\ 4 * Len(Decimal[MaxPart]) + 4 <= BufferSize

\* Mutant: there is no dot before the last component.
Line_NoLastDot(v) ==
    Decimal[v[1]] \o <<Dot>> \o Decimal[v[2]] \o <<Dot>> \o Decimal[v[3]]
        \o Decimal[v[4]] \o <<White>>

\* The snprintf of fota_version_write_installed.
Line(v) ==
    Decimal[v[1]] \o <<Dot>> \o Decimal[v[2]] \o <<Dot>> \o Decimal[v[3]]
        \o <<Dot>> \o Decimal[v[4]] \o <<White>>

-----------------------------------------------------------------------------
(* What a version text means.                                              *)

IsNumeral(s) ==
    s # <<>> /\ Range(s) \subseteq Digit /\ NumberOf(s, 10) <= MaxPart

\* What is before, between and after three dots at these places.
Components(text, dots) ==
    <<SubSeq(text, 1, dots[1] - 1), SubSeq(text, dots[1] + 1, dots[2] - 1),
      SubSeq(text, dots[2] + 1, dots[3] - 1), SubSeq(text, dots[3] + 1, Len(text))>>

\* Where three dots are with a numeral on each side of each.
VersionDots(text) ==
    LET dots == {i \in DOMAIN text : text[i] = Dot}
    IN  {d \in dots \X dots \X dots :
            /\ d[1] < d[2] /\ d[2] < d[3]
            /\ \A i \in 1..4 : IsNumeral(Components(text, d)[i])}

\* The versions a text holds: one, or none.
VersionsIn(data) ==
    LET text == ContentOf(data)
    IN  {[i \in 1..4 |-> NumberOf(Components(text, d)[i], 10)] :
            d \in VersionDots(text)}

=============================================================================
