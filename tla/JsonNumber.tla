----------------------------- MODULE JsonNumber -----------------------------
(***************************************************************************)
(* How json.hpp reads and writes numbers: the lexer's scan_number, and the *)
(* serializer's dump_integer and dump_float.  A text is a sequence of      *)
(* characters, the digits 0 to 9 and the marks below.  A float is decimal, *)
(* <<neg, m, e>> for m * 10^e without trailing zeros in m, with as many    *)
(* digits as were read.  A double holds Precision of them, and the         *)
(* serializer writes no more: what strtod rounds to bits and snprintf to   *)
(* digits is rounded once here, when it is written, and because bits and   *)
(* digits do not meet, a tie may go either way.                            *)
(***************************************************************************)
EXTENDS Integers, Sequences, FiniteSets, SequencesExt

CONSTANTS
  Width,      \* bits of number_integer_t and number_unsigned_t (64)
  Precision   \* digits of number_float_t (15)

Minus == 10
Point == 11
ExponentMark == 12
Plus == 13
Comma == 14      \* stands for whatever may follow a number

Digit == 0..9

MaxUnsigned == 2^Width - 1
MinInteger == -(2^(Width - 1))
MaxInteger == 2^(Width - 1) - 1

-----------------------------------------------------------------------------
(* Reading.                                                                *)

\* mutant of After: a point may end a number
AfterPoint(state, c) ==
  CASE state = "start" /\ c = Minus -> "minus"
    [] state \in {"start", "minus"} /\ c = 0 -> "zero"
    [] state \in {"start", "minus", "any1"} /\ c \in Digit -> "any1"
    [] state \in {"zero", "any1"} /\ c = Point -> "decimal2"
    [] state = "decimal2" /\ c \in Digit -> "decimal2"
    [] state \in {"zero", "any1", "decimal2"} /\ c = ExponentMark -> "exponent"
    [] state = "exponent" /\ c \in {Plus, Minus} -> "sign"
    [] state \in {"exponent", "sign", "any2"} /\ c \in Digit -> "any2"
    [] OTHER -> "stop"

\* the labels of scan_number: where a character leads, "stop" if it does not
\* belong to the number
After(state, c) ==
  CASE state = "start" /\ c = Minus -> "minus"
    [] state \in {"start", "minus"} /\ c = 0 -> "zero"
    [] state \in {"start", "minus", "any1"} /\ c \in Digit -> "any1"
    [] state \in {"zero", "any1"} /\ c = Point -> "decimal1"
    [] state \in {"decimal1", "decimal2"} /\ c \in Digit -> "decimal2"
    [] state \in {"zero", "any1", "decimal2"} /\ c = ExponentMark -> "exponent"
    [] state = "exponent" /\ c \in {Plus, Minus} -> "sign"
    [] state \in {"exponent", "sign", "any2"} /\ c \in Digit -> "any2"
    [] OTHER -> "stop"

Whole == {"zero", "any1", "decimal2", "any2"}

\* the number that digits spell
RECURSIVE Spells(_)
Spells(digits) ==
  IF digits = <<>> THEN 0 ELSE 10 * Spells(Front(digits)) + Last(digits)

RECURSIVE DropZeros(_, _)
DropZeros(m, e) == IF m # 0 /\ m % 10 = 0 THEN DropZeros(m \div 10, e + 1)
                   ELSE <<m, IF m = 0 THEN 0 ELSE e>>

\* the digits from the first one that follows a mark, or the start, to the next
Part(text, from) ==
  LET run == {j \in from..Len(text) : \A k \in from..j : text[k] \in Digit}
  IN SubSeq(text, from, from + Cardinality(run) - 1)

\* strtod
DecimalOf(text) ==
  LET neg == text[1] = Minus
      int == Part(text, IF neg THEN 2 ELSE 1)
      point == SelectInSeq(text, LAMBDA c : c = Point)
      frac == IF point = 0 THEN <<>> ELSE Part(text, point + 1)
      mark == SelectInSeq(text, LAMBDA c : c = ExponentMark)
      signed == mark # 0 /\ text[mark + 1] \in {Plus, Minus}
      exp == IF mark = 0 THEN 0
             ELSE Spells(Part(text, mark + (IF signed THEN 2 ELSE 1)))
             * (IF text[mark + 1] = Minus THEN -1 ELSE 1)
  IN <<neg>> \o DropZeros(Spells(int \o frac), exp - Len(frac))

NumberError == [type |-> "error", v |-> 0, end |-> 0]

\* scan_number: the type follows from the marks that were seen; an integer that
\* does not fit becomes a float; 'end' is the last character taken
ScanNumber(text) ==
  LET state[i \in 0..Len(text)] ==
        IF i = 0 THEN "start"
        ELSE IF state[i - 1] = "stop" THEN "stop" ELSE After(state[i - 1], text[i])
      end == Cardinality({i \in 1..Len(text) : state[i] # "stop"})
      number == SubSeq(text, 1, end)
      n == Spells(IF number[1] = Minus THEN Tail(number) ELSE number)
      Made(type, v) == [type |-> type, v |-> v, end |-> end]
  IN IF end = 0 \/ state[end] \notin Whole THEN NumberError
     ELSE IF \E i \in 1..end : number[i] \in {Point, ExponentMark}
          THEN Made("number_float", DecimalOf(number))
     ELSE IF number[1] # Minus /\ n <= MaxUnsigned THEN Made("number_unsigned", n)
     ELSE IF number[1] = Minus /\ -n >= MinInteger THEN Made("number_integer", -n)
     ELSE Made("number_float", DecimalOf(number))

-----------------------------------------------------------------------------
(* Writing.                                                                *)

RECURSIVE DigitsOf(_)
DigitsOf(n) == IF n < 10 THEN <<n>> ELSE Append(DigitsOf(n \div 10), n % 10)

\* dump_integer
DumpInteger(n) == IF n < 0 THEN <<Minus>> \o DigitsOf(-n) ELSE DigitsOf(n)

Zeros(n) == [i \in 1..n |-> 0]

Significant(m) == Len(DigitsOf(m))

\* m * 10^e to the nearest numbers of Precision digits
Rounded(m, e) ==
  LET drop == Significant(m) - Precision
      unit == 10^drop
      down == m \div unit
  IN IF drop <= 0 THEN {<<m, e>>}
     ELSE {DropZeros(n, e + drop) :
             n \in {n \in {down, down + 1} :
                     LET off == n * unit - m IN -unit <= 2 * off /\ 2 * off <= unit}}

\* printf's %g of a number that is rounded already: with an exponent below
\* 10^-4 and from 10^Precision on
PrintG(m, e) ==
  LET digits == DigitsOf(m)
      x == IF m = 0 THEN 0 ELSE e + Len(digits) - 1
      size == IF x < 0 THEN -x ELSE x
      frac == Tail(digits)
  IN IF x < -4 \/ x >= Precision
     THEN <<Head(digits)>> \o (IF frac = <<>> THEN <<>> ELSE <<Point>> \o frac)
          \o <<ExponentMark, IF x < 0 THEN Minus ELSE Plus>>
          \o (IF size < 10 THEN <<0>> ELSE <<>>) \o DigitsOf(size)
     ELSE IF e >= 0 THEN digits \o Zeros(e)
     ELSE IF x < 0 THEN <<0, Point>> \o Zeros(-x - 1) \o digits
     ELSE SubSeq(digits, 1, x + 1) \o <<Point>> \o SubSeq(digits, x + 2, Len(digits))

\* mutant of WithFraction: what looks like an integer is left alone
WithoutFraction(text) == text

\* what looks like an integer gets a fraction
WithFraction(text) ==
  IF \E i \in DOMAIN text : text[i] \in {Point, ExponentMark} THEN text
  ELSE text \o <<Point, 0>>

\* dump_float: the texts it may write
DumpFloat(f) ==
  {WithFraction((IF f[1] THEN <<Minus>> ELSE <<>>) \o PrintG(d[1], d[2])) :
     d \in Rounded(f[2], f[3])}

DumpNumber(j) ==
  IF j.type = "number_float" THEN DumpFloat(j.v) ELSE {DumpInteger(j.v)}

-----------------------------------------------------------------------------

\* the grammar of a number
AllDigits(text) == \A i \in DOMAIN text : text[i] \in Digit

IsInt(text) == text # <<>> /\ AllDigits(text) /\ (text[1] = 0 => Len(text) = 1)
IsFrac(text) ==
  \/ text = <<>>
  \/ Len(text) > 1 /\ text[1] = Point /\ AllDigits(Tail(text))
IsExp(text) ==
  \/ text = <<>>
  \/ /\ Len(text) > 1
     /\ text[1] = ExponentMark
     /\ LET rest == IF text[2] \in {Plus, Minus} THEN SubSeq(text, 3, Len(text))
                    ELSE Tail(text)
        IN rest # <<>> /\ AllDigits(rest)

IsNumber(text) ==
  LET body == IF text # <<>> /\ text[1] = Minus THEN Tail(text) ELSE text
  IN \E i \in 0..Len(body) : \E k \in i..Len(body) :
       /\ IsInt(SubSeq(body, 1, i))
       /\ IsFrac(SubSeq(body, i + 1, k))
       /\ IsExp(SubSeq(body, k + 1, Len(body)))

\* g is f if that has no more than Precision digits, and else another number,
\* at most half a unit of the last digit away
Nearest(f, g) ==
  LET off == g[2] * 10^(g[3] - f[3]) - f[2]
      unit == 10^(Significant(f[2]) - Precision)
  IN /\ g[1] = f[1]
     /\ IF Significant(f[2]) <= Precision THEN g = f
        ELSE g # f /\ -unit <= 2 * off /\ 2 * off <= unit

\* a number is read to its end and no further; an integer that fits is written
\* and read back as it is, "-0" as an unsigned 0; a float, and an integer that
\* does not fit, as the nearest float of Precision digits, from then on as it is
NumberKept(text) ==
  LET j == ScanNumber(Append(text, Comma))
  IN /\ IsNumber(text) <=> (j.type # "error" /\ j.end = Len(text))
     /\ j.type # "error" => IsNumber(SubSeq(text, 1, j.end))
     /\ j.type # "error" =>
          \A written \in DumpNumber(j) :
            LET again == ScanNumber(written)
            IN /\ again.end = Len(written)
               /\ DumpNumber(again) = {written}
               /\ IF j.type = "number_float"
                  THEN again.type = j.type /\ Nearest(j.v, again.v)
                  ELSE /\ again.v = j.v
                       /\ again.type = IF j.v = 0 THEN "number_unsigned" ELSE j.type
=============================================================================
