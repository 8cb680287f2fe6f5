----------------------------- MODULE JsonString -----------------------------
(***************************************************************************)
(* How json.hpp reads and writes strings: the lexer's scan_string, and the *)
(* serializer's dump_escaped with its own check of the encoding.  A string *)
(* is a sequence of bytes, a text is one, too.                             *)
(***************************************************************************)
EXTENDS Integers, Sequences, FiniteSetsExt, SequencesExt

Quote == \h22
Backslash == \h5C
LetterU == \h75

\* results of reading
Failed == [ok |-> FALSE, value |-> <<>>, end |-> 0]
Read(value, end) == [ok |-> TRUE, value |-> value, end |-> end]

At(text, i) == IF i \in DOMAIN text THEN text[i] ELSE -1

-----------------------------------------------------------------------------
(* The lexer.                                                              *)

Digits == \h30..\h39
HexUpper == \h41..\h46
HexLower == \h61..\h66

HexValue(c) == IF c \in Digits THEN c - \h30
               ELSE IF c \in HexUpper THEN c - \h37 ELSE c - \h57

\* get_codepoint: the four hex digits from text[i], or -1
GetCodepoint(text, i) ==
  IF \A k \in 0..3 : At(text, i + k) \in Digits \cup HexUpper \cup HexLower
  THEN HexValue(text[i]) * 4096 + HexValue(text[i + 1]) * 256
       + HexValue(text[i + 2]) * 16 + HexValue(text[i + 3])
  ELSE -1

\* the bytes of a code point
Utf8(cp) ==
  IF cp < \h80 THEN <<cp>>
  ELSE IF cp <= \h7FF THEN <<\hC0 + cp \div 64, \h80 + (cp % 64)>>
  ELSE IF cp <= \hFFFF
       THEN <<\hE0 + cp \div 4096, \h80 + ((cp \div 64) % 64), \h80 + (cp % 64)>>
  ELSE <<\hF0 + cp \div 262144, \h80 + ((cp \div 4096) % 64),
         \h80 + ((cp \div 64) % 64), \h80 + (cp % 64)>>

High == \hD800..\hDBFF
Low == \hDC00..\hDFFF

\* mutant of ScanUnicode: a low surrogate may stand alone
ScanUnicodeLoneLow(text, i) ==
  LET cp1 == GetCodepoint(text, i)
      cp2 == GetCodepoint(text, i + 6)
  IN IF cp1 = -1 THEN Failed
     ELSE IF cp1 \notin High THEN Read(Utf8(cp1), i + 3)
     ELSE IF At(text, i + 4) # Backslash \/ At(text, i + 5) # LetterU \/ cp2 \notin Low
          THEN Failed
     ELSE Read(Utf8(cp1 * 1024 + cp2 - \h35FDC00), i + 9)

\* after \u: one code unit, or a high surrogate and a low one
ScanUnicode(text, i) ==
  LET cp1 == GetCodepoint(text, i)
      cp2 == GetCodepoint(text, i + 6)
  IN IF cp1 = -1 \/ cp1 \in Low THEN Failed
     ELSE IF cp1 \notin High THEN Read(Utf8(cp1), i + 3)
     ELSE IF At(text, i + 4) # Backslash \/ At(text, i + 5) # LetterU \/ cp2 \notin Low
          THEN Failed
     ELSE Read(Utf8(cp1 * 1024 + cp2 - \h35FDC00), i + 9)

\* the one-letter escapes, as <<letter, byte>>
ShortEscapes == {<<\h22, \h22>>, <<\h5C, \h5C>>, <<\h2F, \h2F>>, <<\h62, \h08>>,
                 <<\h66, \h0C>>, <<\h6E, \h0A>>, <<\h72, \h0D>>, <<\h74, \h09>>}

ScanEscape(text, i) ==
  IF At(text, i) = LetterU THEN ScanUnicode(text, i + 1)
  ELSE LET bytes == {e[2] : e \in {e \in ShortEscapes : e[1] = At(text, i)}}
       IN IF bytes = {} THEN Failed ELSE Read(<<Max(bytes)>>, i)

Plain == \h20..\h7F \ {Quote, Backslash}

\* the lead bytes, and the ranges of the bytes that must follow each
Continuation == \h80..\hBF

Leads ==
  {[lead |-> \hC2..\hDF, follow |-> <<Continuation>>],
   [lead |-> {\hE0}, follow |-> <<\hA0..\hBF, Continuation>>],
   [lead |-> \hE1..\hEF \ {\hED}, follow |-> <<Continuation, Continuation>>],
   [lead |-> {\hED}, follow |-> <<\h80..\h9F, Continuation>>],
   [lead |-> {\hF0}, follow |-> <<\h90..\hBF, Continuation, Continuation>>],
   [lead |-> \hF1..\hF3, follow |-> <<Continuation, Continuation, Continuation>>],
   [lead |-> {\hF4}, follow |-> <<\h80..\h8F, Continuation, Continuation>>]}

\* next_byte_in_range
NextBytesInRange(text, i, follow) ==
  IF \A k \in DOMAIN follow : At(text, i + k) \in follow[k]
  THEN Read(SubSeq(text, i, i + Len(follow)), i + Len(follow))
  ELSE Failed

ScanMultibyte(text, i) ==
  LET rows == {row \in Leads : text[i] \in row.lead}
  IN IF rows = {} THEN Failed
     ELSE NextBytesInRange(text, i, (CHOOSE row \in rows : TRUE).follow)

\* one character of a string; control characters must be escaped
ScanChar(text, i) ==
  IF text[i] = Backslash THEN ScanEscape(text, i + 1)
  ELSE IF text[i] \in Plain THEN Read(<<text[i]>>, i)
  ELSE ScanMultibyte(text, i)

RECURSIVE ScanFrom(_, _, _)

ScanFrom(text, i, value) ==
  IF i > Len(text) THEN Failed
  ELSE IF text[i] = Quote THEN Read(value, i)
  ELSE LET char == ScanChar(text, i)
       IN IF char.ok THEN ScanFrom(text, char.end + 1, value \o char.value)
          ELSE Failed

\* scan_string, of a text whose first byte is after the opening quote
ScanString(text) == ScanFrom(text, 1, <<>>)

-----------------------------------------------------------------------------
(* The serializer.                                                         *)

\* utf8d: the class of a byte, and the next state by state and class
ByteClass(b) ==
  CASE b <= \h7F -> 0
    [] b \in \h80..\h8F -> 1
    [] b \in \h90..\h9F -> 9
    [] b \in \hA0..\hBF -> 7
    [] b \in {\hC0, \hC1} \cup \hF5..\hFF -> 8
    [] b \in \hC2..\hDF -> 2
    [] b = \hE0 -> 10
    [] b = \hED -> 4
    [] b \in \hE1..\hEF -> 3
    [] b = \hF0 -> 11
    [] b = \hF4 -> 5
    [] OTHER -> 6

Utf8d ==
  <<<<0, 1, 2, 3, 5, 8, 7, 1, 1, 1, 4, 6>>,
    <<1, 1, 1, 1, 1, 1, 1, 1, 1, 1, 1, 1>>,
    <<1, 0, 1, 1, 1, 1, 1, 0, 1, 0, 1, 1>>,
    <<1, 2, 1, 1, 1, 1, 1, 2, 1, 2, 1, 1>>,
    <<1, 1, 1, 1, 1, 1, 1, 2, 1, 1, 1, 1>>,
    <<1, 2, 1, 1, 1, 1, 1, 1, 1, 2, 1, 1>>,
    <<1, 1, 1, 1, 1, 1, 1, 3, 1, 3, 1, 1>>,
    <<1, 3, 1, 1, 1, 1, 1, 3, 1, 3, 1, 1>>,
    <<1, 3, 1, 1, 1, 1, 1, 1, 1, 1, 1, 1>>>>

Decode(state, b) == Utf8d[state + 1][ByteClass(b) + 1]

\* throw_if_invalid_utf8
ThrowIfInvalid(s) ==
  LET state[i \in 0..Len(s)] == IF i = 0 THEN 0 ELSE Decode(state[i - 1], s[i])
  IN state[Len(s)] # 0

BytesFollowing(b) ==
  IF b <= 127 THEN 0 ELSE IF b <= 223 THEN 1 ELSE IF b <= 239 THEN 2 ELSE 3

\* the bytes that become a backslash and a letter
Letters == {e \in ShortEscapes : e[1] # \h2F}
Short == {e[2] : e \in Letters}

\* with ensure_ascii everything outside of printable ASCII becomes \uXXXX
Escapes(b, ascii) == b < \h20 \/ (ascii /\ b >= \h7F)

\* extra_space: what escaping adds, counted at the first byte of a character
ExtraSpace(s, ascii) ==
  LET space(i) ==
      IF s[i] \in Short THEN 1
      ELSE IF Escapes(s[i], ascii) /\ s[i] \notin Continuation
           THEN IF BytesFollowing(s[i]) = 3 THEN 8 ELSE 5 - BytesFollowing(s[i])
      ELSE 0
  IN LET sum[i \in 0..Len(s)] == IF i = 0 THEN 0 ELSE sum[i - 1] + space(i)
     IN sum[Len(s)]

Hex(n) == IF n < 10 THEN \h30 + n ELSE \h57 + n

CodeUnit(n) == <<Backslash, LetterU, Hex(n \div 4096), Hex((n \div 256) % 16),
                 Hex((n \div 16) % 16), Hex(n % 16)>>

\* escape_codepoint
EscapeCodepoint(cp) ==
  IF cp < \h10000 THEN CodeUnit(cp)
  ELSE CodeUnit(\hD800 + (((cp - \h10000) \div 1024) % 1024))
       \o CodeUnit(\hDC00 + ((cp - \h10000) % 1024))

\* the code point of the character at i; the masks of the code keep bit 5 of a
\* two-byte lead, which is clear
CodepointAt(s, i) ==
  LET b(k) == s[i + k] % 128 IN
  CASE BytesFollowing(s[i]) = 0 -> s[i]
    [] BytesFollowing(s[i]) = 1 -> (s[i] % 64) * 64 + b(1)
    [] BytesFollowing(s[i]) = 2 -> (s[i] % 32) * 4096 + b(1) * 64 + b(2)
    [] OTHER -> (s[i] % 16) * 262144 + b(1) * 4096 + b(2) * 64 + b(3)

RECURSIVE EscapeFrom(_, _, _)

EscapeFrom(s, i, ascii) ==
  IF i > Len(s) THEN <<>>
  ELSE IF s[i] \in Short
       THEN <<Backslash, Max({e[1] : e \in {e \in Letters : e[2] = s[i]}})>>
            \o EscapeFrom(s, i + 1, ascii)
  ELSE IF Escapes(s[i], ascii)
       THEN EscapeCodepoint(CodepointAt(s, i))
            \o EscapeFrom(s, i + 1 + BytesFollowing(s[i]), ascii)
  ELSE <<s[i]>> \o EscapeFrom(s, i + 1, ascii)

\* dump_escaped: throws, or gives the text between the quotes
DumpEscaped(s, ascii) ==
  IF ThrowIfInvalid(s) THEN [throws |-> TRUE, text |-> <<>>]
  ELSE [throws |-> FALSE, text |-> EscapeFrom(s, 1, ascii)]

-----------------------------------------------------------------------------

\* what is written is read back as the same string, and fills its buffer exactly
Echoes(s) ==
  /\ ~DumpEscaped(s, FALSE).throws
  /\ \A ascii \in BOOLEAN :
       LET text == DumpEscaped(s, ascii).text IN
       /\ Len(text) = Len(s) + ExtraSpace(s, ascii)
       /\ ScanString(text \o <<Quote>>) = Read(s, Len(text) + 1)

\* the bytes that may stand for themselves between quotes
Unescaped(s) == \A i \in DOMAIN s : s[i] >= \h20 /\ s[i] \notin {Quote, Backslash}

\* the lexer and the serializer agree on what UTF-8 is, and what either lets
\* pass survives both
StringKept(s) ==
  /\ ~ThrowIfInvalid(s) => Echoes(s)
  /\ Unescaped(s) => (ScanString(s \o <<Quote>>).ok <=> ~ThrowIfInvalid(s))

\* \u escapes are read if and only if they spell characters, and as those
UnitsKept(units) ==
  LET text == FoldLeft(LAMBDA t, u : t \o CodeUnit(u), <<>>, units)
      scan == ScanString(text \o <<Quote>>)
      pair == Len(units) = 2 /\ units[1] \in High /\ units[2] \in Low
      lone == \E i \in DOMAIN units : units[i] \in High \cup Low
  IN /\ scan.ok <=> (pair \/ ~lone)
     /\ scan.ok => /\ Echoes(scan.value)
                   /\ (\A i \in DOMAIN units : units[i] >= \h80) =>
                        DumpEscaped(scan.value, TRUE).text = text
=============================================================================
