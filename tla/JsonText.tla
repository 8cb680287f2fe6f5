------------------------------ MODULE JsonText ------------------------------
(***************************************************************************)
(* json.hpp reads a text, writes the value and reads that again.  A first  *)
(* text is any sequence of tokens; if a value comes of it, it is dumped    *)
(* and that text is read, by the lexer and the input adapters.  Both times *)
(* the tokens go through the parser and the acceptor of JsonGrammar.       *)
(***************************************************************************)
EXTENDS JsonGrammar, JsonLayout

CONSTANTS
  Indents,      \* steps of pretty printing, or Compact
  IndentSize,   \* spaces in the serializer's indent string (512)
  MaxTokens     \* bound: the first text

ASSUME TokenBoundAssumption == MaxTokens \in Nat

VARIABLES
  pass,      \* 1 while the first text is read, 2 after it was dumped
  left,      \* the rest of the dumped text
  written    \* the value that was dumped

textVars == <<grammarVars, pass, left, written>>

-----------------------------------------------------------------------------
(* The lexer, on the text of a value.                                      *)

Mark == Chars(<<"EF", "BB", "BF">>)

\* input_buffer_adapter: a byte order mark is skipped
FromBuffer(text) ==
  IF Len(text) >= 3 /\ SubSeq(text, 1, 3) = Mark THEN SubSeq(text, 4, Len(text)) ELSE text

\* input_stream_adapter: reads on while it looks like one; if it is none, what
\* it has read is put back in front of the rest
FromStream(text) ==
  LET read == Cardinality({n \in 1..3 : \A i \in 1..n : i <= Len(text) /\ text[i] = Mark[i]})
      rest == SubSeq(text, read + 1, Len(text))
  IN IF read = 3 THEN rest ELSE SubSeq(Mark, 1, read) \o rest

White == {" ", "\t", "\n", "\r"}

\* scan_literal
Literal(text, i, word) ==
  i + Len(word) - 1 <= Len(text) /\ SubSeq(text, i, i + Len(word) - 1) = Chars(word)

\* the structural characters
Structural == {"[", "]", "{", "}", ":", ","}

TokenType(c) ==
  CASE c = "[" -> "begin_array"
    [] c = "]" -> "end_array"
    [] c = "{" -> "begin_object"
    [] c = "}" -> "end_object"
    [] c = ":" -> "name_separator"
    [] c = "," -> "value_separator"

\* scan, to the end of the input or the first error
RECURSIVE Scan(_, _)
Scan(text, i) ==
  IF i > Len(text) \/ text[i].tok = "NUL" THEN <<Tok("end_of_input")>>
  ELSE IF text[i].tok \in White THEN Scan(text, i + 1)
  ELSE IF text[i].tok = "value" THEN <<text[i]>> \o Scan(text, i + 1)
  ELSE IF text[i].tok \in Structural
    THEN <<Tok(TokenType(text[i].tok))>> \o Scan(text, i + 1)
  ELSE IF text[i].tok = "t" /\ Literal(text, i, <<"t", "r", "u", "e">>)
    THEN <<Spelled(Boolean(TRUE))>> \o Scan(text, i + 4)
  ELSE IF text[i].tok = "f" /\ Literal(text, i, <<"f", "a", "l", "s", "e">>)
    THEN <<Spelled(Boolean(FALSE))>> \o Scan(text, i + 5)
  ELSE IF text[i].tok = "n" /\ Literal(text, i, <<"n", "u", "l", "l">>)
    THEN <<Spelled(Null)>> \o Scan(text, i + 4)
  ELSE <<Tok("parse_error")>>

-----------------------------------------------------------------------------

TextInit ==
  /\ GrammarInit
  /\ pass = 1
  /\ left = <<>>
  /\ written = Null

ReadFirst ==
  /\ pass = 1
  /\ Len(taken) < MaxTokens
  /\ \E t \in Tokens : ReadToken(t)
  /\ UNCHANGED <<pass, left, written>>

\* the value is dumped and the text read again, with or without a byte order
\* mark, from a buffer or a stream, up to its end or to a NUL in it
Rewrite ==
  /\ want = "done"
  /\ pass = 1
  /\ pass' = 2
  /\ \E step \in Indents, mark \in {<<>>, Mark}, rest \in {<<>>, Chars(<<"NUL", "?">>)} :
       LET text == mark \o Lay(result, step, 0, IndentSize) \o rest
       IN left' \in {Scan(FromBuffer(text), 1), Scan(FromStream(text), 1)}
  /\ written' = result
  /\ taken' = <<>>
  /\ want' = "value"
  /\ frames' = <<>>
  /\ result' = Null
  /\ ordered' = TRUE
  /\ awant' = "value"
  /\ aframes' = <<>>

ReadAgain ==
  /\ pass = 2
  /\ ReadToken(Head(left))
  /\ left' = Tail(left)
  /\ UNCHANGED <<pass, written>>

TextNext == ReadFirst \/ Rewrite \/ ReadAgain

TextSpec == TextInit /\ [][TextNext]_textVars

-----------------------------------------------------------------------------
(* Properties.                                                             *)

(* Nothing is lost on the way in or out: a text with its keys in order and *)
(* none of them twice is read as a value that is written as that text, and *)
(* whatever text a value came from, what is written of it, in any layout,  *)
(* is read as that value.                                                  *)
(* (json.hpp:1431-1519, 2641-2850, 2988-3264, 6108-6297;                   *)
(* jmessage.h:139-203)                                                     *)
TextKept ==
  /\ want = "done" =>
       /\ ordered => Scan(Dump(result), 1) = taken
       /\ pass = 2 => result = written
  /\ pass = 2 => want # "failed"
=============================================================================
