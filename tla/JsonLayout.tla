----------------------------- MODULE JsonLayout -----------------------------
(***************************************************************************)
(* json.hpp's serializer: the text of a value.  A text is a sequence of    *)
(* characters, in which a string or a number is one; how those are spelled *)
(* is in JsonString and JsonNumber.                                        *)
(***************************************************************************)
EXTENDS JsonValue

Chars(word) == [i \in DOMAIN word |-> Tok(word[i])]

\* the first spaces of the indent string; what is after it is not a character
Spaces(size, n) == [i \in 1..n |-> Tok(IF i <= size THEN " " ELSE "?")]

\* mutant of Separated: the separators are missing
SeparatedNot(texts, separator) == FlattenSeq(texts)

Separated(texts, separator) ==
  FoldLeft(LAMBDA text, each :
             IF text = <<>> THEN each ELSE text \o separator \o each,
           <<>>, texts)

Compact == -1

\* serializer::dump: 'step' is 'Compact' or the indent of a level, 'size' is
\* the length of the indent string, which is doubled if it is too short
RECURSIVE Lay(_, _, _, _)
Lay(j, step, indent, size) ==
  LET inner == indent + step
      enough == IF size < inner THEN 2 * size ELSE size
      isObject == j.type = "object"
      pretty == step # Compact
      entries ==
        IF isObject
        THEN [i \in DOMAIN Keys(j) |->
                <<Spelled(String(Keys(j)[i])), Tok(":")>>
                \o (IF pretty THEN <<Tok(" ")>> ELSE <<>>)
                \o Lay(j.data[Keys(j)[i]], step, inner, enough)]
        ELSE [i \in DOMAIN j.data |-> Lay(j.data[i], step, inner, enough)]
      open == Tok(IF isObject THEN "{" ELSE "[")
      close == Tok(IF isObject THEN "}" ELSE "]")
  IN CASE j.type = "null" -> Chars(<<"n", "u", "l", "l">>)
       [] j.type = "boolean" ->
            Chars(IF j.data THEN <<"t", "r", "u", "e">> ELSE <<"f", "a", "l", "s", "e">>)
       [] j.type \notin {"array", "object"} -> <<Spelled(j)>>
       [] entries = <<>> -> <<open, close>>
       [] ~pretty -> <<open>> \o Separated(entries, <<Tok(",")>>) \o <<close>>
       [] OTHER ->
            <<open, Tok("\n")>>
            \o Separated([i \in DOMAIN entries |-> Spaces(enough, inner) \o entries[i]],
                         <<Tok(","), Tok("\n")>>)
            \o <<Tok("\n")>> \o Spaces(enough, indent) \o <<close>>

\* dump() without arguments
Dump(j) == Lay(j, Compact, 0, 0)
=============================================================================
