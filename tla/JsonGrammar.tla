----------------------------- MODULE JsonGrammar -----------------------------
(***************************************************************************)
(* json.hpp's two readers of a text: the parser, which builds a value and  *)
(* throws, and the acceptor, which has a grammar of its own and only says  *)
(* yes or no, run side by side on the same tokens.  The recursion of       *)
(* parse_internal and accept_internal is a stack here.  No callback is     *)
(* ever given, and texts are read to their end (strict).                   *)
(***************************************************************************)
EXTENDS JsonValue

CONSTANTS
  Scalars      \* values of one token, strings among them

VARIABLES
  taken,     \* the tokens read so far
  want,      \* what the parser is looking for
  frames,    \* the containers it is in, outermost first
  result,    \* its value
  ordered,   \* history: each key came after the ones before it
  awant,     \* what the acceptor is looking for, and its verdict
  aframes    \* the containers it is in

grammarVars == <<taken, want, frames, result, ordered, awant, aframes>>

\* the tokens: punctuation, scalars, a number beyond double, what the lexer
\* rejects, and the end of the text, which a NUL byte is, too
Tokens ==
  {Tok(k) : k \in {"begin_object", "end_object", "begin_array", "end_array",
                   "name_separator", "value_separator", "overflow", "parse_error",
                   "end_of_input"}}
  \cup {Spelled(j) : j \in Scalars}

Is(t, k) == t.tok = k
IsString(t) == t.tok = "value" /\ t.value.type = "string"

GrammarInit ==
  /\ taken = <<>>
  /\ want = "value"
  /\ frames = <<>>
  /\ result = Null
  /\ ordered = TRUE
  /\ awant = "value"
  /\ aframes = <<>>

Open == frames # <<>>
Top == Last(frames)

Replace(f) == frames' = Append(Front(frames), f)

-----------------------------------------------------------------------------
(* parse_internal.                                                         *)

\* the container after one more element; the first of equal keys stays
Filled(f, value) ==
  [f EXCEPT !.value = IF f.value.type = "array" THEN PushBack(f.value, value)
                      ELSE EmplaceField(f.value, f.key, value)]

\* a value is complete, 'outer' are the containers around it
Complete(outer, value) ==
  IF outer = <<>>
  THEN result' = value /\ frames' = <<>> /\ want' = "end"
  ELSE /\ frames' = Append(Front(outer), Filled(Last(outer), value))
       /\ want' = "more"
       /\ UNCHANGED result

ParseBegin(t) ==
  /\ want \in {"value", "first"}
  /\ Is(t, "begin_object") \/ Is(t, "begin_array")
  /\ frames' = Append(frames, [value |-> IF Is(t, "begin_object") THEN EmptyObject
                                         ELSE Array(<<>>), key |-> ""])
  /\ want' = IF Is(t, "begin_object") THEN "firstKey" ELSE "first"
  /\ UNCHANGED <<result, ordered>>

ParseScalar(t) ==
  /\ want \in {"value", "first"}
  /\ Is(t, "value")
  /\ Complete(frames, t.value)
  /\ UNCHANGED ordered

\* an empty container, or the end after an element
ParseEnd(t) ==
  /\ Open
  /\ \/ Is(t, "end_object") /\ Top.value.type = "object" /\ want \in {"firstKey", "more"}
     \/ Is(t, "end_array") /\ Top.value.type = "array" /\ want \in {"first", "more"}
  /\ Complete(Front(frames), Top.value)
  /\ UNCHANGED ordered

ParseKey(t) ==
  /\ want \in {"key", "firstKey"}
  /\ IsString(t)
  /\ Replace([Top EXCEPT !.key = t.value.data])
  /\ ordered' = (ordered /\ \A k \in DOMAIN Top.value.data :
                              k # t.value.data /\ Precedes(k, t.value.data))
  /\ want' = "colon"
  /\ UNCHANGED result

ParseColon(t) ==
  /\ want = "colon"
  /\ Is(t, "name_separator")
  /\ want' = "value"
  /\ UNCHANGED <<frames, result, ordered>>

ParseComma(t) ==
  /\ want = "more"
  /\ Is(t, "value_separator")
  /\ want' = IF Top.value.type = "object" THEN "key" ELSE "value"
  /\ UNCHANGED <<frames, result, ordered>>

\* parse, strict: nothing may follow
ParseFinish(t) ==
  /\ want = "end"
  /\ Is(t, "end_of_input")
  /\ want' = "done"
  /\ UNCHANGED <<frames, result, ordered>>

\* the tokens that do not throw
Expected ==
  CASE want = "value" -> {"begin_object", "begin_array", "value"}
    [] want = "first" -> {"begin_object", "begin_array", "value", "end_array"}
    [] want = "firstKey" -> {"value", "end_object"}
    [] want = "key" -> {"value"}
    [] want = "colon" -> {"name_separator"}
    [] want = "more" -> {"value_separator", IF Top.value.type = "object"
                                            THEN "end_object" ELSE "end_array"}
    [] OTHER -> {"end_of_input"}

ParseThrow(t) ==
  /\ \/ t.tok \notin Expected
     \/ want \in {"key", "firstKey"} /\ Is(t, "value") /\ ~IsString(t)
  /\ want' = "failed"
  /\ UNCHANGED <<frames, result, ordered>>

ParseToken(t) ==
  \/ ParseBegin(t) \/ ParseScalar(t) \/ ParseEnd(t) \/ ParseKey(t)
  \/ ParseColon(t) \/ ParseComma(t) \/ ParseFinish(t) \/ ParseThrow(t)

-----------------------------------------------------------------------------
(* accept_internal.                                                        *)

AcceptValue(t) ==
  CASE Is(t, "begin_object") -> awant' = "firstKey" /\ aframes' = Append(aframes, "object")
    [] Is(t, "begin_array") -> awant' = "first" /\ aframes' = Append(aframes, "array")
    [] Is(t, "value") -> /\ awant' = (IF aframes = <<>> THEN "end" ELSE "more")
                         /\ UNCHANGED aframes
    [] OTHER -> awant' = "no" /\ UNCHANGED aframes

AcceptEnd ==
  /\ aframes' = Front(aframes)
  /\ awant' = IF Len(aframes) = 1 THEN "end" ELSE "more"

\* mutant of AcceptMore: a comma may come last
AcceptMoreTrailing(t) ==
  CASE Is(t, "value_separator") /\ Last(aframes) = "object" ->
         awant' = "firstKey" /\ UNCHANGED aframes
    [] Is(t, "value_separator") /\ Last(aframes) = "array" ->
         awant' = "first" /\ UNCHANGED aframes
    [] Is(t, "end_object") /\ Last(aframes) = "object" -> AcceptEnd
    [] Is(t, "end_array") /\ Last(aframes) = "array" -> AcceptEnd
    [] OTHER -> awant' = "no" /\ UNCHANGED aframes

\* after an element
AcceptMore(t) ==
  CASE Is(t, "value_separator") /\ Last(aframes) = "object" ->
         awant' = "key" /\ UNCHANGED aframes
    [] Is(t, "value_separator") /\ Last(aframes) = "array" ->
         awant' = "value" /\ UNCHANGED aframes
    [] Is(t, "end_object") /\ Last(aframes) = "object" -> AcceptEnd
    [] Is(t, "end_array") /\ Last(aframes) = "array" -> AcceptEnd
    [] OTHER -> awant' = "no" /\ UNCHANGED aframes

\* accept reads to the end, too
AcceptToken(t) ==
  CASE awant = "value" -> AcceptValue(t)
    [] awant = "first" -> IF Is(t, "end_array") THEN AcceptEnd ELSE AcceptValue(t)
    [] awant = "firstKey" /\ Is(t, "end_object") -> AcceptEnd
    [] awant \in {"key", "firstKey"} /\ IsString(t) ->
         awant' = "colon" /\ UNCHANGED aframes
    [] awant = "colon" /\ Is(t, "name_separator") -> awant' = "value" /\ UNCHANGED aframes
    [] awant = "more" -> AcceptMore(t)
    [] awant = "end" /\ Is(t, "end_of_input") -> awant' = "yes" /\ UNCHANGED aframes
    [] OTHER -> awant' = "no" /\ UNCHANGED aframes

-----------------------------------------------------------------------------
(* Both.                                                                   *)

Running == want \notin {"done", "failed"}

ReadToken(t) ==
  /\ Running
  /\ taken' = Append(taken, t)
  /\ ParseToken(t)
  /\ AcceptToken(t)

GrammarNext == \E t \in Tokens : ReadToken(t)

GrammarSpec == GrammarInit /\ [][GrammarNext]_grammarVars

-----------------------------------------------------------------------------

(* The two grammars of json.hpp agree: the parser returns a value for      *)
(* exactly the texts the acceptor says yes to, and both stop at the same   *)
(* token.  (json.hpp:2931-2960, 2988-3378)                                 *)
AcceptAgrees ==
  /\ want = "done" <=> awant = "yes"
  /\ want = "failed" <=> awant = "no"
=============================================================================
