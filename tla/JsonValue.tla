------------------------------ MODULE JsonValue ------------------------------
(***************************************************************************)
(* The values of json.hpp and the few ways the kernel builds them.  A      *)
(* value is a record [type, data]: an array's data is a sequence, an       *)
(* object's a function from keys.                                          *)
(***************************************************************************)
EXTENDS Integers, Sequences, FiniteSets, SequencesExt

CONSTANTS Precedes(_, _)   \* the order of keys in a std::map

Null == [type |-> "null", data |-> 0]
Boolean(b) == [type |-> "boolean", data |-> b]
Integer(n) == [type |-> "number_integer", data |-> n]
Unsigned(n) == [type |-> "number_unsigned", data |-> n]
Float(x) == [type |-> "number_float", data |-> x]
String(s) == [type |-> "string", data |-> s]
Array(values) == [type |-> "array", data |-> values]
Object(fields) == [type |-> "object", data |-> fields]

EmptyObject == Object(<<>>)

\* an error: json.hpp's exceptions, R's stop()
Throws(what) == [type |-> "error", data |-> what]

-----------------------------------------------------------------------------
(* Building.                                                               *)

\* operator[] of a key, and an assignment to it: null becomes an object
SetField(j, key, value) ==
  IF j.type \notin {"null", "object"} THEN Throws("305")
  ELSE LET fields == IF j.type = "null" THEN <<>> ELSE j.data
       IN Object([k \in DOMAIN fields \cup {key} |->
                    IF k = key THEN value ELSE fields[k]])

\* emplace of a std::map: a key that is there keeps its value
EmplaceField(j, key, value) ==
  IF key \in DOMAIN j.data THEN j ELSE SetField(j, key, value)

\* push_back: null becomes an array
PushBack(j, value) ==
  IF j.type \notin {"null", "array"} THEN Throws("308")
  ELSE Array(Append(IF j.type = "null" THEN <<>> ELSE j.data, value))

\* an initializer list: an object of pairs if each element is an array of two
\* whose first is a string, else an array
IsPair(j) == j.type = "array" /\ Len(j.data) = 2 /\ j.data[1].type = "string"

Braces(list) ==
  IF \A i \in DOMAIN list : IsPair(list[i])
  THEN FoldLeft(LAMBDA j, pair : EmplaceField(j, pair.data[1].data, pair.data[2]),
                EmptyObject, list)
  ELSE Array(list)

\* the keys, in the order of the map's iterator
Keys(j) ==
  LET fields == DOMAIN j.data
      rank(k) == Cardinality({l \in fields : l # k /\ Precedes(l, k)})
  IN [i \in 1..Cardinality(fields) |-> CHOOSE k \in fields : rank(k) = i - 1]

-----------------------------------------------------------------------------
(* The pieces of a text.                                                   *)

\* a character or a token, and a string or a number, which counts as one
Tok(k) == [tok |-> k]
Spelled(j) == [tok |-> "value", value |-> j]
=============================================================================
