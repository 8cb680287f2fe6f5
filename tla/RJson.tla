-------------------------------- MODULE RJson --------------------------------
(***************************************************************************)
(* How utils.h turns an R list into a json (replies, results) and a json   *)
(* into an R value (requests).  An R value is a record [type, data,        *)
(* names]: a vector's data is a sequence, a list's names are <<>> without  *)
(* a names attribute, else one for each element.  A double is given in     *)
(* halves, so that there are some that are no integers.                    *)
(***************************************************************************)
EXTENDS JsonIterator

CONSTANTS
  IntWidth,   \* bits of R's integers (32)
  NA          \* a logical that is neither

RNull == [type |-> "NULL", data |-> <<>>, names |-> <<>>]
RVector(type, v) == [type |-> type, data |-> v, names |-> <<>>]
RList(v, names) == [type |-> "list", data |-> v, names |-> names]

\* C's conversion to int
ToInt(n) ==
  LET size == 2^IntWidth
      low == n % size
  IN IF low >= size \div 2 THEN low - size ELSE low

-----------------------------------------------------------------------------
(* From R.                                                                 *)

\* an element as json: a logical NA is an integer that is not 0
Element(type, x) ==
  CASE type = "logical" -> Boolean(x \in {TRUE, NA})
    [] type = "integer" -> Integer(x)
    [] type = "double" -> Float(x)
    [] OTHER -> String(x)

\* from_sexp, and the same for strings: one element is a value, not an array
FromVector(r) ==
  IF Len(r.data) = 1 THEN Element(r.type, r.data[1])
  ELSE Array([i \in DOMAIN r.data |-> Element(r.type, r.data[i])])

\* a character vector of another length is filtered: an element that is there
\* to keep the vector from becoming a value is skipped
Hack == "__juniper_vec_ignore_hack__"

FromStrings(r) ==
  IF Len(r.data) = 1 THEN String(r.data[1])
  ELSE LET kept == SelectSeq(r.data, LAMBDA s : s # Hack)
       IN Array([i \in DOMAIN kept |-> String(kept[i])])

RECURSIVE FromList(_)

FromAny(r) ==
  CASE r.type = "NULL" -> Null
    [] r.type = "list" -> FromList(r)
    [] r.type = "character" -> FromStrings(r)
    [] r.type \in {"logical", "integer", "double"} -> FromVector(r)
    [] OTHER -> Throws("incompatible SEXP")

\* from_list_r: without names an array, else an object in which the last of
\* equal names wins; an empty list is an object either way
FromList(r) ==
  LET parts == [i \in DOMAIN r.data |-> FromAny(r.data[i])]
      failed == {i \in DOMAIN parts : parts[i].type = "error"}
  IN IF r.data = <<>> THEN EmptyObject
     ELSE IF failed # {} THEN parts[CHOOSE i \in failed : \A k \in failed : i <= k]
     ELSE IF r.names = <<>> THEN FoldLeft(PushBack, Null, parts)
     ELSE FoldLeftDomain(LAMBDA j, i : SetField(j, r.names[i], parts[i]), Null, parts)

-----------------------------------------------------------------------------
(* To R.                                                                   *)

Numbers == {"number_integer", "number_unsigned", "number_float"}

\* mutant of Get: a float is reinterpreted, not converted
GetRaw(j, type) ==
  CASE type = "logical" /\ j.type = "boolean" -> <<j.data>>
    [] type = "character" /\ j.type = "string" -> <<j.data>>
    [] type \in {"integer", "double"} /\ j.type \in Numbers -> <<j.data>>
    [] OTHER -> <<>>

\* j.get<bool>, <std::string>, <int> and <double>, <<>> if it throws: a boolean
\* can be had as an int, not as a double
Get(j, type) ==
  CASE type = "logical" /\ j.type = "boolean" -> <<j.data>>
    [] type = "character" /\ j.type = "string" -> <<j.data>>
    [] type = "integer" /\ j.type = "boolean" -> <<IF j.data THEN 1 ELSE 0>>
    [] type = "integer" /\ j.type \in Numbers ->
         LET n == IF j.type # "number_float" THEN j.data
                  ELSE IF j.data < 0 THEN -((-j.data) \div 2) ELSE j.data \div 2
         IN <<ToInt(n)>>
    [] type = "double" /\ j.type \in Numbers ->
         <<IF j.type = "number_float" THEN j.data ELSE 2 * j.data>>
    [] OTHER -> <<>>

\* as_sexp: all elements as the type of the first
AsVector(type, elements) ==
  LET got == [i \in DOMAIN elements |-> Get(elements[i], type)]
  IN IF \E i \in DOMAIN got : got[i] = <<>> THEN Throws("302")
     ELSE RVector(type, [i \in DOMAIN got |-> got[i][1]])

RType(jtype) ==
  CASE jtype = "boolean" -> "logical"
    [] jtype = "string" -> "character"
    [] jtype = "number_float" -> "double"
    [] OTHER -> "integer"

\* j_to_sexp of an array, by its first element: an object there is passed on to
\* from_json_r, with the array, and so for ever
ToVector(elements) ==
  IF elements = <<>> \/ elements[1].type = "null" THEN RNull
  ELSE IF elements[1].type = "array" THEN Throws("don't know what to do with type")
  ELSE IF elements[1].type = "object" THEN Throws("stack overflow")
  ELSE AsVector(RType(elements[1].type), elements)

RECURSIVE ToR(_)

\* from_json_r
ToR(j) ==
  IF j.type = "null" THEN RNull
  ELSE IF j.type = "array" THEN ToVector(j.data)
  ELSE IF j.type # "object" THEN AsVector(RType(j.type), <<j>>)
  ELSE LET steps == Walk(j)
           parts == [i \in DOMAIN steps |-> ToR(Deref(steps[i]))]
           failed == {i \in DOMAIN parts : parts[i].type = "error"}
       IN IF failed # {} THEN parts[CHOOSE i \in failed : \A k \in failed : i <= k]
          ELSE RList(parts, [i \in DOMAIN steps |-> KeyAt(steps[i])])

-----------------------------------------------------------------------------

\* a value of one R element that fits it
IsPlain(j) ==
  \/ j.type \in {"boolean", "string", "number_float"}
  \/ j.type \in {"number_integer", "number_unsigned"} /\ ToInt(j.data) = j.data

\* the json values that R can hold, by their form alone
RECURSIVE Holds(_)
Holds(j) ==
  CASE j.type = "null" -> TRUE
    [] j.type = "array" ->
         /\ Len(j.data) > 1
         /\ \A i \in DOMAIN j.data : IsPlain(j.data[i])
         /\ \A i \in DOMAIN j.data : RType(j.data[i].type) = RType(j.data[1].type)
         /\ Hack \notin {j.data[i].data : i \in {i \in DOMAIN j.data : j.data[i].type = "string"}}
    [] j.type = "object" -> \A k \in DOMAIN j.data : Holds(j.data[k])
    [] OTHER -> IsPlain(j)

\* R knows one kind of integers
RECURSIVE Signed(_)
Signed(j) ==
  CASE j.type = "number_unsigned" -> Integer(j.data)
    [] j.type = "array" -> Array([i \in DOMAIN j.data |-> Signed(j.data[i])])
    [] j.type = "object" -> Object([k \in DOMAIN j.data |-> Signed(j.data[k])])
    [] OTHER -> j

\* what a handler gives back of the content it was given
ThroughR(j) == LET r == ToR(j) IN IF r.type = "error" THEN r ELSE FromAny(r)

\* an object written in braces, pair by pair, is that object, and an array is
\* an array unless it happens to hold such pairs
BracesKept(j) ==
  /\ j.type = "object" =>
       LET fields == [i \in DOMAIN Keys(j) |->
                        Braces(<<String(Keys(j)[i]), j.data[Keys(j)[i]]>>)]
       IN Braces(fields) = j
  /\ j.type = "array" =>
       (Braces(j.data) = j <=> \E i \in DOMAIN j.data : ~IsPair(j.data[i]))

\* what R can hold comes back as it was, and nothing else does; on the way,
\* no field is left out
ContentKept(j) ==
  /\ ThroughR(j) = Signed(j) <=> Holds(j)
  /\ BracesKept(j)
  /\ WalkKept(j)

\* the R values that json can hold
RECURSIVE RHolds(_)
RHolds(r) ==
  CASE r.type = "NULL" -> TRUE
    [] r.type = "list" ->
         /\ Len(r.names) = Len(r.data)
         /\ \A i \in 2..Len(r.data) : Precedes(r.names[i - 1], r.names[i])
         /\ \A i \in DOMAIN r.data : RHolds(r.data[i])
    [] r.type = "logical" ->
         r.data # <<>> /\ \A i \in DOMAIN r.data : r.data[i] \in BOOLEAN
    [] r.type = "character" ->
         /\ r.data # <<>>
         /\ Len(r.data) > 1 => \A i \in DOMAIN r.data : r.data[i] # Hack
    [] r.type \in {"integer", "double"} -> r.data # <<>>
    [] OTHER -> FALSE

ResultKept(r) ==
  LET j == FromAny(r) IN (j.type # "error" /\ ToR(j) = r) <=> RHolds(r)
=============================================================================
