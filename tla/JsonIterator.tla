---------------------------- MODULE JsonIterator ----------------------------
(***************************************************************************)
(* json.hpp's iterators: over the elements of an array, over an object in  *)
(* the order of its keys, and over anything else as over an array of       *)
(* itself, of which null is an empty one.  from_json_r walks an object     *)
(* with them.                                                              *)
(***************************************************************************)
EXTENDS JsonValue

\* an iterator at that many steps from the first
Iterator(j, at) == [object |-> j, at |-> at]

IsContainer(j) == j.type \in {"array", "object"}

JsonSize(j) ==
  CASE j.type = "null" -> 0
    [] IsContainer(j) -> Cardinality(DOMAIN j.data)
    [] OTHER -> 1

\* null is at its end from the beginning
Begin(j) == Iterator(j, IF j.type = "null" THEN 1 ELSE 0)
End(j) == Iterator(j, IF IsContainer(j) THEN JsonSize(j) ELSE 1)

\* ++ and --
Advance(it) == [it EXCEPT !.at = @ + 1]
Retreat(it) == [it EXCEPT !.at = @ - 1]

\* operator*, operator-> and value(): an assertion at the end of a container
Deref(it) ==
  LET j == it.object IN
  CASE IsContainer(j) /\ it.at = JsonSize(j) -> Throws("assert")
    [] j.type = "object" -> j.data[Keys(j)[it.at + 1]]
    [] j.type = "array" -> j.data[it.at + 1]
    [] j.type # "null" /\ it.at = 0 -> j
    [] OTHER -> Throws("214")

KeyAt(it) == Keys(it.object)[it.at + 1]

\* ==; iterators of two values cannot be compared
Same(it, other) == it.at = other.at

\* <, +=, - and []: there is no order among the fields of an object
IsBefore(it, other) ==
  IF it.object.type = "object" THEN Throws("213") ELSE Boolean(it.at < other.at)

Plus(it, n) ==
  IF it.object.type = "object" THEN Iterator(Throws("209"), 0)
  ELSE [it EXCEPT !.at = @ + n]

Minus(it, other) ==
  IF it.object.type = "object" THEN Throws("209") ELSE Integer(it.at - other.at)

AtOffset(it, n) ==
  LET j == it.object IN
  CASE j.type = "object" -> Throws("208")
    [] j.type = "array" -> j.data[it.at + n + 1]
    [] j.type # "null" /\ it.at = -n -> j
    [] OTHER -> Throws("214")

\* a loop from begin() until end()
RECURSIVE WalkFrom(_)
WalkFrom(it) ==
  IF Same(it, End(it.object)) THEN <<>> ELSE <<it>> \o WalkFrom(Advance(it))

Walk(j) == WalkFrom(Begin(j))

\* a reverse iterator stands one after what it is at
RECURSIVE WalkBackFrom(_)
WalkBackFrom(base) ==
  IF Same(base, Begin(base.object)) THEN <<>>
  ELSE <<Retreat(base)>> \o WalkBackFrom(Retreat(base))

WalkBack(j) == WalkBackFrom(End(j))

-----------------------------------------------------------------------------

\* every child is seen once, in order, both ways, none of a null and only
\* itself of another value, and jumps agree with steps
WalkKept(j) ==
  LET steps == Walk(j)
      seen == [i \in DOMAIN steps |-> Deref(steps[i])]
      back == WalkBack(j)
  IN /\ Len(steps) = JsonSize(j)
     /\ [i \in DOMAIN back |-> Deref(back[i])] = Reverse(seen)
     /\ j.type = "array" => seen = j.data
     /\ j.type = "object" =>
          /\ \A i \in DOMAIN steps : seen[i] = j.data[KeyAt(steps[i])]
          /\ {KeyAt(steps[i]) : i \in DOMAIN steps} = DOMAIN j.data
          /\ \A i \in 2..Len(steps) : Precedes(KeyAt(steps[i - 1]), KeyAt(steps[i]))
     /\ j.type \notin {"array", "object", "null"} => seen = <<j>>
     /\ j.type # "object" => \A i \in DOMAIN steps :
          /\ Same(Plus(Begin(j), i - 1), steps[i])
          /\ AtOffset(Begin(j), i - 1) = seen[i]
          /\ Minus(steps[i], Begin(j)) = Integer(i - 1)
          /\ IsBefore(steps[i], End(j)) = Boolean(TRUE)
=============================================================================
