------------------------------- MODULE Values -------------------------------
(***************************************************************************)
(* All conversions of the kernel, one at a time: those of FlatValues, and  *)
(* those of texts, numbers and nested values.  The definitions are in the  *)
(* modules instantiated here.                                              *)
(***************************************************************************)
EXTENDS FlatValues

CONSTANTS
  Strings,       \* byte sequences
  CodeUnits,     \* sequences of UTF-16 code units
  NumberTexts,   \* character sequences
  Contents,      \* json values of requests
  Results,       \* R values of handlers
  Binaries,      \* json values, integers and strings as bytes
  Inputs,        \* byte sequences
  Cuts,          \* bound: where a binary text is cut
  Width, Precision, IntWidth, NA

\* the order of std::string
RECURSIVE Before(_, _)
Before(s, t) ==
  IF s = <<>> \/ t = <<>> THEN t # <<>>
  ELSE s[1] < t[1] \/ (s[1] = t[1] /\ Before(Tail(s), Tail(t)))

\* an integer that overflows has more digits than the serializer writes
ASSUME PrecisionAssumption == 10^Precision < 2^(Width - 1)

S == INSTANCE JsonString
N == INSTANCE JsonNumber
B == INSTANCE JsonBinary WITH Precedes <- Before
R == INSTANCE RJson

GiveString == \E s \in Strings : Given("string", s)
GiveUnits == \E u \in CodeUnits : Given("units", u)
GiveNumber == \E t \in NumberTexts : Given("number", t)
GiveBinary == \E j \in Binaries : Given("binary", j)
GiveBytes == \E b \in Inputs : Given("bytes", b)
GiveContent == \E j \in Contents : Given("content", j)
GiveResult == \E r \in Results : Given("result", r)

ValuesNext ==
  \/ /\ given.kind = "nothing"
     /\ \/ GiveString \/ GiveUnits \/ GiveNumber \/ GiveBinary \/ GiveBytes
        \/ GiveContent \/ GiveResult
     /\ UNCHANGED <<hasher, fed>>
  \/ FlatNext

ValuesSpec == FlatInit /\ [][ValuesNext]_flatVars

-----------------------------------------------------------------------------
(* Properties.                                                             *)

(* A string that the serializer does not refuse is read back byte for      *)
(* byte, with or without escapes beyond ASCII, and fills the buffer that   *)
(* was sized for it; the lexer accepts the same byte sequences as UTF-8    *)
(* that the serializer does, and \u escapes only if they are characters.   *)
(* So no text of a client makes a reply that cannot be written.            *)
(* (json.hpp:1744-2254, 6307-6810)                                         *)
StringsKept ==
  /\ given.kind = "string" => S!StringKept(given.of)
  /\ given.kind = "units" => S!UnitsKept(given.of)

(* scan_number takes the longest number there is and nothing of what       *)
(* follows, and accepts what the grammar does.  An integer that fits keeps *)
(* value and type when it is written and read, only "-0" becomes an        *)
(* unsigned 0.  Any other number keeps its value if and only if it has no  *)
(* more digits than the serializer writes; an integer that overflows has   *)
(* more, so but for trailing zeros its value changes, to the nearest float *)
(* with that many digits, and does not change again.                       *)
(* (json.hpp:2314-2640, 6634-6729)                                         *)
NumbersKept == given.kind = "number" => N!NumberKept(given.of)

(* A value is read back from CBOR and from MessagePack as it was written,  *)
(* at every boundary of the widths; a text cut short or with a byte more   *)
(* is an error, and no other; sizes may be left out; and what any bytes    *)
(* are read as can be written and read again.  (json.hpp:4474-6060)        *)
BinaryKept ==
  /\ given.kind = "binary" =>
       B!BinaryKept(given.of, 0..Cuts) /\ B!OpenKept(given.of)
  /\ given.kind = "bytes" =>
       B!BytesKept(given.of) /\ (Len(given.of) = 2 => B!HalvesKept(given.of))

(* What survives R: a request's content comes back as it was if and only   *)
(* if each array in it has two or more plain elements of one kind, and     *)
(* integers fit; a handler's result if and only if its lists are named, in *)
(* order, and its vectors are not empty and hold no NA.  An object that    *)
(* the kernel writes in braces is the object it means, and its iterators   *)
(* leave out no field of it.                                               *)
(* (utils.h:28-157, json.hpp:3571-4180, 8519-8570)                         *)
ContentsKept ==
  /\ given.kind = "content" => R!ContentKept(given.of)
  /\ given.kind = "result" => R!ResultKept(given.of)
=============================================================================
