----------------------------- MODULE JsonBinary -----------------------------
(***************************************************************************)
(* json.hpp's two binary formats, CBOR and MessagePack: binary_writer and  *)
(* binary_reader.  An integer is its eight bytes, most significant first,  *)
(* a double likewise, a string its bytes.  A reader returns                *)
(* [value, next]; an error is a value and the number of its exception.     *)
(***************************************************************************)
EXTENDS JsonValue, FiniteSets, FiniteSetsExt

Bytes8(n) == [i \in 1..8 |-> IF i <= 4 THEN 0 ELSE (n \div 256^(8 - i)) % 256]

Low(b, k) == SubSeq(b, Len(b) - k + 1, Len(b))

\* a number of fewer bytes as one of eight
Extend(b, byte) == [i \in 1..(8 - Len(b)) |-> byte] \o b
Widen(b) == Extend(b, 0)
SignExtend(b) == Extend(b, IF b[1] >= 128 THEN 255 ELSE 0)

Negative(b) == b[1] >= 128

\* -1 - n
Complement(b) == [i \in DOMAIN b |-> 255 - b[i]]

Small(b, limit) == Widen(Low(b, 1)) = b /\ b[8] <= limit

Widths == {1, 2, 4, 8}
Log == [k \in Widths |-> CHOOSE e \in 0..3 : 2^e = k]

\* write_number in the least width that holds it, after the code for the width
Sized(code, b) ==
  LET k == Min({k \in Widths : Widen(Low(b, k)) = b}) IN <<code + Log[k]>> \o Low(b, k)

-----------------------------------------------------------------------------
(* write_cbor.                                                             *)

\* mutant of CborHead: 24, which says that a byte follows, is taken for a size
CborHeadOff(major, b) ==
  IF Small(b, 24) THEN <<major + b[8]>> ELSE Sized(major + 24, b)

\* a type and a number: up to 23 in one byte
CborHead(major, b) ==
  IF Small(b, 23) THEN <<major + b[8]>> ELSE Sized(major + 24, b)

CborUnsigned(b) == CborHead(0, b)
CborInteger(b) ==
  IF Negative(b) THEN CborHead(32, Complement(b)) ELSE CborUnsigned(b)
CborFloat(b) == <<251>> \o b
CborText(s) == CborHead(96, Bytes8(Len(s))) \o s
CborList(texts) == CborHead(128, Bytes8(Len(texts))) \o FlattenSeq(texts)
CborMap(texts) == CborHead(160, Bytes8(Len(texts))) \o FlattenSeq(texts)

RECURSIVE WriteCbor(_)
WriteCbor(j) ==
  CASE j.type = "null" -> <<246>>
    [] j.type = "boolean" -> <<IF j.data THEN 245 ELSE 244>>
    [] j.type = "number_integer" -> CborInteger(j.data)
    [] j.type = "number_unsigned" -> CborUnsigned(j.data)
    [] j.type = "number_float" -> CborFloat(j.data)
    [] j.type = "string" -> CborText(j.data)
    [] j.type = "array" -> CborList([i \in DOMAIN j.data |-> WriteCbor(j.data[i])])
    [] j.type = "object" ->
         LET keys == Keys(j)
         IN CborMap([i \in DOMAIN keys |-> CborText(keys[i]) \o WriteCbor(j.data[keys[i]])])

-----------------------------------------------------------------------------
(* write_msgpack.                                                          *)

PackUnsigned(b) == IF Small(b, 127) THEN <<b[8]>> ELSE Sized(204, b)
PackInteger(b) ==
  IF ~Negative(b) THEN PackUnsigned(b)
  ELSE IF SignExtend(Low(b, 1)) = b /\ b[8] >= 224 THEN Low(b, 1)
  ELSE LET k == Min({k \in Widths : SignExtend(Low(b, k)) = b})
       IN <<208 + Log[k]>> \o Low(b, k)
PackFloat(b) == <<203>> \o b

\* a size: in the code, or in two or four bytes after it
PackSize(n, fix, limit, code) ==
  IF n <= limit THEN <<fix + n>>
  ELSE IF n <= 65535 THEN <<code>> \o Low(Bytes8(n), 2)
  ELSE <<code + 1>> \o Low(Bytes8(n), 4)

PackText(s) ==
  (IF Len(s) \in 32..255 THEN <<217, Len(s)>> ELSE PackSize(Len(s), 160, 31, 218)) \o s
PackList(texts) == PackSize(Len(texts), 144, 15, 220) \o FlattenSeq(texts)
PackMap(texts) == PackSize(Len(texts), 128, 15, 222) \o FlattenSeq(texts)

RECURSIVE WritePack(_)
WritePack(j) ==
  CASE j.type = "null" -> <<192>>
    [] j.type = "boolean" -> <<IF j.data THEN 195 ELSE 194>>
    [] j.type = "number_integer" -> PackInteger(j.data)
    [] j.type = "number_unsigned" -> PackUnsigned(j.data)
    [] j.type = "number_float" -> PackFloat(j.data)
    [] j.type = "string" -> PackText(j.data)
    [] j.type = "array" -> PackList([i \in DOMAIN j.data |-> WritePack(j.data[i])])
    [] j.type = "object" ->
         LET keys == Keys(j)
         IN PackMap([i \in DOMAIN keys |-> PackText(keys[i]) \o WritePack(j.data[keys[i]])])

Write(format, j) == IF format = "cbor" THEN WriteCbor(j) ELSE WritePack(j)

-----------------------------------------------------------------------------
(* Reading one code and what belongs to it.                                *)

Eof == -1
At(input, i) == IF i <= Len(input) THEN input[i] ELSE Eof

Got(value, next) == [is |-> "value", value |-> value, next |-> next, size |-> 0]
Sequel(is, size, next) ==
  [is |-> is, value |-> IF is = "array" THEN Array(<<>>) ELSE EmptyObject, next |-> next,
   size |-> size]
Fail(code) == Got(Throws(code), 0)

\* check_eof: what takes k bytes from i on
Upto(input, i, k, result) == IF i + k - 1 <= Len(input) THEN result ELSE Fail("110")

\* get_number
Number(input, i, k) == SubSeq(input, i, i + k - 1)

\* a size as a number: if it does not fit, then more than there is input
Size(input, b) ==
  IF Widen(Low(b, 3)) = b THEN 65536 * b[6] + 256 * b[7] + b[8] ELSE Len(input) + 1

\* get_string
GetString(input, i, n) == Upto(input, i, n, Got(String(SubSeq(input, i, i + n - 1)), i + n))

\* what ends with the byte 255
Open == -1

\* m * 2^e as a double, which a number with fewer bits always is
Scaled(sign, m, e) ==
  LET top == Max({t \in 0..23 : 2^t <= m})
      exponent == 1023 + e + top
      fraction == m - 2^top
      high == IF top <= 20 THEN fraction * 2^(20 - top) ELSE fraction \div 2^(top - 20)
      rest == IF top <= 20 THEN 0 ELSE (fraction % 2^(top - 20)) * 2^(28 - top)
  IN IF m = 0 THEN <<128 * sign, 0, 0, 0, 0, 0, 0, 0>>
     ELSE <<128 * sign + exponent \div 16, 16 * (exponent % 16) + high \div 65536,
            (high \div 256) % 256, high % 256, rest, 0, 0, 0>>

Special(sign, isNaN) == <<128 * sign + 127, IF isNaN THEN 248 ELSE 240, 0, 0, 0, 0, 0, 0>>

\* half precision, as RFC 7049 decodes it
Half(b) ==
  LET sign == b[1] \div 128
      exponent == (b[1] \div 4) % 32
      mant == 256 * (b[1] % 4) + b[2]
  IN IF exponent = 31 THEN Special(sign, mant # 0)
     ELSE IF exponent = 0 THEN Scaled(sign, mant, -24)
     ELSE Scaled(sign, mant + 1024, exponent - 25)

\* a float as a double
Single(b) ==
  LET sign == b[1] \div 128
      exponent == 2 * (b[1] % 128) + b[2] \div 128
      mant == 65536 * (b[2] % 128) + 256 * b[3] + b[4]
  IN IF exponent = 255 THEN Special(sign, mant # 0)
     ELSE IF exponent = 0 THEN Scaled(sign, mant, -149)
     ELSE Scaled(sign, mant + 2^23, exponent - 150)

GetFloat(input, i, k) ==
  LET b == Number(input, i, k)
      double == CASE k = 2 -> Half(b) [] k = 4 -> Single(b) [] OTHER -> b
  IN Upto(input, i, k, Got(Float(double), i + k))

-----------------------------------------------------------------------------
(* parse_cbor_internal, up to the elements.                                *)

\* the number after a type: in the code, or in 1, 2, 4 or 8 bytes after it
CborBytes(code) == IF code % 32 <= 23 THEN 0 ELSE 2^((code % 32) - 24)
CborNumber(input, i) ==
  LET k == CborBytes(input[i])
  IN IF k = 0 THEN Bytes8(input[i] % 32) ELSE Widen(Number(input, i + 1, k))

HasNumber(code) == code % 32 <= 27

\* get_cbor_string; an indefinite one is bytes up to a 255
CborString(input, i) ==
  LET code == At(input, i)
      k == CborBytes(code)
      stop == {n \in (i + 1)..Len(input) : input[n] = 255}
  IN IF code = Eof THEN Fail("110")
     ELSE IF code \div 32 = 3 /\ HasNumber(code)
       THEN Upto(input, i + 1, k,
                 GetString(input, i + 1 + k, Size(input, CborNumber(input, i))))
     ELSE IF code # 127 THEN Fail("113")
     ELSE IF stop = {} THEN Fail("110")
     ELSE Got(String(SubSeq(input, i + 1, Min(stop) - 1)), Min(stop) + 1)

CborSized(is, input, i) ==
  IF input[i] % 32 = 31 THEN Sequel(is, Open, i + 1)
  ELSE Sequel(is, Size(input, CborNumber(input, i)), i + 1 + CborBytes(input[i]))

CborSimple(input, i) ==
  LET code == input[i] IN
  CASE code \in {244, 245} -> Got(Boolean(code = 245), i + 1)
    [] code = 246 -> Got(Null, i + 1)
    [] code \in 249..251 -> GetFloat(input, i + 1, 2^(code - 248))
    [] OTHER -> Fail("112")

CborStart(input, i) ==
  LET code == At(input, i)
      major == code \div 32
      k == CborBytes(code)
  IN IF code = Eof THEN Fail("110")
     ELSE IF major = 7 THEN CborSimple(input, i)
     ELSE IF major \in {2, 6} \/ (~HasNumber(code) /\ code \notin {127, 159, 191})
       THEN Fail("112")
     ELSE IF HasNumber(code) /\ i + k > Len(input) THEN Fail("110")
     ELSE CASE major = 0 -> Got(Unsigned(CborNumber(input, i)), i + 1 + k)
            [] major = 1 -> Got(Integer(Complement(CborNumber(input, i))), i + 1 + k)
            [] major = 3 -> CborString(input, i)
            [] major = 4 -> CborSized("array", input, i)
            [] OTHER -> CborSized("object", input, i)

-----------------------------------------------------------------------------
(* parse_msgpack_internal, up to the elements.                             *)

\* get_msgpack_string
PackString(input, i) ==
  LET code == At(input, i)
      k == 2^(code - 217)
  IN IF code = Eof THEN Fail("110")
     ELSE IF code \in 160..191 THEN GetString(input, i + 1, code % 32)
     ELSE IF code \notin 217..219 THEN Fail("113")
     ELSE Upto(input, i + 1, k,
               GetString(input, i + 1 + k, Size(input, Widen(Number(input, i + 1, k)))))

PackNumber(input, i) ==
  LET code == input[i]
      k == 2^((code - 204) % 4)
      b == Number(input, i + 1, k)
  IN Upto(input, i + 1, k,
          Got(IF code < 208 THEN Unsigned(Widen(b)) ELSE Integer(SignExtend(b)), i + 1 + k))

PackSized(is, input, i, k) ==
  Upto(input, i + 1, k,
       Sequel(is, Size(input, Widen(Number(input, i + 1, k))), i + 1 + k))

\* the small integers, which are their codes
PackFixint(code, i) ==
  Got(IF code < 128 THEN Unsigned(Bytes8(code)) ELSE Integer(SignExtend(<<code>>)), i + 1)

\* the small sizes, which are part of their codes
PackFixsize(code, i) ==
  IF code < 144 THEN Sequel("object", code - 128, i + 1)
  ELSE Sequel("array", code - 144, i + 1)

PackStart(input, i) ==
  LET code == At(input, i) IN
  CASE code = Eof -> Fail("110")
    [] code \in 0..127 \cup 224..255 -> PackFixint(code, i)
    [] code \in 128..159 -> PackFixsize(code, i)
    [] code \in 160..191 \cup 217..219 -> PackString(input, i)
    [] code = 192 -> Got(Null, i + 1)
    [] code \in {194, 195} -> Got(Boolean(code = 195), i + 1)
    [] code \in {202, 203} -> GetFloat(input, i + 1, 4 * (code - 201))
    [] code \in 204..211 -> PackNumber(input, i)
    [] code \in {220, 221} -> PackSized("array", input, i, 2 * (code - 219))
    [] code \in {222, 223} -> PackSized("object", input, i, 2 * (code - 221))
    [] OTHER -> Fail("112")

-----------------------------------------------------------------------------
(* Whole values.                                                           *)

StringAt(format, input, i) ==
  IF format = "cbor" THEN CborString(input, i) ELSE PackString(input, i)

Start(format, input, i) ==
  IF format = "cbor" THEN CborStart(input, i) ELSE PackStart(input, i)

\* the elements of the container that 'from' has come to, and its end
RECURSIVE Rest(_, _, _)

\* get_cbor_array, and get_msgpack's: after an element
GetArray(format, input, from, one) ==
  IF one.value.type = "error" THEN one
  ELSE Rest(format, input, [from EXCEPT !.value = PushBack(@, one.value),
                                        !.next = one.next, !.size = @ - 1])

\* of equal keys the first stays if the size is given, else the last
GetField(from, key, value) ==
  IF from.size < 0 THEN SetField(from.value, key, value)
  ELSE EmplaceField(from.value, key, value)

\* get_cbor_object, and get_msgpack's: after a field's value, and after its key
GetValue(format, input, from, key, one) ==
  IF one.value.type = "error" THEN one
  ELSE Rest(format, input, [from EXCEPT !.value = GetField(from, key, one.value),
                                        !.next = one.next, !.size = @ - 1])

GetObject(format, input, from, key) ==
  IF key.value.type = "error" THEN key
  ELSE GetValue(format, input, from, key.value.data,
                Rest(format, input, Start(format, input, key.next)))

Rest(format, input, from) ==
  IF from.is = "value" THEN from
  ELSE IF from.size = 0 THEN Got(from.value, from.next)
  ELSE IF from.size < 0 /\ At(input, from.next) = 255 THEN Got(from.value, from.next + 1)
  ELSE IF from.is = "array"
    THEN GetArray(format, input, from, Rest(format, input, Start(format, input, from.next)))
  ELSE GetObject(format, input, from, StringAt(format, input, from.next))

\* parse_cbor and parse_msgpack, strict: nothing may follow
Strict(input, item) ==
  IF item.value.type # "error" /\ item.next <= Len(input) THEN Throws("110") ELSE item.value

From(format, input) == Strict(input, Rest(format, input, Start(format, input, 1)))

-----------------------------------------------------------------------------

Formats == {"cbor", "msgpack"}

\* an integer that is not negative is read as an unsigned one
RECURSIVE Natural(_)
Natural(j) ==
  CASE j.type = "number_integer" -> IF Negative(j.data) THEN j ELSE Unsigned(j.data)
    [] j.type = "array" -> Array([i \in DOMAIN j.data |-> Natural(j.data[i])])
    [] j.type = "object" -> Object([k \in DOMAIN j.data |-> Natural(j.data[k])])
    [] OTHER -> j

\* what is written is read, and neither less nor more of it
BinaryKept(j, cuts) ==
  \A format \in Formats : \A b \in {Write(format, j)} :
    LET fewer == {SubSeq(b, 1, n) : n \in {n \in cuts : n < Len(b)}}
        more == {Append(b, byte) : byte \in {0, 255}}
    IN \A text \in {b} \cup fewer \cup more :
         From(format, text) = IF text = b THEN Natural(j) ELSE Throws("110")

\* CBOR without sizes says the same
OpenKept(j) ==
  LET keys == Keys(j)
      code == IF j.type = "array" THEN 159 ELSE 191
      texts == IF j.type = "array" THEN [i \in DOMAIN j.data |-> WriteCbor(j.data[i])]
               ELSE [i \in DOMAIN keys |-> CborText(keys[i]) \o WriteCbor(j.data[keys[i]])]
  IN j.type \in {"array", "object"}
       => From("cbor", <<code>> \o FlattenSeq(texts) \o <<255>>) = Natural(j)

\* whatever bytes a value came from, it can be written and read
BytesKept(input) ==
  \A j \in {From(format, input) : format \in Formats} :
    j.type # "error" => \A other \in Formats : From(other, Write(other, j)) = Natural(j)

\* a half is the float with its bits
HalvesKept(b) ==
  LET exponent == ((b[1] \div 4) % 32) + 112
      single == <<128 * (b[1] \div 128) + exponent \div 2,
                  128 * (exponent % 2) + 32 * (b[1] % 4) + b[2] \div 8, 32 * (b[2] % 8), 0>>
  IN exponent \in 113..142 =>
       Cardinality({From("cbor", text) : text \in {<<249>> \o b, <<250>> \o single}}) = 1
=============================================================================
