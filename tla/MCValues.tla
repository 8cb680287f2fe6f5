------------------------------ MODULE MCValues ------------------------------
(* Instance of Values: inputs at the boundaries of each conversion.        *)
EXTENDS Values

J == INSTANCE RJson
L == INSTANCE JsonLayout

\* a number of more digits than are written, and what is written of it
Long == J!Float("0.125")
Short == J!Float("0.12")

RECURSIVE MCReread(_)
MCReread(j) ==
  IF j = Long THEN Short
  ELSE IF j.type = "object" THEN J!Object([k \in DOMAIN j.data |-> MCReread(j.data[k])])
  ELSE j

MCDumped(j) == L!Dump(MCReread(j))

Alphabet == <<"a", "b", "content", "date", "header", "metadata", "msg_id", "msg_type",
              "parent_header", "session", "username", "version">>
MCPrecedes(k, l) ==
  \E i, n \in DOMAIN Alphabet : i < n /\ Alphabet[i] = k /\ Alphabet[n] = l

UpTo(n, set) == UNION {[1..k -> set] : k \in 0..n}

\* the bytes at which the tables of lexer and serializer change
BoundaryBytes == {8, 31, 32, 34, 47, 92, 98, 117, 127, 128, 143, 144, 159, 160,
                  191, 192, 194, 223, 224, 225, 237, 239, 240, 241, 244, 245}

MCStrings ==
  UpTo(3, BoundaryBytes)
  \cup {<<a, b, c, d>> : a \in {240, 241, 244}, b \in {127, 128, 143, 144, 191},
                         c \in {127, 128, 191}, d \in {128, 191, 192}}

MCCodeUnits ==
  UNION {[1..n -> {0, 34, 127, 128, 2047, 2048, 55295, 55296, 56319, 56320, 57343,
                   57344, 65535}] : n \in 1..2}

MCNumberTexts == UpTo(4, {0, 1, 9, 10, 11, 12, 13})
                 \cup {<<a, b, 12, c, d>> : a \in {0, 1}, b \in {9, 11}, c \in {9, 10, 13},
                                            d \in {0, 9}}
                 \cup [1..4 -> {1, 2, 3, 4, 5}]
                 \cup {<<a>> \o d : a \in {10, 1, 9}, d \in [1..3 -> {0, 1, 2, 3, 5, 9, 11}]}
                 \cup {<<0, 11>> \o d : d \in [1..3 -> {0, 1, 4, 5, 9}]}
                 \cup {<<9, 9, 5, 12, d, 9>> : d \in {10, 13}}

\* integers at the boundaries of the widths
K(n) == B!Bytes8(n)
MCPositive == {K(n) : n \in {0, 1, 23, 24, 31, 32, 127, 128, 255, 256, 32767, 32768, 65535,
                            65536, 2147483647}}
              \cup {B!Widen([i \in 1..k |-> b]) : k \in {4, 7}, b \in {128, 255}}
              \cup {B!Widen(<<127, 255, 255, 255, 255, 255, 255, 255>>)}
MCBig == {[i \in 1..8 |-> 255], [i \in 1..8 |-> IF i = 1 THEN 128 ELSE 0]}
MCNumbers == {B!Unsigned(b) : b \in MCPositive \cup MCBig}
             \cup {B!Integer(b) : b \in MCPositive \cup {B!Complement(b) : b \in MCPositive}}
             \cup {B!Float(<<63, 240, 0, 0, 0, 0, 0, 1>>)}
MCTexts == {B!String([i \in 1..n |-> 97]) : n \in {0, 1, 23, 24, 31, 32, 255, 256, 65535, 65536}}
MCPlain == MCNumbers \cup MCTexts \cup {B!Null, B!Boolean(TRUE), B!Boolean(FALSE)}
Fields(n, j) == B!Object([k \in {<<i \div 256, i % 256>> : i \in 1..n} |-> j])
MCBoxes(j) == {B!Array([i \in 1..n |-> j]) : n \in {0, 1, 15, 16, 23, 24, 256}}
              \cup {Fields(n, j) : n \in {0, 1, 15, 16, 23, 24}}
MCBinaries == MCPlain \cup MCBoxes(B!Null) \cup MCBoxes(B!Unsigned(K(7)))
              \cup {B!Array(<<j, B!Array(<<>>), B!EmptyObject, j>>) : j \in MCNumbers}
              \cup {B!Object([k \in {<<>>, <<97>>, <<97, 255>>, <<98>>} |-> j]) :
                       j \in {B!Null} \cup MCBoxes(B!Null)}

\* any two bytes, and more after some codes
MCCodes == {24, 25, 55, 56, 59, 97, 98, 120, 127, 128, 129, 130, 152, 159, 160, 161, 162, 184,
            191, 193, 204, 208, 211, 217, 220, 222, 224, 246, 249, 255}
MCInputs == [1..2 -> 0..255] \cup [1..3 -> MCCodes]
            \cup {<<c>> \o s : c \in {191, 162, 130}, s \in [1..4 -> {96, 97, 160, 161, 191, 246, 255}]}
            \cup {<<c>> \o s : c \in {202, 250}, s \in [1..4 -> {0, 1, 127, 128, 255}]}

Simple == {J!Null, J!Boolean(TRUE), J!Unsigned(1), J!Unsigned(9), J!Integer(-1),
           J!Float(5), J!String("s"), J!String(J!Hack)}
Arrays == {J!Array(a) : a \in UpTo(2, Simple)}
Nested == {J!EmptyObject, J!Array(<<>>), J!Array(<<J!EmptyObject>>),
           J!Array(<<J!Array(<<>>)>>), J!Array(<<J!String("s"), J!EmptyObject>>),
           J!Array(<<J!Array(<<J!String("a"), J!Null>>)>>)}
Objects == {J!Object(f) : f \in [{"a", "b"} -> Simple \cup Nested]}

MCContents == Simple \cup Arrays \cup Nested \cup Objects
              \cup {J!Object([k \in {"b"} |-> j]) : j \in Objects \cup Arrays}

Vectors ==
  {J!RNull, J!RVector("closure", <<1>>)}
  \cup {J!RVector("logical", v) : v \in {<<>>, <<TRUE>>, <<NA>>, <<TRUE, NA>>, <<TRUE, FALSE>>}}
  \cup {J!RVector("integer", v) : v \in {<<>>, <<1>>, <<-8, 7>>}}
  \cup {J!RVector("double", v) : v \in {<<>>, <<4>>, <<4, 5>>}}
  \cup {J!RVector("character", v) : v \in {<<>>, <<"s">>, <<J!Hack>>, <<"s", J!Hack>>,
                                           <<"s", "t">>}}
Lists == {J!RList(<<>>, <<>>)}
         \cup {J!RList(v, n) : v \in [1..2 -> Vectors],
                               n \in {<<>>, <<"a", "b">>, <<"b", "a">>, <<"a", "a">>}}

MCResults == Vectors \cup Lists
             \cup {J!RList(<<l>>, n) : l \in Lists, n \in {<<>>, <<"a">>}}

\* headers that name all, some or none of what a reply looks up
Fields2(names, j) == J!Object([k \in names |-> j])
Full == Fields2({"msg_id", "session", "username"}, J!String("1"))
MCHeaders == {Full, Fields2({"session", "username"}, Long), Fields2({"username"}, J!Null),
              Fields2({"session"}, J!Null), J!EmptyObject, J!Null, J!Array(<<Full>>)}

Msg(h, c) == [p \in {"header", "parent_header", "metadata", "content"} |->
                CASE p = "header" -> h [] p = "content" -> c [] OTHER -> J!EmptyObject]

\* a client's text, compact or on lines of its own
Spelt(j, step) == [is |-> "json", text |-> L!Lay(j, step, 0, 8), holds |-> j]
Body(m, step) == [i \in 1..4 |-> Spelt(m[Parts[i]], step)]
SignedBody(key, body) == <<Signed(key, [i \in 1..4 |-> body[i].text])>> \o body

MCBodies == {Body(Msg(h, c), step) : h \in MCHeaders, c \in {J!EmptyObject, Full, Long},
                                     step \in {L!Compact, 0}}

\* signed, signed by another, with another's content, with a dict that is none
MCRequests ==
  {ids \o sep \o SignedBody(key, body) \o buffers :
     ids \in UpTo(2, {Bytes("i"), Empty}),
     sep \in {<<>>, <<Delimiter>>, <<Empty>>},
     key \in {"k", "other"},
     body \in MCBodies,
     buffers \in {<<>>, <<Empty>>, <<Bytes("b"), Delimiter>>, <<Spelt(Full, 0), Spelt(Full, 0)>>}}
  \cup {<<Delimiter>> \o [SignedBody("k", body) EXCEPT ![5] = f] :
          body \in MCBodies, f \in {Spelt(J!EmptyObject, 0), Spelt(Full, 0), Bytes("b"), Delimiter}}
  \cup {SubSeq(<<Bytes("i"), Delimiter, Bytes("b")>>, 1, n) : n \in 0..3}

MCDialogues == {Msg(h, c) : h \in MCHeaders,
                            c \in {J!EmptyObject, Fields2({"a"}, J!Null), Fields2({"a"}, Long)}}

MCReplies == {[content |-> c, buffers |-> b] :
                c \in {J!EmptyObject, Long}, b \in {<<>>, <<Bytes("b"), Empty>>}}

MCPieces == {0, 1, 55, 56, 63, 64, 65, 119, 128}

MCContexts ==
  [col : {[rgb |-> "000000", alpha |-> 255], [rgb |-> "000000", alpha |-> 128],
          [rgb |-> "FF0000", alpha |-> 255], [rgb |-> "FFFFFF", alpha |-> 0]},
   fill : {[rgb |-> "FF0000", alpha |-> 255], [rgb |-> "FFFFFF", alpha |-> 0]},
   lwd : {2, 4, 8},
   lty : {<<>>, <<4, 4, 0, 0, 0, 0, 0, 0>>, <<1, 2, 3, 4, 1, 2, 3, 4>>},
   lend : {"round", "butt", "square"},
   ljoin : {"round", "bevel", "miter"},
   lmitre : {1000, 200},
   fontface : {1, 4},
   fontfamily : {""}]
=============================================================================
