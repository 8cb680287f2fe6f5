-------------------------- MODULE JsonGrammarProofs --------------------------
(***************************************************************************)
(* Proofs about json.hpp's two readers: the stack of the parser and the    *)
(* stack of the acceptor always hold the same kinds of containers, and     *)
(* both readers look for the same thing, so that they agree on every text. *)
(* Nothing is assumed of the scalars or of the order of keys.              *)
(***************************************************************************)
EXTENDS JsonGrammar, TLAPS

-----------------------------------------------------------------------------
(* The two stacks.                                                         *)

\* a container of the parser and what the acceptor has for it
Pair(f, a) ==
  /\ f = [value |-> f.value, key |-> f.key]
  /\ \/ f.value.type = "object" /\ a = "object"
     \/ f.value.type = "array" /\ a = "array"

Match(fs, ks) ==
  /\ \E S : fs \in Seq(S)
  /\ ks \in Seq({"object", "array"})
  /\ Len(fs) = Len(ks)
  /\ \A i \in 1..Len(ks) : Pair(fs[i], ks[i])

(* A container is entered by both.                                         *)
LEMMA Enter ==
  ASSUME NEW fs, NEW ks, Match(fs, ks), NEW f, NEW a \in {"object", "array"}, Pair(f, a)
  PROVE  /\ Match(Append(fs, f), Append(ks, a))
         /\ Last(Append(fs, f)) = f /\ Append(fs, f) # <<>>
<1> DEFINE gs == Append(fs, f)
           ls == Append(ks, a)
<1>1. PICK S : fs \in Seq(S)
  BY DEF Match
<1>2. /\ ks \in Seq({"object", "array"}) /\ Len(fs) = Len(ks)
      /\ \A i \in 1..Len(ks) : Pair(fs[i], ks[i])
  BY DEF Match
<1>3. fs \in Seq(S \cup {f})
  BY <1>1
<1>4. /\ gs \in Seq(S \cup {f}) /\ Len(gs) = Len(fs) + 1
      /\ \A i \in 1..Len(fs) : gs[i] = fs[i]
      /\ gs[Len(fs) + 1] = f
  BY <1>3
<1>5. /\ ls \in Seq({"object", "array"}) /\ Len(ls) = Len(ks) + 1
      /\ \A i \in 1..Len(ks) : ls[i] = ks[i]
      /\ ls[Len(ks) + 1] = a
  BY <1>2
<1> HIDE DEF gs, ls
<1>6. \A i \in 1..Len(ls) : Pair(gs[i], ls[i])
  <2>1. \A i \in 1..Len(ls) : i \in 1..Len(ks) \/ i = Len(ks) + 1
    BY <1>2, <1>5
  <2>2. QED
    BY <1>2, <1>4, <1>5, <2>1
<1>7. Match(gs, ls)
  BY <1>2, <1>4, <1>5, <1>6 DEF Match
<1>8. Last(gs) = f /\ gs # <<>>
  BY <1>3, <1>4 DEF Last
<1>9. QED
  BY <1>7, <1>8 DEF gs, ls

(* The last of a list, and the list without it.                            *)
LEMMA Split ==
  ASSUME NEW S, NEW s \in Seq(S), s # <<>>
  PROVE  /\ Front(s) \in Seq(S) /\ Len(s) >= 1
         /\ Len(Front(s)) = Len(s) - 1
         /\ \A i \in 1..(Len(s) - 1) : Front(s)[i] = s[i]
         /\ Last(s) = s[Len(s)]
         /\ Front(s) = <<>> <=> Len(s) = 1
<1>1. Len(s) \in Nat /\ Len(s) >= 1
  OBVIOUS
<1> DEFINE rest == SubSeq(s, 1, Len(s) - 1)
<1>2. /\ rest \in Seq(S) /\ Len(rest) = Len(s) - 1
      /\ \A i \in 1..(Len(s) - 1) : rest[i] = s[i]
  <2>1. rest = [i \in 1..(Len(s) - 1) |-> s[i]]
    BY <1>1
  <2>2. \A i \in 1..(Len(s) - 1) : s[i] \in S
    BY <1>1
  <2> HIDE DEF rest
  <2>3. Len(s) - 1 \in Nat
    BY <1>1
  <2>4. rest \in [1..(Len(s) - 1) -> S]
    BY <2>1, <2>2
  <2>5. rest \in Seq(S)
    BY <2>3, <2>4
  <2>6. QED
    BY <2>1, <2>3, <2>5
<1> HIDE DEF rest
<1>3. rest = <<>> <=> Len(s) = 1
  BY <1>1, <1>2
<1>4. QED
  BY <1>1, <1>2, <1>3 DEF Front, Last, rest

(* The innermost container is left by both.                                *)
LEMMA Leave ==
  ASSUME NEW fs, NEW ks, Match(fs, ks), fs # <<>>
  PROVE  /\ Match(Front(fs), Front(ks))
         /\ Pair(Last(fs), Last(ks))
         /\ Front(fs) = <<>> <=> Len(ks) = 1
         /\ ks # <<>>
<1> DEFINE gs == Front(fs)
           ls == Front(ks)
<1>1. PICK S : fs \in Seq(S)
  BY DEF Match
<1>2. /\ ks \in Seq({"object", "array"}) /\ Len(fs) = Len(ks)
      /\ \A i \in 1..Len(ks) : Pair(fs[i], ks[i])
  BY DEF Match
<1>3. /\ gs \in Seq(S) /\ Len(fs) >= 1 /\ Len(gs) = Len(fs) - 1
      /\ \A i \in 1..(Len(fs) - 1) : gs[i] = fs[i]
      /\ Last(fs) = fs[Len(fs)]
      /\ gs = <<>> <=> Len(fs) = 1
  BY <1>1, Split, Zenon
<1>4. ks # <<>>
  BY <1>1, <1>2, <1>3
<1>5. /\ ls \in Seq({"object", "array"}) /\ Len(ls) = Len(ks) - 1
      /\ \A i \in 1..(Len(ks) - 1) : ls[i] = ks[i]
      /\ Last(ks) = ks[Len(ks)]
  BY <1>2, <1>4, Split, Zenon
<1> HIDE DEF gs, ls
<1>6. Pair(Last(fs), Last(ks))
  BY <1>1, <1>2, <1>3, <1>5
<1>7. \A i \in 1..Len(ls) : Pair(gs[i], ls[i])
  BY <1>1, <1>2, <1>3, <1>5
<1>8. Match(gs, ls)
  BY <1>2, <1>3, <1>5, <1>7 DEF Match
<1>9. QED
  BY <1>2, <1>3, <1>4, <1>6, <1>8 DEF gs, ls

(* The innermost container changes and stays of its kind.                  *)
LEMMA Stay ==
  ASSUME NEW fs, NEW ks, Match(fs, ks), fs # <<>>, NEW f, Pair(f, Last(ks))
  PROVE  /\ Match(Append(Front(fs), f), ks)
         /\ Last(Append(Front(fs), f)) = f /\ Append(Front(fs), f) # <<>>
<1> DEFINE rest == Front(fs)
           gs == Append(rest, f)
<1>1. PICK S : fs \in Seq(S)
  BY DEF Match
<1>2. /\ ks \in Seq({"object", "array"}) /\ Len(fs) = Len(ks)
      /\ \A i \in 1..Len(ks) : Pair(fs[i], ks[i])
  BY DEF Match
<1>3. /\ rest \in Seq(S) /\ Len(fs) >= 1 /\ Len(rest) = Len(fs) - 1
      /\ \A i \in 1..(Len(fs) - 1) : rest[i] = fs[i]
  BY <1>1, Split, Zenon
<1> HIDE DEF rest
<1>4. rest \in Seq(S \cup {f})
  BY <1>3
<1>5. /\ gs \in Seq(S \cup {f}) /\ Len(gs) = Len(rest) + 1
      /\ \A i \in 1..Len(rest) : gs[i] = rest[i]
      /\ gs[Len(rest) + 1] = f
  BY <1>4
<1> HIDE DEF gs
<1>6. /\ Len(gs) = Len(ks) /\ gs[Len(ks)] = f
      /\ \A i \in 1..(Len(ks) - 1) : gs[i] = fs[i]
  BY <1>1, <1>2, <1>3, <1>5
<1>7. Last(ks) = ks[Len(ks)]
  BY DEF Last
<1>8. \A i \in 1..Len(ks) : Pair(gs[i], ks[i])
  <2>1. \A i \in 1..Len(ks) : i \in 1..(Len(ks) - 1) \/ i = Len(ks)
    BY <1>2
  <2>2. QED
    BY <1>2, <1>6, <1>7, <2>1
<1>9. Match(gs, ks)
  BY <1>2, <1>5, <1>6, <1>8 DEF Match
<1>10. Last(gs) = f /\ gs # <<>>
  BY <1>1, <1>2, <1>3, <1>5, <1>6 DEF Last
<1>11. QED
  BY <1>9, <1>10 DEF gs, rest

(* A container keeps its kind when an element or a key is put in.          *)
LEMMA KeepsKind ==
  ASSUME NEW f, NEW a, Pair(f, a), NEW v
  PROVE  Pair(Filled(f, v), a) /\ Pair([f EXCEPT !.key = v], a)
<1> DEFINE x == f.value
           k == f.key
<1> HIDE DEF x, k
<1>1. f = [value |-> x, key |-> k]
  BY DEF Pair, x, k
<1>2. [f EXCEPT !.key = v] = [value |-> x, key |-> v]
  BY <1>1
<1>3. CASE x.type = "array" /\ a = "array"
  <2>1. Filled(f, v) = [value |-> PushBack(x, v), key |-> k]
    BY <1>1, <1>3 DEF Filled
  <2>2. PushBack(x, v).type = "array"
    BY <1>3 DEF PushBack, Array
  <2>3. QED
    BY <1>2, <1>3, <2>1, <2>2 DEF Pair
<1>4. CASE x.type = "object" /\ a = "object"
  <2>1. Filled(f, v) = [value |-> EmplaceField(x, k, v), key |-> k]
    BY <1>1, <1>4 DEF Filled
  <2>2. EmplaceField(x, k, v).type = "object"
    BY <1>4 DEF EmplaceField, SetField, Object
  <2>3. QED
    BY <1>2, <1>4, <2>1, <2>2 DEF Pair
<1>5. QED
  BY <1>3, <1>4 DEF Pair, x

-----------------------------------------------------------------------------
(* The two readers.                                                        *)

\* what the acceptor looks for when the parser looks for 'want'
Verdict == IF want = "done" THEN "yes" ELSE IF want = "failed" THEN "no" ELSE want

\* the two readers are at the same place of the same text
Agree ==
  /\ Match(frames, aframes)
  /\ want \in {"value", "first", "firstKey", "key", "colon", "more", "end",
               "done", "failed"}
  /\ awant = Verdict
  /\ want \in {"first", "firstKey", "key", "colon", "more"} => Open
  /\ want = "first" => Top.value.type = "array"
  /\ want \in {"firstKey", "key", "colon"} => Top.value.type = "object"

(* A container that begins begins for both.                                *)
LEMMA Begin ==
  ASSUME Agree, NEW t, ParseBegin(t), AcceptToken(t)
  PROVE  Agree'
<1> DEFINE f == [value |-> IF Is(t, "begin_object") THEN EmptyObject
                           ELSE Array(<<>>), key |-> ""]
           a == IF Is(t, "begin_object") THEN "object" ELSE "array"
<1>1. /\ Match(frames, aframes) /\ want \in {"value", "first"} /\ awant = want
      /\ Is(t, "begin_object") \/ Is(t, "begin_array")
      /\ frames' = Append(frames, f)
      /\ want' = IF Is(t, "begin_object") THEN "firstKey" ELSE "first"
  BY DEF Agree, Verdict, ParseBegin
<1>2. aframes' = Append(aframes, a) /\ awant' = want'
  BY <1>1 DEF AcceptToken, AcceptValue, Is
<1>3. f.value.type = a /\ Pair(f, a) /\ a \in {"object", "array"}
  BY DEF Pair, EmptyObject, Object, Array
<1> HIDE DEF f, a
<1>4. /\ Match(Append(frames, f), Append(aframes, a))
      /\ Last(Append(frames, f)) = f /\ Append(frames, f) # <<>>
  BY <1>1, <1>3, Enter
<1>5. Match(frames', aframes') /\ frames' # <<>> /\ Last(frames').value.type = a
  BY <1>1, <1>2, <1>3, <1>4
<1>6. QED
  BY <1>1, <1>2, <1>5 DEF Agree, Verdict, Open, Top, a

(* An element that is complete leaves both at the same place: 'outer' and  *)
(* 'kinds' are the containers around it.                                   *)
LEMMA Completed ==
  ASSUME NEW outer, NEW kinds, Match(outer, kinds), NEW v, Complete(outer, v),
         aframes' = kinds, awant' = IF kinds = <<>> THEN "end" ELSE "more"
  PROVE  Agree'
<1>1. outer = <<>> <=> kinds = <<>>
  BY DEF Match
<1>2. CASE outer = <<>>
  <2>1. want' = "end" /\ frames' = outer /\ awant' = "end"
    BY <1>1, <1>2 DEF Complete
  <2>2. QED
    BY <2>1 DEF Agree, Verdict
<1>3. CASE outer # <<>>
  <2> DEFINE f == Filled(Last(outer), v)
  <2>1. /\ want' = "more" /\ awant' = "more"
        /\ frames' = Append(Front(outer), f)
    BY <1>1, <1>3 DEF Complete
  <2>2. Pair(f, Last(kinds))
    BY <1>3, Leave, KeepsKind
  <2> HIDE DEF f
  <2>3. Match(frames', kinds) /\ frames' # <<>>
    BY <1>3, <2>1, <2>2, Stay
  <2>4. QED
    BY <2>1, <2>3 DEF Agree, Verdict, Open
<1>4. QED
  BY <1>2, <1>3

(* So do a scalar ...                                                      *)
LEMMA ScalarRead ==
  ASSUME Agree, NEW t, ParseScalar(t), AcceptToken(t)
  PROVE  Agree'
<1>1. /\ Match(frames, aframes) /\ want \in {"value", "first"} /\ awant = want
      /\ Is(t, "value") /\ Complete(frames, t.value)
  BY DEF Agree, Verdict, ParseScalar
<1>2. aframes' = aframes /\ awant' = IF aframes = <<>> THEN "end" ELSE "more"
  BY <1>1 DEF AcceptToken, AcceptValue, Is
<1>3. QED
  BY <1>1, <1>2, Completed

(* ... and the end of a container.                                         *)
LEMMA EndRead ==
  ASSUME Agree, NEW t, ParseEnd(t), AcceptToken(t)
  PROVE  Agree'
<1>1. /\ Match(frames, aframes) /\ frames # <<>>
      /\ want \in {"first", "firstKey", "more"} /\ awant = want
      /\ \/ Is(t, "end_object") /\ Top.value.type = "object" /\ want \in {"firstKey", "more"}
         \/ Is(t, "end_array") /\ Top.value.type = "array" /\ want \in {"first", "more"}
      /\ Complete(Front(frames), Top.value)
  BY DEF Agree, Verdict, ParseEnd, Open
<1>2. /\ Match(Front(frames), Front(aframes)) /\ Pair(Top, Last(aframes))
      /\ Front(frames) = <<>> <=> Len(aframes) = 1
  BY <1>1, Leave DEF Top
<1>3. Top.value.type = Last(aframes)
  BY <1>2 DEF Pair
<1>4. AcceptEnd
  <2>1. CASE want = "first"
    BY <1>1, <2>1 DEF AcceptToken, Is
  <2>2. CASE want = "firstKey"
    BY <1>1, <2>2 DEF AcceptToken, Is, IsString
  <2>3. CASE want = "more"
    <3>1. AcceptMore(t)
      BY <1>1, <2>3 DEF AcceptToken
    <3>2. QED
      BY <1>1, <1>3, <2>3, <3>1 DEF AcceptMore, Is
  <2>4. QED
    BY <1>1, <2>1, <2>2, <2>3
<1>5. Front(frames) = <<>> <=> Front(aframes) = <<>>
  BY <1>2 DEF Match
<1>6. aframes' = Front(aframes) /\ awant' = IF Front(aframes) = <<>> THEN "end" ELSE "more"
  BY <1>2, <1>4, <1>5 DEF AcceptEnd
<1>7. QED
  BY <1>1, <1>2, <1>6, Completed

(* A key is a string for both.                                             *)
LEMMA KeyRead ==
  ASSUME Agree, NEW t, ParseKey(t), AcceptToken(t)
  PROVE  Agree'
<1> DEFINE f == [Top EXCEPT !.key = t.value.data]
<1>1. /\ Match(frames, aframes) /\ frames # <<>>
      /\ want \in {"key", "firstKey"} /\ awant = want /\ Top.value.type = "object"
      /\ IsString(t) /\ frames' = Append(Front(frames), f) /\ want' = "colon"
  BY DEF Agree, Verdict, ParseKey, Open, Replace
<1>2. aframes' = aframes /\ awant' = "colon"
  BY <1>1 DEF AcceptToken, Is, IsString
<1>3. Pair(Top, Last(aframes))
  BY <1>1, Leave DEF Top
<1>4. Pair(f, Last(aframes))
  BY <1>3, KeepsKind
<1>5. f.value.type = "object"
  BY <1>1, <1>3, <1>4 DEF Pair
<1> HIDE DEF f
<1>6. Match(frames', aframes') /\ frames' # <<>> /\ Last(frames') = f
  BY <1>1, <1>2, <1>4, Stay
<1>7. QED
  BY <1>1, <1>2, <1>5, <1>6 DEF Agree, Verdict, Open, Top

(* Separators and the end of the text change no container.                 *)
LEMMA SeparatorRead ==
  ASSUME Agree, NEW t, ParseColon(t) \/ ParseComma(t) \/ ParseFinish(t), AcceptToken(t)
  PROVE  Agree'
<1>1. CASE ParseColon(t)
  BY <1>1 DEF Agree, Verdict, ParseColon, AcceptToken, Is, IsString, Open, Top
<1>2. CASE ParseFinish(t)
  BY <1>2 DEF Agree, Verdict, ParseFinish, AcceptToken, Is, IsString, Open, Top
<1>3. CASE ParseComma(t)
  <2>1. /\ Match(frames, aframes) /\ frames # <<>> /\ want = "more" /\ awant = "more"
        /\ Is(t, "value_separator") /\ frames' = frames
        /\ want' = IF Top.value.type = "object" THEN "key" ELSE "value"
    BY <1>3 DEF Agree, Verdict, ParseComma, Open
  <2>2. Pair(Top, Last(aframes))
    BY <2>1, Leave DEF Top
  <2>3. Top.value.type = Last(aframes) /\ Last(aframes) \in {"object", "array"}
    BY <2>2 DEF Pair
  <2>4. aframes' = aframes /\ awant' = want'
    BY <2>1, <2>3 DEF AcceptToken, AcceptMore, Is
  <2>5. QED
    BY <2>1, <2>3, <2>4 DEF Agree, Verdict, Open, Top
<1>4. QED
  BY <1>1, <1>2, <1>3

(* The acceptor says no to every token the parser throws at.               *)
LEMMA Thrown ==
  ASSUME Agree, Running, NEW t, ParseThrow(t), AcceptToken(t)
  PROVE  Agree'
<1>1. /\ Match(frames, aframes) /\ awant = want
      /\ want \in {"value", "first", "firstKey", "key", "colon", "more", "end"}
      /\ want = "more" => frames # <<>>
      /\ frames' = frames /\ want' = "failed"
      /\ \/ t.tok \notin Expected
         \/ want \in {"key", "firstKey"} /\ Is(t, "value") /\ ~IsString(t)
  BY DEF Agree, Verdict, Running, ParseThrow, Open
<1>2. CASE want \in {"value", "first"}
  <2>1. /\ ~Is(t, "begin_object") /\ ~Is(t, "begin_array") /\ ~Is(t, "value")
        /\ want = "first" => ~Is(t, "end_array")
    BY <1>1, <1>2 DEF Expected, Is
  <2>2. awant' = "no" /\ aframes' = aframes
    BY <1>1, <1>2, <2>1 DEF AcceptToken, AcceptValue
  <2>3. QED
    BY <1>1, <2>2 DEF Agree, Verdict
<1>3. CASE want \in {"firstKey", "key", "colon", "end"}
  <2>1. /\ want \in {"firstKey", "key"} => ~IsString(t)
        /\ want = "firstKey" => ~Is(t, "end_object")
        /\ want = "colon" => ~Is(t, "name_separator")
        /\ want = "end" => ~Is(t, "end_of_input")
    BY <1>1, <1>3 DEF Expected, Is, IsString
  <2>2. awant' = "no" /\ aframes' = aframes
    BY <1>1, <1>3, <2>1 DEF AcceptToken
  <2>3. QED
    BY <1>1, <2>2 DEF Agree, Verdict
<1>4. CASE want = "more"
  <2>1. Pair(Top, Last(aframes))
    BY <1>1, <1>4, Leave DEF Top
  <2>2. /\ ~Is(t, "value_separator")
        /\ Last(aframes) = "object" => ~Is(t, "end_object")
        /\ Last(aframes) = "array" => ~Is(t, "end_array")
    BY <1>1, <1>4, <2>1 DEF Expected, Is, Pair
  <2>3. awant' = "no" /\ aframes' = aframes
    BY <1>1, <1>4, <2>2 DEF AcceptToken, AcceptMore
  <2>4. QED
    BY <1>1, <2>3 DEF Agree, Verdict
<1>5. QED
  BY <1>1, <1>2, <1>3, <1>4

-----------------------------------------------------------------------------

(* json.hpp's parser and its acceptor agree on every text over any set of  *)
(* scalars, however deep: the parser returns a value for exactly the texts *)
(* accept() says yes to.  (json.hpp:2931-2960, 2988-3378)                  *)
THEOREM ReadersAgree == GrammarSpec => []AcceptAgrees
<1>1. GrammarInit => Agree
  <2>1. ASSUME GrammarInit PROVE Match(frames, aframes)
    BY <2>1 DEF GrammarInit, Match
  <2>2. QED
    BY <2>1 DEF GrammarInit, Agree, Verdict
<1>2. Agree /\ [GrammarNext]_grammarVars => Agree'
  <2>1. ASSUME Agree, NEW t, ReadToken(t)
        PROVE  Agree'
    <3>1. Running /\ ParseToken(t) /\ AcceptToken(t)
      BY <2>1 DEF ReadToken
    <3>2. QED
      BY <2>1, <3>1, Begin, ScalarRead, EndRead, KeyRead, SeparatorRead, Thrown
         DEF ParseToken
  <2>2. ASSUME Agree, UNCHANGED grammarVars
        PROVE  Agree'
    BY <2>2 DEF grammarVars, Agree, Verdict, Open, Top
  <2>3. QED
    BY <2>1, <2>2 DEF GrammarNext
<1>3. Agree => AcceptAgrees
  BY DEF Agree, Verdict, AcceptAgrees
<1>4. QED
  BY <1>1, <1>2, <1>3, PTL DEF GrammarSpec

=============================================================================
