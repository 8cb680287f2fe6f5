-------------------------- MODULE FlatValuesProofs --------------------------
(***************************************************************************)
(* Proofs about the conversions of what is not nested, for any inputs: the *)
(* blocks a text is cut into, and the hash of a text that comes in pieces; *)
(* messages written and read, on a socket, and between the test client and *)
(* the kernel; what a style says of each attribute.  A lemma's conclusion  *)
(* that is needed of many sequences at once has a name (Follows, Joins,    *)
(* Associates).                                                            *)
(***************************************************************************)
EXTENDS FlatValues, SequenceTheorems, WellFoundedInduction, NaturalsInduction, TLAPS

-----------------------------------------------------------------------------
(* Sequences.                                                              *)

(* What min takes of two lengths.                                          *)
LEMMA MinOfTwo ==
  ASSUME NEW a \in Nat, NEW b \in Nat
  PROVE  Min({a, b}) = IF a <= b THEN a ELSE b
<1>1. CASE a <= b
  <2>1. a \in {a, b} /\ \A y \in {a, b} : a <= y
    BY <1>1
  <2>2. \A x \in {a, b} : (\A y \in {a, b} : x <= y) => x = a
    BY <1>1
  <2>3. QED
    BY <1>1, <2>1, <2>2 DEF Min
<1>2. CASE ~(a <= b)
  <2>1. b \in {a, b} /\ \A y \in {a, b} : b <= y
    BY <1>2
  <2>2. \A x \in {a, b} : (\A y \in {a, b} : x <= y) => x = b
    BY <1>2
  <2>3. QED
    BY <1>2, <2>1, <2>2 DEF Min
<1>3. QED
  BY <1>1, <1>2

(* A sequence is what stands before a place and what stands after it.      *)
LEMMA SplitAt ==
  ASSUME NEW S, NEW s \in Seq(S), NEW n \in 0..Len(s)
  PROVE  /\ SubSeq(s, 1, n) \in Seq(S)
         /\ SubSeq(s, n + 1, Len(s)) \in Seq(S)
         /\ Len(SubSeq(s, 1, n)) = n
         /\ Len(SubSeq(s, n + 1, Len(s))) = Len(s) - n
         /\ s = SubSeq(s, 1, n) \o SubSeq(s, n + 1, Len(s))
<1>1. Len(s) \in Nat /\ \A i \in 1..Len(s) : s[i] \in S
  BY LenProperties, ElementOfSeq
<1>2. /\ SubSeq(s, 1, n) \in Seq(S)
      /\ Len(SubSeq(s, 1, n)) = n
  BY <1>1, SubSeqProperties
<1>3. /\ SubSeq(s, n + 1, Len(s)) \in Seq(S)
      /\ Len(SubSeq(s, n + 1, Len(s))) = Len(s) - n
  BY <1>1, SubSeqProperties
<1>4. SubSeq(s, 1, n) \o SubSeq(s, n + 1, Len(s)) = SubSeq(s, 1, Len(s))
  <2>1. /\ 1 \in 1..Len(s) + 1
        /\ n \in 1 - 1..Len(s)
        /\ Len(s) \in n..Len(s)
    BY <1>1
  <2>2. QED
    BY <2>1, ConcatAdjacentSubSeq, Zenon
<1>5. QED
  BY <1>2, <1>3, <1>4, SubSeqFull

(* Lengths add up.                                                         *)
LEMMA Lengths ==
  ASSUME NEW S, NEW s \in Seq(S), NEW t \in Seq(S)
  PROVE  s \o t \in Seq(S) /\ Len(s \o t) = Len(s) + Len(t)
BY ConcatProperties

(* One sequence after another, whose length is n.                          *)
Follows(x, y, T, n) ==
  /\ x \o y \in Seq(T)
  /\ Len(x \o y) = Len(x) + n
  /\ \A i \in 1..Len(x) + n : (x \o y)[i] = IF i <= Len(x) THEN x[i] ELSE y[i - Len(x)]

LEMMA Sequel ==
  ASSUME NEW T, NEW x \in Seq(T), NEW y \in Seq(T)
  PROVE  Follows(x, y, T, Len(y))
BY ConcatProperties DEF Follows

(* Three sequences, one after another.                                     *)
Associates(p, q, s) == (p \o q) \o s = p \o (q \o s)

LEMMA Associated ==
  ASSUME NEW S, NEW p \in Seq(S), NEW q \in Seq(S), NEW s \in Seq(S)
  PROVE  Associates(p, q, s)
BY ConcatAssociative DEF Associates

(* Four sequences, the middle ones joined first.                           *)
InnerFirst(p, q, s, t) == (p \o q) \o (s \o t) = (p \o (q \o s)) \o t

LEMMA InnerJoinedFirst ==
  ASSUME NEW S, NEW p \in Seq(S), NEW q \in Seq(S), NEW s \in Seq(S), NEW t \in Seq(S)
  PROVE  InnerFirst(p, q, s, t)
<1>1. q \o s \in Seq(S) /\ s \o t \in Seq(S)
  BY ConcatProperties
<1>2. Associates(p, q, s \o t)
  BY <1>1, Associated
<1>3. Associates(q, s, t)
  BY Associated
<1>4. Associates(p, q \o s, t)
  BY <1>1, Associated
<1>5. QED
  BY <1>2, <1>3, <1>4, Zenon DEF InnerFirst, Associates

-----------------------------------------------------------------------------
(* The blocks of a text.                                                   *)

(* As many blocks as the text has room for are a sequence of texts.        *)
LEMMA CutIsSeq ==
  ASSUME NEW S, NEW t \in Seq(S), NEW n \in Nat, 64 * n <= Len(t)
  PROVE  /\ Cut(t, n) \in Seq(Seq(S))
         /\ Len(Cut(t, n)) = n
         /\ \A i \in 1..n : Cut(t, n)[i] = SubSeq(t, (i - 1) * 64 + 1, i * 64)
<1>1. Len(t) \in Nat /\ \A i \in 1..Len(t) : t[i] \in S
  BY LenProperties, ElementOfSeq
<1>2. ASSUME NEW i \in 1..n
      PROVE  SubSeq(t, (i - 1) * 64 + 1, i * 64) \in Seq(S)
  <2>1. \A k \in (i - 1) * 64 + 1 .. i * 64 : k \in 1..Len(t)
    BY <1>1
  <2>2. QED
    BY <1>1, <2>1, SubSeqProperties
<1>3. QED
  BY <1>2 DEF Cut, BlockSize

(* The blocks of two texts, the first of which is whole blocks, are the    *)
(* blocks of the one and of the other.                                     *)
Joins(s, t, m, k) == Cut(s \o t, m + k) = Cut(s, m) \o Cut(t, k)

LEMMA CutOfConcat ==
  ASSUME NEW S, NEW s \in Seq(S), NEW t \in Seq(S), NEW m \in Nat, NEW k \in Nat,
         Len(s) = 64 * m, 64 * k <= Len(t)
  PROVE  Joins(s, t, m, k)
<1>1. Len(s) \in Nat /\ Len(t) \in Nat
  BY LenProperties
<1>2. s \o t \in Seq(S) /\ Len(s \o t) = Len(s) + Len(t)
  BY ConcatProperties
<1>3. /\ Cut(s \o t, m + k) \in Seq(Seq(S))
      /\ Len(Cut(s \o t, m + k)) = m + k
      /\ \A i \in 1..m + k : Cut(s \o t, m + k)[i] = SubSeq(s \o t, (i - 1) * 64 + 1, i * 64)
  <2>1. m + k \in Nat /\ 64 * (m + k) <= Len(s \o t)
    BY <1>1, <1>2
  <2> DEFINE both == s \o t
             n == m + k
  <2>2. both \in Seq(S) /\ n \in Nat /\ 64 * n <= Len(both)
    BY <1>2, <2>1
  <2> HIDE DEF both, n
  <2>3. /\ Cut(both, n) \in Seq(Seq(S))
        /\ Len(Cut(both, n)) = n
        /\ \A i \in 1..n : Cut(both, n)[i] = SubSeq(both, (i - 1) * 64 + 1, i * 64)
    BY <2>2, CutIsSeq
  <2>4. QED
    BY <2>3, Zenon DEF both, n
<1>4. /\ Cut(s, m) \in Seq(Seq(S))
      /\ Len(Cut(s, m)) = m
      /\ \A i \in 1..m : Cut(s, m)[i] = SubSeq(s, (i - 1) * 64 + 1, i * 64)
  BY <1>1, CutIsSeq
<1>5. /\ Cut(t, k) \in Seq(Seq(S))
      /\ Len(Cut(t, k)) = k
      /\ \A i \in 1..k : Cut(t, k)[i] = SubSeq(t, (i - 1) * 64 + 1, i * 64)
  BY <1>1, CutIsSeq
<1>6. /\ Cut(s, m) \o Cut(t, k) \in Seq(Seq(S))
      /\ Len(Cut(s, m) \o Cut(t, k)) = m + k
      /\ \A i \in 1..m + k : (Cut(s, m) \o Cut(t, k))[i] =
           IF i <= m THEN Cut(s, m)[i] ELSE Cut(t, k)[i - m]
  <2> HIDE DEF Cut
  <2>1. Follows(Cut(s, m), Cut(t, k), Seq(S), Len(Cut(t, k)))
    BY <1>4, <1>5, Sequel
  <2>2. QED
    BY <1>4, <1>5, <2>1, Zenon DEF Follows
<1>7. ASSUME NEW i \in 1..m + k
      PROVE  Cut(s \o t, m + k)[i] = (Cut(s, m) \o Cut(t, k))[i]
  <2>1. CASE i <= m
    <3>1. (i - 1) * 64 + 1 \in 1..Len(s) /\ i * 64 \in 1..Len(s)
      BY <1>1, <2>1
    <3>2. SubSeq(s \o t, (i - 1) * 64 + 1, i * 64) = SubSeq(s, (i - 1) * 64 + 1, i * 64)
      BY <3>1, SubSeqOfConcat1
    <3>3. i \in 1..m
      BY <2>1
    <3>4. QED
      BY <1>3, <1>4, <1>6, <2>1, <3>2, <3>3
  <2>2. CASE ~(i <= m)
    <3>1. /\ (i - 1) * 64 + 1 \in Len(s) + 1 .. Len(s) + Len(t)
          /\ i * 64 \in Len(s) + 1 .. Len(s) + Len(t)
      BY <1>1, <2>2
    <3>2. SubSeq(s \o t, (i - 1) * 64 + 1, i * 64)
          = SubSeq(t, (i - 1) * 64 + 1 - Len(s), i * 64 - Len(s))
      BY <3>1, SubSeqOfConcat2
    <3>3. /\ (i - 1) * 64 + 1 - Len(s) = (i - m - 1) * 64 + 1
          /\ i * 64 - Len(s) = (i - m) * 64
          /\ i - m \in 1..k
      BY <2>2
    <3>4. Cut(s \o t, m + k)[i] = SubSeq(t, (i - m - 1) * 64 + 1, (i - m) * 64)
      BY <1>3, <3>2, <3>3, Zenon
    <3>5. Cut(t, k)[i - m] = SubSeq(t, (i - m - 1) * 64 + 1, (i - m) * 64)
      BY <1>5, <3>3, Zenon
    <3>6. (Cut(s, m) \o Cut(t, k))[i] = Cut(t, k)[i - m]
      BY <1>6, <2>2, Zenon
    <3>7. QED
      BY <3>4, <3>5, <3>6, Zenon
  <2>3. QED
    BY <2>1, <2>2
<1>8. QED
  <2> HIDE DEF Cut
  <2>1. Cut(s \o t, m + k) = Cut(s, m) \o Cut(t, k)
    BY <1>3, <1>6, <1>7, SeqEqual
  <2>2. QED
    BY <2>1 DEF Joins

(* A text of one block.                                                    *)
LEMMA OneBlock ==
  ASSUME NEW S, NEW f \in Seq(S), Len(f) = BlockSize
  PROVE  Cut(f, 1) = <<f>>
<1>1. SubSeq(f, 1, BlockSize) = f
  BY SubSeqFull
<1>2. ASSUME NEW i \in 1..1
      PROVE  SubSeq(f, (i - 1) * BlockSize + 1, i * BlockSize) = f
  <2>1. (i - 1) * BlockSize + 1 = 1 /\ i * BlockSize = BlockSize
    BY DEF BlockSize
  <2>2. QED
    BY <1>1, <2>1
<1>3. Cut(f, 1) = [i \in 1..1 |-> f]
  BY <1>2, Zenon DEF Cut
<1>4. QED
  BY <1>3

(* A text is its whole blocks and less than a block; cutting it is cutting *)
(* the former.                                                             *)
LEMMA WholeBlocks ==
  ASSUME NEW S, NEW t \in Seq(S)
  PROVE  LET k == Len(t) \div 64
             a == SubSeq(t, 1, k * 64)
             b == SubSeq(t, k * 64 + 1, Len(t))
         IN /\ k \in Nat
            /\ a \in Seq(S) /\ b \in Seq(S) /\ t = a \o b
            /\ Len(a) = 64 * k /\ Len(b) < 64
            /\ Cut(t, k) = Cut(a, k)
<1> DEFINE k == Len(t) \div 64
           a == SubSeq(t, 1, k * 64)
           b == SubSeq(t, k * 64 + 1, Len(t))
<1>1. Len(t) \in Nat
  BY LenProperties
<1>2. k \in Nat /\ k * 64 \in 0..Len(t) /\ Len(t) - k * 64 < 64
  BY <1>1
<1>3. /\ a \in Seq(S) /\ b \in Seq(S) /\ t = a \o b
      /\ Len(a) = k * 64 /\ Len(b) = Len(t) - k * 64
  <2>1. ASSUME NEW n \in 0..Len(t)
        PROVE  LET x == SubSeq(t, 1, n)
                   y == SubSeq(t, n + 1, Len(t))
               IN /\ x \in Seq(S) /\ y \in Seq(S) /\ t = x \o y
                  /\ Len(x) = n /\ Len(y) = Len(t) - n
    BY SplitAt, ZenonT(30)
  <2>2. QED
    BY <1>2, <2>1, Zenon
<1>4. Cut(a \o b, k + 0) = Cut(a, k) \o Cut(b, 0)
  <2> HIDE DEF a, b, k
  <2>1. Len(a) = 64 * k /\ 64 * 0 <= Len(b)
    BY <1>1, <1>2, <1>3
  <2>2. Joins(a, b, k, 0)
    BY <1>2, <1>3, <2>1, CutOfConcat
  <2>3. QED
    BY <2>2, Zenon DEF Joins
<1>5. Cut(b, 0) = <<>>
  BY DEF Cut
<1>6. Cut(a, k) \in Seq(Seq(S))
  <2> HIDE DEF a, b, k
  <2>1. QED
    BY <1>2, <1>3, CutIsSeq
<1>7. Cut(t, k) = Cut(a, k)
  <2> HIDE DEF a, b, k, Cut
  <2>1. k + 0 = k
    BY <1>2
  <2>2. QED
    BY <1>3, <1>4, <1>5, <1>6, <2>1, ConcatEmptySeq
<1>8. QED
  <2>1. k * 64 = 64 * k
    BY <1>2
  <2>2. QED
    BY <1>1, <1>2, <1>3, <1>7, <2>1

-----------------------------------------------------------------------------
(* The hash.                                                               *)

\* a hasher that was given d: whole blocks p are hashed, the rest q waits
State(p, m, q) == [hash |-> Cut(p, m), numBytes |-> 64 * m, buffer |-> q]

Hashed(h, d, S) ==
  \E m \in Nat, p, q \in Seq(S) :
    /\ d = p \o q
    /\ Len(p) = 64 * m
    /\ Len(q) < 64
    /\ h = State(p, m, q)

(* A new hasher was given nothing.                                         *)
LEMMA FreshHashed ==
  ASSUME NEW S
  PROVE  Hashed(Fresh, <<>>, S)
<1>1. <<>> \in Seq(S) /\ Len(<<>>) = 0 /\ <<>> = <<>> \o <<>>
  BY EmptySeq, ConcatEmptySeq
<1>2. Cut(<<>>, 0) = <<>>
  BY DEF Cut
<1>3. Fresh = State(<<>>, 0, <<>>)
  BY <1>2 DEF Fresh, State
<1>4. Len(<<>>) = 64 * 0 /\ Len(<<>>) < 64
  BY <1>1
<1>5. QED
  BY <1>1, <1>3, <1>4 DEF Hashed

(* Whole blocks of new data are hashed as they are, and what is left of it *)
(* waits.                                                                  *)
LEMMA BlocksHashed ==
  ASSUME NEW S, NEW p \in Seq(S), NEW m \in Nat, Len(p) = 64 * m, NEW t \in Seq(S)
  PROVE  LET k == Len(t) \div 64
             rest == SubSeq(t, k * 64 + 1, Len(t))
         IN /\ Cut(t, k) \in Seq(Seq(S)) /\ Len(Cut(t, k)) = k
            /\ rest \in Seq(S)
            /\ Hashed([hash |-> Cut(p, m) \o Cut(t, k), numBytes |-> 64 * m + 64 * k,
                       buffer |-> rest],
                      p \o t, S)
<1> DEFINE k == Len(t) \div 64
           a == SubSeq(t, 1, k * 64)
           b == SubSeq(t, k * 64 + 1, Len(t))
<1>1. /\ k \in Nat
      /\ a \in Seq(S) /\ b \in Seq(S) /\ t = a \o b
      /\ Len(a) = 64 * k /\ Len(b) < 64
      /\ Cut(t, k) = Cut(a, k)
  BY WholeBlocks
<1> HIDE DEF k, a, b
<1>2. Cut(a, k) \in Seq(Seq(S)) /\ Len(Cut(a, k)) = k
  BY <1>1, CutIsSeq
<1>3. p \o t = (p \o a) \o b
  <2>1. Associates(p, a, b)
    BY <1>1, Associated
  <2>2. QED
    BY <1>1, <2>1, Zenon DEF Associates
<1>4. p \o a \in Seq(S) /\ Len(p \o a) = 64 * (m + k)
  <2>1. p \o a \in Seq(S) /\ Len(p \o a) = Len(p) + Len(a)
    BY <1>1, ConcatProperties
  <2>2. QED
    BY <1>1, <2>1
<1>5. Cut(p \o a, m + k) = Cut(p, m) \o Cut(a, k)
  <2>1. 64 * k <= Len(a)
    BY <1>1
  <2>2. Joins(p, a, m, k)
    BY <1>1, <2>1, CutOfConcat
  <2>3. QED
    BY <2>2, Zenon DEF Joins
<1>6. [hash |-> Cut(p, m) \o Cut(t, k), numBytes |-> 64 * m + 64 * k, buffer |-> b]
      = State(p \o a, m + k, b)
  <2>1. 64 * m + 64 * k = 64 * (m + k)
    BY <1>1
  <2> HIDE DEF Cut
  <2>2. QED
    BY <1>1, <1>5, <2>1, Zenon DEF State
<1>7. Hashed([hash |-> Cut(p, m) \o Cut(t, k), numBytes |-> 64 * m + 64 * k, buffer |-> b],
             p \o t, S)
  <2>1. m + k \in Nat
    BY <1>1
  <2>2. QED
    BY <1>1, <1>3, <1>4, <1>6, <2>1 DEF Hashed
<1>8. QED
  BY <1>1, <1>2, <1>7 DEF k, b

\* a hasher after the blocks p, m in number, and the blocks first, that takes
\* the whole blocks of t and keeps what is left
Carried(p, m, first, t) ==
  LET k == Len(t) \div 64
  IN [hash |-> Cut(p, m) \o first \o Cut(t, k),
      numBytes |-> 64 * m + 64 * Len(first \o Cut(t, k)),
      buffer |-> SubSeq(t, k * 64 + 1, Len(t))]

(* A buffer that is filled up is hashed, and then whole blocks of the data *)
(* that follow.                                                            *)
LEMMA FullBufferHashed ==
  ASSUME NEW S, NEW p \in Seq(S), NEW m \in Nat, Len(p) = 64 * m,
         NEW f \in Seq(S), Len(f) = BlockSize, NEW t \in Seq(S)
  PROVE  /\ Carried(p, m, <<f>>, t).buffer \in Seq(S)
         /\ Hashed(Carried(p, m, <<f>>, t), (p \o f) \o t, S)
<1> DEFINE k == Len(t) \div 64
           rest == SubSeq(t, k * 64 + 1, Len(t))
<1>1. Cut(f, 1) = <<f>>
  BY OneBlock
<1>2. p \o f \in Seq(S) /\ Len(p \o f) = 64 * (m + 1)
  <2>1. p \o f \in Seq(S) /\ Len(p \o f) = Len(p) + Len(f)
    BY ConcatProperties
  <2>2. QED
    BY <2>1 DEF BlockSize
<1>3. Cut(p \o f, m + 1) = Cut(p, m) \o <<f>>
  <2>1. 1 \in Nat /\ 64 * 1 <= Len(f)
    BY DEF BlockSize
  <2>2. Joins(p, f, m, 1)
    <3> HIDE DEF k, rest
    <3>1. QED
      BY <2>1, CutOfConcat
  <2>3. QED
    BY <1>1, <2>2, Zenon DEF Joins
<1>4. /\ Cut(t, k) \in Seq(Seq(S)) /\ Len(Cut(t, k)) = k
      /\ rest \in Seq(S)
      /\ Hashed([hash |-> Cut(p \o f, m + 1) \o Cut(t, k),
                 numBytes |-> 64 * (m + 1) + 64 * k, buffer |-> rest],
                (p \o f) \o t, S)
  <2>1. m + 1 \in Nat
    OBVIOUS
  <2>2. QED
    BY <1>2, <2>1, BlocksHashed, Zenon
<1>5. 64 * m + 64 * Len(<<f>> \o Cut(t, k)) = 64 * (m + 1) + 64 * k
  <2> HIDE DEF Cut
  <2>1. <<f>> \in Seq(Seq(S)) /\ Len(<<f>>) = 1
    OBVIOUS
  <2>2. Len(<<f>> \o Cut(t, k)) = 1 + k
    <3> HIDE DEF k
    <3>1. Follows(<<f>>, Cut(t, k), Seq(S), Len(Cut(t, k)))
      BY <1>4, <2>1, Sequel
    <3>2. QED
      BY <1>4, <2>1, <3>1, Zenon DEF Follows
  <2>3. k \in Nat
    BY LenProperties
  <2>4. QED
    <3> HIDE DEF k
    <3>1. QED
      BY <2>2, <2>3
<1>6. QED
  <2> HIDE DEF Cut
  <2>1. Carried(p, m, <<f>>, t)
        = [hash |-> Cut(p \o f, m + 1) \o Cut(t, k),
           numBytes |-> 64 * (m + 1) + 64 * k, buffer |-> rest]
    BY <1>3, <1>5, Zenon DEF Carried
  <2> HIDE DEF k, rest
  <2>2. Carried(p, m, <<f>>, t).buffer = rest
    BY <2>1
  <2>3. QED
    BY <1>4, <2>1, <2>2, Zenon

\* Absorb, of a hasher's members, for blocks of a size
AbsorbedBy(hash, numBytes, buffer, data, size) ==
  LET room == size - Len(buffer)
      head == IF buffer = <<>> THEN <<>> ELSE SubSeq(data, 1, Min({room, Len(data)}))
      rest == SubSeq(data, Len(head) + 1, Len(data))
      filled == buffer \o head
      first == IF Len(filled) = size THEN <<filled>> ELSE <<>>
      blocks == Len(rest) \div size
      whole == Cut(rest, blocks)
  IN [hash |-> hash \o first \o whole,
      numBytes |-> numBytes + size * Len(first \o whole),
      buffer |-> (IF first = <<>> THEN filled ELSE <<>>)
                 \o SubSeq(rest, blocks * size + 1, Len(rest))]

(* add: data follow what a hasher was given.                               *)
LEMMA AbsorbHashed ==
  ASSUME NEW S, NEW d \in Seq(S), NEW e \in Seq(S), NEW h, Hashed(h, d, S)
  PROVE  Hashed(Absorb(h, e), d \o e, S)
<1>1. PICK m \in Nat, p \in Seq(S), q \in Seq(S) :
        d = p \o q /\ Len(p) = 64 * m /\ Len(q) < 64 /\ h = State(p, m, q)
  BY DEF Hashed
<1>2. h.hash = Cut(p, m) /\ h.numBytes = 64 * m /\ h.buffer = q
  BY <1>1 DEF State
<1>3. Len(e) \in Nat /\ Len(q) \in Nat
  BY LenProperties
<1> DEFINE room == 64 - Len(q)
           head == IF q = <<>> THEN <<>> ELSE SubSeq(e, 1, Min({room, Len(e)}))
           rest == SubSeq(e, Len(head) + 1, Len(e))
           filled == q \o head
           first == IF Len(filled) = 64 THEN <<filled>> ELSE <<>>
           k == Len(rest) \div 64
           whole == Cut(rest, k)
           left == SubSeq(rest, k * 64 + 1, Len(rest))
<1>4. Absorb(h, e) =
        [hash |-> Cut(p, m) \o first \o whole,
         numBytes |-> 64 * m + 64 * Len(first \o whole),
         buffer |-> (IF first = <<>> THEN filled ELSE <<>>) \o left]
  <2> HIDE DEF Cut
  <2>1. QED
    <3>1. Absorb(h, e) = AbsorbedBy(h.hash, h.numBytes, h.buffer, e, BlockSize)
      BY ZenonT(30) DEF Absorb, AbsorbedBy
    <3>2. BlockSize = 64
      BY DEF BlockSize
    <3>3. Absorb(h, e) = AbsorbedBy(Cut(p, m), 64 * m, q, e, 64)
      BY <1>2, <3>1, <3>2
    <3>4. QED
      BY <3>3, Zenon DEF AbsorbedBy
<1>5. CASE q = <<>>
  <2>1. head = <<>> /\ Len(head) = 0
    BY <1>5
  <2>2. rest = e
    <3> HIDE DEF head
    <3>1. Len(head) + 1 = 1
      BY <2>1
    <3>2. QED
      BY <3>1, SubSeqFull, Zenon
  <2>3. filled = <<>> /\ first = <<>>
    BY <1>5, <2>1
  <2>4. /\ whole \in Seq(Seq(S)) /\ Len(whole) = k
        /\ left \in Seq(S)
        /\ Hashed([hash |-> Cut(p, m) \o whole, numBytes |-> 64 * m + 64 * k,
                   buffer |-> left], p \o e, S)
    <3> HIDE DEF rest
    <3>1. rest \in Seq(S)
      BY <2>2
    <3>2. /\ whole \in Seq(Seq(S)) /\ Len(whole) = k
          /\ left \in Seq(S)
          /\ Hashed([hash |-> Cut(p, m) \o whole, numBytes |-> 64 * m + 64 * k,
                     buffer |-> left], p \o rest, S)
      BY <1>1, <3>1, BlocksHashed, Zenon
    <3>3. QED
      BY <2>2, <3>2, Zenon
  <2>5. d = p
    BY <1>1, <1>5, ConcatEmptySeq
  <2>6. Cut(p, m) \in Seq(Seq(S))
    BY <1>1, CutIsSeq
  <2>7. Absorb(h, e) = [hash |-> Cut(p, m) \o whole, numBytes |-> 64 * m + 64 * k,
                        buffer |-> left]
    <3>1. Cut(p, m) \o <<>> = Cut(p, m) /\ <<>> \o whole = whole /\ <<>> \o left = left
      <4> HIDE DEF Cut, whole, left
      <4>1. QED
        BY <2>4, <2>6, ConcatEmptySeq
    <3>2. QED
      <4> HIDE DEF whole, left, head, filled, first, rest, k
      <4>1. QED
        BY <1>4, <2>3, <2>4, <3>1
  <2>8. QED
    <3> HIDE DEF whole, left, head, filled, first, rest, k
    <3>1. QED
      BY <2>4, <2>5, <2>7
<1>6. CASE q # <<>> /\ Len(e) < room
  <2>1. Min({room, Len(e)}) = Len(e)
    <3>1. room \in Nat /\ ~(room <= Len(e))
      BY <1>1, <1>3, <1>6
    <3> HIDE DEF room
    <3>2. QED
      BY <1>3, <3>1, MinOfTwo
  <2>2. head = e
    BY <1>6, <2>1, SubSeqFull
  <2>3. rest = <<>> /\ Len(rest) = 0
    <3>1. rest = SubSeq(e, Len(e) + 1, Len(e))
      BY <2>2
    <3> HIDE DEF rest
    <3>2. rest = <<>>
      BY <1>3, <3>1, SubSeqEmpty
    <3>3. QED
      BY <3>2, EmptySeq
  <2>4. k = 0 /\ whole = <<>> /\ left = <<>>
    <3> HIDE DEF rest
    <3>1. k = 0
      BY <2>3
    <3>2. whole = <<>>
      <4> HIDE DEF k
      <4>1. QED
        BY <3>1 DEF Cut
    <3>3. left = SubSeq(<<>>, 1, 0)
      <4> HIDE DEF k
      <4>1. k * 64 + 1 = 1
        BY <3>1
      <4>2. QED
        BY <2>3, <4>1
    <3>4. left = <<>>
      <4> HIDE DEF left
      <4>1. QED
        BY <3>3, SubSeqEmpty
    <3>5. QED
      BY <3>1, <3>2, <3>4
  <2>5. q \o e \in Seq(S) /\ Len(q \o e) = Len(q) + Len(e)
    BY ConcatProperties
  <2>6. first = <<>> /\ filled = q \o e
    <3> HIDE DEF head
    <3>1. Len(q \o e) # 64
      BY <1>3, <1>6, <2>5
    <3>2. QED
      BY <2>2, <3>1
  <2>7. Cut(p, m) \in Seq(Seq(S))
    BY <1>1, CutIsSeq
  <2>8. Absorb(h, e) = State(p, m, q \o e)
    <3>1. Cut(p, m) \o <<>> \o <<>> = Cut(p, m) /\ (q \o e) \o <<>> = q \o e
      <4> HIDE DEF Cut
      <4>1. QED
        BY <2>5, <2>7, ConcatEmptySeq
    <3>2. <<>> \o <<>> = <<>> /\ Len(<<>>) = 0
      BY EmptySeq, ConcatEmptySeq
    <3>3. QED
      <4> HIDE DEF whole, left, head, filled, first, rest, k
      <4>1. QED
        BY <1>4, <2>4, <2>6, <3>1, <3>2 DEF State
  <2>9. d \o e = p \o (q \o e)
    <3>1. Associates(p, q, e)
      BY Associated
    <3>2. QED
      BY <1>1, <3>1, Zenon DEF Associates
  <2>10. QED
    <3>1. Len(q \o e) < 64
      BY <1>3, <1>6, <2>5
    <3>2. QED
      BY <1>1, <2>5, <2>8, <2>9, <3>1 DEF Hashed
<1>7. CASE q # <<>> /\ Len(e) >= room
  <2>1. Min({room, Len(e)}) = room
    <3>1. room \in Nat /\ room <= Len(e)
      BY <1>1, <1>3, <1>7
    <3> HIDE DEF room
    <3>2. QED
      BY <1>3, <3>1, MinOfTwo
  <2>2. room \in 0..Len(e)
    BY <1>1, <1>3, <1>7
  <2>3. head = SubSeq(e, 1, room)
    BY <1>7, <2>1
  <2>4. /\ head \in Seq(S) /\ Len(head) = room
        /\ rest \in Seq(S) /\ e = head \o rest
    <3> HIDE DEF room
    <3>1. ASSUME NEW n \in 0..Len(e)
          PROVE  LET x == SubSeq(e, 1, n)
                     y == SubSeq(e, n + 1, Len(e))
                 IN /\ x \in Seq(S) /\ y \in Seq(S) /\ e = x \o y
                    /\ Len(x) = n
      BY SplitAt, ZenonT(30)
    <3>2. LET x == SubSeq(e, 1, room)
              y == SubSeq(e, room + 1, Len(e))
          IN /\ x \in Seq(S) /\ y \in Seq(S) /\ e = x \o y
             /\ Len(x) = room
      BY <2>2, <3>1, Zenon
    <3>3. rest = SubSeq(e, room + 1, Len(e))
      BY <2>3, <3>2
    <3>4. QED
      BY <2>3, <3>2, <3>3
  <2>5. filled \in Seq(S) /\ Len(filled) = 64
    <3> HIDE DEF head
    <3>1. QED
      BY <1>3, <2>4, ConcatProperties
  <2>6. first = <<filled>> /\ first # <<>>
    <3> HIDE DEF filled
    <3>1. QED
      BY <2>5
  <2>7. /\ Carried(p, m, <<filled>>, rest).buffer \in Seq(S)
        /\ Hashed(Carried(p, m, <<filled>>, rest), (p \o filled) \o rest, S)
    <3>1. rest \in Seq(S)
      BY <2>4
    <3>2. filled \in Seq(S) /\ Len(filled) = BlockSize
      BY <2>5 DEF BlockSize
    <3> HIDE DEF rest, filled
    <3>3. QED
      BY <1>1, <3>1, <3>2, FullBufferHashed
  <2>8. d \o e = (p \o filled) \o rest
    <3> HIDE DEF head, rest
    <3>1. head \in Seq(S) /\ rest \in Seq(S)
      BY <2>4
    <3>2. InnerFirst(p, q, head, rest)
      BY <3>1, InnerJoinedFirst
    <3>3. d = p \o q /\ e = head \o rest
      BY <1>1, <2>4
    <3>4. QED
      BY <3>2, <3>3, Zenon DEF InnerFirst
  <2>9. Absorb(h, e) = Carried(p, m, <<filled>>, rest)
    <3>1. Carried(p, m, <<filled>>, rest)
          = [hash |-> Cut(p, m) \o <<filled>> \o whole,
             numBytes |-> 64 * m + 64 * Len(<<filled>> \o whole), buffer |-> left]
      <4> HIDE DEF filled, rest
      <4>1. QED
        BY Zenon DEF Carried
    <3>2. left \in Seq(S)
      <4> HIDE DEF filled, rest, left
      <4>1. QED
        BY <2>7, <3>1
    <3>3. <<>> \o left = left
      <4> HIDE DEF left
      <4>1. QED
        BY <3>2, ConcatEmptySeq
    <3>4. QED
      <4> HIDE DEF whole, left, first, filled
      <4>1. QED
        BY <1>4, <2>6, <3>1, <3>3, Zenon
  <2>10. QED
    <3> HIDE DEF whole, left, first, filled, rest
    <3>1. QED
      BY <2>7, <2>8, <2>9, Zenon
<1>8. QED
  BY <1>3, <1>5, <1>6, <1>7

(* The padding fills one block, or two if less than nine bytes are left.   *)
LEMMA SizeOfPadded ==
  ASSUME NEW r \in 0..63
  PROVE  PaddedSize(r) = IF r <= 55 THEN 56 ELSE 120
<1>1. (r * 8 + 1) % 512 = r * 8 + 1
  OBVIOUS
<1>2. CASE r <= 55
  <2>1. PaddedSize(r) = (r * 8 + 1 + 448 - (r * 8 + 1)) \div 8
    BY <1>1, <1>2 DEF PaddedSize
  <2>2. QED
    BY <1>2, <2>1
<1>3. CASE ~(r <= 55)
  <2>1. PaddedSize(r) = (r * 8 + 1 + 512 + 448 - (r * 8 + 1)) \div 8
    BY <1>1, <1>3 DEF PaddedSize
  <2>2. QED
    BY <1>3, <2>1
<1>4. QED
  BY <1>2, <1>3

(* getHash: what was given, padded as one message, is what is hashed.      *)
LEMMA HashOfAll ==
  ASSUME NEW S, NEW d \in Seq(S), NEW h, Hashed(h, d, S)
  PROVE  GetHash(h) = Blocks(d)
<1>1. PICK m \in Nat, p \in Seq(S), q \in Seq(S) :
        d = p \o q /\ Len(p) = 64 * m /\ Len(q) < 64 /\ h = State(p, m, q)
  BY DEF Hashed
<1>2. h.hash = Cut(p, m) /\ h.numBytes = 64 * m /\ h.buffer = q
  BY <1>1 DEF State
<1> DEFINE r == Len(q)
           z == IF r <= 55 THEN 55 - r ELSE 119 - r
           n == IF r <= 55 THEN 1 ELSE 2
           l == Length(8 * (64 * m + r))
           T == S \cup {One, Zero} \cup {l[i] : i \in 1..8}
           text == q \o <<One>> \o Repeat(Zero, z) \o l
<1>3. r \in 0..63 /\ z \in Nat /\ n \in Nat
  <2>1. r \in Nat
    BY LenProperties
  <2> HIDE DEF r
  <2>2. r < 64
    BY <1>1 DEF r
  <2>3. QED
    BY <2>1, <2>2
<1>4. GetHash(h) = Cut(p, m) \o Cut(text, n)
  <2>1. h.buffer = q /\ h.numBytes = 64 * m
    BY <1>2
  <2>2. PaddedSize(r) - r - 1 = z /\ (IF PaddedSize(r) > BlockSize THEN 2 ELSE 1) = n
    <3> HIDE DEF r
    <3>1. PaddedSize(r) = IF r <= 55 THEN 56 ELSE 120
      BY <1>3, SizeOfPadded
    <3>2. QED
      BY <1>3, <3>1 DEF BlockSize
  <2>3. ProcessBuffer(h)
        = Cut(q \o <<One>> \o Repeat(Zero, PaddedSize(r) - r - 1) \o l,
              IF PaddedSize(r) > BlockSize THEN 2 ELSE 1)
    BY <2>1, Zenon DEF ProcessBuffer
  <2>4. ProcessBuffer(h) = Cut(text, n)
    <3> HIDE DEF r, l, z, n
    <3>1. QED
      BY <2>2, <2>3, Zenon
  <2>5. QED
    BY <1>2, <2>4, Zenon DEF GetHash
<1>5. q \in Seq(T) /\ p \in Seq(T)
  <2>1. S \subseteq T
    OBVIOUS
  <2>2. QED
    <3> HIDE DEF T
    <3>1. QED
      BY <2>1, SeqMonotonic
<1>6. /\ <<One>> \in Seq(T) /\ Repeat(Zero, z) \in Seq(T) /\ l \in Seq(T)
      /\ Len(<<One>>) = 1 /\ Len(Repeat(Zero, z)) = z /\ Len(l) = 8
  <2>1. One \in T /\ Zero \in T
    BY Zenon
  <2>2. l = [i \in 1..8 |-> <<"length", i, 8 * (64 * m + r)>>]
    BY DEF Length
  <2>3. \A i \in 1..8 : l[i] \in T
    <3> HIDE DEF l
    <3>1. QED
      BY Zenon
  <2>4. QED
    <3> HIDE DEF T, l, z, r
    <3>1. QED
      BY <1>3, <2>1, <2>2, <2>3 DEF Repeat
<1> HIDE DEF T, l
<1>7. text \in Seq(T) /\ Len(text) = 64 * n
  <2>1. <<One>> \in Seq(T) /\ Repeat(Zero, z) \in Seq(T) /\ l \in Seq(T)
    BY <1>6
  <2>2. q \o <<One>> \in Seq(T) /\ Len(q \o <<One>>) = Len(q) + Len(<<One>>)
    BY <1>5, <2>1, Lengths
  <2>3. q \o <<One>> \in Seq(T)
    BY <2>2
  <2>4. /\ q \o <<One>> \o Repeat(Zero, z) \in Seq(T)
        /\ Len(q \o <<One>> \o Repeat(Zero, z)) = Len(q \o <<One>>) + Len(Repeat(Zero, z))
    BY <2>1, <2>3, Lengths
  <2>5. q \o <<One>> \o Repeat(Zero, z) \in Seq(T)
    BY <2>4
  <2>6. /\ text \in Seq(T)
        /\ Len(text) = Len(q \o <<One>> \o Repeat(Zero, z)) + Len(l)
    BY <2>1, <2>5, Lengths
  <2>7. Len(text) = r + 1 + z + 8
    <3> HIDE DEF text
    <3>1. QED
      BY <1>6, <2>2, <2>4, <2>6
  <2>8. QED
    <3> HIDE DEF r, text
    <3>1. QED
      BY <1>3, <2>6, <2>7
<1>8. Len(d) = 64 * m + r
  BY <1>1, Lengths
<1>9. Blocks(d) = Cut(p \o text, m + n)
  <2>1. /\ Len(d) % BlockSize = r
        /\ (119 - r) % BlockSize = z
        /\ 8 * Len(d) = 8 * (64 * m + r)
    <3> HIDE DEF r
    <3>1. QED
      BY <1>3, <1>8 DEF BlockSize
  <2>2. d \o <<One>> \o Repeat(Zero, z) \o l = p \o text
    <3>1. <<One>> \in Seq(T) /\ Repeat(Zero, z) \in Seq(T) /\ l \in Seq(T)
      BY <1>6
    <3>2. q \o <<One>> \in Seq(T)
      BY <1>5, <3>1, Lengths
    <3>3. q \o <<One>> \o Repeat(Zero, z) \in Seq(T)
      BY <3>1, <3>2, Lengths
    <3>4. Associates(p, q, <<One>>)
      BY <1>5, <3>1, Associated
    <3>5. Associates(p, q \o <<One>>, Repeat(Zero, z))
      BY <1>5, <3>1, <3>2, Associated
    <3>6. Associates(p, q \o <<One>> \o Repeat(Zero, z), l)
      BY <1>5, <3>1, <3>3, Associated
    <3>7. QED
      <4>1. (p \o q) \o <<One>> = p \o (q \o <<One>>)
        BY <3>4, Zenon DEF Associates
      <4>2. (p \o (q \o <<One>>)) \o Repeat(Zero, z) = p \o (q \o <<One>> \o Repeat(Zero, z))
        BY <3>5, Zenon DEF Associates
      <4>3. (p \o (q \o <<One>> \o Repeat(Zero, z))) \o l
            = p \o (q \o <<One>> \o Repeat(Zero, z) \o l)
        BY <3>6, Zenon DEF Associates
      <4>4. d = p \o q
        BY <1>1
      <4>5. QED
        <5> HIDE DEF z
        <5>1. QED
          BY <4>1, <4>2, <4>3, <4>4
  <2>3. Len(p \o text) \div BlockSize = m + n
    <3>1. Len(p \o text) = 64 * m + 64 * n
      <4> HIDE DEF text
      <4>1. QED
        BY <1>1, <1>5, <1>7, Lengths, ZenonT(30)
    <3>2. QED
      <4> HIDE DEF text, n
      <4>1. QED
        BY <1>3, <3>1 DEF BlockSize
  <2>4. QED
    <3> HIDE DEF text, n, z, r
    <3>1. QED
      BY <2>1, <2>2, <2>3, Zenon DEF Blocks, l
<1>10. Cut(p \o text, m + n) = Cut(p, m) \o Cut(text, n)
  <2> HIDE DEF text, n
  <2>1. 64 * n <= Len(text)
    BY <1>3, <1>7
  <2>2. text \in Seq(T) /\ Len(p) = 64 * m
    BY <1>1, <1>7
  <2>3. Joins(p, text, m, n)
    BY <1>3, <1>5, <2>1, <2>2, CutOfConcat
  <2>4. QED
    BY <2>3, Zenon DEF Joins
<1>11. QED
  BY <1>4, <1>9, <1>10, Zenon

(* A text in two pieces is hashed as one, whatever its bytes are.          *)
LEMMA TwoPieces ==
  ASSUME NEW S, NEW T, NEW s \in Seq(S), NEW t \in Seq(T)
  PROVE  GetHash(Absorb(Absorb(Fresh, s), t)) = Blocks(s \o t)
<1> DEFINE U == S \cup T
<1>1. s \in Seq(U) /\ t \in Seq(U)
  <2>1. S \subseteq U /\ T \subseteq U
    OBVIOUS
  <2>2. QED
    <3> HIDE DEF U
    <3>1. QED
      BY <2>1, SeqMonotonic
<1> HIDE DEF U
<1>2. Hashed(Fresh, <<>>, U) /\ <<>> \in Seq(U)
  BY FreshHashed, EmptySeq
<1>3. Hashed(Absorb(Fresh, s), <<>> \o s, U)
  BY <1>1, <1>2, AbsorbHashed
<1>4. <<>> \o s = s
  BY <1>1, ConcatEmptySeq
<1>5. Hashed(Absorb(Absorb(Fresh, s), t), s \o t, U)
  BY <1>1, <1>3, <1>4, AbsorbHashed
<1>6. s \o t \in Seq(U)
  BY <1>1, Lengths
<1>7. QED
  BY <1>5, <1>6, HashOfAll

(* A text in one piece.                                                    *)
LEMMA OnePiece ==
  ASSUME NEW S, NEW s \in Seq(S)
  PROVE  GetHash(Absorb(Fresh, s)) = Blocks(s)
<1>1. Hashed(Fresh, <<>>, S) /\ <<>> \in Seq(S)
  BY FreshHashed, EmptySeq
<1>2. Hashed(Absorb(Fresh, s), <<>> \o s, S)
  BY <1>1, AbsorbHashed
<1>3. <<>> \o s = s
  BY ConcatEmptySeq
<1>4. QED
  BY <1>2, <1>3, HashOfAll

(* HMAC-SHA256 is what the code computes, for keys of any length: the key  *)
(* as one block, a longer one hashed first, before the text and before the *)
(* hash of both.  (hmac.h:40-85)                                           *)
THEOREM HmacDefined ==
  ASSUME NEW S, NEW data \in Seq(S), NEW key \in Seq(S)
  PROVE  Hmac(data, key) = HmacOf(data, key)
<1> DEFINE short == IF Len(key) <= BlockSize THEN key ELSE Sha256(key)
           block == short \o Repeat(Zero, BlockSize - Len(short))
<1>1. UsedKey(key) = block
  <2>1. CASE Len(key) <= BlockSize
    BY <2>1 DEF UsedKey
  <2>2. CASE ~(Len(key) <= BlockSize)
    <3>1. GetHash(Absorb(Fresh, key)) = Blocks(key)
      BY OnePiece
    <3>2. UsedKey(key) = Sha256(key) \o Repeat(Zero, 32)
      BY <2>2, <3>1, Zenon DEF UsedKey, Sha256
    <3>3. Len(Sha256(key)) = 32
      BY DEF Sha256
    <3>4. BlockSize - Len(Sha256(key)) = 32
      BY <3>3 DEF BlockSize
    <3>5. QED
      BY <2>2, <3>2, <3>4, Zenon
  <2>3. QED
    BY <2>1, <2>2
<1>2. \E T : block \in Seq(T)
  <2> DEFINE T == S \cup {Zero} \cup {Sha256(key)[i] : i \in 1..32}
  <2>1. key \in Seq(T)
    <3>1. S \subseteq T
      OBVIOUS
    <3>2. QED
      <4> HIDE DEF T
      <4>1. QED
        BY <3>1, SeqMonotonic
  <2>2. Sha256(key) \in Seq(T) /\ Len(Sha256(key)) = 32
    <3>1. Sha256(key) = [i \in 1..32 |-> <<"hash", Blocks(key), i>>]
      BY DEF Sha256
    <3>2. \A i \in 1..32 : Sha256(key)[i] \in T
      BY Zenon
    <3>3. QED
      <4> HIDE DEF T
      <4>1. QED
        BY <3>1, <3>2
  <2>3. short \in Seq(T) /\ BlockSize - Len(short) \in Nat
    <3> HIDE DEF T
    <3>1. CASE Len(key) <= BlockSize
      <4>1. Len(key) \in Nat
        BY LenProperties
      <4>2. QED
        BY <2>1, <3>1, <4>1 DEF BlockSize
    <3>2. CASE ~(Len(key) <= BlockSize)
      <4>1. short = Sha256(key)
        BY <3>2
      <4> HIDE DEF short
      <4>2. BlockSize - 32 \in Nat
        BY DEF BlockSize
      <4>3. QED
        BY <2>2, <4>1, <4>2, Zenon
    <3>3. QED
      BY <3>1, <3>2
  <2>4. Repeat(Zero, BlockSize - Len(short)) \in Seq(T)
    <3>1. Zero \in T
      OBVIOUS
    <3> HIDE DEF T, short
    <3>2. QED
      BY <2>3, <3>1 DEF Repeat
  <2>5. block \in Seq(T)
    <3> HIDE DEF T, short
    <3>1. QED
      BY <2>3, <2>4, Lengths
  <2>6. QED
    BY <2>5
<1>3. ASSUME NEW pad \in Nat
      PROVE  \E T : Xor(block, pad) \in Seq(T)
  <2> HIDE DEF block
  <2>1. PICK T : block \in Seq(T)
    BY <1>2
  <2>2. Xor(block, pad) \in Seq({<<pad, x>> : x \in T})
    BY <2>1 DEF Xor
  <2>3. QED
    BY <2>2
<1> HIDE DEF block
<1>4. PICK I, O : Xor(block, 54) \in Seq(I) /\ Xor(block, 92) \in Seq(O)
  BY <1>3
<1> DEFINE inside == Xor(block, 54) \o data
<1>5. GetHash(Absorb(Absorb(Fresh, Xor(block, 54)), data)) = Blocks(inside)
  BY <1>4, TwoPieces
<1>6. Sha256(inside) \in Seq({Sha256(inside)[i] : i \in 1..32})
  <2>1. Sha256(inside) = [i \in 1..32 |-> <<"hash", Blocks(inside), i>>]
    BY DEF Sha256
  <2> HIDE DEF inside
  <2>2. QED
    BY <2>1
<1>7. GetHash(Absorb(Absorb(Fresh, Xor(block, 92)), Sha256(inside)))
      = Blocks(Xor(block, 92) \o Sha256(inside))
  <2> HIDE DEF inside
  <2>1. QED
    BY <1>4, <1>6, TwoPieces
<1>8. Hmac(data, key) = GetHash(Absorb(Absorb(Fresh, Xor(block, 92)), Sha256(inside)))
  BY <1>1, <1>5, Zenon DEF Hmac, Sha256
<1>9. HmacOf(data, key) = Blocks(Xor(block, 92) \o Sha256(inside))
  BY Zenon DEF HmacOf, block
<1>10. QED
  BY <1>7, <1>8, <1>9

-----------------------------------------------------------------------------
(* Messages.                                                               *)

(* A non-empty set of numbers has a least one.                             *)
LEMMA Lowest ==
  ASSUME NEW S \in SUBSET Nat, S # {}
  PROVE  Min(S) \in S /\ \A i \in S : Min(S) <= i
<1> DEFINE Less == OpToRel(<, Nat)
<1>1. \E n \in S : \A m \in S : <<m, n>> \notin Less
  <2> HIDE DEF Less
  <2>1. IsWellFoundedOn(Less, Nat)
    BY NatLessThanWellFounded DEF Less
  <2>2. QED
    BY <2>1, WFMin
<1>2. \A m, n \in Nat : m < n => <<m, n>> \in Less
  BY DEF OpToRel
<1>3. PICK n \in S : \A m \in S : <<m, n>> \notin Less
  BY <1>1
<1>4. \A m \in S : ~(m < n)
  <2> HIDE DEF Less
  <2>1. QED
    BY <1>2, <1>3, Zenon
<1>5. \A m \in S : n <= m
  <2> HIDE DEF Less
  <2>1. QED
    BY <1>4
<1>6. QED
  BY <1>5 DEF Min

(* What is known to be least is what min finds.                            *)
LEMMA LowestIs ==
  ASSUME NEW S \in SUBSET Nat, NEW n \in S, \A i \in S : n <= i
  PROVE  Min(S) = n
<1>1. Min(S) \in S /\ \A i \in S : Min(S) <= i
  BY Lowest
<1>2. Min(S) \in Nat /\ n \in Nat /\ n <= Min(S) /\ Min(S) <= n
  BY <1>1
<1>3. QED
  BY <1>2

(* A message as it is written, part by part.                               *)
IsMultipart(m, ids, pair, four, rest, T) ==
  /\ m \in Seq(T)
  /\ Len(m) = Len(ids) + 6 + Len(rest)
  /\ \A i \in 1..Len(ids) : m[i] = ids[i]
  /\ m[Len(ids) + 1] = pair[1]
  /\ m[Len(ids) + 2] = pair[2]
  /\ \A i \in 1..4 : m[Len(ids) + 2 + i] = four[i]
  /\ \A i \in 1..Len(rest) : m[Len(ids) + 6 + i] = rest[i]

LEMMA MultipartAt ==
  ASSUME NEW T, NEW ids \in Seq(T), NEW pair \in Seq(T), NEW four \in Seq(T),
         NEW rest \in Seq(T), Len(pair) = 2, Len(four) = 4
  PROVE  IsMultipart(ids \o pair \o four \o rest, ids, pair, four, rest, T)
<1>1. Len(ids) \in Nat /\ Len(rest) \in Nat
  BY LenProperties
<1>2. /\ ids \o pair \in Seq(T)
      /\ Len(ids \o pair) = Len(ids) + 2
      /\ \A i \in 1..Len(ids) + 2 :
           (ids \o pair)[i] = IF i <= Len(ids) THEN ids[i] ELSE pair[i - Len(ids)]
  <2>1. Follows(ids, pair, T, Len(pair))
    BY Sequel
  <2>2. QED
    BY <2>1, Zenon DEF Follows
<1>3. /\ ids \o pair \o four \in Seq(T)
      /\ Len(ids \o pair \o four) = Len(ids \o pair) + 4
      /\ \A i \in 1..Len(ids \o pair) + 4 :
           (ids \o pair \o four)[i] =
             IF i <= Len(ids \o pair) THEN (ids \o pair)[i] ELSE four[i - Len(ids \o pair)]
  <2>1. ids \o pair \in Seq(T)
    BY <1>2
  <2>2. Follows(ids \o pair, four, T, Len(four))
    BY <2>1, Sequel
  <2>3. QED
    BY <2>2, Zenon DEF Follows
<1>4. /\ ids \o pair \o four \o rest \in Seq(T)
      /\ Len(ids \o pair \o four \o rest) = Len(ids \o pair \o four) + Len(rest)
      /\ \A i \in 1..Len(ids \o pair \o four) + Len(rest) :
           (ids \o pair \o four \o rest)[i] =
             IF i <= Len(ids \o pair \o four) THEN (ids \o pair \o four)[i]
             ELSE rest[i - Len(ids \o pair \o four)]
  <2>1. ids \o pair \o four \in Seq(T)
    BY <1>3
  <2>2. Follows(ids \o pair \o four, rest, T, Len(rest))
    BY <2>1, Sequel
  <2>3. QED
    BY <2>2, Zenon DEF Follows
<1> DEFINE two == ids \o pair
           six == ids \o pair \o four
           all == ids \o pair \o four \o rest
<1>5. /\ Len(two) = Len(ids) + 2 /\ Len(six) = Len(ids) + 6
      /\ all \in Seq(T) /\ Len(all) = Len(ids) + 6 + Len(rest)
  BY <1>1, <1>2, <1>3, <1>4
<1>6. /\ \A i \in 1..Len(ids) + 2 : two[i] = IF i <= Len(ids) THEN ids[i] ELSE pair[i - Len(ids)]
      /\ \A i \in 1..Len(two) + 4 : six[i] = IF i <= Len(two) THEN two[i] ELSE four[i - Len(two)]
      /\ \A i \in 1..Len(six) + Len(rest) :
           all[i] = IF i <= Len(six) THEN six[i] ELSE rest[i - Len(six)]
  BY <1>2, <1>3, <1>4
<1> HIDE DEF two, six, all
<1>7. \A i \in 1..Len(ids) : all[i] = ids[i]
  BY <1>1, <1>5, <1>6
<1>8. all[Len(ids) + 1] = pair[1] /\ all[Len(ids) + 2] = pair[2]
  BY <1>1, <1>5, <1>6
<1>9. \A i \in 1..4 : all[Len(ids) + 2 + i] = four[i]
  <2>1. ASSUME NEW i \in 1..4
        PROVE  all[Len(ids) + 2 + i] = four[i]
    <3>1. /\ Len(ids) + 2 + i \in 1..Len(six) + Len(rest)
          /\ Len(ids) + 2 + i \in 1..Len(two) + 4
          /\ Len(ids) + 2 + i <= Len(six)
          /\ ~(Len(ids) + 2 + i <= Len(two))
          /\ Len(ids) + 2 + i - Len(two) = i
      BY <1>1, <1>5
    <3>2. all[Len(ids) + 2 + i] = six[Len(ids) + 2 + i]
      BY <1>6, <3>1, Zenon
    <3>3. six[Len(ids) + 2 + i] = four[Len(ids) + 2 + i - Len(two)]
      <4> DEFINE j == Len(ids) + 2 + i
      <4>1. six[j] = IF j <= Len(two) THEN two[j] ELSE four[j - Len(two)]
        BY <1>6, <3>1, Zenon
      <4>2. ~(j <= Len(two))
        BY <3>1
      <4> HIDE DEF j
      <4>3. QED
        BY <4>1, <4>2 DEF j
    <3>4. QED
      BY <3>1, <3>2, <3>3, Zenon
  <2>2. QED
    BY <2>1
<1>10. \A i \in 1..Len(rest) : all[Len(ids) + 6 + i] = rest[i]
  <2>1. ASSUME NEW i \in 1..Len(rest)
        PROVE  all[Len(ids) + 6 + i] = rest[i]
    <3>1. /\ Len(ids) + 6 + i \in 1..Len(six) + Len(rest)
          /\ ~(Len(ids) + 6 + i <= Len(six))
          /\ Len(ids) + 6 + i - Len(six) = i
      BY <1>1, <1>5
    <3>2. all[Len(ids) + 6 + i] = rest[Len(ids) + 6 + i - Len(six)]
      <4> DEFINE j == Len(ids) + 6 + i
      <4>1. all[j] = IF j <= Len(six) THEN six[j] ELSE rest[j - Len(six)]
        BY <1>6, <3>1, Zenon
      <4>2. ~(j <= Len(six))
        BY <3>1
      <4> HIDE DEF j
      <4>3. QED
        BY <4>1, <4>2 DEF j
    <3>3. QED
      BY <3>1, <3>2, Zenon
  <2>2. QED
    BY <2>1
<1>11. QED
  BY <1>5, <1>7, <1>8, <1>9, <1>10, Zenon DEF IsMultipart, all

(* The four dicts have the names they are written in the order of.         *)
LEMMA PartsAre ==
  /\ ToSet(Parts) = {"header", "parent_header", "metadata", "content"}
  /\ \A i \in 1..4 : Parts[i] \in ToSet(Parts)
  /\ \A p \in ToSet(Parts) : \E i \in 1..4 : Parts[i] = p
  /\ \A i, j \in 1..4 : Parts[i] = Parts[j] => i = j
BY DEF ToSet, Parts

(* Dicts that are read in their order are the message's.                   *)
LEMMA DictsAt ==
  ASSUME NEW body
  PROVE  \A i \in 1..4 : DictsOf(body)[Parts[i]] = body[1 + i].holds
<1>1. ASSUME NEW i \in 1..4
      PROVE  (CHOOSE j \in 1..4 : Parts[j] = Parts[i]) = i
  BY PartsAre
<1>2. ASSUME NEW i \in 1..4
      PROVE  DictsOf(body)[Parts[i]] = body[1 + i].holds
  <2>1. Parts[i] \in ToSet(Parts)
    BY PartsAre
  <2>2. QED
    BY <1>1, <2>1, Zenon DEF DictsOf
<1>3. QED
  BY <1>2

IsDicts(m) == m = [p \in ToSet(Parts) |-> m[p]]

\* the ids are the n frames before the first separator
Separators == {Empty, Delimiter}

Ends(frames, n) ==
  /\ n \in Nat
  /\ n < Len(frames)
  /\ frames[n + 1] \in Separators
  /\ \A i \in 1..n : frames[i] \notin Separators

(* What ends the ids is the first separator.                               *)
LEMMA IdsEnd ==
  ASSUME NEW T, NEW frames \in Seq(T), NEW n, Ends(frames, n)
  PROVE  /\ HasIds(frames)
         /\ IdsOf(frames) = SubSeq(frames, 1, n)
         /\ Len(IdsOf(frames)) = n
<1> DEFINE I == {i \in 1..Len(frames) : frames[i] \in Separators}
<1>1. /\ Len(frames) \in Nat /\ n \in Nat /\ n + 1 \in 1..Len(frames)
      /\ DOMAIN frames = 1..Len(frames)
  BY LenProperties DEF Ends
<1>2. n + 1 \in I /\ \A i \in I : n + 1 <= i
  <2>1. n + 1 \in I
    BY <1>1 DEF Ends
  <2>2. ASSUME NEW i \in I
        PROVE  ~(i \in 1..n)
    BY DEF Ends
  <2>3. QED
    BY <1>1, <2>1, <2>2
<1>3. Min(I) = n + 1
  <2>1. I \in SUBSET Nat
    BY <1>1
  <2> HIDE DEF I
  <2>2. QED
    BY <1>2, <2>1, LowestIs
<1>4. HasIds(frames)
  BY <1>1 DEF HasIds, Ends, Separators
<1>5. IdsOf(frames) = SubSeq(frames, 1, n)
  <2>1. SelectInSeq(frames, LAMBDA f : f \in {Empty, Delimiter}) = IF I # {} THEN Min(I) ELSE 0
    BY Zenon DEF SelectInSeq, Separators
  <2>2. I # {}
    BY <1>2
  <2> HIDE DEF I
  <2>3. IdsOf(frames) = IF Min(I) = 0 THEN <<>> ELSE SubSeq(frames, 1, Min(I) - 1)
    BY <2>1, <2>2, Zenon DEF IdsOf
  <2>4. Min(I) # 0 /\ Min(I) - 1 = n
    BY <1>1, <1>3
  <2>5. QED
    BY <2>3, <2>4, Zenon
<1>6. Len(SubSeq(frames, 1, n)) = n
  BY <1>1, SplitAt
<1>7. QED
  BY <1>4, <1>5, <1>6

(* Frames with ids have a first separator.                                 *)
LEMMA IdsEndSomewhere ==
  ASSUME NEW T, NEW frames \in Seq(T), HasIds(frames)
  PROVE  \E n \in Nat : Ends(frames, n)
<1> DEFINE I == {i \in 1..Len(frames) : frames[i] \in Separators}
<1>1. Len(frames) \in Nat /\ DOMAIN frames = 1..Len(frames)
  BY LenProperties
<1>2. I \in SUBSET Nat /\ I # {}
  BY <1>1 DEF HasIds, Separators
<1>3. Min(I) \in I /\ \A i \in I : Min(I) <= i
  <2> HIDE DEF I
  <2>1. QED
    BY <1>2, Lowest
<1>4. PICK e \in I : \A i \in I : e <= i
  <2> HIDE DEF I
  <2>1. QED
    BY <1>3
<1>5. /\ e \in 1..Len(frames) /\ frames[e] \in Separators
      /\ \A i \in 1..e - 1 : frames[i] \notin Separators
  <2>1. e \in 1..Len(frames) /\ frames[e] \in Separators
    OBVIOUS
  <2>2. ASSUME NEW i \in 1..e - 1, frames[i] \in Separators
        PROVE  FALSE
    <3>1. i \in I /\ ~(e <= i)
      BY <1>1, <2>1, <2>2
    <3>2. QED
      BY <1>4, <3>1
  <2>3. QED
    BY <2>1, <2>2
<1>6. e - 1 \in Nat /\ e - 1 < Len(frames) /\ e - 1 + 1 = e
  BY <1>1, <1>5
<1>7. Ends(frames, e - 1)
  BY <1>5, <1>6 DEF Ends
<1>8. QED
  BY <1>6, <1>7

(* What is read of frames whose ids end after n of them.                   *)
LEMMA BodyAt ==
  ASSUME NEW T, NEW frames \in Seq(T), NEW n, Ends(frames, n)
  PROVE  /\ BodyOf(frames) \in Seq(T)
         /\ Len(BodyOf(frames)) = Len(frames) - n - 1
         /\ \A i \in 1..Len(frames) - n - 1 : BodyOf(frames)[i] = frames[n + 1 + i]
<1>1. n \in Nat /\ Len(frames) \in Nat /\ n < Len(frames)
  BY LenProperties DEF Ends
<1>2. BodyOf(frames) = SubSeq(frames, n + 2, Len(frames))
  BY IdsEnd DEF BodyOf
<1>3. \A i \in n + 2..Len(frames) : frames[i] \in T
  BY <1>1, ElementOfSeq
<1>4. /\ SubSeq(frames, n + 2, Len(frames)) \in Seq(T)
      /\ Len(SubSeq(frames, n + 2, Len(frames)))
           = IF n + 2 <= Len(frames) THEN Len(frames) - (n + 2) + 1 ELSE 0
      /\ \A i \in 1..Len(frames) - (n + 2) + 1 :
           SubSeq(frames, n + 2, Len(frames))[i] = frames[n + 2 + i - 1]
  BY <1>1, <1>3, SubSeqProperties
<1>5. QED
  BY <1>1, <1>2, <1>4

(* The buffers are what follows the dicts.                                 *)
LEMMA BuffersAt ==
  ASSUME NEW T, NEW body \in Seq(T), Len(body) >= 5
  PROVE  /\ SubSeq(body, 6, Len(body)) \in Seq(T)
         /\ Len(SubSeq(body, 6, Len(body))) = Len(body) - 5
         /\ \A i \in 1..Len(body) - 5 : SubSeq(body, 6, Len(body))[i] = body[5 + i]
<1>1. Len(body) \in Nat /\ \A i \in 6..Len(body) : body[i] \in T
  BY LenProperties, ElementOfSeq
<1>2. /\ SubSeq(body, 6, Len(body)) \in Seq(T)
      /\ Len(SubSeq(body, 6, Len(body))) = IF 6 <= Len(body) THEN Len(body) - 6 + 1 ELSE 0
      /\ \A i \in 1..Len(body) - 6 + 1 : SubSeq(body, 6, Len(body))[i] = body[6 + i - 1]
  BY <1>1, SubSeqProperties
<1>3. Len(SubSeq(body, 6, Len(body))) = Len(body) - 5
  <2>1. CASE 6 <= Len(body)
    <3>1. Len(SubSeq(body, 6, Len(body))) = Len(body) - 6 + 1
      BY <1>2, <2>1, Zenon
    <3>2. QED
      BY <1>1, <3>1
  <2>2. CASE ~(6 <= Len(body))
    <3>1. Len(SubSeq(body, 6, Len(body))) = 0
      BY <1>2, <2>2, Zenon
    <3>2. Len(body) - 5 = 0
      <4>1. Len(body) \in Nat
        BY LenProperties
      <4>2. \A l \in Nat : l >= 5 /\ ~(6 <= l) => l - 5 = 0
        OBVIOUS
      <4>3. QED
        BY <2>2, <4>1, <4>2, Zenon
    <3>3. QED
      BY <3>1, <3>2, Zenon
  <2>3. QED
    BY <2>1, <2>2
<1>4. ASSUME NEW i \in 1..Len(body) - 5
      PROVE  SubSeq(body, 6, Len(body))[i] = body[5 + i]
  <2>1. i \in 1..Len(body) - 6 + 1 /\ 6 + i - 1 = 5 + i
    BY <1>1
  <2>2. QED
    BY <1>2, <2>1
<1>5. QED
  BY <1>2, <1>3, <1>4

IsId(f) == f \notin Separators

\* what stands after the first k of a sequence, up to the b-th
Slice(s, k, b, T) ==
  /\ SubSeq(s, k + 1, b) \in Seq(T)
  /\ Len(SubSeq(s, k + 1, b)) = b - k
  /\ \A i \in 1..b - k : SubSeq(s, k + 1, b)[i] = s[k + i]

LEMMA SliceAt ==
  ASSUME NEW T, NEW s \in Seq(T), NEW k \in Nat, NEW b \in Nat, k <= b, b <= Len(s)
  PROVE  Slice(s, k, b, T)
<1>1. Len(s) \in Nat /\ \A i \in k + 1..b : s[i] \in T
  BY LenProperties, ElementOfSeq
<1>2. /\ SubSeq(s, k + 1, b) \in Seq(T)
      /\ Len(SubSeq(s, k + 1, b)) = IF k + 1 <= b THEN b - (k + 1) + 1 ELSE 0
      /\ \A i \in 1..b - (k + 1) + 1 : SubSeq(s, k + 1, b)[i] = s[k + 1 + i - 1]
  BY <1>1, SubSeqProperties
<1>3. (IF k + 1 <= b THEN b - (k + 1) + 1 ELSE 0) = b - k
  OBVIOUS
<1>4. ASSUME NEW i \in 1..b - k
      PROVE  SubSeq(s, k + 1, b)[i] = s[k + i]
  <2>1. i \in 1..b - (k + 1) + 1 /\ k + 1 + i - 1 = k + i
    OBVIOUS
  <2>2. QED
    BY <1>2, <2>1
<1>5. Len(SubSeq(s, k + 1, b)) = b - k
  <2> DEFINE m == Len(SubSeq(s, k + 1, b))
  <2>1. m = IF k + 1 <= b THEN b - (k + 1) + 1 ELSE 0
    BY <1>2
  <2> HIDE DEF m
  <2>2. m = b - k
    BY <1>3, <2>1
  <2>3. QED
    BY <2>2 DEF m
<1>6. SubSeq(s, k + 1, b) \in Seq(T)
  BY <1>2
<1> DEFINE u == SubSeq(s, k + 1, b)
<1> HIDE DEF u
<1>7. QED
  BY <1>4, <1>5, <1>6, Zenon DEF Slice

(* A failure says what failed.                                             *)
LEMMA FailureSays ==
  ASSUME NEW outcome
  PROVE  Failure(outcome).outcome = outcome
BY DEF Failure

\* the l elements after the first k
Piece(s, k, l) == SubSeq(s, k + 1, k + l)

\* the l elements after the first k of s are those after the first j of t
Alike(s, k, t, j, l, T) ==
  /\ s \in Seq(T) /\ t \in Seq(T) /\ k \in Nat /\ j \in Nat /\ l \in Nat
  /\ k + l <= Len(s) /\ j + l <= Len(t)
  /\ \A i \in 1..l : s[k + i] = t[j + i]

(* Slices with the same elements are the same.                             *)
LEMMA SameSlices ==
  ASSUME NEW s, NEW k, NEW t, NEW j, NEW l, NEW T, Alike(s, k, t, j, l, T)
  PROVE  Piece(s, k, l) = Piece(t, j, l)
<1>0. /\ s \in Seq(T) /\ t \in Seq(T) /\ k \in Nat /\ j \in Nat /\ l \in Nat
      /\ k + l <= Len(s) /\ j + l <= Len(t)
      /\ \A i \in 1..l : s[k + i] = t[j + i]
  BY Zenon DEF Alike
<1>1. Slice(s, k, k + l, T) /\ Slice(t, j, j + l, T)
  BY <1>0, SliceAt
<1>2. (k + l) - k = l /\ (j + l) - j = l
  BY <1>0
<1> DEFINE u == SubSeq(s, k + 1, k + l)
           v == SubSeq(t, j + 1, j + l)
<1>3. /\ u \in Seq(T) /\ Len(u) = l /\ \A i \in 1..l : u[i] = s[k + i]
      /\ v \in Seq(T) /\ Len(v) = l /\ \A i \in 1..l : v[i] = t[j + i]
  <2>1. /\ u \in Seq(T) /\ Len(u) = (k + l) - k
        /\ v \in Seq(T) /\ Len(v) = (j + l) - j
    BY <1>1, Zenon DEF Slice
  <2>2. \A i \in 1..(k + l) - k : u[i] = s[k + i]
    BY <1>1, Zenon DEF Slice
  <2>3. \A i \in 1..(j + l) - j : v[i] = t[j + i]
    BY <1>1, Zenon DEF Slice
  <2> HIDE DEF u, v
  <2>4. QED
    BY <1>2, <2>1, <2>2, <2>3
<1> HIDE DEF u, v
<1>4. u = v
  <2>1. \A i \in 1..Len(u) : u[i] = v[i]
    BY <1>0, <1>3
  <2>2. QED
    BY <1>3, <2>1, SeqEqual
<1>5. QED
  BY <1>4, Zenon DEF u, v, Piece

\* the signature of a message whose ids are its first n frames
SignatureAt(frames, key, n) ==
  Signature(key, frames[n + 3].text \o frames[n + 4].text
                 \o frames[n + 5].text \o frames[n + 6].text)

(* Where a message's signature, dicts and buffers are.                     *)
LEMMA BodyFrames ==
  ASSUME NEW T, NEW frames \in Seq(T), NEW n, Ends(frames, n), n + 6 <= Len(frames), NEW key
  PROVE  LET body == BodyOf(frames)
         IN /\ Min({5, Len(body)}) = 5 /\ ~(Len(body) < 5)
            /\ \A i \in 1..5 : body[i] = frames[n + 1 + i]
            /\ SubSeq(body, 6, Len(body)) = SubSeq(frames, n + 7, Len(frames))
            /\ Signed(key, [i \in 1..4 |-> Verified(body[1 + i])]) = SignatureAt(frames, key, n)
<1> DEFINE body == BodyOf(frames)
<1>1. n \in Nat /\ Len(frames) \in Nat
  BY LenProperties DEF Ends
<1>2. /\ body \in Seq(T)
      /\ Len(body) = Len(frames) - n - 1
      /\ \A i \in 1..Len(frames) - n - 1 : body[i] = frames[n + 1 + i]
  BY BodyAt
<1> HIDE DEF body
<1>3. /\ Len(body) \in Nat /\ Len(body) >= 5
      /\ \A i \in 1..5 : body[i] = frames[n + 1 + i]
  BY <1>1, <1>2
<1>4. Min({5, Len(body)}) = 5
  BY <1>3, MinOfTwo
<1>5. SubSeq(body, 6, Len(body)) = SubSeq(frames, n + 7, Len(frames))
  <2> DEFINE l == Len(body) - 5
             k == n + 6
             h == 5
  <2>1. /\ l \in Nat /\ k \in Nat /\ h \in Nat /\ h + l <= Len(body) /\ k + l <= Len(frames)
        /\ h + l = Len(body) /\ k + l = Len(frames) /\ k + 1 = n + 7 /\ h + 1 = 6
    BY <1>1, <1>2, <1>3
  <2>2. ASSUME NEW i \in 1..l
        PROVE  body[h + i] = frames[k + i]
    <3>1. 5 + i \in 1..Len(frames) - n - 1 /\ n + 1 + (5 + i) = k + i
      BY <1>1, <1>2
    <3>2. QED
      BY <1>2, <3>1
  <2> HIDE DEF l, k, h
  <2>3. SubSeq(body, h + 1, h + l) = SubSeq(frames, k + 1, k + l)
    <3>1. /\ body \in Seq(T) /\ h \in Nat /\ k \in Nat /\ l \in Nat
          /\ k + l <= Len(frames) /\ h + l <= Len(body)
      BY <1>2, <2>1
    <3>2. \A i \in 1..l : body[h + i] = frames[k + i]
      BY <2>2
    <3>3. QED
      <4>1. Alike(body, h, frames, k, l, T)
        BY <3>1, <3>2, Zenon DEF Alike
      <4>2. Piece(body, h, l) = Piece(frames, k, l)
        BY <4>1, SameSlices
      <4>3. QED
        BY <4>2, Zenon DEF Piece
  <2>4. QED
    BY <2>1, <2>3, Zenon
<1>6. /\ body[1 + 1] = frames[n + 3] /\ body[1 + 2] = frames[n + 4]
      /\ body[1 + 3] = frames[n + 5] /\ body[1 + 4] = frames[n + 6]
  <2>1. /\ 1 + 1 \in 1..5 /\ 1 + 2 \in 1..5 /\ 1 + 3 \in 1..5 /\ 1 + 4 \in 1..5
        /\ n + 1 + (1 + 1) = n + 3 /\ n + 1 + (1 + 2) = n + 4
        /\ n + 1 + (1 + 3) = n + 5 /\ n + 1 + (1 + 4) = n + 6
    BY <1>1
  <2>2. QED
    BY <1>3, <2>1
<1>7. Signed(key, [i \in 1..4 |-> Verified(body[1 + i])]) = SignatureAt(frames, key, n)
  <2> DEFINE texts == [i \in 1..4 |-> Verified(body[1 + i])]
  <2>1. /\ texts[1] = Verified(body[1 + 1]) /\ texts[2] = Verified(body[1 + 2])
        /\ texts[3] = Verified(body[1 + 3]) /\ texts[4] = Verified(body[1 + 4])
    OBVIOUS
  <2> HIDE DEF texts
  <2>2. /\ texts[1] = frames[n + 3].text /\ texts[2] = frames[n + 4].text
        /\ texts[3] = frames[n + 5].text /\ texts[4] = frames[n + 6].text
    BY <1>6, <2>1, Zenon DEF Verified
  <2>3. Signed(key, texts) = SignatureAt(frames, key, n)
    BY <2>2, Zenon DEF Signed, SignatureAt
  <2>4. QED
    BY <2>3 DEF texts
<1>8. ~(Len(body) < 5)
  BY <1>3
<1>9. QED
  BY <1>3, <1>4, <1>5, <1>7, <1>8, Zenon DEF body

(* What is authentic has its ids where Read finds them.                    *)
LEMMA AuthenticEnds ==
  ASSUME NEW T, NEW frames \in Seq(T), NEW key, NEW n \in Nat, Authentic(frames, key, n)
  PROVE  Ends(frames, n)
<1>1. Len(frames) \in Nat
  BY LenProperties
<1>2. n < Len(frames)
  BY <1>1 DEF Authentic
<1>3. QED
  BY <1>2, Zenon DEF Authentic, Ends, Separators

\* what is read of an authentic message
ReadOf(frames, key, n) ==
  Message(key, SubSeq(frames, 1, n), DictsOf(BodyOf(frames)), SubSeq(frames, n + 7, Len(frames)))

(* What is authentic is read.                                              *)
LEMMA AuthenticRead ==
  ASSUME NEW T, NEW frames \in Seq(T), NEW key, NEW n \in Nat, Authentic(frames, key, n)
  PROVE  /\ Read(frames, key) = ReadOf(frames, key, n)
         /\ Len(SubSeq(frames, 1, n)) = n
         /\ \A i \in 1..4 : DictsOf(BodyOf(frames))[Parts[i]] = frames[n + 2 + i].holds
<1> DEFINE body == BodyOf(frames)
           signed == Signed(key, [i \in 1..4 |-> Verified(body[1 + i])])
<1>1. Ends(frames, n)
  BY AuthenticEnds
<1>2. HasIds(frames) /\ IdsOf(frames) = SubSeq(frames, 1, n) /\ Len(IdsOf(frames)) = n
  BY <1>1, IdsEnd
<1>3. n + 6 <= Len(frames)
  BY DEF Authentic
<1>4. /\ Min({5, Len(body)}) = 5 /\ ~(Len(body) < 5)
      /\ \A i \in 1..5 : body[i] = frames[n + 1 + i]
      /\ SubSeq(body, 6, Len(body)) = SubSeq(frames, n + 7, Len(frames))
      /\ signed = SignatureAt(frames, key, n)
  BY <1>1, <1>3, BodyFrames
<1> HIDE DEF body, signed
<1>5. ASSUME NEW i \in 2..5
      PROVE  body[i].is = "json"
  <2>1. i \in 1..5 /\ i + 1 \in 3..6 /\ n + 1 + i = n + (i + 1)
    OBVIOUS
  <2>2. body[i] = frames[n + (i + 1)]
    BY <1>4, <2>1
  <2>3. QED
    BY <2>1, <2>2 DEF Authentic
<1>6. body[1] = signed
  <2>1. 1 \in 1..5 /\ n + 1 + 1 = n + 2
    OBVIOUS
  <2>2. body[1] = frames[n + 2]
    BY <1>4, <2>1
  <2>3. QED
    BY <1>4, <2>2, Zenon DEF Authentic, SignatureAt
<1>7. ~ \E i \in 2..Min({5, Len(body)}) : body[i].is # "json"
  BY <1>4, <1>5, Zenon
<1>8. Read(frames, key) = ReadOf(frames, key, n)
  BY <1>2, <1>4, <1>6, <1>7, Zenon DEF Read, ReadOf, body, signed
<1>9. ASSUME NEW i \in 1..4
      PROVE  DictsOf(body)[Parts[i]] = frames[n + 2 + i].holds
  <2>1. 1 + i \in 1..5 /\ n + 1 + (1 + i) = n + 2 + i
    OBVIOUS
  <2>2. body[1 + i] = frames[n + 2 + i]
    BY <1>4, <2>1
  <2>3. DictsOf(body)[Parts[i]] = body[1 + i].holds
    BY DictsAt
  <2>4. QED
    BY <2>2, <2>3
<1>10. QED
  BY <1>2, <1>8, <1>9 DEF body

(* What is read is authentic.                                              *)
LEMMA ReadAuthentic ==
  ASSUME NEW T, NEW frames \in Seq(T), NEW key, Read(frames, key).outcome = "read"
  PROVE  \E n \in 0..Len(frames) : Authentic(frames, key, n)
<1> DEFINE body == BodyOf(frames)
           signed == Signed(key, [i \in 1..4 |-> Verified(body[1 + i])])
<1>1. /\ HasIds(frames)
      /\ ~ \E i \in 2..Min({5, Len(body)}) : body[i].is # "json"
      /\ ~(Len(body) < 5)
      /\ body[1] = signed
  <2>1. /\ Failure("pops_empty_deque").outcome # "read"
        /\ Failure("parse_error").outcome # "read"
        /\ Failure("bad_hmac").outcome # "read"
    BY DEF Failure
  <2>2. QED
    BY <2>1, Zenon DEF Read
<1>2. PICK n \in Nat : Ends(frames, n)
  BY <1>1, IdsEndSomewhere
<1>3. Len(body) = Len(frames) - n - 1
  BY <1>2, BodyAt
<1>4. Len(frames) \in Nat /\ n + 6 <= Len(frames)
  <2>1. Len(frames) \in Nat
    BY LenProperties
  <2> HIDE DEF body
  <2>2. QED
    BY <1>1, <1>3, <2>1
<1>5. /\ Min({5, Len(body)}) = 5
      /\ \A i \in 1..5 : body[i] = frames[n + 1 + i]
      /\ signed = SignatureAt(frames, key, n)
  BY <1>2, <1>4, BodyFrames
<1> HIDE DEF body, signed
<1>6. ASSUME NEW i \in 3..6
      PROVE  frames[n + i].is = "json"
  <2>1. i - 1 \in 1..5 /\ i - 1 \in 2..5 /\ n + 1 + (i - 1) = n + i
    OBVIOUS
  <2>2. body[i - 1] = frames[n + i]
    BY <1>5, <2>1
  <2>3. body[i - 1].is = "json"
    BY <1>1, <1>5, <2>1, Zenon
  <2>4. QED
    BY <2>2, <2>3
<1>7. frames[n + 2] = SignatureAt(frames, key, n)
  <2>1. 1 \in 1..5 /\ n + 1 + 1 = n + 2
    OBVIOUS
  <2>2. body[1] = frames[n + 2]
    BY <1>5, <2>1
  <2>3. QED
    BY <1>1, <1>5, <2>2
<1>8. Authentic(frames, key, n)
  BY <1>2, <1>4, <1>6, <1>7, Zenon DEF Authentic, Ends, Separators, SignatureAt
<1>9. n \in 0..Len(frames)
  BY <1>4
<1>10. QED
  BY <1>8, <1>9

(* Dicts that agree on each part are the same.                             *)
LEMMA SameDicts ==
  ASSUME NEW d, IsDicts(d), NEW e, IsDicts(e), \A i \in 1..4 : d[Parts[i]] = e[Parts[i]]
  PROVE  d = e
<1>1. ASSUME NEW p \in ToSet(Parts)
      PROVE  d[p] = e[p]
  <2>1. PICK i \in 1..4 : Parts[i] = p
    BY PartsAre
  <2>2. QED
    BY <2>1
<1>2. [p \in ToSet(Parts) |-> d[p]] = [p \in ToSet(Parts) |-> e[p]]
  BY <1>1, Zenon
<1>3. QED
  BY <1>2, Zenon DEF IsDicts

\* four dicts, each as its own text is read
RereadAll(m) == [p \in ToSet(Parts) |-> Reread(m[p])]

(* A message that is written is read as its texts are.                     *)
LEMMA WrittenRead ==
  ASSUME NEW T, NEW ids \in Seq(T), \A i \in 1..Len(ids) : IsId(ids[i]),
         NEW m, NEW buffers \in Seq(T), NEW key
  PROVE  LET out == ToMultipart(Message(key, ids, m, buffers))
         IN /\ Read(out, key) = Message(key, ids, RereadAll(m), buffers)
            /\ out # <<>>
            /\ \E U : out \in Seq(U)
<1> DEFINE texts == [i \in 1..4 |-> Dumped(m[Parts[i]])]
           sig == Signed(key, texts)
           pair == <<Delimiter, sig>>
           four == [i \in 1..4 |-> Text(m[Parts[i]])]
           U == T \cup {Delimiter, sig} \cup {four[i] : i \in 1..4}
           f == ids \o pair \o four \o buffers
           n == Len(ids)
<1>1. ToMultipart(Message(key, ids, m, buffers)) = f
  BY Zenon DEF ToMultipart, Message
<1>2. n \in Nat /\ Len(buffers) \in Nat
  BY LenProperties
<1>3. ids \in Seq(U) /\ buffers \in Seq(U) /\ pair \in Seq(U) /\ Len(pair) = 2
  <2>1. T \subseteq U /\ Delimiter \in U /\ sig \in U
    BY Zenon
  <2> HIDE DEF U, sig
  <2>2. QED
    BY <2>1, SeqMonotonic
<1>4. four \in Seq(U) /\ Len(four) = 4
  <2>1. \A i \in 1..4 : four[i] \in U
    BY Zenon
  <2> HIDE DEF U
  <2>2. QED
    BY <2>1
<1> HIDE DEF U, sig
<1>5. /\ f \in Seq(U)
      /\ Len(f) = n + 6 + Len(buffers)
      /\ \A i \in 1..n : f[i] = ids[i]
      /\ f[n + 1] = pair[1]
      /\ f[n + 2] = pair[2]
      /\ \A i \in 1..4 : f[n + 2 + i] = four[i]
      /\ \A i \in 1..Len(buffers) : f[n + 6 + i] = buffers[i]
  <2>1. IsMultipart(f, ids, pair, four, buffers, U)
    <3> HIDE DEF pair, four
    <3>1. QED
      BY <1>3, <1>4, MultipartAt
  <2> HIDE DEF f, pair, four
  <2>2. QED
    BY <2>1, Zenon DEF IsMultipart
<1>6. /\ f[n + 1] = Delimiter /\ f[n + 2] = sig
      /\ \A i \in 1..4 : /\ f[n + 2 + i].is = "json" /\ f[n + 2 + i].text = texts[i]
                         /\ f[n + 2 + i].holds = Reread(m[Parts[i]])
  <2>1. ASSUME NEW i \in 1..4
        PROVE  /\ four[i].is = "json" /\ four[i].text = texts[i]
               /\ four[i].holds = Reread(m[Parts[i]])
    BY DEF Text
  <2>2. pair[1] = Delimiter /\ pair[2] = sig
    OBVIOUS
  <2> HIDE DEF f, pair, four, texts
  <2>3. QED
    BY <1>5, <2>1, <2>2
<1> HIDE DEF f, texts, n
<1>7. Authentic(f, key, n)
  <2>1. n + 6 <= Len(f)
    BY <1>2, <1>5
  <2>2. f[n + 1] \in {Empty, Delimiter}
    BY <1>6
  <2>3. ASSUME NEW i \in 1..n
        PROVE  f[i] \notin {Empty, Delimiter}
    <3>1. IsId(ids[i])
      BY DEF n
    <3>2. QED
      BY <1>5, <3>1 DEF IsId, Separators
  <2>4. ASSUME NEW i \in 3..6
        PROVE  f[n + i].is = "json"
    <3>1. i - 2 \in 1..4 /\ n + 2 + (i - 2) = n + i
      BY <1>2
    <3>2. QED
      BY <1>6, <3>1
  <2>5. f[n + 2] = SignatureAt(f, key, n)
    <3>1. /\ 1 \in 1..4 /\ 2 \in 1..4 /\ 3 \in 1..4 /\ 4 \in 1..4
          /\ n + 2 + 1 = n + 3 /\ n + 2 + 2 = n + 4 /\ n + 2 + 3 = n + 5 /\ n + 2 + 4 = n + 6
      BY <1>2
    <3>2. /\ f[n + 3].text = texts[1] /\ f[n + 4].text = texts[2]
          /\ f[n + 5].text = texts[3] /\ f[n + 6].text = texts[4]
      BY <1>6, <3>1
    <3>3. QED
      BY <1>6, <3>2, Zenon DEF sig, Signed, SignatureAt
  <2>6. QED
    BY <2>1, <2>2, <2>3, <2>4, <2>5, Zenon DEF Authentic, SignatureAt
<1>8. /\ Read(f, key) = ReadOf(f, key, n)
      /\ \A i \in 1..4 : DictsOf(BodyOf(f))[Parts[i]] = f[n + 2 + i].holds
  BY <1>2, <1>5, <1>7, AuthenticRead
<1>9. SubSeq(f, 1, n) = ids
  <2>1. n \in 0..Len(f)
    BY <1>2, <1>5
  <2>2. SubSeq(f, 1, n) \in Seq(U) /\ Len(SubSeq(f, 1, n)) = n
    BY <1>5, <2>1, SplitAt
  <2>3. \A i \in 1..n : SubSeq(f, 1, n)[i] = ids[i]
    BY <1>2, <1>5
  <2>4. QED
    BY <1>3, <2>2, <2>3, SeqEqual DEF n
<1>10. SubSeq(f, n + 7, Len(f)) = buffers
  <2> DEFINE k == n + 6
             b == SubSeq(f, k + 1, Len(f))
  <2>1. k \in Nat /\ Len(f) \in Nat /\ k <= Len(f) /\ Len(f) - k = Len(buffers) /\ k + 1 = n + 7
    BY <1>2, <1>5
  <2> HIDE DEF k
  <2>2. Slice(f, k, Len(f), U)
    BY <1>5, <2>1, SliceAt
  <2>3. /\ b \in Seq(U) /\ Len(b) = Len(buffers)
        /\ \A i \in 1..Len(buffers) : b[i] = f[k + i]
    BY <2>1, <2>2, Zenon DEF Slice
  <2>4. \A i \in 1..Len(buffers) : f[k + i] = buffers[i]
    BY <1>5 DEF k
  <2> HIDE DEF b
  <2>5. b = buffers
    <3>1. \A i \in 1..Len(b) : b[i] = buffers[i]
      BY <2>3, <2>4
    <3>2. QED
      BY <1>3, <2>3, <3>1, SeqEqual
  <2>6. QED
    BY <2>1, <2>5, Zenon DEF b
<1>11. DictsOf(BodyOf(f)) = RereadAll(m)
  <2>1. IsDicts(DictsOf(BodyOf(f))) /\ IsDicts(RereadAll(m))
    BY DEF IsDicts, DictsOf, RereadAll
  <2>2. \A i \in 1..4 : DictsOf(BodyOf(f))[Parts[i]] = Reread(m[Parts[i]])
    BY <1>6, <1>8
  <2>3. \A i \in 1..4 : RereadAll(m)[Parts[i]] = Reread(m[Parts[i]])
    BY PartsAre, Zenon DEF RereadAll
  <2>4. QED
    BY <2>1, <2>2, <2>3, SameDicts
<1>12. Read(f, key) = Message(key, ids, RereadAll(m), buffers)
  BY <1>8, <1>9, <1>10, <1>11, Zenon DEF ReadOf
<1>13. f # <<>>
  <2>1. Len(f) # 0
    BY <1>2, <1>5
  <2>2. QED
    BY <2>1, EmptySeq
<1>14. QED
  BY <1>1, <1>5, <1>12, <1>13, Zenon

CutIs(frames, key, n, l) ==
  LET cut == Read(SubSeq(frames, 1, l), key)
  IN /\ l <= n + 5 => cut.outcome = "pops_empty_deque"
     /\ l >= n + 6 =>
          cut = [ReadOf(frames, key, n) EXCEPT !.buffers = SubSeq(frames, n + 7, l)]

(* A message cut short before its last dict is not read, and one cut short *)
(* after it is.                                                            *)
LEMMA CutRead ==
  ASSUME NEW T, NEW frames \in Seq(T), NEW key, NEW n \in Nat, Authentic(frames, key, n),
         NEW l \in 0..Len(frames)
  PROVE  CutIs(frames, key, n, l)
<1> DEFINE cut == SubSeq(frames, 1, l)
<1>1. Len(frames) \in Nat /\ n + 6 <= Len(frames)
  BY LenProperties DEF Authentic
<1>2. cut \in Seq(T) /\ Len(cut) = l /\ \A i \in 1..l : cut[i] = frames[i]
  <2>1. cut \in Seq(T) /\ Len(cut) = l
    BY SplitAt
  <2>2. QED
    BY <1>1, <2>1
<1> HIDE DEF cut
<1>3. CASE l <= n
  <2>1. ~HasIds(cut)
    <3>1. ASSUME NEW i \in DOMAIN cut, cut[i] \in {Empty, Delimiter}
          PROVE  FALSE
      <4>1. i \in 1..l /\ i \in 1..n
        BY <1>2, <1>3
      <4>2. QED
        BY <1>2, <3>1, <4>1 DEF Authentic
    <3>2. QED
      BY <3>1 DEF HasIds
  <2>2. Read(cut, key) = Failure("pops_empty_deque")
    BY <2>1, Zenon DEF Read
  <2>3. Read(cut, key).outcome = "pops_empty_deque"
    BY <2>2, FailureSays, Zenon
  <2>4. ~(l >= n + 6)
    BY <1>1, <1>3
  <2>5. QED
    BY <2>3, <2>4, Zenon DEF CutIs, cut
<1>4. ASSUME l > n
      PROVE  Ends(cut, n)
  <2>1. n + 1 \in 1..l /\ \A i \in 1..n : i \in 1..l
    BY <1>4
  <2>2. cut[n + 1] = frames[n + 1] /\ \A i \in 1..n : cut[i] = frames[i]
    BY <1>2, <2>1
  <2>3. QED
    BY <1>2, <1>4, <2>2 DEF Ends, Authentic, Separators
<1>5. CASE l > n /\ l <= n + 5
  <2> DEFINE body == BodyOf(cut)
  <2>1. HasIds(cut)
    BY <1>2, <1>4, <1>5, IdsEnd
  <2>2. Len(body) = l - n - 1 /\ \A i \in 1..l - n - 1 : body[i] = cut[n + 1 + i]
    <3>1. Ends(cut, n)
      BY <1>4, <1>5
    <3>2. /\ Len(body) = Len(cut) - n - 1
          /\ \A i \in 1..Len(cut) - n - 1 : body[i] = cut[n + 1 + i]
      <4>1. cut \in Seq(T)
        BY <1>2
      <4> HIDE DEF body
      <4>2. /\ Len(BodyOf(cut)) = Len(cut) - n - 1
            /\ \A i \in 1..Len(cut) - n - 1 : BodyOf(cut)[i] = cut[n + 1 + i]
        BY <3>1, <4>1, BodyAt
      <4>3. QED
        BY <4>2, Zenon DEF body
    <3> HIDE DEF body
    <3>3. QED
      BY <1>2, <3>2, Zenon
  <2> HIDE DEF body
  <2>3. Len(body) \in 0..4 /\ Len(body) < 5
    BY <1>1, <1>5, <2>2
  <2>4. Min({5, Len(body)}) = Len(body)
    <3>1. 5 \in Nat /\ Len(body) \in Nat /\ ~(5 <= Len(body))
      BY <2>3
    <3>2. Min({5, Len(body)}) = IF 5 <= Len(body) THEN 5 ELSE Len(body)
      BY <3>1, MinOfTwo
    <3>3. QED
      BY <3>1, <3>2
  <2>5. ASSUME NEW i \in 2..Len(body)
        PROVE  body[i].is = "json"
    <3>1. /\ i \in 1..l - n - 1 /\ n + 1 + i \in 1..l /\ i + 1 \in 3..6
          /\ n + 1 + i = n + (i + 1)
      BY <1>5, <2>2
    <3>2. body[i] = frames[n + (i + 1)]
      BY <1>2, <2>2, <3>1
    <3>3. QED
      BY <3>1, <3>2 DEF Authentic
  <2>6. Read(cut, key) = Failure("pops_empty_deque")
    <3>1. ~ \E i \in 2..Min({5, Len(body)}) : body[i].is # "json"
      BY <2>4, <2>5, Zenon
    <3>2. QED
      BY <2>1, <2>3, <3>1, Zenon DEF Read, body
  <2>7. Read(cut, key).outcome = "pops_empty_deque"
    BY <2>6, FailureSays, Zenon
  <2>8. ~(l >= n + 6)
    BY <1>1, <1>5
  <2>9. QED
    BY <2>7, <2>8, Zenon DEF CutIs, cut
<1>6. CASE l >= n + 6
  <2>1. \A i \in 1..6 : cut[n + i] = frames[n + i]
    <3>1. ASSUME NEW i \in 1..6
          PROVE  n + i \in 1..l
      BY <1>6
    <3>2. QED
      BY <1>2, <3>1
  <2>2. Authentic(cut, key, n)
    <3>1. n + 6 <= Len(cut)
      BY <1>2, <1>6
    <3>2. /\ cut[n + 1] = frames[n + 1] /\ cut[n + 2] = frames[n + 2]
          /\ cut[n + 3] = frames[n + 3] /\ cut[n + 4] = frames[n + 4]
          /\ cut[n + 5] = frames[n + 5] /\ cut[n + 6] = frames[n + 6]
      BY <2>1
    <3>3. \A i \in 1..n : cut[i] = frames[i]
      <4>1. \A i \in 1..n : i \in 1..l
        BY <1>6
      <4>2. QED
        BY <1>2, <4>1
    <3>4. \A i \in 3..6 : cut[n + i].is = "json"
      <4>1. \A i \in 3..6 : i \in 1..6
        OBVIOUS
      <4>2. QED
        BY <2>1, <4>1, Zenon DEF Authentic
    <3>5. QED
      BY <3>1, <3>2, <3>3, <3>4, Zenon DEF Authentic
  <2>3. /\ Read(cut, key) = ReadOf(cut, key, n)
        /\ \A i \in 1..4 : DictsOf(BodyOf(cut))[Parts[i]] = cut[n + 2 + i].holds
    BY <1>2, <2>2, AuthenticRead
  <2>4. \A i \in 1..4 : DictsOf(BodyOf(frames))[Parts[i]] = frames[n + 2 + i].holds
    BY AuthenticRead
  <2>5. DictsOf(BodyOf(cut)) = DictsOf(BodyOf(frames))
    <3>1. ASSUME NEW i \in 1..4
          PROVE  DictsOf(BodyOf(cut))[Parts[i]] = DictsOf(BodyOf(frames))[Parts[i]]
      <4>1. 2 + i \in 1..6 /\ n + (2 + i) = n + 2 + i
        OBVIOUS
      <4>2. cut[n + 2 + i] = frames[n + 2 + i]
        BY <2>1, <4>1
      <4>3. DictsOf(BodyOf(cut))[Parts[i]] = cut[n + 2 + i].holds
        BY <2>3
      <4>4. DictsOf(BodyOf(frames))[Parts[i]] = frames[n + 2 + i].holds
        BY <2>4
      <4>5. QED
        BY <4>2, <4>3, <4>4, Zenon
    <3>2. IsDicts(DictsOf(BodyOf(cut))) /\ IsDicts(DictsOf(BodyOf(frames)))
      BY DEF IsDicts, DictsOf
    <3>3. QED
      BY <3>1, <3>2, SameDicts
  <2>6. SubSeq(cut, 1, n) = SubSeq(frames, 1, n)
    <3>1. \A i \in 1..n : cut[0 + i] = frames[0 + i]
      <4>1. \A i \in 1..n : i \in 1..l /\ 0 + i = i
        BY <1>6
      <4>2. QED
        BY <1>2, <4>1
    <3>2. 0 + n <= Len(cut) /\ 0 + n <= Len(frames)
      BY <1>1, <1>2, <1>6
    <3>3. SubSeq(cut, 0 + 1, 0 + n) = SubSeq(frames, 0 + 1, 0 + n)
      <4>1. Alike(cut, 0, frames, 0, n, T)
        BY <1>2, <3>1, <3>2 DEF Alike
      <4>2. Piece(cut, 0, n) = Piece(frames, 0, n)
        BY <4>1, SameSlices
      <4>3. QED
        BY <4>2, Zenon DEF Piece
    <3>4. 0 + 1 = 1 /\ 0 + n = n
      OBVIOUS
    <3>5. QED
      BY <3>3, <3>4, Zenon
  <2>7. SubSeq(cut, n + 7, Len(cut)) = SubSeq(frames, n + 7, l)
    <3> DEFINE k == n + 6
               b == l - k
    <3>1. /\ k \in Nat /\ b \in Nat /\ k + b = l /\ k + 1 = n + 7
          /\ k + b <= Len(cut) /\ k + b <= Len(frames)
      BY <1>1, <1>2, <1>6
    <3>2. \A i \in 1..b : cut[k + i] = frames[k + i]
      <4>1. \A i \in 1..b : k + i \in 1..l
        BY <1>6
      <4> HIDE DEF k, b
      <4>2. QED
        BY <1>2, <4>1
    <3> HIDE DEF k, b
    <3>3. SubSeq(cut, k + 1, k + b) = SubSeq(frames, k + 1, k + b)
      <4>1. Alike(cut, k, frames, k, b, T)
        BY <1>2, <3>1, <3>2 DEF Alike
      <4>2. Piece(cut, k, b) = Piece(frames, k, b)
        BY <4>1, SameSlices
      <4>3. QED
        BY <4>2, Zenon DEF Piece
    <3>4. QED
      BY <1>2, <3>1, <3>3, Zenon
  <2>8. Read(cut, key) = Message(key, SubSeq(frames, 1, n), DictsOf(BodyOf(frames)),
                                 SubSeq(frames, n + 7, l))
    BY <2>3, <2>5, <2>6, <2>7, Zenon DEF ReadOf
  <2>9. Read(cut, key) = [ReadOf(frames, key, n) EXCEPT !.buffers = SubSeq(frames, n + 7, l)]
    <3> DEFINE ids == SubSeq(frames, 1, n)
               m == DictsOf(BodyOf(frames))
               a == SubSeq(frames, n + 7, Len(frames))
               b == SubSeq(frames, n + 7, l)
               whole == ReadOf(frames, key, n)
    <3>1. whole = Message(key, ids, m, a) /\ Read(cut, key) = Message(key, ids, m, b)
      BY <2>8, Zenon DEF ReadOf
    <3> HIDE DEF ids, m, a, b, whole
    <3>2. Read(cut, key) = [whole EXCEPT !.buffers = b]
      BY <3>1 DEF Message
    <3>3. QED
      BY <3>2 DEF whole, b
  <2>10. ~(l <= n + 5)
    BY <1>1, <1>6
  <2>11. QED
    BY <2>9, <2>10, Zenon DEF CutIs, cut
<1>7. QED
  <2>1. l <= n \/ (l > n /\ l <= n + 5) \/ l >= n + 6
    BY <1>1
  <2>2. QED
    BY <1>3, <1>5, <1>6, <2>1, Zenon

(* What is said of reading, whatever the frames and the key.               *)
LEMMA EachReadAsSigned ==
  ASSUME NEW frames, frames \in Seq(ToSet(frames)), NEW key
  PROVE  ReadAsSigned(frames, key)
<1> DEFINE T == ToSet(frames)
           jm == Read(frames, key)
           n == Len(jm.ids)
<1>1. frames \in Seq(T) /\ Len(frames) \in Nat
  BY LenProperties
<1> HIDE DEF T
<1>2. ASSUME NEW k \in Nat, Authentic(frames, key, k)
      PROVE  /\ jm = ReadOf(frames, key, k) /\ jm.outcome = "read" /\ n = k
             /\ \A i \in 1..4 : jm.msg[Parts[i]] = frames[k + 2 + i].holds
  <2>1. /\ jm = ReadOf(frames, key, k)
        /\ Len(SubSeq(frames, 1, k)) = k
        /\ \A i \in 1..4 : DictsOf(BodyOf(frames))[Parts[i]] = frames[k + 2 + i].holds
    BY <1>1, <1>2, AuthenticRead
  <2> HIDE DEF jm
  <2>2. /\ jm.outcome = "read" /\ jm.ids = SubSeq(frames, 1, k)
        /\ jm.msg = DictsOf(BodyOf(frames))
    BY <2>1 DEF ReadOf, Message
  <2>3. QED
    BY <2>1, <2>2, Zenon
<1>3. ASSUME jm.outcome = "read"
      PROVE  \E k \in 0..Len(frames) : Authentic(frames, key, k)
  BY <1>1, <1>3, ReadAuthentic
<1>4. ASSUME jm.outcome = "read"
      PROVE  /\ n \in Nat /\ Authentic(frames, key, n) /\ n + 6 <= Len(frames)
             /\ jm = ReadOf(frames, key, n)
             /\ \A i \in 1..4 : jm.msg[Parts[i]] = frames[n + 2 + i].holds
  <2>1. PICK k \in 0..Len(frames) : Authentic(frames, key, k)
    BY <1>3, <1>4
  <2>2. k \in Nat
    OBVIOUS
  <2> HIDE DEF jm
  <2>3. n = k /\ jm = ReadOf(frames, key, k) /\ \A i \in 1..4 : jm.msg[Parts[i]] = frames[k + 2 + i].holds
    BY <1>2, <2>1, <2>2
  <2>4. k + 6 <= Len(frames)
    BY <2>1 DEF Authentic
  <2>5. QED
    BY <2>1, <2>2, <2>3, <2>4, Zenon
<1>5. ASSUME jm.outcome = "read", NEW l \in 0..n + 5
      PROVE  Read(SubSeq(frames, 1, l), key).outcome = "pops_empty_deque"
  <2> HIDE DEF n, jm
  <2>1. n \in Nat /\ Authentic(frames, key, n) /\ l \in 0..Len(frames) /\ l <= n + 5
    BY <1>1, <1>4, <1>5
  <2>2. CutIs(frames, key, n, l)
    BY <1>1, <2>1, CutRead
  <2>3. QED
    BY <2>1, <2>2, Zenon DEF CutIs
<1>6. ASSUME jm.outcome = "read", NEW l \in n + 6..Len(frames)
      PROVE  Read(SubSeq(frames, 1, l), key) = [jm EXCEPT !.buffers = SubSeq(frames, n + 7, l)]
  <2> HIDE DEF n, jm
  <2>1. n \in Nat /\ Authentic(frames, key, n) /\ l \in 0..Len(frames) /\ l >= n + 6
    BY <1>1, <1>4, <1>6
  <2>2. CutIs(frames, key, n, l)
    BY <1>1, <2>1, CutRead
  <2>3. Read(SubSeq(frames, 1, l), key)
          = [ReadOf(frames, key, n) EXCEPT !.buffers = SubSeq(frames, n + 7, l)]
    BY <2>1, <2>2, Zenon DEF CutIs
  <2>4. jm = ReadOf(frames, key, n)
    BY <1>4, <1>6
  <2>5. QED
    BY <2>3, <2>4
<1>7. (jm.outcome = "read") <=> \E k \in 0..Len(frames) : Authentic(frames, key, k)
  <2>1. \A k \in 0..Len(frames) : k \in Nat
    OBVIOUS
  <2> HIDE DEF jm, n
  <2>2. QED
    BY <1>2, <1>3, <2>1
<1> HIDE DEF jm, n
<1>8. QED
  BY <1>4, <1>5, <1>6, <1>7, Zenon DEF ReadAsSigned, jm, n

\* frames as they are on a socket
Wired(f) == [i \in DOMAIN f |-> Wire(f[i], i < Len(f))]

(* What one message put on a socket is what one recv takes off it; the     *)
(* messages after it stay.                                                 *)
LEMMA SentReceived ==
  ASSUME NEW T, NEW f \in Seq(T), f # <<>>, NEW R, NEW q \in Seq(R)
  PROVE  Recv(Wired(f) \o q) = [frames |-> f, left |-> q]
<1> DEFINE n == Len(f)
           w == Wired(f)
           U == R \cup {w[i] : i \in 1..n}
           queue == w \o q
           I == {i \in 1..Len(queue) : ~queue[i].more}
<1>1. /\ n \in Nat /\ n >= 1 /\ DOMAIN f = 1..n
      /\ Len(q) \in Nat
  BY LenProperties, EmptySeq
<1>2. w = [i \in 1..n |-> Wire(f[i], i < n)]
  BY <1>1, Zenon DEF Wired
<1>3. w \in Seq(U) /\ Len(w) = n
  <2>1. \A i \in 1..n : w[i] \in U
    BY Zenon
  <2> HIDE DEF U, n, w
  <2>2. QED
    BY <1>1, <1>2, <2>1
<1>4. q \in Seq(U)
  <2>1. R \subseteq U
    BY Zenon
  <2> HIDE DEF U
  <2>2. QED
    BY <2>1, SeqMonotonic
<1> HIDE DEF U, w, n
<1>5. /\ queue \in Seq(U)
      /\ Len(queue) = n + Len(q)
      /\ \A i \in 1..n + Len(q) : queue[i] = IF i <= n THEN w[i] ELSE q[i - n]
  <2>1. Follows(w, q, U, Len(q))
    BY <1>3, <1>4, Sequel
  <2>2. QED
    BY <1>3, <2>1, Zenon DEF Follows
<1> HIDE DEF queue
<1>6. \A i \in 1..n : queue[i].frame = f[i] /\ (queue[i].more <=> i < n)
  <2>1. \A i \in 1..n : queue[i] = Wire(f[i], i < n)
    BY <1>1, <1>2, <1>5
  <2>2. ASSUME NEW i \in 1..n
        PROVE  queue[i].frame = f[i] /\ (queue[i].more <=> i < n)
    <3>1. queue[i] = Wire(f[i], i < n)
      BY <2>1
    <3>2. Wire(f[i], i < n).frame = f[i]
      BY Zenon DEF Wire
    <3>3. Wire(f[i], i < n).more <=> i < n
      BY Zenon DEF Wire
    <3>4. queue[i].frame = f[i]
      BY <3>1, <3>2, Zenon
    <3>5. queue[i].more <=> i < n
      BY <3>1, <3>3, Zenon
    <3>6. QED
      BY <3>4, <3>5, Zenon
  <2>3. QED
    BY <2>2
<1>7. Min(I) = n /\ I # {}
  <2>1. I \in SUBSET Nat
    BY <1>1, <1>5
  <2>2. n \in I
    <3>1. n \in 1..Len(queue) /\ n \in 1..n /\ ~(n < n)
      BY <1>1, <1>5
    <3>2. QED
      BY <1>6, <3>1
  <2>3. ASSUME NEW i \in I
        PROVE  n <= i
    <3>1. i \in Nat /\ i >= 1 /\ ~queue[i].more
      BY <1>1, <1>5
    <3>2. ~(i < n)
      <4>1. SUFFICES ASSUME i < n
                     PROVE  FALSE
        OBVIOUS
      <4>2. i \in 1..n
        BY <1>1, <3>1, <4>1
      <4>3. QED
        BY <1>6, <3>1, <4>1, <4>2
    <3>3. QED
      BY <1>1, <3>1, <3>2
  <2> HIDE DEF I
  <2>4. QED
    BY <2>1, <2>2, <2>3, LowestIs
<1>8. SelectInSeq(queue, LAMBDA x : ~x.more) = n
  <2>1. SelectInSeq(queue, LAMBDA x : ~x.more) = IF I # {} THEN Min(I) ELSE 0
    BY Zenon DEF SelectInSeq
  <2> HIDE DEF I
  <2>2. QED
    BY <1>7, <2>1
<1>9. [i \in 1..n |-> queue[i].frame] = f
  <2>1. f = [i \in 1..n |-> f[i]]
    BY <1>1, LenProperties
  <2>2. QED
    BY <1>6, <2>1, Zenon
<1>10. SubSeq(queue, n + 1, Len(queue)) = q
  <2>1. /\ SubSeq(queue, n + 1, Len(queue)) \in Seq(U)
        /\ Len(SubSeq(queue, n + 1, Len(queue))) = Len(q)
    <3>1. n \in 0..Len(queue) /\ Len(queue) - n = Len(q)
      BY <1>1, <1>5
    <3>2. QED
      BY <1>5, <3>1, SplitAt
  <2>2. ASSUME NEW i \in 1..Len(q)
        PROVE  SubSeq(queue, n + 1, Len(queue))[i] = q[i]
    <3>1. SubSeq(queue, n + 1, Len(queue))[i] = queue[n + i]
      <4>1. \A k \in n + 1..Len(queue) : queue[k] \in U
        <5>1. \A k \in n + 1..Len(queue) : k \in 1..Len(queue)
          BY <1>1, <1>5
        <5>2. QED
          BY <1>5, <5>1, ElementOfSeq
      <4>2. \A k \in 1..Len(queue) - (n + 1) + 1 :
              SubSeq(queue, n + 1, Len(queue))[k] = queue[n + 1 + k - 1]
        BY <1>1, <1>5, <4>1, SubSeqProperties
      <4>3. i \in 1..Len(queue) - (n + 1) + 1 /\ n + 1 + i - 1 = n + i
        BY <1>1, <1>5
      <4>4. QED
        BY <4>2, <4>3
    <3>2. n + i \in 1..n + Len(q) /\ ~(n + i <= n) /\ n + i - n = i
      BY <1>1
    <3>3. queue[n + i] = q[n + i - n]
      <4>1. \A k \in 1..n + Len(q) : ~(k <= n) => queue[k] = q[k - n]
        BY <1>5, Zenon
      <4>2. QED
        BY <1>1, <3>2, <4>1
    <3>4. QED
      BY <3>1, <3>2, <3>3, Zenon
  <2>3. QED
    BY <1>4, <2>1, <2>2, SeqEqual
<1>11. Recv(queue) = [frames |-> f, left |-> q]
  BY <1>8, <1>9, <1>10, Zenon DEF Recv
<1>12. QED
  BY <1>11 DEF queue, w

(* The only message on a socket.                                           *)
LEMMA OneReceived ==
  ASSUME NEW T, NEW f \in Seq(T), f # <<>>
  PROVE  Recv(Send(<<>>, f)).frames = f
<1>1. Send(<<>>, f) = Wired(f) \o <<>>
  <2>1. Send(<<>>, f) = <<>> \o Wired(f)
    BY Zenon DEF Send, Wired
  <2>2. Wired(f) \in Seq({Wired(f)[i] : i \in 1..Len(f)})
    <3>1. DOMAIN f = 1..Len(f) /\ Len(f) \in Nat
      BY LenProperties
    <3>2. Wired(f) = [i \in 1..Len(f) |-> Wire(f[i], i < Len(f))]
      BY <3>1, Zenon DEF Wired
    <3>3. QED
      BY <3>1, <3>2
  <2>3. QED
    BY <2>1, <2>2, ConcatEmptySeq
<1>2. <<>> \in Seq({})
  BY EmptySeq
<1>3. Recv(Wired(f) \o <<>>) = [frames |-> f, left |-> <<>>]
  BY <1>2, SentReceived
<1>4. QED
  BY <1>1, <1>3

(* Two messages on one socket.                                             *)
LEMMA TwoReceived ==
  ASSUME NEW T, NEW f \in Seq(T), f # <<>>, NEW R, NEW g \in Seq(R), g # <<>>
  PROVE  /\ Recv(Send(Send(<<>>, f), g)).frames = f
         /\ Recv(Recv(Send(Send(<<>>, f), g)).left).frames = g
<1> DEFINE S == {Wired(f)[i] : i \in 1..Len(f)}
           V == {Wired(g)[i] : i \in 1..Len(g)}
<1>1. Wired(f) \in Seq(S)
  <2>1. DOMAIN f = 1..Len(f) /\ Len(f) \in Nat
    BY LenProperties
  <2>2. Wired(f) = [i \in 1..Len(f) |-> Wire(f[i], i < Len(f))]
    BY <2>1, Zenon DEF Wired
  <2>3. QED
    BY <2>1, <2>2
<1>2. Wired(g) \in Seq(V)
  <2>1. DOMAIN g = 1..Len(g) /\ Len(g) \in Nat
    BY LenProperties
  <2>2. Wired(g) = [i \in 1..Len(g) |-> Wire(g[i], i < Len(g))]
    BY <2>1, Zenon DEF Wired
  <2>3. QED
    BY <2>1, <2>2
<1> HIDE DEF S, V
<1>3. Send(Send(<<>>, f), g) = Wired(f) \o Wired(g)
  <2>1. Send(Send(<<>>, f), g) = (<<>> \o Wired(f)) \o Wired(g)
    BY Zenon DEF Send, Wired
  <2>2. <<>> \o Wired(f) = Wired(f)
    BY <1>1, ConcatEmptySeq
  <2>3. QED
    BY <2>1, <2>2
<1>4. Recv(Wired(f) \o Wired(g)) = [frames |-> f, left |-> Wired(g)]
  BY <1>2, SentReceived
<1>5. Recv(Wired(g)).frames = g
  <2>1. Wired(g) \o <<>> = Wired(g) /\ <<>> \in Seq({})
    BY <1>2, ConcatEmptySeq, EmptySeq
  <2>2. Recv(Wired(g) \o <<>>) = [frames |-> g, left |-> <<>>]
    BY <2>1, SentReceived
  <2>3. QED
    BY <2>1, <2>2
<1>6. /\ Recv(Wired(f) \o Wired(g)).frames = f
      /\ Recv(Wired(f) \o Wired(g)).left = Wired(g)
  BY <1>4
<1>7. QED
  BY <1>3, <1>5, <1>6, Zenon

(* A reply is written if the header that it answers names user and         *)
(* session; it goes where that came from, and tells its peers so.          *)
LEMMA ReplyIs ==
  ASSUME NEW jm, NEW type, NEW content, NEW buffers
  PROVE  LET header == jm.msg["header"]
             answer == Answer(header, type, content)
             reply == Reply(jm, type, content, buffers)
         IN /\ (reply.outcome = "written") <=> Named(header)
            /\ reply.outcome = "written" =>
                 /\ reply.frames = ToMultipart(Message(jm.key, jm.ids, answer, buffers))
                 /\ RereadAll(answer) = Told(header, type, content)
<1> DEFINE header == jm.msg["header"]
           answer == Answer(header, type, content)
           reply == Reply(jm, type, content, buffers)
           fails(k) == [outcome |-> Field(header, k).data, frames |-> <<>>]
           sent == [outcome |-> "written",
                    frames |-> ToMultipart(Message(jm.key, jm.ids, answer, buffers))]
<1>1. reply = IF Lacks(header, "username") THEN fails("username")
              ELSE IF Lacks(header, "session") THEN fails("session") ELSE sent
  BY Zenon DEF Reply
<1>2. Named(header) <=> ~Lacks(header, "username") /\ ~Lacks(header, "session")
  BY DEF Named, Lacks
<1>3. ASSUME NEW k, Lacks(header, k)
      PROVE  fails(k).outcome # "written"
  <2>1. Field(header, k).data = IF header.type # "object" THEN "type_error 305" ELSE "undefined"
    BY <1>3 DEF Field, Throws
  <2>2. "type_error 305" # "written" /\ "undefined" # "written"
    OBVIOUS
  <2> HIDE DEF header
  <2>3. QED
    BY <2>1, <2>2
<1>4. sent.outcome = "written"
         /\ sent.frames = ToMultipart(Message(jm.key, jm.ids, answer, buffers))
  OBVIOUS
<1> HIDE DEF header, reply, fails, sent
<1>5. (reply.outcome = "written") <=> Named(header)
  BY <1>1, <1>2, <1>3, <1>4, Zenon
<1>6. ASSUME reply.outcome = "written"
      PROVE  /\ reply.frames = ToMultipart(Message(jm.key, jm.ids, answer, buffers))
             /\ RereadAll(answer) = Told(header, type, content)
  <2>1. ~Lacks(header, "username") /\ ~Lacks(header, "session")
    BY <1>2, <1>5, <1>6
  <2>2. reply = sent
    BY <1>1, <2>1, Zenon
  <2>3. /\ Field(header, "username") = header.data["username"]
        /\ Field(header, "session") = header.data["session"]
    BY <2>1, Zenon DEF Field
  <2>4. ASSUME NEW p \in ToSet(Parts)
        PROVE  Reread(answer[p]) = Told(header, type, content)[p]
    <3>1. p \in {"header", "parent_header", "metadata", "content"}
      BY PartsAre
    <3>2. CASE p = "header"
      BY <2>3, <3>2 DEF Answer, Told
    <3>3. CASE p = "parent_header"
      BY <3>3 DEF Answer, Told
    <3>4. CASE p = "metadata"
      BY <3>4 DEF Answer, Told
    <3>5. CASE p = "content"
      BY <3>5 DEF Answer, Told
    <3>6. QED
      BY <3>1, <3>2, <3>3, <3>4, <3>5
  <2>5. RereadAll(answer) = [p \in ToSet(Parts) |-> Told(header, type, content)[p]]
    BY <2>4, Zenon DEF RereadAll
  <2>6. [p \in ToSet(Parts) |-> Told(header, type, content)[p]] = Told(header, type, content)
    BY DEF Told
  <2>7. QED
    BY <1>4, <2>2, <2>5, <2>6, Zenon
<1>7. QED
  BY <1>5, <1>6, Zenon DEF header, reply

(* What is said of one message, whatever its frames, its key and what is   *)
(* replied to it.                                                          *)
LEMMA EachMessageKept ==
  ASSUME NEW frames, frames \in Seq(ToSet(frames)), NEW key, NEW content,
         NEW buffers, buffers \in Seq(ToSet(buffers))
  PROVE  MessageKept(frames, key, content, buffers)
<1> DEFINE jm == Read(frames, key)
           header == jm.msg["header"]
           reply == Reply(jm, "reply", content, buffers)
           queue == Send(Send(<<>>, reply.frames), frames)
           told == Told(header, "reply", content)
<1>1. ReadAsSigned(frames, key)
  BY EachReadAsSigned
<1>2. (reply.outcome = "written") <=> Named(header)
  <2> HIDE DEF jm
  <2>1. QED
    BY ReplyIs, Zenon
<1>3. ASSUME jm.outcome = "read", reply.outcome = "written"
      PROVE  /\ Read(Recv(queue).frames, key) = Message(key, jm.ids, told, buffers)
             /\ Recv(Recv(queue).left).frames = frames
  <2> DEFINE T == ToSet(frames)
             ids == jm.ids
             answer == Answer(header, "reply", content)
  <2>1. frames \in Seq(T) /\ Len(frames) \in Nat
    BY LenProperties
  <2>2. PICK n \in 0..Len(frames) : Authentic(frames, key, n)
    <3> HIDE DEF T
    <3>1. QED
      BY <1>3, <2>1, ReadAuthentic
  <2>3. n \in Nat /\ n + 6 <= Len(frames)
    BY <2>2 DEF Authentic
  <2>4. jm = ReadOf(frames, key, n)
    <3> HIDE DEF T
    <3>1. QED
      BY <2>1, <2>2, <2>3, AuthenticRead
  <2> HIDE DEF jm
  <2>5. jm.key = key /\ ids = SubSeq(frames, 1, n)
    BY <2>4 DEF ReadOf, Message
  <2>6. ids \in Seq(T) /\ \A i \in 1..Len(ids) : IsId(ids[i])
    <3> HIDE DEF T
    <3>1. SubSeq(frames, 1, n) \in Seq(T) /\ Len(SubSeq(frames, 1, n)) = n
      BY <2>1, SplitAt
    <3>2. \A i \in 1..n : SubSeq(frames, 1, n)[i] = frames[i]
      BY <2>1
    <3>3. \A i \in 1..n : IsId(frames[i])
      BY <2>2, Zenon DEF Authentic, IsId, Separators
    <3> HIDE DEF ids
    <3>4. QED
      BY <2>5, <3>1, <3>2, <3>3
  <2>7. /\ reply.frames = ToMultipart(Message(key, ids, answer, buffers))
        /\ RereadAll(answer) = told
    <3>1. /\ reply.frames = ToMultipart(Message(jm.key, jm.ids, answer, buffers))
          /\ RereadAll(answer) = told
      BY <1>3, ReplyIs, Zenon
    <3> HIDE DEF reply, answer
    <3>2. QED
      BY <2>5, <3>1, Zenon
  <2> DEFINE out == reply.frames
             U == T \cup ToSet(buffers)
  <2>8. ids \in Seq(U) /\ buffers \in Seq(U)
    <3>1. T \subseteq U /\ ToSet(buffers) \subseteq U
      BY Zenon
    <3> HIDE DEF U, T, ids
    <3>2. QED
      BY <2>6, <3>1, SeqMonotonic
  <2> HIDE DEF U, T, ids, answer, told, reply
  <2>9. /\ Read(out, key) = Message(key, ids, told, buffers)
        /\ out # <<>>
        /\ \E V : out \in Seq(V)
    <3> DEFINE w == ToMultipart(Message(key, ids, answer, buffers))
    <3>1. /\ Read(w, key) = Message(key, ids, RereadAll(answer), buffers)
          /\ w # <<>>
          /\ \E V : w \in Seq(V)
      BY <2>6, <2>8, WrittenRead
    <3> HIDE DEF w
    <3>2. out = w
      BY <2>7 DEF w
    <3> HIDE DEF out
    <3>3. QED
      BY <2>7, <3>1, <3>2, Zenon
  <2>10. frames # <<>>
    <3>1. Len(frames) # 0
      BY <2>1, <2>3
    <3>2. QED
      BY <2>1, <3>1, EmptySeq
  <2>11. /\ Recv(queue).frames = out
         /\ Recv(Recv(queue).left).frames = frames
    <3> HIDE DEF out
    <3>1. /\ Recv(Send(Send(<<>>, out), frames)).frames = out
          /\ Recv(Recv(Send(Send(<<>>, out), frames)).left).frames = frames
      BY <2>1, <2>9, <2>10, TwoReceived
    <3>2. QED
      BY <3>1, Zenon DEF out
  <2> HIDE DEF queue, out
  <2>12. QED
    BY <2>9, <2>11, Zenon DEF ids
<1> HIDE DEF jm, reply, queue, told
<1>4. QED
  BY <1>1, <1>2, <1>3, Zenon DEF MessageKept, jm, reply, queue, told

(* The name that the socket puts before a message is taken off again.      *)
TakenOff(a, b, pair, four, rest) ==
  /\ Tail(<<a, b>> \o pair \o four \o rest) = <<b>> \o pair \o four \o rest
  /\ (<<a, b>> \o pair \o four \o rest)[2] = b

LEMMA PeerTakenOff ==
  ASSUME NEW T, NEW a \in T, NEW b \in T, NEW pair \in Seq(T), NEW four \in Seq(T),
         NEW rest \in Seq(T), Len(pair) = 2, Len(four) = 4
  PROVE  TakenOff(a, b, pair, four, rest)
<1> DEFINE s == <<a, b>> \o pair \o four \o rest
           t == <<b>> \o pair \o four \o rest
<1>1. /\ <<a, b>> \in Seq(T) /\ Len(<<a, b>>) = 2
      /\ <<b>> \in Seq(T) /\ Len(<<b>>) = 1
      /\ <<a, b>>[1] = a /\ <<a, b>>[2] = b /\ <<b>>[1] = b
  OBVIOUS
<1>2. Len(rest) \in Nat
  BY LenProperties
<1>3. /\ s \in Seq(T)
      /\ Len(s) = 8 + Len(rest)
      /\ s[2] = b
      /\ s[3] = pair[1]
      /\ s[4] = pair[2]
      /\ \A i \in 1..4 : s[4 + i] = four[i]
      /\ \A i \in 1..Len(rest) : s[8 + i] = rest[i]
  <2> DEFINE ids == <<a, b>>
  <2>1. ids \in Seq(T) /\ Len(ids) = 2 /\ ids[2] = b
    BY <1>1
  <2> HIDE DEF ids
  <2>2. IsMultipart(ids \o pair \o four \o rest, ids, pair, four, rest, T)
    BY <2>1, MultipartAt
  <2> DEFINE u == ids \o pair \o four \o rest
  <2>3. /\ u \in Seq(T)
        /\ Len(u) = Len(ids) + 6 + Len(rest)
        /\ \A i \in 1..Len(ids) : u[i] = ids[i]
        /\ u[Len(ids) + 1] = pair[1]
        /\ u[Len(ids) + 2] = pair[2]
        /\ \A i \in 1..4 : u[Len(ids) + 2 + i] = four[i]
        /\ \A i \in 1..Len(rest) : u[Len(ids) + 6 + i] = rest[i]
    BY <2>2, Zenon DEF IsMultipart
  <2> HIDE DEF u
  <2>4. /\ Len(ids) + 6 + Len(rest) = 8 + Len(rest) /\ 2 \in 1..Len(ids)
        /\ Len(ids) + 1 = 3 /\ Len(ids) + 2 = 4 /\ Len(ids) + 6 = 8
    BY <1>2, <2>1
  <2>5. /\ u \in Seq(T)
        /\ Len(u) = 8 + Len(rest)
        /\ u[2] = b
        /\ u[3] = pair[1]
        /\ u[4] = pair[2]
        /\ \A i \in 1..4 : u[4 + i] = four[i]
        /\ \A i \in 1..Len(rest) : u[8 + i] = rest[i]
    BY <2>1, <2>3, <2>4, Zenon
  <2>6. QED
    BY <2>5, Zenon DEF u, ids
<1>4. /\ t \in Seq(T)
      /\ Len(t) = 7 + Len(rest)
      /\ t[1] = b
      /\ t[2] = pair[1]
      /\ t[3] = pair[2]
      /\ \A i \in 1..4 : t[3 + i] = four[i]
      /\ \A i \in 1..Len(rest) : t[7 + i] = rest[i]
  <2> DEFINE ids == <<b>>
  <2>1. ids \in Seq(T) /\ Len(ids) = 1 /\ ids[1] = b
    BY <1>1
  <2> HIDE DEF ids
  <2>2. IsMultipart(ids \o pair \o four \o rest, ids, pair, four, rest, T)
    BY <2>1, MultipartAt
  <2> DEFINE u == ids \o pair \o four \o rest
  <2>3. /\ u \in Seq(T)
        /\ Len(u) = Len(ids) + 6 + Len(rest)
        /\ \A i \in 1..Len(ids) : u[i] = ids[i]
        /\ u[Len(ids) + 1] = pair[1]
        /\ u[Len(ids) + 2] = pair[2]
        /\ \A i \in 1..4 : u[Len(ids) + 2 + i] = four[i]
        /\ \A i \in 1..Len(rest) : u[Len(ids) + 6 + i] = rest[i]
    BY <2>2, Zenon DEF IsMultipart
  <2> HIDE DEF u
  <2>4. /\ Len(ids) + 6 + Len(rest) = 7 + Len(rest) /\ 1 \in 1..Len(ids)
        /\ Len(ids) + 1 = 2 /\ Len(ids) + 2 = 3 /\ Len(ids) + 6 = 7
    BY <1>2, <2>1
  <2>5. /\ u \in Seq(T)
        /\ Len(u) = 7 + Len(rest)
        /\ u[1] = b
        /\ u[2] = pair[1]
        /\ u[3] = pair[2]
        /\ \A i \in 1..4 : u[3 + i] = four[i]
        /\ \A i \in 1..Len(rest) : u[7 + i] = rest[i]
    BY <2>1, <2>3, <2>4, Zenon
  <2>6. QED
    BY <2>5, Zenon DEF u, ids
<1> HIDE DEF s, t
<1>5. Tail(s) \in Seq(T) /\ Len(Tail(s)) = Len(s) - 1
      /\ \A i \in 1..Len(Tail(s)) : Tail(s)[i] = s[i + 1]
  <2>1. s \in Seq(T) /\ s # <<>>
    <3>1. Len(s) # 0
      BY <1>2, <1>3
    <3>2. QED
      BY <1>3, <3>1, EmptySeq
  <2>2. QED
    BY <2>1, HeadTailProperties
<1>6. Len(Tail(s)) = 7 + Len(rest)
  BY <1>2, <1>3, <1>5
<1>7. ASSUME NEW i \in 1..7 + Len(rest)
      PROVE  s[i + 1] = t[i]
  <2>1. CASE i = 1
    BY <1>3, <1>4, <2>1
  <2>2. CASE i = 2
    BY <1>3, <1>4, <2>2
  <2>3. CASE i = 3
    BY <1>3, <1>4, <2>3
  <2>4. CASE i \in 4..7
    <3>1. i - 3 \in 1..4 /\ 4 + (i - 3) = i + 1 /\ 3 + (i - 3) = i
      BY <2>4
    <3>2. QED
      BY <1>3, <1>4, <3>1
  <2>5. CASE i \in 8..7 + Len(rest)
    <3>1. i - 7 \in 1..Len(rest) /\ 8 + (i - 7) = i + 1 /\ 7 + (i - 7) = i
      BY <1>2, <2>5
    <3>2. QED
      BY <1>3, <1>4, <3>1
  <2>6. QED
    <3>1. i = 1 \/ i = 2 \/ i = 3 \/ i \in 4..7 \/ i \in 8..7 + Len(rest)
      BY <1>2
    <3>2. QED
      BY <2>1, <2>2, <2>3, <2>4, <2>5, <3>1, Zenon
<1>8. Tail(s) = t
  <2>1. \A i \in 1..Len(Tail(s)) : Tail(s)[i] = t[i]
    BY <1>5, <1>6, <1>7, Zenon
  <2>2. Tail(s) \in Seq(T) /\ t \in Seq(T) /\ Len(Tail(s)) = Len(t)
    BY <1>4, <1>5, <1>6, Zenon
  <2>3. QED
    BY <2>1, <2>2, SeqEqual
<1>9. QED
  BY <1>3, <1>8, Zenon DEF s, t, TakenOff

Peer == Bytes("peer")

(* The names of the two peers are ids.                                     *)
LEMMA PeersAreIds == IsId(Peer) /\ IsId(ClientId) /\ ClientId # Empty
<1>1. \A b : Bytes(b).text[1].tok = b
  BY DEF Bytes, Tok
<1>2. /\ Peer.text[1].tok = "peer" /\ ClientId.text[1].tok = "8487E89F"
      /\ Empty.text[1].tok = "" /\ Delimiter.text[1].tok = "<IDS|MSG>"
  BY <1>1, Zenon DEF Peer, ClientId, Empty, Delimiter
<1>3. /\ Peer # Empty /\ Peer # Delimiter /\ ClientId # Empty /\ ClientId # Delimiter
  BY <1>2
<1>4. QED
  BY <1>3 DEF IsId, Separators

(* The requests that the test client builds by hand are what the kernel    *)
(* would write, and so arrive.                                             *)
LEMMA RequestRead ==
  ASSUME NEW request, NEW key
  PROVE  Read(AtRouter(ExecuteRequest(key, request)), key)
           = Message(key, <<Peer, ClientId>>, RereadAll(request), <<>>)
<1> DEFINE sig == Signed(key, [i \in 1..4 |-> Dumped(request[Parts[i]])])
           pair == <<Delimiter, sig>>
           four == [i \in 1..4 |-> Text(request[Parts[i]])]
           U == {Peer, ClientId, Delimiter, sig} \cup {four[i] : i \in 1..4}
           ids == <<Peer, ClientId>>
           head == <<ClientId, Delimiter, sig>>
<1>1. /\ Peer \in U /\ ClientId \in U /\ Delimiter \in U /\ sig \in U
      /\ \A i \in 1..4 : four[i] \in U
  BY Zenon
<1>2. four \in Seq(U)
  <2> HIDE DEF U
  <2>1. QED
    BY <1>1
<1> HIDE DEF U, four, sig
<1>3. /\ ids \in Seq(U) /\ pair \in Seq(U) /\ head \in Seq(U) /\ <<Peer>> \in Seq(U)
      /\ <<>> \in Seq(U)
      /\ ids \o pair = <<Peer>> \o head
  BY <1>1
<1> HIDE DEF ids, pair, head
<1>4. Associates(<<Peer>>, head, four)
  BY <1>2, <1>3, Associated
<1>5. ids \o pair \o four \in Seq(U)
  <2>1. ids \o pair \in Seq(U)
    BY <1>3, Lengths
  <2>2. QED
    BY <1>2, <2>1, Lengths
<1>6. AtRouter(ExecuteRequest(key, request)) = ids \o pair \o four \o <<>>
  <2>1. ExecuteRequest(key, request) = head \o four
    BY Zenon DEF ExecuteRequest, head, four, sig
  <2>2. AtRouter(ExecuteRequest(key, request)) = <<Peer>> \o (head \o four)
    BY <2>1, Zenon DEF AtRouter, Peer
  <2>3. (<<Peer>> \o head) \o four = <<Peer>> \o (head \o four)
    BY <1>4, Zenon DEF Associates
  <2>4. ids \o pair \o four \o <<>> = ids \o pair \o four
    BY <1>5, ConcatEmptySeq
  <2>5. QED
    BY <1>3, <2>2, <2>3, <2>4
<1>7. ToMultipart(Message(key, ids, request, <<>>)) = ids \o pair \o four \o <<>>
  <2> DEFINE jm == Message(key, ids, request, <<>>)
  <2>1. jm.key = key /\ jm.ids = ids /\ jm.msg = request /\ jm.buffers = <<>>
    BY DEF Message
  <2> HIDE DEF jm
  <2>2. ToMultipart(jm) = ids \o pair \o four \o <<>>
    BY <2>1, Zenon DEF ToMultipart, pair, four, sig
  <2>3. QED
    BY <2>2 DEF jm
<1>8. \A i \in 1..Len(ids) : IsId(ids[i])
  <2>1. IsId(Peer) /\ IsId(ClientId)
    BY PeersAreIds
  <2>2. QED
    BY <2>1 DEF ids
<1>9. Read(ToMultipart(Message(key, ids, request, <<>>)), key)
        = Message(key, ids, RereadAll(request), <<>>)
  <2> DEFINE none == <<>>
  <2>1. ids \in Seq(U) /\ none \in Seq(U)
    BY <1>3
  <2> HIDE DEF none
  <2>2. Read(ToMultipart(Message(key, ids, request, none)), key)
          = Message(key, ids, RereadAll(request), none)
    BY <1>8, <2>1, WrittenRead
  <2>3. QED
    BY <2>2 DEF none
<1>10. QED
  BY <1>6, <1>7, <1>9 DEF ids

(* A reply to the test client is read by it, on both its sockets.          *)
LEMMA Reached ==
  ASSUME NEW r, NEW key, NEW buffers, buffers \in Seq(ToSet(buffers)), NEW told,
         NEW reply, reply = ToMultipart(Message(key, <<Peer, ClientId>>, r, buffers)),
         RereadAll(r) = told
  PROVE  /\ ExecuteReply(FromRouter(reply), key) = Text(Object(told))
         /\ IOMessageRecv(PassOn(<<>>, reply, key)) = Text(Object(told))
<1> DEFINE ids == <<Peer, ClientId>>
           sig == Signed(key, [i \in 1..4 |-> Dumped(r[Parts[i]])])
           pair == <<Delimiter, sig>>
           four == [i \in 1..4 |-> Text(r[Parts[i]])]
           U == {Peer, ClientId, Delimiter, sig} \cup {four[i] : i \in 1..4} \cup ToSet(buffers)
<1>1. reply = ToMultipart(Message(key, ids, r, buffers))
  OBVIOUS
<1>2. /\ Peer \in U /\ ClientId \in U /\ pair \in Seq(U) /\ Len(pair) = 2
      /\ four \in Seq(U) /\ Len(four) = 4 /\ buffers \in Seq(U)
  <2>1. /\ Peer \in U /\ ClientId \in U /\ Delimiter \in U /\ sig \in U
        /\ \A i \in 1..4 : four[i] \in U
        /\ ToSet(buffers) \subseteq U
    BY Zenon
  <2> HIDE DEF U, sig
  <2>2. pair \in Seq(U) /\ Len(pair) = 2 /\ four \in Seq(U) /\ Len(four) = 4
    BY <2>1
  <2>3. buffers \in Seq(U)
    BY <2>1, SeqMonotonic
  <2>4. QED
    BY <2>1, <2>2, <2>3
<1> HIDE DEF U
<1>3. ASSUME NEW names
      PROVE  ToMultipart(Message(key, names, r, buffers)) = names \o pair \o four \o buffers
  <2> DEFINE out == Message(key, names, r, buffers)
  <2>1. out.key = key /\ out.ids = names /\ out.msg = r /\ out.buffers = buffers
    BY DEF Message
  <2> HIDE DEF out
  <2>2. ToMultipart(out) = names \o pair \o four \o buffers
    BY <2>1, Zenon DEF ToMultipart
  <2>3. QED
    BY <2>2 DEF out
<1>4. reply = ids \o pair \o four \o buffers
  BY <1>1, <1>3, Zenon
<1>5. FromRouter(reply) = <<ClientId>> \o pair \o four \o buffers /\ reply[2] = ClientId
  <2> HIDE DEF pair, four
  <2>1. TakenOff(Peer, ClientId, pair, four, buffers)
    BY <1>2, PeerTakenOff
  <2>2. QED
    BY <1>4, <2>1, Zenon DEF FromRouter, TakenOff
<1>6. IsId(Peer) /\ IsId(ClientId) /\ ClientId # Empty
  BY PeersAreIds
<1>7. Read(reply, key).msg = told
  <2>1. ids \in Seq(U) /\ \A i \in 1..Len(ids) : IsId(ids[i])
    BY <1>2, <1>6
  <2> HIDE DEF ids
  <2>2. Read(ToMultipart(Message(key, ids, r, buffers)), key) = Message(key, ids, RereadAll(r), buffers)
    BY <1>2, <2>1, WrittenRead
  <2>3. QED
    BY <1>1, <2>2 DEF Message
<1>8. Read(FromRouter(reply), key).msg = told
  <2> DEFINE names == <<ClientId>>
  <2>1. names \in Seq(U) /\ \A i \in 1..Len(names) : IsId(names[i])
    BY <1>2, <1>6
  <2>2. FromRouter(reply) = ToMultipart(Message(key, names, r, buffers))
    BY <1>3, <1>5, Zenon
  <2> HIDE DEF names
  <2>3. Read(ToMultipart(Message(key, names, r, buffers)), key)
          = Message(key, names, RereadAll(r), buffers)
    BY <1>2, <2>1, WrittenRead
  <2>4. QED
    BY <2>2, <2>3 DEF Message
<1> DEFINE text == Text(Object(told))
<1>9. ExecuteReply(FromRouter(reply), key) = text
  BY <1>8, Zenon DEF ExecuteReply
<1>10. IOMessageRecv(PassOn(<<>>, reply, key)) = text
  <2>1. PassOn(<<>>, reply, key) = Send(<<>>, <<text>>)
    BY <1>5, <1>6, <1>7, Zenon DEF PassOn
  <2> HIDE DEF text
  <2>2. Recv(Send(<<>>, <<text>>)).frames = <<text>>
    <3>1. <<text>> \in Seq({text}) /\ <<text>> # <<>>
      OBVIOUS
    <3>2. QED
      BY <3>1, OneReceived
  <2>3. Send(<<>>, <<text>>) # <<>>
    <3> DEFINE w == Wire(<<text>>[1], 1 < Len(<<text>>))
    <3>1. [i \in DOMAIN <<text>> |-> Wire(<<text>>[i], i < Len(<<text>>))] = <<w>>
      OBVIOUS
    <3>2. Send(<<>>, <<text>>) = <<>> \o <<w>>
      BY <3>1, Zenon DEF Send
    <3> HIDE DEF w
    <3>3. <<w>> \in Seq({w}) /\ <<w>> # <<>>
      OBVIOUS
    <3>4. QED
      BY <3>2, <3>3, ConcatEmptySeq
  <2>4. QED
    BY <2>1, <2>2, <2>3 DEF IOMessageRecv
<1>11. QED
  BY <1>9, <1>10

(* What is said of one request of the test client and of what comes back.  *)
LEMMA EachDialogueKept ==
  ASSUME NEW request, NEW key, NEW content, NEW buffers, buffers \in Seq(ToSet(buffers))
  PROVE  DialogueKept(request, key, content, buffers)
<1> DEFINE jm == Read(AtRouter(ExecuteRequest(key, request)), key)
           ids == <<Peer, ClientId>>
           header == jm.msg["header"]
           answer == Reply(jm, "execute_reply", content, buffers)
           reply == answer.frames
           r == Answer(header, "execute_reply", content)
           told == Told(header, "execute_reply", content)
           text == Text(Object(told))
<1>1. jm = Message(key, ids, RereadAll(request), <<>>)
  BY RequestRead
<1>2. /\ jm.outcome = "read" /\ jm.key = key /\ jm.ids = ids
      /\ jm.msg = RereadAll(request) /\ jm.buffers = <<>>
  <2> HIDE DEF jm, ids
  <2>1. QED
    BY <1>1 DEF Message
<1>3. IOMessageRecv(<<>>) = Empty
  BY DEF IOMessageRecv
<1> HIDE DEF jm
<1>4. ASSUME answer.outcome = "written"
      PROVE  /\ ExecuteReply(FromRouter(reply), key) = text
             /\ IOMessageRecv(PassOn(<<>>, reply, key)) = text
  <2> HIDE DEF ids, r, told, text
  <2>1. reply = ToMultipart(Message(key, ids, r, buffers)) /\ RereadAll(r) = told
    <3>1. reply = ToMultipart(Message(jm.key, jm.ids, r, buffers)) /\ RereadAll(r) = told
      BY <1>4, ReplyIs, Zenon DEF r, told
    <3> HIDE DEF reply
    <3>2. QED
      BY <1>2, <3>1, Zenon
  <2> HIDE DEF reply
  <2>2. QED
    BY <2>1, Reached DEF ids, text
<1> HIDE DEF answer, text
<1>5. QED
  BY <1>2, <1>3, <1>4, Zenon DEF DialogueKept, jm, answer, text, RereadAll

-----------------------------------------------------------------------------
(* Styles.                                                                 *)

\* what a style says of an attribute, or what holds without it
At(style, a, default) == IF a \in DOMAIN style THEN style[a] ELSE default

(* Of two styles the first that says something of an attribute counts.     *)
LEMMA AtAnd ==
  ASSUME NEW s, NEW t, NEW a, NEW d
  PROVE  At(And(s, t), a, d) = At(s, a, At(t, a, d))
BY Zenon DEF At, And

(* A style of one attribute says its value, and nothing of the others.     *)
LEMMA AtSays ==
  ASSUME NEW b, NEW v, NEW a, NEW d
  PROVE  At(Says(b, v), a, d) = IF a = b THEN v ELSE d
BY Zenon DEF At, Says

(* The empty style leaves everything as it is.                             *)
LEMMA AtSilent ==
  ASSUME NEW a, NEW d
  PROVE  At(Silent, a, d) = d
<1>1. DOMAIN Silent = {}
  BY DEF Silent
<1>2. QED
  BY <1>1, Zenon DEF At

(* A page declares what a style may leave out.                             *)
LEMMA AtDeclared ==
  ASSUME NEW s, NEW t, NEW a \in DOMAIN t
  PROVE  And(s, t)[a] = At(s, a, t[a])
BY Zenon DEF At, And

(* What a style itself says does not depend on a default.                  *)
LEMMA AtSaid ==
  ASSUME NEW s, NEW t, NEW a \in DOMAIN s, NEW d
  PROVE  And(s, t)[a] = At(s, a, d)
BY Zenon DEF At, And

(* A color's style is what is seen of the color.                           *)
LEMMA AtStyleCol ==
  ASSUME NEW b, NEW col, IsColor(col), NEW a, NEW d
  PROVE  At(StyleCol(b, col), a, d) = IF a = b THEN Seen(col) ELSE d
<1>1. (IF col.alpha = 0 THEN NoPaint ELSE Paint(col.rgb, col.alpha)) = Seen(col)
  BY Zenon DEF IsColor, Seen, Paint
<1>2. StyleCol(b, col) = Says(b, IF col.alpha = 0 THEN NoPaint ELSE Paint(col.rgb, col.alpha))
  BY Zenon DEF StyleCol
<1>3. StyleCol(b, col) = Says(b, Seen(col))
  BY <1>1, <1>2, Zenon
<1>4. QED
  BY <1>3, AtSays

(* A shape's stroke is left out if and only if it is an opaque black.      *)
LEMMA AtStroke ==
  ASSUME NEW gc, IsColor(gc.col), NEW a, NEW d
  PROVE  At(StyleStroke(gc), a, d) = IF a = "stroke" /\ ~IsBlack(gc.col) THEN Seen(gc.col) ELSE d
<1>1. CASE IsBlack(gc.col)
  BY <1>1, AtSilent, Zenon DEF StyleStroke
<1>2. CASE ~IsBlack(gc.col)
  <2>1. StyleStroke(gc) = StyleCol("stroke", gc.col)
    BY <1>2, Zenon DEF StyleStroke
  <2>2. QED
    BY <1>2, <2>1, AtStyleCol
<1>3. QED
  BY <1>1, <1>2

(* A line type has its dashes, at most as many as R packs into it, and     *)
(* none only if R asks for none.                                           *)
LEMMA DashesOfLine ==
  ASSUME NEW lty \in Seq(Nat), lty # <<>>, NEW lwd
  PROVE  Dashes(lty, lwd) # <<>> /\ Len(Dashes(lty, lwd)) <= Len(lty)
<1> DEFINE zeros == {i \in 2..Len(lty) : lty[i] = 0}
           least == CHOOSE i \in zeros : \A k \in zeros : i <= k
           used == IF zeros = {} THEN lty ELSE SubSeq(lty, 1, least - 1)
<1>1. Len(lty) \in Nat /\ Len(lty) >= 1 /\ \A i \in 1..Len(lty) : lty[i] \in Nat
  BY LenProperties, ElementOfSeq, EmptySeq
<1>2. used \in Seq(Nat) /\ Len(used) \in 1..Len(lty)
  <2>1. CASE zeros = {}
    <3>1. used = lty
      BY <2>1
    <3> HIDE DEF used
    <3>2. QED
      BY <1>1, <3>1
  <2>2. CASE zeros # {}
    <3>1. zeros \in SUBSET Nat
      BY <1>1
    <3>2. Min(zeros) \in zeros
      <4> HIDE DEF zeros
      <4>1. QED
        BY <2>2, <3>1, Lowest
    <3>3. least = Min(zeros)
      BY Zenon DEF Min
    <3>4. least \in 2..Len(lty)
      BY <3>2, <3>3, Zenon
    <3>5. used = SubSeq(lty, 1, least - 1)
      BY <2>2, Zenon
    <3> HIDE DEF least, used
    <3>6. least - 1 \in 0..Len(lty) /\ least - 1 \in 1..Len(lty)
      BY <1>1, <3>4
    <3>7. SubSeq(lty, 1, least - 1) \in Seq(Nat) /\ Len(SubSeq(lty, 1, least - 1)) = least - 1
      BY <3>6, SplitAt
    <3>8. QED
      BY <3>5, <3>6, <3>7
  <2>3. QED
    BY <2>1, <2>2
<1>3. Dashes(lty, lwd) = [i \in DOMAIN used |-> ScaleLty(used[i], lwd)]
  BY Zenon DEF Dashes
<1> HIDE DEF used
<1>4. DOMAIN used = 1..Len(used) /\ Len(used) \in Nat /\ Len(used) >= 1
  BY <1>1, <1>2, LenProperties
<1>5. Dashes(lty, lwd) = [i \in 1..Len(used) |-> ScaleLty(used[i], lwd)]
  BY <1>3, <1>4, Zenon
<1>6. Len(Dashes(lty, lwd)) = Len(used)
  BY <1>4, <1>5
<1>7. QED
  <2>1. Len(Dashes(lty, lwd)) # 0 /\ Len(Dashes(lty, lwd)) <= Len(lty)
    BY <1>1, <1>2, <1>4, <1>6
  <2>2. QED
    BY <2>1, EmptySeq

(* What a line's style says of each attribute.                             *)
LEMMA AtLinetype ==
  ASSUME NEW gc, IsColor(gc.col), gc.ljoin \in {"round", "bevel", "miter"}, NEW d
  PROVE  LET said(a) == At(StyleLinetype(gc), a, d)
         IN /\ said("stroke-width") = 3 * gc.lwd
            /\ said("stroke") = IF IsBlack(gc.col) THEN d ELSE Seen(gc.col)
            /\ said("stroke-dasharray")
                 = IF gc.lty = <<>> THEN d ELSE Dashes(gc.lty, gc.lwd)
            /\ said("stroke-linecap") = IF gc.lend = "round" THEN d ELSE gc.lend
            /\ said("stroke-linejoin") = IF gc.ljoin = "round" THEN d ELSE gc.ljoin
            /\ said("stroke-miterlimit")
                 = IF gc.ljoin = "miter" /\ gc.lmitre # 1000 THEN gc.lmitre ELSE d
            /\ said("fill") = d
<1>1. ASSUME NEW a
      PROVE  At(StyleLinetype(gc), a, d)
               = At(Says("stroke-width", 3 * gc.lwd), a,
                    At(StyleStroke(gc), a,
                       At(StyleDash(gc), a, At(StyleCap(gc), a, At(StyleJoin(gc), a, d)))))
  <2> DEFINE width == Says("stroke-width", 3 * gc.lwd)
             stroke == StyleStroke(gc)
             dash == StyleDash(gc)
             cap == StyleCap(gc)
             join == StyleJoin(gc)
  <2>1. StyleLinetype(gc) = And(width, And(stroke, And(dash, And(cap, join))))
    BY Zenon DEF StyleLinetype
  <2> HIDE DEF width, stroke, dash, cap, join
  <2>2. At(And(width, And(stroke, And(dash, And(cap, join)))), a, d)
        = At(width, a, At(And(stroke, And(dash, And(cap, join))), a, d))
    BY AtAnd
  <2>3. At(And(stroke, And(dash, And(cap, join))), a, d)
        = At(stroke, a, At(And(dash, And(cap, join)), a, d))
    BY AtAnd
  <2>4. At(And(dash, And(cap, join)), a, d) = At(dash, a, At(And(cap, join), a, d))
    BY AtAnd
  <2>5. At(And(cap, join), a, d) = At(cap, a, At(join, a, d))
    BY AtAnd
  <2>6. At(StyleLinetype(gc), a, d)
        = At(width, a, At(stroke, a, At(dash, a, At(cap, a, At(join, a, d)))))
    BY <2>1, <2>2, <2>3, <2>4, <2>5
  <2>7. QED
    BY <2>6 DEF width, stroke, dash, cap, join
<1>2. ASSUME NEW a, NEW e
      PROVE  At(StyleDash(gc), a, e)
               = IF a = "stroke-dasharray" /\ gc.lty # <<>> THEN Dashes(gc.lty, gc.lwd) ELSE e
  <2>1. CASE gc.lty = <<>>
    BY <2>1, AtSilent, Zenon DEF StyleDash
  <2>2. CASE gc.lty # <<>>
    <3>1. StyleDash(gc) = Says("stroke-dasharray", Dashes(gc.lty, gc.lwd))
      BY <2>2, Zenon DEF StyleDash
    <3>2. QED
      BY <2>2, <3>1, AtSays
  <2>3. QED
    BY <2>1, <2>2
<1>3. ASSUME NEW a, NEW e
      PROVE  At(StyleCap(gc), a, e)
               = IF a = "stroke-linecap" /\ gc.lend # "round" THEN gc.lend ELSE e
  <2>1. CASE gc.lend = "round"
    BY <2>1, AtSilent, Zenon DEF StyleCap
  <2>2. CASE gc.lend # "round"
    <3>1. StyleCap(gc) = Says("stroke-linecap", gc.lend)
      BY <2>2, Zenon DEF StyleCap
    <3>2. QED
      BY <2>2, <3>1, AtSays
  <2>3. QED
    BY <2>1, <2>2
<1>4. ASSUME NEW a, NEW e
      PROVE  At(StyleJoin(gc), a, e)
               = IF a = "stroke-linejoin" /\ gc.ljoin # "round" THEN gc.ljoin
                 ELSE IF a = "stroke-miterlimit" /\ gc.ljoin = "miter" /\ gc.lmitre # 1000
                      THEN gc.lmitre ELSE e
  <2>1. CASE gc.ljoin = "round"
    <3>1. StyleJoin(gc) = Silent
      BY <2>1 DEF StyleJoin
    <3>2. QED
      BY <2>1, <3>1, AtSilent
  <2>2. CASE gc.ljoin = "bevel"
    <3>1. StyleJoin(gc) = Says("stroke-linejoin", "bevel")
      BY <2>2 DEF StyleJoin
    <3>2. QED
      BY <2>2, <3>1, AtSays
  <2>3. CASE gc.ljoin = "miter"
    <3>1. StyleJoin(gc)
          = And(Says("stroke-linejoin", "miter"),
                IF gc.lmitre = 1000 THEN Silent ELSE Says("stroke-miterlimit", gc.lmitre))
      BY <2>3 DEF StyleJoin
    <3>2. At(StyleJoin(gc), a, e)
          = IF a = "stroke-linejoin" THEN "miter"
            ELSE At(IF gc.lmitre = 1000 THEN Silent ELSE Says("stroke-miterlimit", gc.lmitre), a, e)
      <4> DEFINE rest == IF gc.lmitre = 1000 THEN Silent
                         ELSE Says("stroke-miterlimit", gc.lmitre)
      <4>1. StyleJoin(gc) = And(Says("stroke-linejoin", "miter"), rest)
        BY <3>1
      <4> HIDE DEF rest
      <4>2. At(StyleJoin(gc), a, e)
            = At(Says("stroke-linejoin", "miter"), a, At(rest, a, e))
        BY <4>1, AtAnd
      <4>3. At(Says("stroke-linejoin", "miter"), a, At(rest, a, e))
            = IF a = "stroke-linejoin" THEN "miter" ELSE At(rest, a, e)
        BY AtSays
      <4>4. At(StyleJoin(gc), a, e) = IF a = "stroke-linejoin" THEN "miter" ELSE At(rest, a, e)
        BY <4>2, <4>3
      <4>5. QED
        BY <4>4 DEF rest
    <3>3. CASE gc.lmitre = 1000
      BY <2>3, <3>2, <3>3, AtSilent
    <3>4. CASE gc.lmitre # 1000
      <4>1. At(Says("stroke-miterlimit", gc.lmitre), a, e)
            = IF a = "stroke-miterlimit" THEN gc.lmitre ELSE e
        BY AtSays
      <4>2. QED
        BY <2>3, <3>2, <3>4, <4>1
    <3>5. QED
      BY <3>3, <3>4
  <2>4. QED
    BY <2>1, <2>2, <2>3
<1>5. ASSUME NEW a, NEW e
      PROVE  At(Says("stroke-width", 3 * gc.lwd), a, e)
               = IF a = "stroke-width" THEN 3 * gc.lwd ELSE e
  BY AtSays
<1>6. ASSUME NEW a, NEW e
      PROVE  At(StyleStroke(gc), a, e)
               = IF a = "stroke" /\ ~IsBlack(gc.col) THEN Seen(gc.col) ELSE e
  BY AtStroke
<1>7. At(StyleLinetype(gc), "stroke-width", d) = 3 * gc.lwd
  BY <1>1, <1>5, Zenon
<1>8. At(StyleLinetype(gc), "stroke", d) = IF IsBlack(gc.col) THEN d ELSE Seen(gc.col)
  BY <1>1, <1>2, <1>3, <1>4, <1>5, <1>6
<1>9. At(StyleLinetype(gc), "stroke-dasharray", d)
      = IF gc.lty = <<>> THEN d ELSE Dashes(gc.lty, gc.lwd)
  BY <1>1, <1>2, <1>3, <1>4, <1>5, <1>6
<1>10. At(StyleLinetype(gc), "stroke-linecap", d) = IF gc.lend = "round" THEN d ELSE gc.lend
  BY <1>1, <1>2, <1>3, <1>4, <1>5, <1>6
<1>11. At(StyleLinetype(gc), "stroke-linejoin", d) = IF gc.ljoin = "round" THEN d ELSE gc.ljoin
  BY <1>1, <1>2, <1>3, <1>4, <1>5, <1>6
<1>12. At(StyleLinetype(gc), "stroke-miterlimit", d)
       = IF gc.ljoin = "miter" /\ gc.lmitre # 1000 THEN gc.lmitre ELSE d
  BY <1>1, <1>2, <1>3, <1>4, <1>5, <1>6
<1>13. At(StyleLinetype(gc), "fill", d) = d
  BY <1>1, <1>2, <1>3, <1>4, <1>5, <1>6
<1>14. QED
  BY <1>7, <1>8, <1>9, <1>10, <1>11, <1>12, <1>13, Zenon

(* A shape says what its line type says, and of its fill what R asks for   *)
(* where the page declares that there is none.                             *)
LEMMA AtShape ==
  ASSUME NEW e \in {"line", "polyline", "polygon", "path", "rect", "circle"},
         NEW gc, IsColor(gc.col), IsColor(gc.fill),
         gc.ljoin \in {"round", "bevel", "miter"}
  PROVE  /\ \A a, d : a # "fill" => At(StyleOf(e, gc), a, d) = At(StyleLinetype(gc), a, d)
         /\ At(StyleOf(e, gc), "fill", NoPaint)
              = IF e \in {"line", "polyline"} THEN NoPaint ELSE Seen(gc.fill)
<1>1. ASSUME NEW d
      PROVE  At(StyleLinetype(gc), "fill", d) = d
  BY AtLinetype
<1>2. CASE e \in {"line", "polyline"}
  <2>1. StyleOf(e, gc) = StyleLinetype(gc)
    BY <1>2, Zenon DEF StyleOf
  <2>2. QED
    BY <1>1, <1>2, <2>1
<1>3. CASE e = "polygon"
  <2>1. StyleOf(e, gc) = And(StyleLinetype(gc), StyleCol("fill", gc.fill))
    BY <1>3 DEF StyleOf
  <2>2. ASSUME NEW a, NEW d
        PROVE  At(StyleOf(e, gc), a, d)
                 = At(StyleLinetype(gc), a, At(StyleCol("fill", gc.fill), a, d))
    BY <2>1, AtAnd
  <2>3. ASSUME NEW a, NEW d
        PROVE  At(StyleCol("fill", gc.fill), a, d) = IF a = "fill" THEN Seen(gc.fill) ELSE d
    BY AtStyleCol
  <2>4. QED
    BY <1>1, <1>3, <2>2, <2>3
<1>4. CASE e \in {"path", "rect", "circle"}
  <2>1. StyleOf(e, gc) = And(StyleLinetype(gc), StyleFill(gc))
    BY <1>4 DEF StyleOf
  <2>2. ASSUME NEW a, NEW d
        PROVE  At(StyleOf(e, gc), a, d) = At(StyleLinetype(gc), a, At(StyleFill(gc), a, d))
    BY <2>1, AtAnd
  <2>3. ASSUME NEW a, NEW d
        PROVE  At(StyleFill(gc), a, d)
                 = IF a = "fill" /\ IsFilled(gc.fill) THEN Seen(gc.fill) ELSE d
    <3>1. CASE IsFilled(gc.fill)
      <4>1. StyleFill(gc) = StyleCol("fill", gc.fill)
        BY <3>1, Zenon DEF StyleFill
      <4>2. QED
        BY <3>1, <4>1, AtStyleCol
    <3>2. CASE ~IsFilled(gc.fill)
      <4>1. StyleFill(gc) = Silent
        BY <3>2, Zenon DEF StyleFill
      <4>2. QED
        BY <3>2, <4>1, AtSilent
    <3>3. QED
      BY <3>1, <3>2
  <2>4. ~IsFilled(gc.fill) => Seen(gc.fill) = NoPaint
    BY DEF IsFilled, Seen
  <2>5. QED
    BY <1>1, <1>4, <2>2, <2>3, <2>4
<1>5. QED
  BY <1>2, <1>3, <1>4

(* What a browser makes of a shape is what R asked for.                    *)
LEMMA EachStyleAsked ==
  ASSUME NEW e \in {"line", "polyline", "polygon", "path", "rect", "circle"},
         NEW gc, IsColor(gc.col), IsColor(gc.fill),
         gc.lty \in Seq(Nat), Len(gc.lty) <= 8,
         gc.ljoin \in {"round", "bevel", "miter"}
  PROVE  StyleAsAsked(e, gc)
<1> DEFINE shape == StyleOf(e, gc)
           page == Declared(e)
           style == And(shape, page)
           line == StyleLinetype(gc)
<1>1. page = [a \in {"fill", "stroke", "stroke-linecap", "stroke-linejoin",
                     "stroke-miterlimit", "stroke-dasharray"} |->
                CASE a = "fill" -> NoPaint
                  [] a = "stroke" -> Paint(Black, 255)
                  [] a = "stroke-linecap" -> "round"
                  [] a = "stroke-linejoin" -> "round"
                  [] a = "stroke-miterlimit" -> 1000
                  [] a = "stroke-dasharray" -> <<>>]
  BY DEF Declared
<1>2. /\ DOMAIN page = {"fill", "stroke", "stroke-linecap", "stroke-linejoin",
                        "stroke-miterlimit", "stroke-dasharray"}
      /\ page["fill"] = NoPaint
      /\ page["stroke"] = Paint(Black, 255)
      /\ page["stroke-linecap"] = "round"
      /\ page["stroke-linejoin"] = "round"
      /\ page["stroke-miterlimit"] = 1000
      /\ page["stroke-dasharray"] = <<>>
  <2> HIDE DEF page
  <2>1. QED
    BY <1>1
<1> HIDE DEF page
<1>3. /\ \A a, d : a # "fill" => At(shape, a, d) = At(line, a, d)
      /\ At(shape, "fill", NoPaint)
           = IF e \in {"line", "polyline"} THEN NoPaint ELSE Seen(gc.fill)
  BY AtShape
<1>4. \A a \in DOMAIN page : style[a] = At(shape, a, page[a])
  BY AtDeclared
<1>5. ASSUME NEW d
      PROVE  /\ At(line, "stroke-width", d) = 3 * gc.lwd
             /\ At(line, "stroke", d) = IF IsBlack(gc.col) THEN d ELSE Seen(gc.col)
             /\ At(line, "stroke-dasharray", d)
                  = IF gc.lty = <<>> THEN d ELSE Dashes(gc.lty, gc.lwd)
             /\ At(line, "stroke-linecap", d) = IF gc.lend = "round" THEN d ELSE gc.lend
             /\ At(line, "stroke-linejoin", d) = IF gc.ljoin = "round" THEN d ELSE gc.ljoin
             /\ At(line, "stroke-miterlimit", d)
                  = IF gc.ljoin = "miter" /\ gc.lmitre # 1000 THEN gc.lmitre ELSE d
  BY AtLinetype
<1> HIDE DEF style, shape, line
<1>6. style["stroke"] = Seen(gc.col)
  <2>1. style["stroke"] = IF IsBlack(gc.col) THEN Paint(Black, 255) ELSE Seen(gc.col)
    BY <1>2, <1>3, <1>4, <1>5
  <2>2. IsBlack(gc.col) => Seen(gc.col) = Paint(Black, 255)
    BY DEF IsBlack, IsColor, Seen, Paint
  <2>3. QED
    BY <2>1, <2>2, Zenon
<1>7. style["stroke-width"] = 3 * gc.lwd
  <2>1. "stroke-width" \in DOMAIN shape
    <3>1. At(shape, "stroke-width", "one") = At(shape, "stroke-width", "other")
      BY <1>3, <1>5
    <3>2. QED
      BY <3>1, Zenon DEF At
  <2>2. QED
    <3>1. style["stroke-width"] = At(shape, "stroke-width", 0)
      BY <2>1, AtSaid DEF style
    <3>2. QED
      BY <1>3, <1>5, <3>1
<1>8. style["stroke-linecap"] = gc.lend
  BY <1>2, <1>3, <1>4, <1>5
<1>9. style["stroke-linejoin"] = gc.ljoin
  BY <1>2, <1>3, <1>4, <1>5
<1>10. gc.ljoin = "miter" => style["stroke-miterlimit"] = gc.lmitre
  BY <1>2, <1>3, <1>4, <1>5
<1>11. style["stroke-dasharray"] = IF gc.lty = <<>> THEN <<>> ELSE Dashes(gc.lty, gc.lwd)
  BY <1>2, <1>3, <1>4, <1>5
<1>12. /\ Len(style["stroke-dasharray"]) <= 8
       /\ gc.lty = <<>> <=> style["stroke-dasharray"] = <<>>
  <2>1. CASE gc.lty = <<>>
    BY <1>11, <2>1, EmptySeq
  <2>2. CASE gc.lty # <<>>
    <3>1. Dashes(gc.lty, gc.lwd) # <<>> /\ Len(Dashes(gc.lty, gc.lwd)) <= Len(gc.lty)
      BY <2>2, DashesOfLine
    <3>2. QED
      BY <1>11, <2>2, <3>1
  <2>3. QED
    BY <2>1, <2>2
<1>13. style["fill"] = IF e \in {"line", "polyline"} THEN NoPaint ELSE Seen(gc.fill)
  BY <1>2, <1>3, <1>4
<1>14. QED
  BY <1>6, <1>7, <1>8, <1>9, <1>10, <1>12, <1>13, Zenon DEF StyleAsAsked, style, shape, page

(* The attributes that a style says something of.                          *)
LEMMA SaidAttributes ==
  /\ \A s, t : DOMAIN And(s, t) = DOMAIN s \cup DOMAIN t
  /\ \A a, v : DOMAIN Says(a, v) = {a}
  /\ DOMAIN Silent = {}
BY DEF And, Says, Silent

(* A text has its color as its fill, and weight and style of its face.     *)
LEMMA EachTextAsked ==
  ASSUME NEW gc, IsColor(gc.col), NEW system, NEW user
  PROVE  TextAsAsked(gc, system, user)
<1> DEFINE weight == IF IsBold(gc.fontface) THEN Says("font-weight", "bold") ELSE Silent
           slant == IF IsItalic(gc.fontface) THEN Says("font-style", "italic") ELSE Silent
           color == IF IsBlack(gc.col) THEN Silent ELSE StyleCol("fill", gc.col)
           family == Says("font-family", FontName(gc, system, user))
           text == And(weight, And(slant, And(color, family)))
           page == Declared("text")
           style == And(text, page)
<1>1. page = [a \in {"fill"} |-> Paint(Black, 255)]
  BY DEF Declared
<1>2. DOMAIN page = {"fill"} /\ page["fill"] = Paint(Black, 255)
  <2> HIDE DEF page
  <2>1. QED
    BY <1>1
<1>3. text = StyleText(gc, system, user)
  BY Zenon DEF StyleText
<1>4. ASSUME NEW d
      PROVE  /\ At(weight, "fill", d) = d
             /\ At(slant, "fill", d) = d
             /\ At(color, "fill", d) = IF IsBlack(gc.col) THEN d ELSE Seen(gc.col)
             /\ At(family, "fill", d) = d
  <2>1. At(weight, "fill", d) = d
    <3>1. At(Says("font-weight", "bold"), "fill", d) = d
      BY AtSays
    <3>2. At(Silent, "fill", d) = d
      BY AtSilent
    <3>3. QED
      BY <3>1, <3>2, Zenon
  <2>2. At(slant, "fill", d) = d
    <3>1. At(Says("font-style", "italic"), "fill", d) = d
      BY AtSays
    <3>2. At(Silent, "fill", d) = d
      BY AtSilent
    <3>3. QED
      BY <3>1, <3>2, Zenon
  <2>3. At(color, "fill", d) = IF IsBlack(gc.col) THEN d ELSE Seen(gc.col)
    <3>1. At(StyleCol("fill", gc.col), "fill", d) = Seen(gc.col)
      BY AtStyleCol
    <3>2. At(Silent, "fill", d) = d
      BY AtSilent
    <3>3. QED
      BY <3>1, <3>2, Zenon
  <2> DEFINE name == FontName(gc, system, user)
  <2>4. family = Says("font-family", name)
    OBVIOUS
  <2> HIDE DEF name, weight, slant, color, family
  <2>5. At(family, "fill", d) = d
    BY <2>4, AtSays
  <2>6. QED
    BY <2>1, <2>2, <2>3, <2>5
<1>5. DOMAIN color \subseteq {"fill"}
  <2>1. StyleCol("fill", gc.col)
        = Says("fill", IF gc.col.alpha = 0 THEN NoPaint ELSE Paint(gc.col.rgb, gc.col.alpha))
    BY Zenon DEF StyleCol
  <2>2. DOMAIN StyleCol("fill", gc.col) = {"fill"}
    BY <2>1, SaidAttributes
  <2>3. color = Silent \/ color = StyleCol("fill", gc.col)
    BY Zenon
  <2>4. DOMAIN Silent = {}
    BY SaidAttributes
  <2> HIDE DEF color
  <2>5. QED
    BY <2>2, <2>3, <2>4
<1>6. DOMAIN family = {"font-family"}
  BY SaidAttributes
<1>7. /\ DOMAIN weight = IF gc.fontface \in {2, 4} THEN {"font-weight"} ELSE {}
      /\ DOMAIN slant = IF gc.fontface \in {3, 4} THEN {"font-style"} ELSE {}
  BY SaidAttributes DEF IsBold, IsItalic
<1> HIDE DEF weight, slant, color, family, page
<1>8. DOMAIN style
      = (DOMAIN weight \cup (DOMAIN slant \cup (DOMAIN color \cup DOMAIN family)))
        \cup DOMAIN page
  <2>1. ASSUME NEW s, NEW t PROVE DOMAIN And(s, t) = DOMAIN s \cup DOMAIN t
    BY SaidAttributes, Zenon
  <2>2. DOMAIN And(color, family) = DOMAIN color \cup DOMAIN family
    BY <2>1
  <2>3. DOMAIN And(slant, And(color, family)) = DOMAIN slant \cup DOMAIN And(color, family)
    BY <2>1
  <2>4. DOMAIN text = DOMAIN weight \cup DOMAIN And(slant, And(color, family))
    BY <2>1
  <2>5. DOMAIN style = DOMAIN text \cup DOMAIN page
    <3> HIDE DEF text
    <3>1. QED
      BY <2>1
  <2> HIDE DEF style, text
  <2>6. QED
    BY <2>2, <2>3, <2>4, <2>5, Zenon
<1>9. /\ "font-weight" \in DOMAIN style <=> gc.fontface \in {2, 4}
      /\ "font-style" \in DOMAIN style <=> gc.fontface \in {3, 4}
  <2> HIDE DEF style
  <2>1. QED
    BY <1>2, <1>5, <1>6, <1>7, <1>8
<1>10. style["fill"] = Seen(gc.col)
  <2>1. style["fill"] = At(text, "fill", Paint(Black, 255))
    <3> HIDE DEF text
    <3>1. QED
      BY <1>2, AtDeclared
  <2>2. ASSUME NEW d
        PROVE  At(text, "fill", d) = IF IsBlack(gc.col) THEN d ELSE Seen(gc.col)
    <3>1. At(text, "fill", d) = At(weight, "fill", At(And(slant, And(color, family)), "fill", d))
      BY AtAnd
    <3>2. At(And(slant, And(color, family)), "fill", d)
          = At(slant, "fill", At(And(color, family), "fill", d))
      BY AtAnd
    <3>3. At(And(color, family), "fill", d) = At(color, "fill", At(family, "fill", d))
      BY AtAnd
    <3> HIDE DEF text
    <3>4. QED
      BY <1>4, <3>1, <3>2, <3>3
  <2>3. IsBlack(gc.col) => Seen(gc.col) = Paint(Black, 255)
    BY DEF IsBlack, IsColor, Seen, Paint
  <2> HIDE DEF style, text
  <2>4. QED
    BY <2>1, <2>2, <2>3
<1> HIDE DEF text
<1>11. style = And(StyleText(gc, system, user), Declared("text"))
  BY <1>3, Zenon DEF page
<1> HIDE DEF style
<1>12. QED
  BY <1>9, <1>10, <1>11, Zenon DEF TextAsAsked

-----------------------------------------------------------------------------
(* The specification.                                                      *)

Octets == {"byte"} \X Nat

(* What is given is one of the inputs, and the hasher holds what it was    *)
(* given, whole blocks hashed and the rest in its buffer.                  *)
GivenType ==
  /\ given.kind = "message" =>
       \E f \in Requests, k \in SigningKeys, a \in Replies : given.of = <<f, k, a>>
  /\ given.kind = "dialogue" =>
       \E m \in Dialogues, k \in SigningKeys, a \in Replies : given.of = <<m, k, a>>
  /\ given.kind = "shape" =>
       \E e \in Shapes, gc \in Contexts : given.of = <<e, gc>>

FlatInv ==
  /\ GivenType
  /\ fed \in Seq(Octets)
  /\ Hashed(hasher, fed, Octets)

(* A new piece is made of bytes.                                           *)
LEMMA PieceOfOctets ==
  ASSUME NEW n \in Nat, NEW m \in Nat
  PROVE  [k \in 1..n |-> <<"byte", m + k>>] \in Seq(Octets)
<1>1. \A k \in 1..n : <<"byte", m + k>> \in Octets
  BY DEF Octets
<1>2. QED
  BY <1>1, IsASeq

(* Initially nothing is given.                                             *)
LEMMA FlatInvInit == FlatInit => FlatInv
<1> SUFFICES ASSUME FlatInit PROVE FlatInv
  OBVIOUS
<1>1. given.kind = "nothing" /\ hasher = Fresh /\ fed = <<>>
  BY DEF FlatInit, DigestInit
<1>2. GivenType
  BY <1>1 DEF GivenType
<1>3. fed \in Seq(Octets)
  BY <1>1, EmptySeq
<1>4. Hashed(hasher, fed, Octets)
  BY <1>1, FreshHashed
<1>5. QED
  BY <1>2, <1>3, <1>4 DEF FlatInv

(* add keeps what was given before (AbsorbHashed).                         *)
LEMMA FlatInvStep == FlatInv /\ [FlatNext]_flatVars => FlatInv'
<1> SUFFICES ASSUME FlatInv, [FlatNext]_flatVars PROVE FlatInv'
  OBVIOUS
<1>1. CASE GiveMessage /\ UNCHANGED <<hasher, fed>>
  <2>1. PICK f \in Requests, k \in SigningKeys, a \in Replies :
          given' = [kind |-> "message", of |-> <<f, k, a>>]
    BY <1>1 DEF GiveMessage, Given
  <2>2. GivenType'
    BY <2>1 DEF GivenType
  <2>3. QED
    BY <1>1, <2>2 DEF FlatInv
<1>2. CASE GiveDialogue /\ UNCHANGED <<hasher, fed>>
  <2>1. PICK m \in Dialogues, k \in SigningKeys, a \in Replies :
          given' = [kind |-> "dialogue", of |-> <<m, k, a>>]
    BY <1>2 DEF GiveDialogue, Given
  <2>2. GivenType'
    BY <2>1 DEF GivenType
  <2>3. QED
    BY <1>2, <2>2 DEF FlatInv
<1>3. CASE GiveShape /\ UNCHANGED <<hasher, fed>>
  <2>1. PICK e \in Shapes, gc \in Contexts : given' = [kind |-> "shape", of |-> <<e, gc>>]
    BY <1>3 DEF GiveShape, Given
  <2>2. GivenType'
    BY <2>1 DEF GivenType
  <2>3. QED
    BY <1>3, <2>2 DEF FlatInv
<1>4. CASE GivePiece
  <2>1. PICK n \in Pieces :
          /\ Add([k \in 1..n |-> <<"byte", Len(fed) + k>>])
          /\ given' = [kind |-> "pieces", of |-> Append(given.of, n)]
    BY <1>4 DEF GivePiece, Given
  <2> DEFINE data == [k \in 1..n |-> <<"byte", Len(fed) + k>>]
  <2>2. fed \in Seq(Octets) /\ Hashed(hasher, fed, Octets) /\ Len(fed) \in Nat
    BY LenProperties DEF FlatInv
  <2>3. data \in Seq(Octets)
    BY <2>2, PiecesAssumption, PieceOfOctets
  <2>4. hasher' = Absorb(hasher, data) /\ fed' = fed \o data
    BY <2>1 DEF Add
  <2> HIDE DEF data
  <2>5. Hashed(Absorb(hasher, data), fed \o data, Octets)
    BY <2>2, <2>3, AbsorbHashed
  <2>6. fed \o data \in Seq(Octets)
    BY <2>2, <2>3, ConcatProperties
  <2>7. GivenType'
    BY <2>1 DEF GivenType
  <2>8. QED
    BY <2>4, <2>5, <2>6, <2>7 DEF FlatInv
<1>5. CASE UNCHANGED flatVars
  BY <1>5 DEF FlatInv, GivenType, flatVars
<1>6. QED
  BY <1>1, <1>2, <1>3, <1>4, <1>5 DEF FlatNext

(* In every behavior the hasher holds what it was given, however the text  *)
(* is cut into pieces.  (sha256.h:313-353)                                 *)
THEOREM FlatInvariant == FlatSpec => []FlatInv
<1>1. QED
  BY FlatInvInit, FlatInvStep, PTL DEF FlatSpec

(* Whatever the messages, however their dicts are spelt, whatever dump     *)
(* writes of a value and whatever that is read as, whatever the keys, the  *)
(* replies and the pieces in which a text is given to the hash: a message  *)
(* is read if and only if it is signed for the texts as they came, and one *)
(* cut short of its last dict is not; it is replied to if and only if its  *)
(* header names a user and a session, else the code throws or is           *)
(* undefined; the reply reaches the same peers, who read of it what dump   *)
(* keeps; two messages on a socket stay two, the test client's requests    *)
(* are read as written, and the hash is SHA-256's and HMAC's of the whole  *)
(* text.  (jmessage.h:56-203; json.hpp:10393-10403; zmq_addon.hpp:123-150; *)
(* shell.h:37-68; sha256.h:313-419; hmac.h:40-85)                          *)
THEOREM MessagesAlwaysKept == FlatSpec => []MessagesKept
<1>1. ASSUME FlatInv PROVE MessagesKept
  <2>1. given.kind = "message" =>
          MessageKept(given.of[1], given.of[2], given.of[3].content, given.of[3].buffers)
    <3>1. SUFFICES ASSUME given.kind = "message"
                   PROVE  MessageKept(given.of[1], given.of[2], given.of[3].content,
                                      given.of[3].buffers)
      OBVIOUS
    <3>2. PICK f \in Requests, k \in SigningKeys, a \in Replies : given.of = <<f, k, a>>
      BY <1>1, <3>1 DEF FlatInv, GivenType
    <3>3. f \in Seq(ToSet(f)) /\ a.buffers \in Seq(ToSet(a.buffers))
      BY MessagesAssumption, Zenon
    <3>4. MessageKept(f, k, a.content, a.buffers)
      BY <3>3, EachMessageKept
    <3>5. given.of[1] = f /\ given.of[2] = k /\ given.of[3] = a
      BY <3>2
    <3>6. QED
      BY <3>4, <3>5, Zenon
  <2>2. given.kind = "dialogue" =>
          DialogueKept(given.of[1], given.of[2], given.of[3].content, given.of[3].buffers)
    <3>1. SUFFICES ASSUME given.kind = "dialogue"
                   PROVE  DialogueKept(given.of[1], given.of[2], given.of[3].content,
                                       given.of[3].buffers)
      OBVIOUS
    <3>2. PICK m \in Dialogues, k \in SigningKeys, a \in Replies : given.of = <<m, k, a>>
      BY <1>1, <3>1 DEF FlatInv, GivenType
    <3>3. a.buffers \in Seq(ToSet(a.buffers))
      BY MessagesAssumption, Zenon
    <3>4. DialogueKept(m, k, a.content, a.buffers)
      BY <3>3, EachDialogueKept
    <3>5. given.of[1] = m /\ given.of[2] = k /\ given.of[3] = a
      BY <3>2
    <3>6. QED
      BY <3>4, <3>5, Zenon
  <2>3. DigestKept
    <3>1. fed \in Seq(Octets) /\ Hashed(hasher, fed, Octets)
      BY <1>1 DEF FlatInv
    <3>2. GetHash(hasher) = Blocks(fed)
      BY <3>1, HashOfAll
    <3>3. Hmac(fed, fed) = HmacOf(fed, fed)
      BY <3>1, HmacDefined
    <3>4. QED
      BY <3>2, <3>3 DEF DigestKept
  <2>4. QED
    BY <2>1, <2>2, <2>3, Zenon DEF MessagesKept
<1>2. QED
  BY FlatInvariant, <1>1, PTL

(* Whatever R's graphics contexts: a browser that knows the page's         *)
(* defaults paints stroke, width, caps, joins, dashes and fill of a shape, *)
(* and color, weight and slant of a text, as R asked for them.             *)
(* (gdevice.h:180-290, 370-388, 415-513)                                   *)
THEOREM StylesPainted == FlatSpec => []StylesAsAsked
<1>1. ASSUME FlatInv PROVE StylesAsAsked
  <2>1. SUFFICES ASSUME given.kind = "shape"
                 PROVE  IF given.of[1] = "text"
                        THEN TextAsAsked(given.of[2], [f \in {} |-> ""], [f \in {} |-> ""])
                        ELSE StyleAsAsked(given.of[1], given.of[2])
    BY Zenon DEF StylesAsAsked
  <2>2. PICK e \in Shapes, gc \in Contexts : given.of = <<e, gc>>
    BY <1>1, <2>1 DEF FlatInv, GivenType
  <2>3. given.of[1] = e /\ given.of[2] = gc
    BY <2>2
  <2>4. /\ e \in {"line", "polyline", "polygon", "path", "rect", "circle", "text"}
        /\ IsColor(gc.col) /\ IsColor(gc.fill)
        /\ gc.lty \in Seq(Nat) /\ Len(gc.lty) <= 8
        /\ gc.ljoin \in {"round", "bevel", "miter"}
    BY ShapesAssumption
  <2>5. CASE e = "text"
    <3>1. TextAsAsked(gc, [f \in {} |-> ""], [f \in {} |-> ""])
      BY <2>4, EachTextAsked
    <3>2. QED
      BY <2>3, <2>5, <3>1, Zenon
  <2>6. CASE e # "text"
    <3>1. StyleAsAsked(e, gc)
      BY <2>4, <2>6, EachStyleAsked
    <3>2. QED
      BY <2>3, <2>6, <3>1, Zenon
  <2>7. QED
    BY <2>5, <2>6
<1>2. QED
  BY FlatInvariant, <1>1, PTL

=============================================================================
