------------------------------- MODULE Digest -------------------------------
(***************************************************************************)
(* What sha256.h and hmac.h feed to the compression function: a message in *)
(* pieces, padded to whole blocks.  Bytes of a message are its positions   *)
(* (any values that tell them apart); the compression itself is a term,    *)
(* the sequence of the blocks it was given.                                *)
(***************************************************************************)
EXTENDS Integers, Sequences, SequencesExt

BlockSize == 64

\* the first n blocks of a text
Cut(text, n) == [i \in 1..n |-> SubSeq(text, (i - 1) * BlockSize + 1, i * BlockSize)]

Fresh == [hash |-> <<>>, numBytes |-> 0, buffer |-> <<>>]

\* add: fill up the buffer, process it when full, then whole blocks of the
\* data, and keep the rest
Absorb(h, data) ==
  LET room == BlockSize - Len(h.buffer)
      head == IF h.buffer = <<>> THEN <<>> ELSE SubSeq(data, 1, Min({room, Len(data)}))
      rest == SubSeq(data, Len(head) + 1, Len(data))
      filled == h.buffer \o head
      first == IF Len(filled) = BlockSize THEN <<filled>> ELSE <<>>
      blocks == Len(rest) \div BlockSize
      whole == Cut(rest, blocks)
  IN [hash |-> h.hash \o first \o whole,
      numBytes |-> h.numBytes + BlockSize * Len(first \o whole),
      buffer |-> (IF first = <<>> THEN filled ELSE <<>>)
                 \o SubSeq(rest, blocks * BlockSize + 1, Len(rest))]

Repeat(b, n) == [i \in 1..n |-> b]

\* the eight bytes of a length in bits, each tagged so that it is no data
Length(bits) == [i \in 1..8 |-> <<"length", i, bits>>]
One == <<"one">>
Zero == <<"zero">>

\* bytes up to the length: 448 of 512 bits, with at least the bit that ends a
\* message
PaddedSize(size) ==
  LET bits == size * 8 + 1
      lower == bits % 512
  IN (IF lower <= 448 THEN bits + 448 - lower ELSE bits + 512 + 448 - lower) \div 8

\* processBuffer: a one bit, zeros, the length
ProcessBuffer(h) ==
  LET size == Len(h.buffer)
      padded == PaddedSize(size)
      text == h.buffer \o <<One>> \o Repeat(Zero, padded - size - 1)
              \o Length(8 * (h.numBytes + size))
  IN Cut(text, IF padded > BlockSize THEN 2 ELSE 1)

\* getHash: the blocks hashed; the hasher is as before
GetHash(h) == h.hash \o ProcessBuffer(h)

\* the key as one block, zeros after it; a longer key is hashed first
UsedKey(key) ==
  IF Len(key) <= BlockSize THEN key \o Repeat(Zero, BlockSize - Len(key))
  ELSE LET hash == GetHash(Absorb(Fresh, key))
       IN [i \in 1..32 |-> <<"hash", hash, i>>] \o Repeat(Zero, 32)

Xor(block, pad) == [i \in DOMAIN block |-> <<pad, block[i]>>]

\* hmac: the hash of key and data, hashed again after the key
Hmac(data, key) ==
  LET inside == GetHash(Absorb(Absorb(Fresh, Xor(UsedKey(key), 54)), data))
  IN GetHash(Absorb(Absorb(Fresh, Xor(UsedKey(key), 92)),
                    [i \in 1..32 |-> <<"hash", inside, i>>]))

-----------------------------------------------------------------------------
(* A SHA256 object that is given data, piece by piece.                     *)

VARIABLES
  hasher,   \* its members
  fed       \* history: the bytes it was given

DigestInit == hasher = Fresh /\ fed = <<>>

Add(data) ==
  /\ hasher' = Absorb(hasher, data)
  /\ fed' = fed \o data

-----------------------------------------------------------------------------

\* the definition: one message, padded and cut into blocks
Blocks(data) ==
  LET zeros == (119 - (Len(data) % BlockSize)) % BlockSize
      text == data \o <<One>> \o Repeat(Zero, zeros) \o Length(8 * Len(data))
  IN Cut(text, Len(text) \div BlockSize)

Sha256(data) == [i \in 1..32 |-> <<"hash", Blocks(data), i>>]

HmacOf(data, key) ==
  LET short == IF Len(key) <= BlockSize THEN key ELSE Sha256(key)
      block == short \o Repeat(Zero, BlockSize - Len(short))
  IN Blocks(Xor(block, 92) \o Sha256(Xor(block, 54) \o data))

\* what is hashed is the whole message, however it came; pieces do not matter,
\* nor does looking at the hash in between; and so with a key
DigestKept ==
  /\ GetHash(hasher) = Blocks(fed)
  /\ Hmac(fed, fed) = HmacOf(fed, fed)
=============================================================================
