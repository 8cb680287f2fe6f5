------------------------- MODULE KernelOutputProofs -------------------------
(***************************************************************************)
(* Proofs about what the kernel's threads carry to the client: printed     *)
(* text is attributed to no earlier request, stays in order and is neither *)
(* lost nor doubled, and what the main thread publishes arrives without    *)
(* gaps.  All four look at one topic's line of messages, OnTheWay(c), of   *)
(* which any step keeps the topic's own messages in their order: it leaves *)
(* them where they are, cuts off the end of the line, or adds one message  *)
(* to its end.                                                             *)
(***************************************************************************)
EXTENDS KernelProofs

-----------------------------------------------------------------------------
(* A topic's own messages, and what a step does to their line.             *)

\* message m is one of topic c
Of(c, m) == IF m.kind = "stream" THEN m.name = c ELSE c = "pub"

\* the places of topic c's messages among those on their way
At(c) == {i \in DOMAIN OnTheWay(c) : Of(c, OnTheWay(c)[i])}

\* a pipe holds messages of its own topic only
PipesApart == \A c \in Topics : \A i \in DOMAIN pipe[c] : Of(c, pipe[c][i])

\* f says where each of the messages on their way was before the step
Follow(c, f) ==
  /\ \A i \in At(c)' : f[i] \in At(c) /\ OnTheWay(c)'[i] = OnTheWay(c)[f[i]]
  /\ \A i, j \in At(c)' : i < j => f[i] < f[j]

\* the step leaves the messages of topic c, or a beginning of them
Shortens(c) ==
  \E f : /\ Follow(c, f)
         /\ \A i \in At(c)', k \in At(c) : k < f[i] => \E j \in At(c)' : f[j] = k

Keeps(c) ==
  \E f : /\ Follow(c, f)
         /\ \A k \in At(c) : \E j \in At(c)' : f[j] = k

\* the step adds message m at the end
Adds(c, m) ==
  /\ Len(OnTheWay(c)') = Len(OnTheWay(c)) + 1
  /\ \A i \in DOMAIN OnTheWay(c) : OnTheWay(c)'[i] = OnTheWay(c)[i]
  /\ OnTheWay(c)'[Len(OnTheWay(c)) + 1] = m
  /\ Of(c, m)

(* The elements of a concatenation.                                        *)
LEMMA Joint ==
  ASSUME NEW S, NEW a \in Seq(S), NEW b \in Seq(S)
  PROVE  /\ a \o b \in Seq(S) /\ Len(a \o b) = Len(a) + Len(b)
         /\ \A i \in 1..Len(a) : (a \o b)[i] = a[i]
         /\ \A i \in 1..Len(b) : (a \o b)[Len(a) + i] = b[i]
OBVIOUS

\* line is made of the sequences a, b and d
Laid(line, a, b, d) ==
  /\ Len(a) \in Nat /\ Len(b) \in Nat /\ Len(d) \in Nat
  /\ Len(line) = Len(a) + Len(b) + Len(d)
  /\ DOMAIN line = 1..Len(line)
  /\ \A i \in 1..Len(a) : line[i] = a[i]
  /\ \A i \in 1..Len(b) : line[Len(a) + i] = b[i]
  /\ \A i \in 1..Len(d) : line[Len(a) + Len(b) + i] = d[i]

(* What comes to the client, piece by piece: its place in the whole line.  *)
LEMMA Layout ==
  ASSUME NEW a \in Seq(Message), NEW b \in Seq(Message), NEW d \in Seq(Message)
  PROVE  Laid(a \o b \o d, a, b, d)
<1> DEFINE ab == a \o b
           line == ab \o d
<1>1. /\ ab \in Seq(Message) /\ Len(ab) = Len(a) + Len(b)
      /\ \A i \in 1..Len(a) : ab[i] = a[i]
      /\ \A i \in 1..Len(b) : ab[Len(a) + i] = b[i]
  BY Joint
<1>2. Len(a) \in Nat /\ Len(b) \in Nat /\ Len(d) \in Nat
  OBVIOUS
<1>3. /\ line \in Seq(Message) /\ Len(line) = Len(ab) + Len(d)
      /\ \A i \in 1..Len(ab) : line[i] = ab[i]
      /\ \A i \in 1..Len(d) : line[Len(ab) + i] = d[i]
  <2>1. ab \in Seq(Message)
    BY <1>1
  <2> HIDE DEF ab
  <2>2. QED
    BY <2>1, Joint
<1>4. DOMAIN line = 1..Len(line)
  <2> HIDE DEF line
  <2>1. QED
    BY <1>3
<1> HIDE DEF ab, line
<1>5. \A i \in 1..Len(a) : line[i] = a[i]
  BY <1>1, <1>2, <1>3
<1>6. \A i \in 1..Len(b) : line[Len(a) + i] = b[i]
  <2>1. ASSUME NEW i \in 1..Len(b)
        PROVE  line[Len(a) + i] = b[i]
    <3>1. Len(a) + i \in 1..Len(ab)
      BY <1>1, <1>2
    <3>2. QED
      BY <1>1, <1>3, <3>1
  <2>2. QED
    BY <2>1
<1>7. Laid(line, a, b, d)
  BY <1>1, <1>2, <1>3, <1>4, <1>5, <1>6 DEF Laid
<1>8. QED
  BY <1>7 DEF line, ab

(* The line is what was seen, what is on the wire and what is in the pipe, *)
(* before a step and after it.                                             *)
LEMMA LineBefore ==
  ASSUME KernelTypeOK, NEW c \in Topics
  PROVE  Laid(OnTheWay(c), seen, wire, pipe[c])
<1>1. seen \in Seq(Message) /\ wire \in Seq(Message) /\ pipe[c] \in Seq(Message)
  BY DEF KernelTypeOK
<1>2. QED
  BY <1>1, Layout DEF OnTheWay

(* The same of the line after a step.                                      *)
LEMMA LineAfter ==
  ASSUME KernelTypeOK', NEW c \in Topics
  PROVE  Laid(OnTheWay(c)', seen', wire', pipe'[c])
<1>1. seen' \in Seq(Message) /\ wire' \in Seq(Message) /\ pipe'[c] \in Seq(Message)
  BY DEF KernelTypeOK
<1>2. OnTheWay(c)' = seen' \o wire' \o pipe'[c]
  BY DEF OnTheWay
<1>3. QED
  BY <1>1, <1>2, Layout

(* A line that is the same up to its length, or cut.                       *)
LEMMA SamePlaces ==
  ASSUME KernelTypeOK, KernelTypeOK', NEW c \in Topics,
         Len(OnTheWay(c)') <= Len(OnTheWay(c)),
         \A i \in DOMAIN OnTheWay(c)' : OnTheWay(c)'[i] = OnTheWay(c)[i]
  PROVE  /\ Shortens(c)
         /\ Len(OnTheWay(c)') = Len(OnTheWay(c)) => Keeps(c)
<1> DEFINE f == [i \in At(c)' |-> i]
<1>1. /\ DOMAIN OnTheWay(c) = 1..Len(OnTheWay(c))
      /\ DOMAIN OnTheWay(c)' = 1..Len(OnTheWay(c)')
      /\ Len(OnTheWay(c)) \in Nat /\ Len(OnTheWay(c)') \in Nat
  <2>1. /\ DOMAIN OnTheWay(c) = 1..Len(OnTheWay(c))
        /\ Len(OnTheWay(c)) \in Nat
    BY LineBefore DEF Laid
  <2>2. /\ DOMAIN OnTheWay(c)' = 1..Len(OnTheWay(c)')
        /\ Len(OnTheWay(c)') \in Nat
    BY LineAfter DEF Laid
  <2>3. QED
    BY <2>1, <2>2
<1>2. \A i \in At(c)' : i \in At(c) /\ f[i] = i
  BY <1>1 DEF At
<1>3. Follow(c, f)
  BY <1>2 DEF Follow, At
<1>4. \A i \in At(c)', k \in At(c) : k < i => k \in At(c)'
  BY <1>1 DEF At
<1>5. Shortens(c)
  BY <1>2, <1>3, <1>4 DEF Shortens
<1>6. ASSUME Len(OnTheWay(c)') = Len(OnTheWay(c))
      PROVE  Keeps(c)
  <2>1. \A k \in At(c) : k \in At(c)'
    BY <1>1, <1>6 DEF At
  <2>2. QED
    BY <1>2, <1>3, <2>1 DEF Keeps
<1>7. QED
  BY <1>5, <1>6

(* A step that leaves the line alone.                                      *)
LEMMA SameKeeps ==
  ASSUME KernelTypeOK, KernelTypeOK', NEW c \in Topics,
         UNCHANGED <<seen, wire>>, pipe'[c] = pipe[c]
  PROVE  Keeps(c)
<1>1. OnTheWay(c)' = OnTheWay(c)
  BY DEF OnTheWay
<1>2. Len(OnTheWay(c)) \in Nat
  BY LineBefore DEF Laid
<1>3. QED
  BY <1>1, <1>2, SamePlaces

(* A message that is delivered keeps its place in the line.                *)
LEMMA DeliverKeeps ==
  ASSUME KernelTypeOK, KernelTypeOK', NEW c \in Topics, Deliver
  PROVE  Keeps(c)
<1> DEFINE x == Len(seen)
           y == Len(wire)
           z == Len(pipe[c])
<1>1. /\ wire # <<>> /\ seen' = Append(seen, Head(wire)) /\ wire' = Tail(wire)
      /\ pipe' = pipe
  BY DEF Deliver
<1>2. /\ y >= 1 /\ Len(seen') = x + 1 /\ Len(wire') = y - 1
      /\ \A i \in 1..x : seen'[i] = seen[i]
      /\ seen'[x + 1] = wire[1]
      /\ \A i \in 1..(y - 1) : wire'[i] = wire[i + 1]
  <2>1. seen \in Seq(Message) /\ wire \in Seq(Message)
    BY DEF KernelTypeOK
  <2>2. QED
    BY <1>1, <2>1
<1>3. /\ x \in Nat /\ y \in Nat /\ z \in Nat
      /\ Len(OnTheWay(c)) = x + y + z
      /\ \A i \in 1..x : OnTheWay(c)[i] = seen[i]
      /\ \A i \in 1..y : OnTheWay(c)[x + i] = wire[i]
      /\ \A i \in 1..z : OnTheWay(c)[x + y + i] = pipe[c][i]
  BY LineBefore DEF Laid
<1>4. Laid(OnTheWay(c)', seen', wire', pipe[c])
  BY <1>1, LineAfter
<1> HIDE DEF x, y, z
<1>5. /\ Len(OnTheWay(c)') = (x + 1) + (y - 1) + z
      /\ DOMAIN OnTheWay(c)' = 1..((x + 1) + (y - 1) + z)
      /\ \A i \in 1..(x + 1) : OnTheWay(c)'[i] = seen'[i]
      /\ \A i \in 1..(y - 1) : OnTheWay(c)'[(x + 1) + i] = wire'[i]
      /\ \A i \in 1..z : OnTheWay(c)'[(x + 1) + (y - 1) + i] = pipe[c][i]
  BY <1>2, <1>4 DEF Laid, z
<1>6. (x + 1) + (y - 1) = x + y
  BY <1>3
<1>7. ASSUME NEW i \in DOMAIN OnTheWay(c)'
      PROVE  OnTheWay(c)'[i] = OnTheWay(c)[i]
  <2>1. i \in Nat /\ i >= 1 /\ i <= x + y + z
    BY <1>3, <1>5, <1>6
  <2>2. CASE i <= x
    BY <1>2, <1>3, <1>5, <2>1, <2>2
  <2>3. CASE i = x + 1
    BY <1>2, <1>3, <1>5, <2>1, <2>3
  <2>4. CASE i > x + 1 /\ i <= x + y
    <3> DEFINE k == i - x - 1
    <3>1. /\ k \in 1..(y - 1) /\ k + 1 \in 1..y
          /\ i = (x + 1) + k /\ i = x + (k + 1)
      BY <1>3, <2>1, <2>4
    <3> HIDE DEF k
    <3>2. OnTheWay(c)'[i] = wire'[k] /\ OnTheWay(c)[i] = wire[k + 1]
      BY <1>3, <1>5, <3>1
    <3>3. QED
      BY <1>2, <3>1, <3>2
  <2>5. CASE i > x + y
    <3> DEFINE k == i - x - y
    <3>1. k \in 1..z /\ i = x + y + k
      BY <1>3, <2>1, <2>5
    <3> HIDE DEF k
    <3>2. QED
      BY <1>3, <1>5, <1>6, <3>1
  <2>6. QED
    BY <1>3, <2>1, <2>2, <2>3, <2>4, <2>5
<1>8. Len(OnTheWay(c)') = Len(OnTheWay(c)) /\ Len(OnTheWay(c)) \in Nat
  BY <1>3, <1>5, <1>6
<1>9. QED
  BY <1>7, <1>8, SamePlaces

(* Stopping the io thread, or a crash, cuts the line off at some place.    *)
LEMMA CutShortens ==
  ASSUME KernelTypeOK, KernelTypeOK', NEW c \in Topics,
         seen' = seen, pipe'[c] = <<>>,
         NEW n \in 0..Len(wire), wire' = SubSeq(wire, 1, n)
  PROVE  Shortens(c)
<1> DEFINE x == Len(seen)
           y == Len(wire)
           z == Len(pipe[c])
<1>1. /\ Len(wire') = n /\ n \in Nat /\ n <= y
      /\ \A i \in 1..n : wire'[i] = wire[i]
  <2>1. wire \in Seq(Message)
    BY DEF KernelTypeOK
  <2>2. QED
    BY <2>1
<1>2. /\ x \in Nat /\ y \in Nat /\ z \in Nat
      /\ Len(OnTheWay(c)) = x + y + z
      /\ \A i \in 1..x : OnTheWay(c)[i] = seen[i]
      /\ \A i \in 1..y : OnTheWay(c)[x + i] = wire[i]
  BY LineBefore DEF Laid
<1>3. Laid(OnTheWay(c)', seen, wire', <<>>)
  BY LineAfter
<1>4. Len(<<>>) = 0
  OBVIOUS
<1> HIDE DEF x, y, z
<1>5. /\ Len(OnTheWay(c)') = x + n
      /\ DOMAIN OnTheWay(c)' = 1..(x + n)
      /\ \A i \in 1..x : OnTheWay(c)'[i] = seen[i]
      /\ \A i \in 1..n : OnTheWay(c)'[x + i] = wire'[i]
  <2>1. x + n + 0 = x + n
    BY <1>1, <1>2
  <2>2. QED
    BY <1>1, <1>3, <1>4, <2>1 DEF Laid, x
<1>6. ASSUME NEW i \in DOMAIN OnTheWay(c)'
      PROVE  OnTheWay(c)'[i] = OnTheWay(c)[i]
  <2>1. i \in Nat /\ i >= 1 /\ i <= x + n
    BY <1>1, <1>2, <1>5
  <2>2. CASE i <= x
    BY <1>2, <1>5, <2>1, <2>2
  <2>3. CASE i > x
    <3> DEFINE k == i - x
    <3>1. k \in 1..n /\ k \in 1..y /\ i = x + k
      BY <1>1, <1>2, <2>1, <2>3
    <3> HIDE DEF k
    <3>2. QED
      BY <1>1, <1>2, <1>5, <3>1
  <2>4. QED
    BY <1>2, <2>1, <2>2, <2>3
<1>7. Len(OnTheWay(c)') <= Len(OnTheWay(c))
  BY <1>1, <1>2, <1>5
<1>8. QED
  BY <1>6, <1>7, SamePlaces

(* A message that is put into a topic's pipe is the last of its line.      *)
LEMMA AppendAdds ==
  ASSUME KernelTypeOK, KernelTypeOK', NEW c \in Topics, NEW m \in Message, Of(c, m),
         UNCHANGED <<seen, wire>>, pipe'[c] = Append(pipe[c], m)
  PROVE  Adds(c, m)
<1> DEFINE x == Len(seen)
           y == Len(wire)
           z == Len(pipe[c])
<1>1. /\ Len(pipe'[c]) = z + 1
      /\ \A i \in 1..z : pipe'[c][i] = pipe[c][i]
      /\ pipe'[c][z + 1] = m
  <2>1. pipe[c] \in Seq(Message)
    BY DEF KernelTypeOK
  <2>2. QED
    BY <2>1
<1>2. /\ x \in Nat /\ y \in Nat /\ z \in Nat
      /\ Len(OnTheWay(c)) = x + y + z
      /\ DOMAIN OnTheWay(c) = 1..(x + y + z)
      /\ \A i \in 1..x : OnTheWay(c)[i] = seen[i]
      /\ \A i \in 1..y : OnTheWay(c)[x + i] = wire[i]
      /\ \A i \in 1..z : OnTheWay(c)[x + y + i] = pipe[c][i]
  BY LineBefore DEF Laid
<1>3. Laid(OnTheWay(c)', seen, wire, pipe'[c])
  BY LineAfter
<1> HIDE DEF x, y, z
<1>4. /\ Len(OnTheWay(c)') = x + y + (z + 1)
      /\ \A i \in 1..x : OnTheWay(c)'[i] = seen[i]
      /\ \A i \in 1..y : OnTheWay(c)'[x + i] = wire[i]
      /\ \A i \in 1..(z + 1) : OnTheWay(c)'[x + y + i] = pipe'[c][i]
  BY <1>1, <1>3 DEF Laid, x, y
<1>5. ASSUME NEW i \in DOMAIN OnTheWay(c)
      PROVE  OnTheWay(c)'[i] = OnTheWay(c)[i]
  <2>1. i \in Nat /\ i >= 1 /\ i <= x + y + z
    BY <1>2
  <2>2. CASE i <= x
    BY <1>2, <1>4, <2>1, <2>2
  <2>3. CASE i > x /\ i <= x + y
    <3> DEFINE k == i - x
    <3>1. k \in 1..y /\ i = x + k
      BY <1>2, <2>1, <2>3
    <3> HIDE DEF k
    <3>2. QED
      BY <1>2, <1>4, <3>1
  <2>4. CASE i > x + y
    <3> DEFINE k == i - x - y
    <3>1. k \in 1..z /\ k \in 1..(z + 1) /\ i = x + y + k
      BY <1>2, <2>1, <2>4
    <3> HIDE DEF k
    <3>2. QED
      BY <1>1, <1>2, <1>4, <3>1
  <2>5. QED
    BY <1>2, <2>1, <2>2, <2>3, <2>4
<1>6. OnTheWay(c)'[Len(OnTheWay(c)) + 1] = m
  <2>1. z + 1 \in 1..(z + 1) /\ x + y + (z + 1) = (x + y + z) + 1
    BY <1>2
  <2>2. QED
    BY <1>1, <1>2, <1>4, <2>1
<1>7. Len(OnTheWay(c)') = Len(OnTheWay(c)) + 1
  BY <1>2, <1>4
<1>8. QED
  BY <1>5, <1>6, <1>7 DEF Adds

(* A message belongs to one topic.                                         *)
LEMMA OneTopic == ASSUME NEW c, NEW d, NEW m, Of(c, m), Of(d, m) PROVE c = d
BY DEF Of

(* The io thread forwards a message: it stays where it is in its own       *)
(* topic's line, and another topic's pipe is pushed back by one place.     *)
LEMMA ForwardKeeps ==
  ASSUME KernelTypeOK, KernelTypeOK', PassReadable, PipesApart,
         NEW c \in Topics, NEW d \in Topics, Forward(d)
  PROVE  Keeps(c)
<1> DEFINE x == Len(seen)
           y == Len(wire)
           z == Len(pipe[c])
           m == Head(pipe[d])
<1>1. /\ seen' = seen
      /\ Len(wire') = y + 1
      /\ \A i \in 1..y : wire'[i] = wire[i]
      /\ wire'[y + 1] = m
      /\ Of(d, m)
  <2>1. /\ wire' = Append(wire, m) /\ m \in Message /\ m = pipe[d][1]
        /\ pipe[d] # <<>> /\ pipe[d] \in Seq(Message)
    BY Forwarded
  <2>2. wire \in Seq(Message)
    BY DEF KernelTypeOK
  <2>3. 1 \in DOMAIN pipe[d]
    BY <2>1
  <2>4. Of(d, m)
    BY <2>1, <2>3 DEF PipesApart
  <2>5. seen' = seen
    BY DEF Forward
  <2> HIDE DEF m
  <2>6. QED
    BY <2>1, <2>2, <2>4, <2>5
<1>2. /\ x \in Nat /\ y \in Nat /\ z \in Nat
      /\ Len(OnTheWay(c)) = x + y + z
      /\ DOMAIN OnTheWay(c) = 1..(x + y + z)
      /\ \A i \in 1..x : OnTheWay(c)[i] = seen[i]
      /\ \A i \in 1..y : OnTheWay(c)[x + i] = wire[i]
      /\ \A i \in 1..z : OnTheWay(c)[x + y + i] = pipe[c][i]
  BY LineBefore DEF Laid
<1>3. Laid(OnTheWay(c)', seen', wire', pipe'[c])
  BY LineAfter
<1>4. c = d => /\ Len(pipe'[c]) = z - 1 /\ z >= 1
               /\ m = pipe[c][1]
               /\ \A i \in 1..(z - 1) : pipe'[c][i] = pipe[c][i + 1]
  <2>1. ASSUME c = d
        PROVE  /\ Len(pipe'[c]) = z - 1 /\ z >= 1
               /\ m = pipe[c][1]
               /\ \A i \in 1..(z - 1) : pipe'[c][i] = pipe[c][i + 1]
    <3>1. /\ pipe[c] # <<>> /\ pipe[c] \in Seq(Message) /\ m = pipe[c][1]
          /\ Len(pipe'[c]) = Len(pipe[c]) - 1
          /\ \A i \in DOMAIN pipe'[c] : pipe'[c][i] = pipe[c][i + 1]
          /\ pipe' \in [Topics -> Seq(Message)]
      BY <2>1, Forwarded
    <3>2. pipe'[c] \in Seq(Message)
      BY <3>1
    <3> HIDE DEF m
    <3>3. QED
      BY <3>1, <3>2
  <2>2. QED
    BY <2>1
<1>5. c # d => pipe'[c] = pipe[c]
  BY Forwarded
<1> HIDE DEF x, y, z, m
<1>6. /\ \A i \in 1..x : OnTheWay(c)'[i] = seen[i]
      /\ \A i \in 1..y : OnTheWay(c)'[x + i] = wire[i]
      /\ OnTheWay(c)'[x + y + 1] = m
  <2>1. /\ \A i \in 1..x : OnTheWay(c)'[i] = seen[i]
        /\ \A i \in 1..(y + 1) : OnTheWay(c)'[x + i] = wire'[i]
    BY <1>1, <1>3 DEF Laid, x
  <2>2. \A i \in 1..y : i \in 1..(y + 1)
    BY <1>2
  <2>3. y + 1 \in 1..(y + 1) /\ x + (y + 1) = x + y + 1
    BY <1>2
  <2>4. QED
    BY <1>1, <2>1, <2>2, <2>3
<1>7. ASSUME NEW i \in 1..(x + y)
      PROVE  OnTheWay(c)'[i] = OnTheWay(c)[i]
  <2>1. i \in Nat /\ i >= 1 /\ i <= x + y
    BY <1>2
  <2>2. CASE i <= x
    BY <1>2, <1>6, <2>1, <2>2
  <2>3. CASE i > x
    <3> DEFINE k == i - x
    <3>1. k \in 1..y /\ i = x + k
      BY <1>2, <2>1, <2>3
    <3> HIDE DEF k
    <3>2. QED
      BY <1>2, <1>6, <3>1
  <2>4. QED
    BY <1>2, <2>1, <2>2, <2>3
<1>8. CASE c = d
  <2>1. /\ Len(OnTheWay(c)') = x + (y + 1) + (z - 1)
        /\ DOMAIN OnTheWay(c)' = 1..(x + (y + 1) + (z - 1))
        /\ \A i \in 1..(z - 1) : OnTheWay(c)'[x + (y + 1) + i] = pipe'[c][i]
    BY <1>1, <1>3, <1>4, <1>8 DEF Laid, x
  <2>2. x + (y + 1) + (z - 1) = x + y + z
    BY <1>2
  <2>3. ASSUME NEW i \in DOMAIN OnTheWay(c)'
        PROVE  OnTheWay(c)'[i] = OnTheWay(c)[i]
    <3>1. i \in Nat /\ i >= 1 /\ i <= x + y + z
      BY <1>2, <2>1, <2>2
    <3>2. CASE i <= x + y
      BY <1>2, <1>7, <3>1, <3>2
    <3>3. CASE i = x + y + 1
      <4>1. 1 \in 1..z
        BY <1>2, <1>4, <1>8
      <4>2. QED
        BY <1>2, <1>4, <1>6, <1>8, <3>3, <4>1
    <3>4. CASE i > x + y + 1
      <4> DEFINE k == i - (x + y + 1)
      <4>1. /\ k \in 1..(z - 1) /\ k + 1 \in 1..z
            /\ i = x + (y + 1) + k /\ i = x + y + (k + 1)
        BY <1>2, <3>1, <3>4
      <4> HIDE DEF k
      <4>2. OnTheWay(c)'[i] = pipe'[c][k] /\ OnTheWay(c)[i] = pipe[c][k + 1]
        BY <1>2, <2>1, <4>1
      <4>3. QED
        BY <1>4, <1>8, <4>1, <4>2
    <3>5. QED
      BY <1>2, <3>1, <3>2, <3>3, <3>4
  <2>4. Len(OnTheWay(c)') = Len(OnTheWay(c)) /\ Len(OnTheWay(c)) \in Nat
    BY <1>2, <2>1, <2>2
  <2>5. QED
    BY <2>3, <2>4, SamePlaces
<1>9. CASE c # d
  <2>1. /\ DOMAIN OnTheWay(c)' = 1..(x + (y + 1) + z)
        /\ \A i \in 1..z : OnTheWay(c)'[x + (y + 1) + i] = pipe[c][i]
    BY <1>1, <1>3, <1>5, <1>9 DEF Laid, x, z
  <2>2. ~Of(c, m)
    BY <1>1, <1>9, OneTopic
  <2>3. ASSUME NEW i \in (x + y + 1)..(x + y + z)
        PROVE  OnTheWay(c)'[i + 1] = OnTheWay(c)[i]
    <3> DEFINE k == i - (x + y)
    <3>1. k \in 1..z /\ i = x + y + k /\ i + 1 = x + (y + 1) + k
      BY <1>2
    <3> HIDE DEF k
    <3>2. OnTheWay(c)'[i + 1] = pipe[c][k] /\ OnTheWay(c)[i] = pipe[c][k]
      BY <1>2, <2>1, <3>1
    <3>3. QED
      BY <3>2
  <2> DEFINE f == [i \in At(c)' |-> IF i <= x + y THEN i ELSE i - 1]
  <2>4. ASSUME NEW i \in At(c)'
        PROVE  /\ i \in Nat /\ i # x + y + 1
               /\ f[i] \in At(c) /\ OnTheWay(c)'[i] = OnTheWay(c)[f[i]]
               /\ f[i] = IF i <= x + y THEN i ELSE i - 1
    <3>1. i \in DOMAIN OnTheWay(c)' /\ Of(c, OnTheWay(c)'[i])
      BY DEF At
    <3>2. i \in Nat /\ i >= 1 /\ i <= x + y + 1 + z
      BY <1>2, <2>1, <3>1
    <3>3. i # x + y + 1
      BY <1>6, <2>2, <3>1
    <3>4. CASE i <= x + y
      <4>1. i \in 1..(x + y) /\ i \in DOMAIN OnTheWay(c) /\ f[i] = i
        BY <1>2, <3>2, <3>4
      <4>2. OnTheWay(c)'[i] = OnTheWay(c)[i]
        BY <1>7, <4>1
      <4>3. i \in At(c)
        BY <3>1, <4>1, <4>2 DEF At
      <4> HIDE DEF f
      <4>4. QED
        BY <3>2, <3>3, <3>4, <4>1, <4>2, <4>3
    <3>5. CASE i > x + y + 1
      <4> DEFINE j == i - 1
      <4>1. /\ j \in (x + y + 1)..(x + y + z) /\ j \in DOMAIN OnTheWay(c)
            /\ i = j + 1 /\ ~(i <= x + y)
        BY <1>2, <3>2, <3>5
      <4>2. f[i] = j
        BY <4>1
      <4> HIDE DEF f, j
      <4>3. OnTheWay(c)'[i] = OnTheWay(c)[j]
        BY <2>3, <4>1
      <4>4. j \in At(c)
        BY <3>1, <4>1, <4>3 DEF At
      <4>5. QED
        BY <3>2, <3>3, <4>1, <4>2, <4>3, <4>4 DEF j
    <3>6. QED
      BY <1>2, <3>2, <3>3, <3>4, <3>5
  <2>5. ASSUME NEW k \in At(c)
        PROVE  \E j \in At(c)' : f[j] = k
    <3>1. k \in DOMAIN OnTheWay(c) /\ Of(c, OnTheWay(c)[k])
      BY DEF At
    <3>2. k \in Nat /\ k >= 1 /\ k <= x + y + z
      BY <1>2, <3>1
    <3>3. CASE k <= x + y
      <4>1. k \in 1..(x + y) /\ k \in DOMAIN OnTheWay(c)'
        BY <1>2, <2>1, <3>2, <3>3
      <4>2. k \in At(c)'
        BY <1>7, <3>1, <4>1 DEF At
      <4>3. f[k] = k
        BY <3>3, <4>2
      <4>4. QED
        BY <4>2, <4>3
    <3>4. CASE k > x + y
      <4>1. /\ k \in (x + y + 1)..(x + y + z) /\ k + 1 \in DOMAIN OnTheWay(c)'
            /\ ~(k + 1 <= x + y) /\ (k + 1) - 1 = k
        BY <1>2, <2>1, <3>2, <3>4
      <4>2. k + 1 \in At(c)'
        BY <2>3, <3>1, <4>1 DEF At
      <4>3. f[k + 1] = k
        BY <4>1, <4>2
      <4>4. QED
        BY <4>2, <4>3
    <3>5. QED
      BY <1>2, <3>2, <3>3, <3>4
  <2> HIDE DEF f
  <2>6. ASSUME NEW i \in At(c)', NEW j \in At(c)', i < j
        PROVE  f[i] < f[j]
    <3>1. /\ i \in Nat /\ i # x + y + 1 /\ f[i] = IF i <= x + y THEN i ELSE i - 1
      BY <2>4
    <3>2. /\ j \in Nat /\ j # x + y + 1 /\ f[j] = IF j <= x + y THEN j ELSE j - 1
      BY <2>4
    <3>3. QED
      BY <1>2, <2>6, <3>1, <3>2
  <2>7. Follow(c, f)
    BY <2>4, <2>6 DEF Follow
  <2>8. QED
    BY <2>5, <2>7 DEF Keeps
<1>10. QED
  BY <1>8, <1>9

-----------------------------------------------------------------------------
(* What a step of the kernel does to the lines of all topics.              *)

(* Message m is put into topic c's pipe, or it is dropped for a reason.    *)
LEMMA PutLines ==
  ASSUME KernelTypeOK, KernelTypeOK', NEW c \in Topics, NEW m \in Message,
         Of(c, m), Put(c, m), UNCHANGED <<seen, wire>>
  PROVE  /\ \A d \in Topics \ {c} : Keeps(d)
         /\ \/ /\ Adds(c, m)
               /\ losses' = losses /\ "io" \in running /\ <<"io", c>> \in joined
            \/ /\ Keeps(c)
               /\ losses \subseteq losses' /\ losses' # {}
               /\ \/ "io" \notin running
                  \/ <<"io", c>> \notin joined
                  \/ "full" \in losses'
         /\ PipesApart => PipesApart'
<1>1. pipe \in [Topics -> Seq(Message)]
  BY DEF KernelTypeOK
<1>2. CASE /\ pipe' = [pipe EXCEPT ![c] = Append(@, m)]
           /\ losses' = losses
           /\ "io" \in running /\ <<"io", c>> \in joined /\ ~(Len(pipe[c]) >= Hwm)
  <2>1. pipe'[c] = Append(pipe[c], m) /\ \A d \in Topics \ {c} : pipe'[d] = pipe[d]
    BY <1>1, <1>2
  <2>2. Adds(c, m)
    BY <2>1, AppendAdds
  <2>3. \A d \in Topics \ {c} : Keeps(d)
    BY <2>1, SameKeeps
  <2>4. ASSUME PipesApart
        PROVE  PipesApart'
    <3>1. ASSUME NEW d \in Topics, NEW i \in DOMAIN pipe'[d]
          PROVE  Of(d, pipe'[d][i])
      <4>1. CASE d # c
        BY <2>1, <2>4, <4>1 DEF PipesApart
      <4>2. CASE d = c
        <5>1. pipe[c] \in Seq(Message)
          BY <1>1
        <5>2. CASE i \in DOMAIN pipe[c]
          <6>1. pipe'[c][i] = pipe[c][i]
            BY <2>1, <5>1, <5>2
          <6>2. QED
            BY <2>4, <4>2, <5>2, <6>1 DEF PipesApart
        <5>3. CASE i \notin DOMAIN pipe[c]
          <6>1. pipe'[c][i] = m
            BY <2>1, <4>2, <5>1, <5>3
          <6>2. QED
            BY <4>2, <6>1
        <5>4. QED
          BY <5>2, <5>3
      <4>3. QED
        BY <4>1, <4>2
    <3>2. QED
      BY <3>1 DEF PipesApart, Of
  <2>5. QED
    BY <1>2, <2>2, <2>3, <2>4
<1>3. CASE /\ pipe' = pipe
           /\ losses \subseteq losses' /\ losses' # {}
           /\ "io" \notin running \/ <<"io", c>> \notin joined \/ "full" \in losses'
  <2>1. \A d \in Topics : Keeps(d)
    BY <1>3, SameKeeps
  <2>2. PipesApart => PipesApart'
    BY <1>3 DEF PipesApart, Of
  <2>3. QED
    BY <1>3, <2>1, <2>2
<1>4. QED
  BY <1>2, <1>3, PutCases

\* the request a step sends for is current, and it publishes nothing
SendsPrivately ==
  \/ log' = log
  \/ \E e \in Event : e.chan # "iopub" /\ log' = Append(log, e)

\* nothing is printed, read or published
Silent ==
  /\ SendsPrivately
  /\ wrote' = wrote /\ losses' = losses
  /\ \A s \in Sinks, id \in 1..MaxRequests : tcp'[s][id] = tcp[s][id]
  /\ \A c \in Topics : Keeps(c)

\* what a thread had not read or sent is lost with it
Drops ==
  /\ log' = log /\ wrote' = wrote
  /\ losses \subseteq losses' /\ losses' # {}
  /\ \A s \in Sinks, id \in 1..MaxRequests : tcp'[s][id] \in {tcp[s][id], <<>>}
  /\ \A c \in Topics : Shortens(c)
  /\ Keeps("pub") \/ "io" \notin running'

Prints(s) == \E glyph \in Glyphs : UserWrites(s, glyph)

Posts ==
  /\ Publishes
  /\ \E e \in Event : e.chan = "iopub" /\ log' = Append(log, e)
  /\ Put("pub", PubMsg(log'[Len(log')], Len(log')))
  /\ UNCHANGED <<wrote, tcp, seen, wire, running, joined>>

(* A line that is kept is shortened by nothing.                            *)
LEMMA KeepsShortens == ASSUME NEW c, Keeps(c) PROVE Shortens(c)
BY DEF Keeps, Shortens

(* Stopping threads.                                                       *)
LEMMA CrashDrops ==
  ASSUME KernelTypeOK, KernelTypeOK', Crash
  PROVE  Drops /\ PipesApart'
<1>1. /\ log' = log /\ wrote' = wrote /\ seen' = seen
      /\ losses' = losses \cup {"stopped"} /\ running' = {}
      /\ tcp' = [s \in Sinks |-> [id \in 1..MaxRequests |-> <<>>]]
      /\ pipe' = [c \in Topics |-> <<>>]
  BY DEF Crash
<1>2. PICK n \in 0..Len(wire) : wire' = SubSeq(wire, 1, n)
  BY DEF Crash
<1>3. \A c \in Topics : pipe'[c] = <<>>
  BY <1>1
<1>4. \A c \in Topics : Shortens(c)
  BY <1>1, <1>2, <1>3, CutShortens
<1>5. \A s \in Sinks, id \in 1..MaxRequests : tcp'[s][id] = <<>>
  BY <1>1
<1>6. PipesApart'
  BY <1>3 DEF PipesApart
<1>7. QED
  BY <1>1, <1>4, <1>5, <1>6 DEF Drops

(* A thread that stops drops what its pipe or its socket still holds.      *)
LEMMA StopDrops ==
  ASSUME KernelTypeOK, KernelTypeOK', PipesApart, NEW t \in Threads, Stop(t)
  PROVE  (Drops \/ Silent) /\ PipesApart'
<1>1. /\ log' = log /\ wrote' = wrote /\ seen' = seen
      /\ running' = running \ {t}
      /\ losses' = IF Readable(t) # {} \/ wire' # wire
                   THEN losses \cup {"stopped"} ELSE losses
  BY DEF Stop, vars
<1>2. CASE t = "io"
  <2>1. /\ tcp' = tcp /\ pipe' = [c \in Topics |-> <<>>]
        /\ \E n \in 0..Len(wire) : wire' = SubSeq(wire, 1, n)
    BY <1>2 DEF Stop
  <2>2. \A c \in Topics : pipe'[c] = <<>>
    BY <2>1
  <2>3. \A c \in Topics : Shortens(c)
    BY <1>1, <2>1, <2>2, CutShortens
  <2>4. PipesApart'
    BY <2>2 DEF PipesApart
  <2>5. CASE Readable(t) # {} \/ wire' # wire
    <3>1. losses \subseteq losses' /\ losses' # {} /\ "io" \notin running'
      BY <1>1, <1>2, <2>5
    <3>2. QED
      BY <1>1, <2>1, <2>3, <2>4, <3>1 DEF Drops
  <2>6. CASE Readable(t) = {} /\ wire' = wire
    <3>1. \A c \in Topics : pipe[c] = <<>>
      BY <1>2, <2>6 DEF Readable
    <3>2. \A c \in Topics : Keeps(c)
      BY <1>1, <2>2, <2>6, <3>1, SameKeeps
    <3>3. QED
      BY <1>1, <2>1, <2>4, <2>6, <3>2 DEF Silent, SendsPrivately
  <2>7. QED
    BY <2>5, <2>6
<1>3. CASE t # "io"
  <2>1. /\ pipe' = pipe /\ wire' = wire
        /\ tcp' = [tcp EXCEPT ![t] = [id \in 1..MaxRequests |-> <<>>]]
    BY <1>3 DEF Stop
  <2>2. \A c \in Topics : Keeps(c)
    BY <1>1, <2>1, SameKeeps
  <2>3. PipesApart'
    BY <2>1 DEF PipesApart, Of
  <2>4. tcp \in [Sinks -> [1..MaxRequests -> Seq(Byte)]] /\ t \in Sinks
    BY <1>3 DEF KernelTypeOK, Threads
  <2>5. ASSUME NEW s \in Sinks, NEW id \in 1..MaxRequests
        PROVE  tcp'[s][id] = IF s = t THEN <<>> ELSE tcp[s][id]
    BY <2>1, <2>4
  <2>6. CASE Readable(t) # {}
    <3>1. losses \subseteq losses' /\ losses' # {}
      BY <1>1, <2>6
    <3>2. "pub" \in Topics /\ \A c \in Topics : Shortens(c)
      BY <2>2, KeepsShortens DEF Topics
    <3>3. QED
      BY <1>1, <2>2, <2>3, <2>5, <3>1, <3>2 DEF Drops
  <2>7. CASE Readable(t) = {}
    <3>1. \A id \in 1..MaxRequests : tcp[t][id] = <<>>
      BY <1>3, <2>4, <2>7 DEF Readable
    <3>2. losses' = losses
      BY <1>1, <2>1, <2>7
    <3>3. QED
      BY <1>1, <2>2, <2>3, <2>5, <3>1, <3>2 DEF Silent, SendsPrivately
  <2>8. QED
    BY <2>6, <2>7
<1>4. QED
  BY <1>2, <1>3

(* A step of the main thread, which may publish.                           *)
LEMMA ServerPosts ==
  ASSUME MainInv, KernelTypes, KernelTypeOK', PipesApart, Server
  PROVE  (Posts \/ Silent) /\ PipesApart'
<1>1. KernelTypeOK /\ TypeOK /\ CountsBounded
  BY DEF MainInv, IInv, KernelTypes, KernelTypeOK
<1>2. UNCHANGED <<wrote, tcp, joined, running, wire, seen>>
  BY DEF Server, streamVars
<1>3. log' = log \/ \E e \in Event : log' = Append(log, e)
  <2>1. [Next]_vars
    BY DEF Server, Next
  <2>2. SendsNothing \/ SendsForCur \/ \E s \in Sockets : Recv(s)
    BY <1>1, <2>1, LogSteps
  <2>3. QED
    BY <2>2 DEF SendsNothing, SendsForCur, Recv
<1>4. log \in Seq(Event) /\ Len(log) \in Nat
  BY <1>1 DEF TypeOK
<1>5. CASE ~Publishes /\ UNCHANGED <<pipe, losses>>
  <2>1. \A c \in Topics : Keeps(c)
    BY <1>1, <1>2, <1>5, SameKeeps
  <2>2. PipesApart'
    BY <1>5 DEF PipesApart, Of
  <2>3. SendsPrivately
    <3>1. ASSUME NEW e \in Event, log' = Append(log, e)
          PROVE  e.chan # "iopub"
      <4>1. Len(log') = Len(log) + 1 /\ log'[Len(log')] = e
        BY <1>4, <3>1
      <4>2. QED
        BY <1>4, <1>5, <4>1 DEF Publishes
    <3>2. QED
      BY <1>3, <3>1 DEF SendsPrivately
  <2>4. QED
    BY <1>2, <1>5, <2>1, <2>2, <2>3 DEF Silent
<1>6. CASE Publishes /\ Put("pub", PubMsg(log'[Len(log')], Len(log')))
  <2>1. PICK e \in Event : log' = Append(log, e)
    BY <1>3, <1>4, <1>6 DEF Publishes
  <2>2. log'[Len(log')] = e /\ Len(log') = Len(log) + 1
    BY <1>4, <2>1
  <2>3. Posts
    BY <1>2, <1>6, <2>1, <2>2 DEF Posts, Publishes
  <2>4. PubMsg(e, Len(log) + 1) \in Message /\ Of("pub", PubMsg(e, Len(log) + 1))
    <3>1. e.kind \in EventKinds /\ e.parent \in Request \cup {NoRequest}
      BY DEF Event
    <3>2. e.kind # "stream"
      BY <3>1 DEF EventKinds, OutputKinds
    <3>3. Len(log) + 1 \in Nat
      BY <1>4
    <3>4. QED
      BY <3>1, <3>2, <3>3 DEF PubMsg, Message, Of
  <2>5. Put("pub", PubMsg(e, Len(log) + 1)) /\ "pub" \in Topics
    BY <1>6, <2>2 DEF Topics
  <2>6. PipesApart'
    BY <1>1, <1>2, <2>4, <2>5, PutLines
  <2>7. QED
    BY <2>3, <2>6
<1>7. QED
  BY <1>5, <1>6 DEF Server

(* What a stream thread reads goes into its pipe, or is dropped.           *)
LEMMA StreamTakes ==
  ASSUME KernelTypeOK, NEW s \in Sinks, StreamOutErr(s)
  PROVE  /\ UNCHANGED <<vars, wrote, joined, running, wire, seen>>
         /\ \E id \in 1..MaxRequests : \E k \in 1..Len(tcp[s][id]) :
              /\ tcp' = [tcp EXCEPT ![s][id] = Rest(@, k)]
              /\ \/ \E parent \in Parents :
                      Put(s, StreamMsg(parent, s, SubSeq(tcp[s][id], 1, k)))
                 \/ losses' = losses \cup {"encoding"} /\ UNCHANGED pipe
<1>1. UNCHANGED <<vars, wrote, joined, running, wire, seen>>
  BY DEF StreamOutErr
<1>2. PICK id \in 1..MaxRequests : \E k \in 1..Len(tcp[s][id]) :
        LET text == SubSeq(tcp[s][id], 1, k) IN
        /\ tcp' = [tcp EXCEPT ![s][id] = Rest(@, k)]
        /\ IF Whole(text)
           THEN \E parent \in Parents : Put(s, StreamMsg(parent, s, text))
           ELSE losses' = losses \cup {"encoding"} /\ UNCHANGED pipe
  BY DEF StreamOutErr
<1>3. QED
  BY <1>1, <1>2

(* What readString takes makes a message.                                  *)
LEMMA TakenMessage ==
  ASSUME KernelTypeOK, NEW s \in Sinks, NEW id \in 1..MaxRequests,
         NEW k \in 1..Len(tcp[s][id]),
         tcp' = [tcp EXCEPT ![s][id] = Rest(@, k)],
         NEW parent \in Parents
  PROVE  StreamMsg(parent, s, SubSeq(tcp[s][id], 1, k)) \in Message
<1>1. SubSeq(tcp[s][id], 1, k) \in Seq(Byte)
  BY Taken
<1>2. parent \in Request \cup {NoRequest}
  BY DEF Parents, KernelTypeOK, TypeOK
<1>3. QED
  BY <1>1, <1>2 DEF StreamMsg, Message

(* Every step of the kernel is one of five kinds for the lines it carries. *)
LEMMA OutputSteps ==
  ASSUME MainInv, KernelTypes, KernelTypeOK', PipesApart, [KernelNext]_kernelVars
  PROVE  /\ PipesApart'
         /\ \/ Silent \/ Drops \/ Posts
            \/ \E s \in Sinks, glyph \in Glyphs : UserWrites(s, glyph)
            \/ \E s \in Sinks : StreamOutErr(s)
<1>0. KernelTypeOK /\ PassReadable
  BY DEF KernelTypes
<1>1. CASE Server
  BY <1>1, ServerPosts
<1>2. ASSUME NEW s \in Sinks, NEW glyph \in Glyphs, UserWrites(s, glyph)
      PROVE  PipesApart'
  BY <1>2 DEF UserWrites, outVars, PipesApart, Of
<1>3. ASSUME pipe' = pipe, UNCHANGED <<log, wrote, tcp, losses>>,
             \A c \in Topics : Keeps(c)
      PROVE  Silent /\ PipesApart'
  BY <1>3 DEF Silent, SendsPrivately, PipesApart, Of
<1>4. CASE \/ \E sub \in Subscriptions : Join(sub)
           \/ \E t \in Threads : StartPass(t)
           \/ UNCHANGED kernelVars
  <2>1. UNCHANGED <<vars, streamVars, outVars>>
    BY <1>4 DEF Join, StartPass, kernelVars
  <2>2. UNCHANGED <<log, wrote, tcp, losses, pipe, seen, wire>>
    BY <2>1 DEF vars, streamVars, outVars
  <2>3. QED
    BY <1>0, <1>3, <2>2, SameKeeps
<1>5. ASSUME NEW t \in Threads, Stop(t)
      PROVE  (Drops \/ Silent) /\ PipesApart'
  BY <1>0, <1>5, StopDrops
<1>6. CASE Crash
  BY <1>0, <1>6, CrashDrops
<1>7. CASE Deliver
  <2>1. UNCHANGED <<log, wrote, tcp, losses, pipe>>
    BY <1>7 DEF Deliver, vars, streamVars
  <2>2. QED
    BY <1>0, <1>3, <1>7, <2>1, DeliverKeeps
<1>8. ASSUME NEW d \in Topics, Forward(d)
      PROVE  Silent /\ PipesApart'
  <2>1. UNCHANGED <<log, wrote, tcp, losses>>
    BY <1>8 DEF Forward, vars, streamVars
  <2>2. \A c \in Topics : Keeps(c)
    BY <1>0, <1>8, ForwardKeeps
  <2>3. ASSUME NEW c \in Topics, NEW i \in DOMAIN pipe'[c]
        PROVE  Of(c, pipe'[c][i])
    <3>1. \/ pipe'[c] = pipe[c]
          \/ i + 1 \in DOMAIN pipe[c] /\ pipe'[c][i] = pipe[c][i + 1]
      BY <1>0, <1>8, Forwarded
    <3>2. QED
      BY <3>1 DEF PipesApart
  <2>4. PipesApart'
    BY <2>3 DEF PipesApart, Of
  <2>5. QED
    BY <2>1, <2>2, <2>4 DEF Silent, SendsPrivately
<1>9. ASSUME NEW s \in Sinks, StreamOutErr(s)
      PROVE  PipesApart'
  <2>1. PICK id \in 1..MaxRequests : \E k \in 1..Len(tcp[s][id]) :
           /\ tcp' = [tcp EXCEPT ![s][id] = Rest(@, k)]
           /\ \/ \E parent \in Parents :
                   Put(s, StreamMsg(parent, s, SubSeq(tcp[s][id], 1, k)))
              \/ losses' = losses \cup {"encoding"} /\ UNCHANGED pipe
    BY <1>0, <1>9, StreamTakes
  <2>2. PICK k \in 1..Len(tcp[s][id]) :
           /\ tcp' = [tcp EXCEPT ![s][id] = Rest(@, k)]
           /\ \/ \E parent \in Parents :
                   Put(s, StreamMsg(parent, s, SubSeq(tcp[s][id], 1, k)))
              \/ losses' = losses \cup {"encoding"} /\ UNCHANGED pipe
    BY <2>1
  <2>3. CASE UNCHANGED pipe
    BY <2>3 DEF PipesApart, Of
  <2>4. ASSUME NEW parent \in Parents,
               Put(s, StreamMsg(parent, s, SubSeq(tcp[s][id], 1, k)))
        PROVE  PipesApart'
    <3>1. StreamMsg(parent, s, SubSeq(tcp[s][id], 1, k)) \in Message
      BY <1>0, <2>2, TakenMessage
    <3>2. Of(s, StreamMsg(parent, s, SubSeq(tcp[s][id], 1, k))) /\ s \in Topics
      BY DEF Of, StreamMsg, Topics
    <3>3. UNCHANGED <<seen, wire>>
      BY <1>9 DEF StreamOutErr
    <3>4. QED
      BY <1>0, <2>4, <3>1, <3>2, <3>3, PutLines
  <2>5. QED
    BY <2>2, <2>3, <2>4
<1>10. QED
  BY <1>1, <1>2, <1>4, <1>5, <1>6, <1>7, <1>8, <1>9
  DEF KernelNext, ThreadStep, AtRest

\* what the proofs below rest on
OutInv == MainInv /\ KernelTypes /\ PipesApart

(* Every step keeps what the proofs rest on.                               *)
LEMMA OutNext == OutInv /\ [KernelNext]_kernelVars => OutInv'
<1> SUFFICES ASSUME OutInv, [KernelNext]_kernelVars
             PROVE  OutInv'
  OBVIOUS
<1>1. MainInv'
  BY MainNext DEF OutInv
<1>2. KernelTypes'
  BY <1>1, KernelTypesNext DEF OutInv
<1>3. PipesApart'
  BY <1>2, OutputSteps DEF OutInv, KernelTypes
<1>4. QED
  BY <1>1, <1>2, <1>3 DEF OutInv

(* A pipe from a thread holds its own lines only, each of which that       *)
(* thread could have sent.                                                 *)
THEOREM OutHolds == KernelSpec => []OutInv
<1>1. KernelInit => PipesApart
  BY DEF KernelInit, PipesApart
<1>2. OutInv <=> MainInv /\ KernelTypes /\ PipesApart
  BY DEF OutInv
<1>3. PipesApart /\ MainInv /\ KernelTypes /\ [KernelNext]_kernelVars => PipesApart'
  BY OutNext DEF OutInv
<1>4. QED
  BY <1>1, <1>2, <1>3, MainHolds, KernelTypesHold, PTL DEF KernelSpec

-----------------------------------------------------------------------------
(* The text of one stream: it is printed into connections, read from them  *)
(* and put into messages.                                                  *)

\* the connections of stream s hold what they held, but for some beginning
Shrinks(s) ==
  /\ wrote'[s] = wrote[s]
  /\ \A id \in 1..MaxRequests : \E k \in Nat : \A j \in DOMAIN tcp'[s][id] :
       j + k \in DOMAIN tcp[s][id] /\ tcp'[s][id][j] = tcp[s][id][j + k]

\* the stream's text stays where it is
Rests(s) ==
  /\ wrote'[s] = wrote[s] /\ losses' = losses
  /\ \A id \in 1..MaxRequests : tcp'[s][id] = tcp[s][id]
  /\ Keeps(s)

\* some of its text is lost
Loses(s) ==
  /\ Shrinks(s) /\ Shortens(s)
  /\ losses \subseteq losses' /\ losses' # {}

\* the request in hand prints bytes
PrintsOn(s, bytes) ==
  /\ pc \in {"eval", "handler"} /\ log' = log /\ cur' = cur /\ cur \in Request
  /\ cur.id \in 1..MaxRequests
  /\ Len(bytes) \in {1, 2}
  /\ \A k \in DOMAIN bytes :
       bytes[k].by = cur.id /\ bytes[k].n = wrote[s] + k
  /\ wrote'[s] = wrote[s] + Len(bytes) /\ losses' = losses
  /\ tcp'[s][cur.id] = tcp[s][cur.id] \o bytes
  /\ \A id \in 1..MaxRequests : id # cur.id => tcp'[s][id] = tcp[s][id]
  /\ Keeps(s)

\* the first k bytes of a connection are sent on
SendsOn(s, id, k, parent) ==
  /\ log' = log /\ cur' = cur
  /\ wrote'[s] = wrote[s] /\ losses' = losses
  /\ k \in 1..Len(tcp[s][id])
  /\ \A j \in DOMAIN tcp'[s][id] :
       /\ j \in Nat /\ j >= 1
       /\ j + k \in DOMAIN tcp[s][id] /\ tcp'[s][id][j] = tcp[s][id][j + k]
  /\ \A j \in DOMAIN tcp[s][id] : j > k => j - k \in DOMAIN tcp'[s][id]
  /\ \A d \in 1..MaxRequests : d # id => tcp'[s][d] = tcp[s][d]
  /\ Adds(s, StreamMsg(parent, s, SubSeq(tcp[s][id], 1, k)))

(* Text that rests or is sent on leaves what is behind it.                 *)
LEMMA RestsShrinks ==
  ASSUME KernelTypeOK, NEW s \in Sinks, wrote'[s] = wrote[s],
         \A id \in 1..MaxRequests : tcp'[s][id] \in {tcp[s][id], <<>>}
  PROVE  Shrinks(s)
<1>1. tcp[s] \in [1..MaxRequests -> Seq(Byte)]
  BY DEF KernelTypeOK
<1>2. ASSUME NEW id \in 1..MaxRequests
      PROVE  \E k \in Nat : \A j \in DOMAIN tcp'[s][id] :
               j + k \in DOMAIN tcp[s][id] /\ tcp'[s][id][j] = tcp[s][id][j + k]
  <2>1. tcp[s][id] \in Seq(Byte)
    BY <1>1
  <2>2. CASE tcp'[s][id] = tcp[s][id]
    <3>1. \A j \in DOMAIN tcp[s][id] : j + 0 = j
      BY <2>1
    <3>2. QED
      BY <2>2, <3>1
  <2>3. CASE tcp'[s][id] = <<>>
    <3>1. DOMAIN tcp'[s][id] = {}
      BY <2>3
    <3>2. QED
      BY <3>1
  <2>4. QED
    BY <2>2, <2>3
<1>3. QED
  BY <1>2 DEF Shrinks

(* To a stream every step is one of four: it rests, loses, is printed on   *)
(* or sends.                                                               *)
LEMMA TextSteps ==
  ASSUME OutInv, OutInv', [KernelNext]_kernelVars, NEW s \in Sinks
  PROVE  \/ Rests(s)
         \/ Loses(s)
         \/ \E bytes \in Seq(Byte) : PrintsOn(s, bytes)
         \/ \E id \in 1..MaxRequests : \E k \in 1..Len(tcp[s][id]) :
              \E parent \in Parents : SendsOn(s, id, k, parent)
<1>0. /\ MainInv /\ KernelTypes /\ KernelTypeOK /\ Served /\ PipesApart
      /\ KernelTypeOK'
      /\ tcp \in [Sinks -> [1..MaxRequests -> Seq(Byte)]]
      /\ wrote \in [Sinks -> 0..MaxWrites]
      /\ s \in Topics /\ s # "pub"
  BY SinksAssumption DEF OutInv, KernelTypes, KernelTypeOK, Topics, Streams
<1>1. CASE Silent
  BY <1>0, <1>1 DEF Silent, Rests
<1>2. CASE Drops
  BY <1>0, <1>2, RestsShrinks DEF Drops, Loses
<1>3. CASE Posts
  <2>1. /\ UNCHANGED <<wrote, tcp, seen, wire>>
        /\ \E e \in Event : log' = Append(log, e)
        /\ Put("pub", PubMsg(log'[Len(log')], Len(log')))
    BY <1>3 DEF Posts
  <2>2. PICK e \in Event : log' = Append(log, e)
    BY <2>1
  <2>3. log \in Seq(Event)
    BY <1>0 DEF KernelTypeOK, TypeOK
  <2>4. Len(log') = Len(log) + 1 /\ log'[Len(log')] = e /\ Len(log') \in Nat
    BY <2>2, <2>3
  <2>5. e.kind \in EventKinds /\ e.parent \in Request \cup {NoRequest}
    BY DEF Event
  <2>6. e.kind # "stream"
    BY <2>5 DEF EventKinds, OutputKinds
  <2>7. PubMsg(e, Len(log')) \in Message /\ Of("pub", PubMsg(e, Len(log')))
    BY <2>4, <2>5, <2>6 DEF PubMsg, Message, Of
  <2>8. "pub" \in Topics /\ Put("pub", PubMsg(e, Len(log')))
    BY <2>1, <2>4 DEF Topics
  <2>9. Keeps(s) /\ (losses' = losses \/ (losses \subseteq losses' /\ losses' # {}))
    BY <1>0, <2>1, <2>7, <2>8, PutLines
  <2>10. Shrinks(s)
    BY <1>0, <2>1, RestsShrinks
  <2>11. QED
    BY <2>1, <2>9, <2>10, KeepsShortens DEF Rests, Loses
<1>4. ASSUME NEW u \in Sinks, NEW glyph \in Glyphs, UserWrites(u, glyph)
      PROVE  Rests(s) \/ \E bytes \in Seq(Byte) : PrintsOn(s, bytes)
  <2>1. /\ pc \in {"eval", "handler"} /\ cur \in Request /\ cur.id \in 1..MaxRequests
        /\ UNCHANGED <<vars, threadVars, outVars>>
    BY <1>0, <1>4, PrintedBytes
  <2>2. PICK bytes \in Seq(Byte) :
              /\ Len(bytes) \in {1, 2}
              /\ wrote[u] + Len(bytes) <= MaxWrites
              /\ \A k \in DOMAIN bytes :
                   bytes[k].by = cur.id /\ bytes[k].n = wrote[u] + k
              /\ wrote' = [wrote EXCEPT ![u] = @ + Len(bytes)]
              /\ tcp' = [tcp EXCEPT ![u][cur.id] = @ \o bytes]
    BY <1>0, <1>4, PrintedBytes
  <2>3. /\ pipe' = pipe /\ losses' = losses /\ log' = log /\ cur' = cur
        /\ UNCHANGED <<seen, wire>>
    BY <2>1 DEF outVars, vars
  <2>4. Keeps(s)
    BY <1>0, <2>3, SameKeeps
  <2>5. CASE u # s
    <3>1. wrote'[s] = wrote[s] /\ tcp'[s] = tcp[s]
      BY <1>0, <2>2, <2>5
    <3>2. QED
      BY <2>3, <2>4, <3>1 DEF Rests
  <2>6. CASE u = s
    <3>1. wrote'[s] = wrote[s] + Len(bytes)
      BY <1>0, <2>2, <2>6
    <3>2. /\ tcp[s] \in [1..MaxRequests -> Seq(Byte)]
          /\ tcp'[s] = [tcp[s] EXCEPT ![cur.id] = @ \o bytes]
      BY <1>0, <2>2, <2>6
    <3>3. /\ tcp'[s][cur.id] = tcp[s][cur.id] \o bytes
          /\ \A id \in 1..MaxRequests : id # cur.id => tcp'[s][id] = tcp[s][id]
      BY <2>1, <3>2
    <3>4. PrintsOn(s, bytes)
      <4>1. /\ Len(bytes) \in {1, 2}
            /\ \A k \in DOMAIN bytes :
                 bytes[k].by = cur.id /\ bytes[k].n = wrote[s] + k
        BY <2>2, <2>6
      <4>2. QED
        BY <2>1, <2>3, <2>4, <3>1, <3>3, <4>1, Zenon DEF PrintsOn
    <3>5. QED
      BY <3>4
  <2>7. QED
    BY <2>5, <2>6
<1>5. ASSUME NEW u \in Sinks, StreamOutErr(u)
      PROVE  \/ Rests(s) \/ Loses(s)
             \/ \E id \in 1..MaxRequests : \E k \in 1..Len(tcp[s][id]) :
                  \E parent \in Parents : SendsOn(s, id, k, parent)
  <2>1. /\ UNCHANGED <<vars, wrote, joined, running, wire, seen>>
        /\ \E id \in 1..MaxRequests : \E k \in 1..Len(tcp[u][id]) :
             /\ tcp' = [tcp EXCEPT ![u][id] = Rest(@, k)]
             /\ \/ \E parent \in Parents :
                     Put(u, StreamMsg(parent, u, SubSeq(tcp[u][id], 1, k)))
                \/ losses' = losses \cup {"encoding"} /\ UNCHANGED pipe
    BY <1>0, <1>5, StreamTakes
  <2>2. PICK id \in 1..MaxRequests : \E k \in 1..Len(tcp[u][id]) :
             /\ tcp' = [tcp EXCEPT ![u][id] = Rest(@, k)]
             /\ \/ \E parent \in Parents :
                     Put(u, StreamMsg(parent, u, SubSeq(tcp[u][id], 1, k)))
                \/ losses' = losses \cup {"encoding"} /\ UNCHANGED pipe
    BY <2>1
  <2>3. PICK k \in 1..Len(tcp[u][id]) :
             /\ tcp' = [tcp EXCEPT ![u][id] = Rest(@, k)]
             /\ \/ \E parent \in Parents :
                     Put(u, StreamMsg(parent, u, SubSeq(tcp[u][id], 1, k)))
                \/ losses' = losses \cup {"encoding"} /\ UNCHANGED pipe
    BY <2>2
  <2>4. log' = log /\ cur' = cur
    BY <2>1 DEF vars
  <2>5. /\ k \in Nat /\ k >= 1
        /\ \A j \in DOMAIN tcp'[u][id] :
             /\ j \in Nat /\ j >= 1
             /\ j + k \in DOMAIN tcp[u][id] /\ tcp'[u][id][j] = tcp[u][id][j + k]
        /\ \A j \in DOMAIN tcp[u][id] : j > k => j - k \in DOMAIN tcp'[u][id]
        /\ \A v \in Sinks, d \in 1..MaxRequests :
             v # u \/ d # id => tcp'[v][d] = tcp[v][d]
    <3>1. KernelTypeOK /\ tcp' = [tcp EXCEPT ![u][id] = Rest(@, k)]
      BY <1>0, <2>3
    <3>2. Shortened(u, id, k)
      BY <3>1, Taken
    <3>3. QED
      BY <3>2 DEF Shortened
  <2>6. wrote'[s] = wrote[s]
    BY <2>1
  <2>7. Shrinks(s)
    <3>1. ASSUME NEW d \in 1..MaxRequests
          PROVE  \E q \in Nat : \A j \in DOMAIN tcp'[s][d] :
                   j + q \in DOMAIN tcp[s][d] /\ tcp'[s][d][j] = tcp[s][d][j + q]
      <4>1. CASE u = s /\ d = id
        BY <2>5, <4>1
      <4>2. CASE u # s \/ d # id
        <5>1. tcp'[s][d] = tcp[s][d] /\ tcp[s] \in [1..MaxRequests -> Seq(Byte)]
          BY <1>0, <2>5, <4>2
        <5>2. \A j \in DOMAIN tcp[s][d] : j + 0 = j
          BY <5>1
        <5>3. QED
          BY <5>1, <5>2
      <4>3. QED
        BY <4>1, <4>2
    <3>2. QED
      BY <2>6, <3>1 DEF Shrinks
  <2>8. CASE losses' = losses \cup {"encoding"} /\ UNCHANGED pipe
    <3>1. Keeps(s)
      BY <1>0, <2>1, <2>8, SameKeeps
    <3>2. QED
      BY <2>7, <2>8, <3>1, KeepsShortens DEF Loses
  <2>9. ASSUME NEW parent \in Parents,
               Put(u, StreamMsg(parent, u, SubSeq(tcp[u][id], 1, k)))
        PROVE  Rests(s) \/ Loses(s) \/ (u = s /\ SendsOn(s, id, k, parent))
    <3> DEFINE m == StreamMsg(parent, u, SubSeq(tcp[u][id], 1, k))
    <3>1. m \in Message
      BY <1>0, <2>3, TakenMessage
    <3>2. Of(u, m) /\ u \in Topics
      BY DEF Of, StreamMsg, Topics
    <3> HIDE DEF m
    <3>3. /\ \A d \in Topics \ {u} : Keeps(d)
          /\ \/ Adds(u, m) /\ losses' = losses
             \/ Keeps(u) /\ losses \subseteq losses' /\ losses' # {}
      BY <1>0, <2>1, <2>9, <3>1, <3>2, PutLines DEF m
    <3>4. losses' = losses \/ (losses \subseteq losses' /\ losses' # {})
      BY <3>3
    <3>5. CASE Keeps(s)
      <4>1. CASE losses \subseteq losses' /\ losses' # {}
        BY <2>7, <3>5, <4>1, KeepsShortens DEF Loses
      <4>2. CASE losses' = losses /\ u # s
        BY <2>5, <2>6, <3>5, <4>2 DEF Rests
      <4>3. CASE losses' = losses /\ u = s /\ Adds(u, m)
        BY <2>3, <2>4, <2>5, <2>6, <4>3 DEF SendsOn, m
      <4>4. QED
        BY <3>3, <3>4, <4>1, <4>2, <4>3
    <3>6. CASE ~Keeps(s)
      <4>1. u = s /\ Adds(u, m) /\ losses' = losses
        BY <1>0, <3>3, <3>6
      <4>2. QED
        BY <2>3, <2>4, <2>5, <2>6, <4>1 DEF SendsOn, m
    <3>7. QED
      BY <3>5, <3>6
  <2>10. QED
    BY <2>3, <2>8, <2>9
<1>6. QED
  BY <1>0, <1>1, <1>2, <1>3, <1>4, <1>5, OutputSteps

(* A read takes text from the front of its connection.                     *)
LEMMA SendsShrinks ==
  ASSUME KernelTypeOK, NEW s \in Sinks, NEW id \in 1..MaxRequests,
         NEW k \in 1..Len(tcp[s][id]), NEW parent, SendsOn(s, id, k, parent)
  PROVE  Shrinks(s)
<1>1. ASSUME NEW d \in 1..MaxRequests
      PROVE  \E q \in Nat : \A j \in DOMAIN tcp'[s][d] :
               j + q \in DOMAIN tcp[s][d] /\ tcp'[s][d][j] = tcp[s][d][j + q]
  <2>1. CASE d = id
    <3>1. k \in Nat
      OBVIOUS
    <3>2. QED
      BY <2>1, <3>1 DEF SendsOn
  <2>2. CASE d # id
    <3>1. tcp'[s][d] = tcp[s][d] /\ tcp[s] \in [1..MaxRequests -> Seq(Byte)]
      BY <2>2 DEF SendsOn, KernelTypeOK
    <3>2. tcp[s][d] \in Seq(Byte)
      BY <3>1
    <3>3. \A j \in DOMAIN tcp[s][d] : j + 0 = j
      BY <3>2
    <3>4. QED
      BY <3>1, <3>3
  <2>3. QED
    BY <2>1, <2>2
<1>2. QED
  BY <1>1 DEF SendsOn, Shrinks

(* The elements of a concatenation are those of its parts.                 *)
LEMMA Concatenated ==
  ASSUME NEW S, NEW a \in Seq(S), NEW b \in Seq(S)
  PROVE  /\ Len(a) \in Nat /\ Len(a \o b) = Len(a) + Len(b)
         /\ \A i \in DOMAIN a : i \in DOMAIN (a \o b) /\ (a \o b)[i] = a[i]
         /\ \A i \in DOMAIN b : Len(a) + i \in DOMAIN (a \o b)
                                /\ (a \o b)[Len(a) + i] = b[i]
         /\ \A i \in DOMAIN (a \o b) :
              \/ i \in DOMAIN a /\ (a \o b)[i] = a[i]
              \/ i - Len(a) \in DOMAIN b /\ (a \o b)[i] = b[i - Len(a)]
OBVIOUS

(* The empty header of _cur_msg is no request's.                           *)
LEMMA NoRequestIsNone == NoRequest \notin Request
BY DEF NoRequest, Request

(* A stream's messages are text.                                           *)
LEMMA StreamText ==
  ASSUME NEW s \in Sinks, NEW m \in Message, Of(s, m)
  PROVE  /\ m.kind = "stream" /\ m.name = s /\ m.text \in Seq(Byte)
         /\ m.parent \in Request \cup {NoRequest}
<1>1. s # "pub"
  BY SinksAssumption DEF Streams
<1>2. "stream" \notin EventKinds
  BY DEF EventKinds, OutputKinds
<1>3. m.kind = "stream" /\ m.name = s
  BY <1>1 DEF Of
<1>4. QED
  BY <1>2, <1>3 DEF Message

(* The messages of a stream are places of its line.                        *)
LEMMA TextAtPlaces ==
  ASSUME KernelTypeOK, NEW s \in Sinks
  PROVE  /\ At(s) = TextAt(s)
         /\ \A i \in At(s) : /\ i \in Nat /\ i >= 1 /\ i <= Len(OnTheWay(s))
                             /\ OnTheWay(s)[i] \in Message
                             /\ OnTheWay(s)[i].text \in Seq(Byte)
<1>1. /\ seen \in Seq(Message) /\ wire \in Seq(Message) /\ pipe[s] \in Seq(Message)
  BY DEF KernelTypeOK, Topics
<1>2. seen \o wire \o pipe[s] \in Seq(Message)
  <2>1. seen \o wire \in Seq(Message)
    BY <1>1
  <2>2. QED
    BY <1>1, <2>1
<1>3. OnTheWay(s) \in Seq(Message)
  BY <1>2 DEF OnTheWay
<1>4. \A i \in DOMAIN OnTheWay(s) :
        /\ i \in Nat /\ i >= 1 /\ i <= Len(OnTheWay(s))
        /\ OnTheWay(s)[i] \in Message
  BY <1>3
<1>5. \A i \in DOMAIN OnTheWay(s) :
        Of(s, OnTheWay(s)[i]) => /\ OnTheWay(s)[i].kind = "stream"
                                 /\ OnTheWay(s)[i].name = s
                                 /\ OnTheWay(s)[i].text \in Seq(Byte)
  BY <1>4, StreamText
<1>6. \A i \in DOMAIN OnTheWay(s) :
        OnTheWay(s)[i].kind = "stream" /\ OnTheWay(s)[i].name = s
          => Of(s, OnTheWay(s)[i])
  BY DEF Of
<1>7. QED
  BY <1>4, <1>5, <1>6 DEF At, TextAt

\* the step adds, at place last, a message with the first k bytes of connection id
SentAt(s, id, k, parent, last) ==
  /\ \A i \in At(s) : i < last
  /\ \A i \in At(s)' : i = last \/ i \in At(s)
  /\ \A i \in At(s) : i \in At(s)' /\ OnTheWay(s)'[i] = OnTheWay(s)[i]
  /\ last \in At(s)'
  /\ OnTheWay(s)'[last].parent = parent
  /\ DOMAIN OnTheWay(s)'[last].text = 1..k
  /\ \A a \in 1..k : /\ a \in DOMAIN tcp[s][id]
                     /\ OnTheWay(s)'[last].text[a] = tcp[s][id][a]

(* What a message that is sent on holds, and where it is.                  *)
LEMMA SentMessage ==
  ASSUME KernelTypeOK, KernelTypeOK', NEW s \in Sinks, NEW id \in 1..MaxRequests,
         NEW k \in 1..Len(tcp[s][id]), NEW parent, SendsOn(s, id, k, parent)
  PROVE  \E last \in Nat : SentAt(s, id, k, parent, last)
<1> DEFINE old == OnTheWay(s)
           text == SubSeq(tcp[s][id], 1, k)
           last == Len(old) + 1
<1>0. s \in Topics
  BY DEF Topics
<1>1. /\ Len(OnTheWay(s)') = last
      /\ \A i \in DOMAIN old : OnTheWay(s)'[i] = old[i]
      /\ OnTheWay(s)'[last] = StreamMsg(parent, s, text)
      /\ Of(s, StreamMsg(parent, s, text))
  BY DEF SendsOn, Adds
<1>2. Len(old) \in Nat /\ DOMAIN old = 1..Len(old)
  BY <1>0, LineBefore DEF Laid
<1>3. DOMAIN OnTheWay(s)' = 1..Len(OnTheWay(s)')
  BY <1>0, LineAfter DEF Laid
<1>4. /\ DOMAIN text = 1..k
      /\ \A a \in 1..k : a \in DOMAIN tcp[s][id] /\ text[a] = tcp[s][id][a]
  <2>1. tcp[s] \in [1..MaxRequests -> Seq(Byte)]
    BY DEF KernelTypeOK
  <2>2. tcp[s][id] \in Seq(Byte)
    BY <2>1
  <2>3. QED
    BY <2>2
<1>5. /\ OnTheWay(s)'[last].parent = parent
      /\ OnTheWay(s)'[last].text = text
  <2> HIDE DEF last, text
  <2>1. QED
    BY <1>1 DEF StreamMsg
<1> HIDE DEF text
<1>6. At(s) = {i \in DOMAIN old : Of(s, old[i])}
  BY DEF At
<1>7. At(s)' = {i \in DOMAIN OnTheWay(s)' : Of(s, OnTheWay(s)'[i])}
  BY DEF At, Of
<1> HIDE DEF old
<1>8. /\ last \in Nat
      /\ \A i \in DOMAIN old : i < last /\ i \in DOMAIN OnTheWay(s)'
      /\ \A i \in DOMAIN OnTheWay(s)' : i = last \/ i \in DOMAIN old
      /\ last \in DOMAIN OnTheWay(s)'
  BY <1>1, <1>2, <1>3
<1> HIDE DEF last
<1>9. \A i \in At(s) : /\ i < last /\ i \in At(s)'
                       /\ OnTheWay(s)'[i] = OnTheWay(s)[i]
  BY <1>1, <1>6, <1>7, <1>8 DEF old
<1>10. \A i \in At(s)' : i = last \/ i \in At(s)
  BY <1>1, <1>6, <1>7, <1>8
<1>11. last \in At(s)'
  BY <1>1, <1>7, <1>8
<1>12. SentAt(s, id, k, parent, last)
  BY <1>4, <1>5, <1>9, <1>10, <1>11 DEF SentAt
<1>13. QED
  BY <1>8, <1>12

-----------------------------------------------------------------------------
(* Printed text is never attributed backwards.                             *)

\* what the request with this id printed may be attributed to request p, given
\* what was sent
MayCarry(sends, p, id) ==
  /\ \E j \in DOMAIN sends : sends[j].parent.id = id
  /\ \A i \in DOMAIN sends :
       sends[i].parent = p => \E j \in 1..i : sends[j].parent.id = id

\* true of the request in hand for what is still to be read, and of its parent
\* for what is in a message
Attributed(s) ==
  /\ \A id \in 1..MaxRequests : \A k \in DOMAIN tcp[s][id] :
       MayCarry(log, cur, tcp[s][id][k].by)
  /\ \A i \in At(s) : \A a \in DOMAIN OnTheWay(s)[i].text :
       MayCarry(log, OnTheWay(s)[i].parent, OnTheWay(s)[i].text[a].by)

(* What is sent later is sent for a request that comes no earlier, and so  *)
(* does the next request in hand.                                          *)
LEMMA CarryNext ==
  ASSUME OutInv, [KernelNext]_kernelVars, NEW id
  PROVE  /\ \A p : MayCarry(log, p, id) => MayCarry(log', p, id)
         /\ MayCarry(log, cur, id) => MayCarry(log', cur', id)
<1>0. TypeOK /\ CountsBounded /\ FreshIds /\ log \in Seq(Event)
  BY DEF OutInv, MainInv, IInv, TypeOK
<1>1. ASSUME NEW e \in Event, log' = Append(log, e), NEW p, MayCarry(log, p, id)
      PROVE  MayCarry(log', p, id)
  <2>1. /\ DOMAIN log' = DOMAIN log \cup {Len(log) + 1}
        /\ \A k \in DOMAIN log : log'[k] = log[k]
    BY <1>0, <1>1, Appended
  <2>2. \A i \in DOMAIN log : 1..i \subseteq DOMAIN log
    BY <1>0
  <2>3. PICK first \in DOMAIN log : log[first].parent.id = id
    BY <1>1 DEF MayCarry
  <2>4. first \in 1..(Len(log) + 1)
    BY <1>0, <2>3
  <2>5. ASSUME NEW i \in DOMAIN log', log'[i].parent = p
        PROVE  \E j \in 1..i : log'[j].parent.id = id
    <3>1. CASE i \in DOMAIN log
      <4>1. PICK j \in 1..i : log[j].parent.id = id
        BY <1>1, <2>1, <2>5, <3>1 DEF MayCarry
      <4>2. QED
        BY <2>1, <2>2, <3>1, <4>1
    <3>2. CASE i = Len(log) + 1
      BY <2>1, <2>3, <2>4, <3>2
    <3>3. QED
      BY <2>1, <3>1, <3>2
  <2>6. QED
    BY <2>1, <2>3, <2>5 DEF MayCarry
<1>2. CASE SendsNothing
  BY <1>2 DEF SendsNothing
<1>3. CASE SendsForCur
  BY <1>1, <1>3 DEF SendsForCur
<1>4. ASSUME NEW s \in Sockets, Recv(s)
      PROVE  log' = log /\ \A i \in DOMAIN log : log[i].parent # cur'
  <2>1. /\ cur' = Head(inbox[s]) /\ log' = log /\ inbox[s] # <<>>
    BY <1>4 DEF Recv
  <2>2. inbox[s] \in Seq(Request)
    BY <1>0 DEF TypeOK
  <2>3. 1 \in DOMAIN inbox[s] /\ cur' = inbox[s][1]
    BY <2>1, <2>2
  <2>4. QED
    BY <1>0, <2>1, <2>3 DEF FreshIds
<1>5. ASSUME NEW s \in Sockets, Recv(s)
      PROVE  /\ \A p : MayCarry(log, p, id) => MayCarry(log', p, id)
             /\ MayCarry(log, cur, id) => MayCarry(log', cur', id)
  BY <1>4, <1>5 DEF MayCarry
<1>6. CASE Crash
  BY <1>6 DEF Crash, loopVars
<1>7. QED
  BY <1>0, <1>2, <1>3, <1>5, <1>6, MainSteps, LogSteps

(* Every step keeps the attribution.                                       *)
LEMMA AttributedNext ==
  ASSUME OutInv, OutInv', [KernelNext]_kernelVars, NEW s \in Sinks, Attributed(s)
  PROVE  Attributed(s)'
<1>0. /\ KernelTypeOK /\ KernelTypeOK' /\ Served
      /\ \A id \in 1..MaxRequests : \A k \in DOMAIN tcp[s][id] :
           MayCarry(log, cur, tcp[s][id][k].by)
      /\ \A i \in At(s) : \A a \in DOMAIN OnTheWay(s)[i].text :
           MayCarry(log, OnTheWay(s)[i].parent, OnTheWay(s)[i].text[a].by)
  BY DEF OutInv, KernelTypes, Attributed
<1>1. ASSUME NEW id, NEW p, MayCarry(log, p, id)
      PROVE  MayCarry(log', p, id)
  BY <1>1, CarryNext
<1>2. ASSUME NEW id, MayCarry(log, cur, id)
      PROVE  MayCarry(log', cur', id)
  BY <1>2, CarryNext
<1>3. ASSUME Shrinks(s)
      PROVE  \A id \in 1..MaxRequests : \A k \in DOMAIN tcp'[s][id] :
               MayCarry(log', cur', tcp'[s][id][k].by)
  BY <1>0, <1>2, <1>3 DEF Shrinks
<1>4. ASSUME NEW f, Follow(s, f)
      PROVE  \A i \in At(s)' : \A a \in DOMAIN OnTheWay(s)'[i].text :
               MayCarry(log', OnTheWay(s)'[i].parent, OnTheWay(s)'[i].text[a].by)
  BY <1>0, <1>1, <1>4 DEF Follow
<1>5. ASSUME \A id \in 1..MaxRequests : \A k \in DOMAIN tcp'[s][id] :
               MayCarry(log', cur', tcp'[s][id][k].by),
             \A i \in At(s)' : \A a \in DOMAIN OnTheWay(s)'[i].text :
               MayCarry(log', OnTheWay(s)'[i].parent, OnTheWay(s)'[i].text[a].by)
      PROVE  Attributed(s)'
  BY <1>5 DEF Attributed, MayCarry
<1>6. CASE Rests(s)
  <2>1. Shrinks(s)
    BY <1>0, <1>6, RestsShrinks DEF Rests
  <2>2. PICK f : Follow(s, f)
    BY <1>6 DEF Rests, Keeps
  <2>3. QED
    BY <1>3, <1>4, <1>5, <2>1, <2>2
<1>7. CASE Loses(s)
  <2>1. PICK f : Follow(s, f)
    BY <1>7 DEF Loses, Shortens
  <2>2. QED
    BY <1>3, <1>4, <1>5, <1>7, <2>1 DEF Loses
<1>8. ASSUME NEW bytes \in Seq(Byte), PrintsOn(s, bytes)
      PROVE  Attributed(s)'
  <2>1. PICK f : Follow(s, f)
    BY <1>8 DEF PrintsOn, Keeps
  <2>2. MayCarry(log', cur', cur.id)
    <3>1. PICK j \in DOMAIN log : log[j].parent = cur
      BY <1>0, <1>8 DEF PrintsOn, Served, Announced, Serving, Unanswered,
         Unvalued, Unannounced
    <3>2. \A i \in DOMAIN log : i \in 1..i
      <4>1. log \in Seq(Event)
        BY <1>0 DEF KernelTypeOK, TypeOK
      <4>2. QED
        BY <4>1
    <3>3. MayCarry(log, cur, cur.id)
      <4>1. \E i \in DOMAIN log : log[i].parent.id = cur.id
        BY <3>1
      <4>2. \A i \in DOMAIN log :
              log[i].parent = cur => \E l \in 1..i : log[l].parent.id = cur.id
        BY <3>2
      <4>3. QED
        BY <4>1, <4>2 DEF MayCarry
    <3>4. QED
      BY <1>8, <3>3 DEF PrintsOn
  <2>3. ASSUME NEW id \in 1..MaxRequests, NEW k \in DOMAIN tcp'[s][id]
        PROVE  MayCarry(log', cur', tcp'[s][id][k].by)
    <3>1. CASE id # cur.id
      <4>1. tcp'[s][id] = tcp[s][id]
        BY <1>8, <3>1 DEF PrintsOn
      <4>2. QED
        BY <1>0, <1>2, <4>1
    <3>2. CASE id = cur.id
      <4>1. tcp'[s][id] = tcp[s][id] \o bytes
        BY <1>8, <3>2 DEF PrintsOn
      <4>2. tcp[s] \in [1..MaxRequests -> Seq(Byte)]
        BY <1>0 DEF KernelTypeOK
      <4>3. tcp[s][id] \in Seq(Byte)
        BY <4>2
      <4>4. \/ k \in DOMAIN tcp[s][id] /\ tcp'[s][id][k] = tcp[s][id][k]
            \/ \E b \in DOMAIN bytes : tcp'[s][id][k] = bytes[b]
        BY <4>1, <4>3, Concatenated
      <4>5. \A b \in DOMAIN bytes : bytes[b].by = cur.id
        BY <1>8 DEF PrintsOn
      <4>6. QED
        BY <1>0, <1>2, <2>2, <4>4, <4>5
    <3>3. QED
      BY <3>1, <3>2
  <2>4. QED
    BY <1>4, <1>5, <2>1, <2>3
<1>9. ASSUME NEW id \in 1..MaxRequests, NEW k \in 1..Len(tcp[s][id]),
             NEW parent \in Parents, SendsOn(s, id, k, parent)
      PROVE  Attributed(s)'
  <2>1. Shrinks(s)
    BY <1>0, <1>9, SendsShrinks
  <2>sent. PICK last \in Nat : SentAt(s, id, k, parent, last)
    BY <1>0, <1>9, SentMessage
  <2>2. /\ \A i \in At(s)' : i = last \/ i \in At(s)
        /\ \A i \in At(s) : OnTheWay(s)'[i] = OnTheWay(s)[i]
        /\ OnTheWay(s)'[last].parent = parent
        /\ DOMAIN OnTheWay(s)'[last].text = 1..k
        /\ \A a \in 1..k : /\ a \in DOMAIN tcp[s][id]
                           /\ OnTheWay(s)'[last].text[a] = tcp[s][id][a]
    BY <2>sent DEF SentAt
  <2>3. ASSUME NEW b, MayCarry(log, cur, b)
        PROVE  MayCarry(log', parent, b)
    <3>1. CASE parent = cur
      BY <1>1, <2>3, <3>1
    <3>2. CASE parent = NoRequest
      <4>1. \A i \in DOMAIN log : log[i].parent # NoRequest
        BY <1>0, NoRequestIsNone DEF Served
      <4>2. MayCarry(log, parent, b)
        BY <2>3, <3>2, <4>1 DEF MayCarry
      <4>3. QED
        BY <1>1, <4>2
    <3>3. QED
      BY <3>1, <3>2 DEF Parents
  <2>4. ASSUME NEW i \in At(s)', NEW a \in DOMAIN OnTheWay(s)'[i].text
        PROVE  MayCarry(log', OnTheWay(s)'[i].parent, OnTheWay(s)'[i].text[a].by)
    <3>1. CASE i \in At(s)
      BY <1>0, <1>1, <2>2, <3>1
    <3>2. CASE i = last
      BY <1>0, <2>2, <2>3, <3>2
    <3>3. QED
      BY <2>2, <3>1, <3>2
  <2>5. QED
    BY <1>3, <1>5, <2>1, <2>4
<1>10. QED
  BY <1>6, <1>7, <1>8, <1>9, TextSteps

AllAttributed == \A s \in Sinks : Attributed(s)

(* Whatever the streams, cells and bytes, and whatever the race for        *)
(* _cur_msg: printed text is never attributed to an earlier request.       *)
THEOREM NotBackwards == KernelSpec => []NeverAttributedBackwards
<1>1. KernelInit => AllAttributed
  <2>1. ASSUME KernelInit, NEW s \in Sinks
        PROVE  Attributed(s)
    <3>1. \A id \in 1..MaxRequests : tcp[s][id] = <<>>
      <4>1. tcp[s] = [id \in 1..MaxRequests |-> <<>>]
        BY <2>1 DEF KernelInit
      <4>2. QED
        BY <4>1
    <3>2. pipe[s] = <<>> /\ seen = <<>> /\ wire = <<>>
      BY <2>1 DEF KernelInit, Topics
    <3>3. At(s) = {}
      BY <3>2 DEF At, OnTheWay
    <3>4. QED
      BY <3>1, <3>3 DEF Attributed
  <2>2. QED
    BY <2>1 DEF AllAttributed
<1>2. OutInv /\ OutInv' /\ AllAttributed /\ [KernelNext]_kernelVars => AllAttributed'
  BY AttributedNext DEF AllAttributed
<1>3. OutInv /\ AllAttributed => NeverAttributedBackwards
  <2>1. ASSUME OutInv, AllAttributed, NEW s \in Sinks, NEW i \in TextAt(s),
               NEW a \in DOMAIN OnTheWay(s)[i].text
        PROVE  NotBefore(OnTheWay(s)[i].parent, OnTheWay(s)[i].text[a].by)
    <3>1. i \in At(s)
      BY <2>1, TextAtPlaces DEF OutInv, KernelTypes
    <3>2. MayCarry(log, OnTheWay(s)[i].parent, OnTheWay(s)[i].text[a].by)
      BY <2>1, <3>1 DEF AllAttributed, Attributed
    <3>3. QED
      BY <3>2 DEF MayCarry, NotBefore
  <2>2. QED
    BY <2>1 DEF NeverAttributedBackwards
<1>4. QED
  BY <1>1, <1>2, <1>3, OutHolds, PTL DEF KernelSpec

-----------------------------------------------------------------------------
(* A cell's text stays in order.                                           *)

\* a connection holds what its cell printed, in that order
Queues(s) ==
  \A id \in 1..MaxRequests :
    /\ \A k \in DOMAIN tcp[s][id] :
         tcp[s][id][k].by = id /\ tcp[s][id][k].n <= wrote[s]
    /\ \A k, l \in DOMAIN tcp[s][id] :
         k < l => tcp[s][id][k].n < tcp[s][id][l].n

\* what was read from it before is in messages
ReadBefore(s) ==
  \A i \in At(s) : \A a \in DOMAIN OnTheWay(s)[i].text :
    /\ OnTheWay(s)[i].text[a].n <= wrote[s]
    /\ \A k \in DOMAIN tcp[s][OnTheWay(s)[i].text[a].by] :
         OnTheWay(s)[i].text[a].n < tcp[s][OnTheWay(s)[i].text[a].by][k].n

\* in that order
ReadInOrder(s) ==
  \A i, j \in At(s) :
    \A a \in DOMAIN OnTheWay(s)[i].text, b \in DOMAIN OnTheWay(s)[j].text :
      (i < j \/ (i = j /\ a < b))
        /\ OnTheWay(s)[i].text[a].by = OnTheWay(s)[j].text[b].by
          => OnTheWay(s)[i].text[a].n < OnTheWay(s)[j].text[b].n

Ordered(s) == Queues(s) /\ ReadBefore(s) /\ ReadInOrder(s)

(* The bytes of a stream, read or unread, have the types of a byte.        *)
LEMMA TextBytes ==
  ASSUME KernelTypeOK, NEW s \in Sinks
  PROVE  /\ \A i \in At(s) : \A a \in DOMAIN OnTheWay(s)[i].text :
              /\ a \in Nat /\ i \in Nat
              /\ OnTheWay(s)[i].text[a].by \in 1..MaxRequests
              /\ OnTheWay(s)[i].text[a].n \in 1..MaxWrites
         /\ \A id \in 1..MaxRequests :
              /\ tcp[s][id] \in Seq(Byte)
              /\ \A k \in DOMAIN tcp[s][id] :
                   /\ k \in Nat
                   /\ tcp[s][id][k].by \in 1..MaxRequests
                   /\ tcp[s][id][k].n \in 1..MaxWrites
         /\ wrote[s] \in Nat
<1>1. ASSUME NEW i \in At(s), NEW a \in DOMAIN OnTheWay(s)[i].text
      PROVE  /\ a \in Nat /\ i \in Nat
             /\ OnTheWay(s)[i].text[a].by \in 1..MaxRequests
             /\ OnTheWay(s)[i].text[a].n \in 1..MaxWrites
  <2>1. OnTheWay(s)[i].text \in Seq(Byte) /\ i \in Nat
    BY TextAtPlaces
  <2>2. a \in Nat /\ OnTheWay(s)[i].text[a] \in Byte
    BY <2>1
  <2>3. QED
    BY <2>1, <2>2 DEF Byte
<1>2. ASSUME NEW id \in 1..MaxRequests
      PROVE  /\ tcp[s][id] \in Seq(Byte)
             /\ \A k \in DOMAIN tcp[s][id] :
                  /\ k \in Nat
                  /\ tcp[s][id][k].by \in 1..MaxRequests
                  /\ tcp[s][id][k].n \in 1..MaxWrites
  <2>1. tcp[s] \in [1..MaxRequests -> Seq(Byte)]
    BY DEF KernelTypeOK
  <2>2. tcp[s][id] \in Seq(Byte)
    BY <2>1
  <2>3. \A k \in DOMAIN tcp[s][id] : k \in Nat /\ tcp[s][id][k] \in Byte
    BY <2>2
  <2>4. QED
    BY <2>2, <2>3 DEF Byte
<1>3. wrote[s] \in Nat
  <2>1. wrote \in [Sinks -> 0..MaxWrites]
    BY DEF KernelTypeOK
  <2>2. QED
    BY <2>1, MaxWritesAssumption
<1>4. QED
  BY <1>1, <1>2, <1>3


(* Text that moves on, or is lost from the ends, stays in order.           *)
LEMMA OrderKept ==
  ASSUME KernelTypeOK, KernelTypeOK', NEW s \in Sinks, Ordered(s),
         Shrinks(s), NEW f, Follow(s, f)
  PROVE  Ordered(s)'
<1>0. /\ \A id \in 1..MaxRequests : \A k \in DOMAIN tcp'[s][id] : k \in Nat
      /\ wrote'[s] = wrote[s]
      /\ \A i \in At(s)' : f[i] \in At(s) /\ OnTheWay(s)'[i] = OnTheWay(s)[f[i]]
      /\ \A i, j \in At(s)' : i < j => f[i] < f[j]
  <2>1. \A id \in 1..MaxRequests : \A k \in DOMAIN tcp'[s][id] : k \in Nat
    <3>1. ASSUME NEW id \in 1..MaxRequests, NEW k \in DOMAIN tcp'[s][id]
          PROVE  k \in Nat
      <4>1. tcp'[s] \in [1..MaxRequests -> Seq(Byte)]
        BY DEF KernelTypeOK
      <4>2. tcp'[s][id] \in Seq(Byte)
        BY <4>1
      <4>3. QED
        BY <4>2
    <3>2. QED
      BY <3>1
  <2>2. QED
    BY <2>1 DEF Shrinks, Follow
<1>1. Queues(s)'
  <2>1. ASSUME NEW id \in 1..MaxRequests
        PROVE  /\ \A k \in DOMAIN tcp'[s][id] :
                    tcp'[s][id][k].by = id /\ tcp'[s][id][k].n <= wrote'[s]
               /\ \A k, l \in DOMAIN tcp'[s][id] :
                    k < l => tcp'[s][id][k].n < tcp'[s][id][l].n
    <3>1. PICK q \in Nat : \A j \in DOMAIN tcp'[s][id] :
            j + q \in DOMAIN tcp[s][id] /\ tcp'[s][id][j] = tcp[s][id][j + q]
      BY DEF Shrinks
    <3>2. \A k, l \in DOMAIN tcp'[s][id] : k < l => k + q < l + q
      BY <1>0
    <3>3. QED
      BY <1>0, <3>1, <3>2 DEF Ordered, Queues
  <2>2. QED
    BY <2>1 DEF Queues
<1>2. ReadBefore(s)'
  <2>1. ASSUME NEW i \in At(s)', NEW a \in DOMAIN OnTheWay(s)'[i].text
        PROVE  /\ OnTheWay(s)'[i].text[a].n <= wrote'[s]
               /\ \A k \in DOMAIN tcp'[s][OnTheWay(s)'[i].text[a].by] :
                    OnTheWay(s)'[i].text[a].n
                      < tcp'[s][OnTheWay(s)'[i].text[a].by][k].n
    <3> DEFINE byte == OnTheWay(s)'[i].text[a]
    <3>1. f[i] \in At(s) /\ OnTheWay(s)'[i] = OnTheWay(s)[f[i]]
      BY <1>0
    <3>2. /\ byte.by \in 1..MaxRequests /\ byte.n <= wrote[s]
          /\ \A k \in DOMAIN tcp[s][byte.by] : byte.n < tcp[s][byte.by][k].n
      BY <3>1, TextBytes DEF Ordered, ReadBefore
    <3> HIDE DEF byte
    <3>3. PICK q \in Nat : \A j \in DOMAIN tcp'[s][byte.by] :
            /\ j + q \in DOMAIN tcp[s][byte.by]
            /\ tcp'[s][byte.by][j] = tcp[s][byte.by][j + q]
      BY <3>2 DEF Shrinks
    <3>4. byte.n <= wrote'[s]
          /\ \A k \in DOMAIN tcp'[s][byte.by] : byte.n < tcp'[s][byte.by][k].n
      BY <1>0, <3>2, <3>3
    <3>5. QED
      BY <3>4 DEF byte
  <2>2. QED
    BY <2>1 DEF ReadBefore
<1>3. ReadInOrder(s)'
  <2>1. ASSUME NEW i \in At(s)', NEW j \in At(s)',
               NEW a \in DOMAIN OnTheWay(s)'[i].text,
               NEW b \in DOMAIN OnTheWay(s)'[j].text,
               i < j \/ (i = j /\ a < b),
               OnTheWay(s)'[i].text[a].by = OnTheWay(s)'[j].text[b].by
        PROVE  OnTheWay(s)'[i].text[a].n < OnTheWay(s)'[j].text[b].n
    <3>1. /\ f[i] \in At(s) /\ OnTheWay(s)'[i] = OnTheWay(s)[f[i]]
          /\ f[j] \in At(s) /\ OnTheWay(s)'[j] = OnTheWay(s)[f[j]]
          /\ f[i] < f[j] \/ (f[i] = f[j] /\ a < b)
      BY <1>0, <2>1
    <3>2. QED
      BY <2>1, <3>1 DEF Ordered, ReadInOrder
  <2>2. QED
    BY <2>1 DEF ReadInOrder
<1>4. QED
  BY <1>1, <1>2, <1>3 DEF Ordered

(* Text that is printed comes after all that was printed before.           *)
LEMMA OrderPrinted ==
  ASSUME KernelTypeOK, KernelTypeOK', NEW s \in Sinks, Ordered(s),
         NEW bytes \in Seq(Byte), PrintsOn(s, bytes)
  PROVE  Ordered(s)'
<1> DEFINE id == cur.id
           z == Len(tcp[s][id])
<1>1. /\ id \in 1..MaxRequests /\ tcp[s][id] \in Seq(Byte)
      /\ tcp'[s][id] = tcp[s][id] \o bytes
  BY TextBytes DEF PrintsOn
<1>2. \A d \in 1..MaxRequests : d # id => tcp'[s][d] = tcp[s][d]
  BY DEF PrintsOn
<1>3. /\ wrote[s] \in Nat /\ wrote'[s] \in Nat /\ wrote[s] <= wrote'[s]
      /\ \A b \in DOMAIN bytes :
           /\ b \in Nat
           /\ bytes[b].by = id
           /\ bytes[b].n = wrote[s] + b
           /\ wrote[s] < bytes[b].n /\ bytes[b].n <= wrote'[s]
  <2>1. /\ wrote[s] \in Nat /\ wrote'[s] = wrote[s] + Len(bytes)
        /\ \A b \in DOMAIN bytes : bytes[b].by = id /\ bytes[b].n = wrote[s] + b
    BY TextBytes DEF PrintsOn
  <2>2. Len(bytes) \in Nat /\ \A b \in DOMAIN bytes : b \in 1..Len(bytes)
    OBVIOUS
  <2>3. QED
    BY <2>1, <2>2
<1>4. \A d \in 1..MaxRequests : \A k \in DOMAIN tcp[s][d] :
        /\ tcp[s][d][k].by = d /\ tcp[s][d][k].n <= wrote[s]
        /\ tcp[s][d][k].n \in Nat
  BY TextBytes DEF Ordered, Queues
<1>5. \A d \in 1..MaxRequests : \A k, l \in DOMAIN tcp[s][d] :
        k < l => tcp[s][d][k].n < tcp[s][d][l].n
  BY DEF Ordered, Queues
<1>6. /\ z \in Nat
      /\ \A k \in DOMAIN tcp[s][id] : k \in 1..z
      /\ \A k \in DOMAIN tcp'[s][id] :
           \/ k \in DOMAIN tcp[s][id] /\ tcp'[s][id][k] = tcp[s][id][k]
           \/ k - z \in DOMAIN bytes /\ tcp'[s][id][k] = bytes[k - z]
  <2> DEFINE old == tcp[s][id]
             new == tcp'[s][id]
  <2> HIDE DEF old, new
  <2>1. old \in Seq(Byte) /\ new = old \o bytes /\ z = Len(old)
    BY <1>1 DEF old, new
  <2> HIDE DEF z
  <2>2. Len(old) \in Nat /\ \A k \in DOMAIN old : k \in 1..Len(old)
    BY <2>1
  <2>3. \A k \in DOMAIN new :
          \/ k \in DOMAIN old /\ new[k] = old[k]
          \/ k - z \in DOMAIN bytes /\ new[k] = bytes[k - z]
    BY <2>1, Concatenated
  <2>4. QED
    BY <2>1, <2>2, <2>3 DEF old, new
<1>7. \A k \in DOMAIN tcp'[s][id] : k \in Nat
  <2>1. tcp'[s][id] \in Seq(Byte)
    BY <1>1, Joint
  <2>2. QED
    BY <2>1
<1>8. PICK f : Follow(s, f)
  BY DEF PrintsOn, Keeps
<1>9. /\ \A i \in At(s)' : f[i] \in At(s) /\ OnTheWay(s)'[i] = OnTheWay(s)[f[i]]
      /\ \A i, j \in At(s)' : i < j => f[i] < f[j]
  BY <1>8 DEF Follow
<1> HIDE DEF id, z
\* what the cell had printed before, and what it has printed now
<1>10. ASSUME NEW k \in DOMAIN tcp'[s][id]
       PROVE  \/ /\ k \in DOMAIN tcp[s][id] /\ tcp'[s][id][k] = tcp[s][id][k]
                 /\ k <= z /\ tcp'[s][id][k].n <= wrote[s]
              \/ /\ k - z \in DOMAIN bytes /\ tcp'[s][id][k] = bytes[k - z]
                 /\ k > z /\ tcp'[s][id][k].n = wrote[s] + (k - z)
  <2>1. k \in Nat
    BY <1>7
  <2>2. CASE k \in DOMAIN tcp[s][id] /\ tcp'[s][id][k] = tcp[s][id][k]
    <3>1. k \in 1..z /\ tcp[s][id][k].n <= wrote[s]
      BY <1>1, <1>4, <1>6, <2>2
    <3>2. QED
      BY <1>6, <2>2, <3>1
  <2>3. CASE k - z \in DOMAIN bytes /\ tcp'[s][id][k] = bytes[k - z]
    <3>1. k - z \in 1..Len(bytes)
      BY <2>3
    <3>2. k > z /\ bytes[k - z].n = wrote[s] + (k - z)
      BY <1>3, <1>6, <2>1, <2>3, <3>1
    <3>3. QED
      BY <2>3, <3>2
  <2>4. QED
    BY <1>6, <2>2, <2>3
<1>11. ASSUME NEW k \in DOMAIN tcp'[s][id]
       PROVE  tcp'[s][id][k].by = id /\ tcp'[s][id][k].n <= wrote'[s]
  <2>1. CASE k \in DOMAIN tcp[s][id] /\ tcp'[s][id][k] = tcp[s][id][k]
    <3>1. /\ tcp[s][id][k].by = id /\ tcp[s][id][k].n <= wrote[s]
          /\ tcp[s][id][k].n \in Nat
      BY <1>1, <1>4, <2>1
    <3>2. QED
      BY <1>3, <2>1, <3>1
  <2>2. CASE k - z \in DOMAIN bytes /\ tcp'[s][id][k] = bytes[k - z]
    BY <1>3, <2>2
  <2>3. QED
    BY <1>6, <2>1, <2>2
<1>12. ASSUME NEW k \in DOMAIN tcp'[s][id], NEW l \in DOMAIN tcp'[s][id], k < l
       PROVE  tcp'[s][id][k].n < tcp'[s][id][l].n
  <2>1. k \in Nat /\ l \in Nat
    BY <1>7
  <2>2. CASE l <= z
    <3>1. /\ k \in DOMAIN tcp[s][id] /\ tcp'[s][id][k] = tcp[s][id][k]
          /\ l \in DOMAIN tcp[s][id] /\ tcp'[s][id][l] = tcp[s][id][l]
      BY <1>6, <1>10, <1>12, <2>1, <2>2
    <3>2. QED
      BY <1>1, <1>5, <1>12, <3>1
  <2>3. CASE l > z
    <3>1. tcp'[s][id][l].n = wrote[s] + (l - z)
      BY <1>6, <1>10, <2>1, <2>3
    <3>2. CASE k > z
      <4>1. tcp'[s][id][k].n = wrote[s] + (k - z)
        BY <1>6, <1>10, <2>1, <3>2
      <4>2. QED
        BY <1>3, <1>6, <1>12, <2>1, <3>1, <4>1
    <3>3. CASE k <= z
      <4>1. k \in DOMAIN tcp[s][id] /\ tcp'[s][id][k] = tcp[s][id][k]
        BY <1>6, <1>10, <2>1, <3>3
      <4>2. tcp[s][id][k].n \in Nat /\ tcp[s][id][k].n <= wrote[s]
        BY <1>1, <1>4, <4>1
      <4>3. QED
        BY <1>3, <1>6, <2>1, <2>3, <3>1, <4>1, <4>2
    <3>4. QED
      BY <1>6, <2>1, <3>2, <3>3
  <2>4. QED
    BY <1>6, <2>1, <2>2, <2>3
<1>13. Queues(s)'
  <2>1. ASSUME NEW d \in 1..MaxRequests, d # id
        PROVE  /\ \A k \in DOMAIN tcp'[s][d] :
                    tcp'[s][d][k].by = d /\ tcp'[s][d][k].n <= wrote'[s]
               /\ \A k, l \in DOMAIN tcp'[s][d] :
                    k < l => tcp'[s][d][k].n < tcp'[s][d][l].n
    <3>1. tcp'[s][d] = tcp[s][d]
      BY <1>2, <2>1
    <3>2. \A k \in DOMAIN tcp[s][d] :
            tcp[s][d][k].by = d /\ tcp[s][d][k].n <= wrote'[s]
      BY <1>3, <1>4
    <3>3. QED
      BY <1>5, <3>1, <3>2
  <2>2. QED
    BY <1>11, <1>12, <2>1 DEF Queues
<1>14. ReadBefore(s)'
  <2>1. ASSUME NEW i \in At(s)', NEW a \in DOMAIN OnTheWay(s)'[i].text
        PROVE  /\ OnTheWay(s)'[i].text[a].n <= wrote'[s]
               /\ \A k \in DOMAIN tcp'[s][OnTheWay(s)'[i].text[a].by] :
                    OnTheWay(s)'[i].text[a].n
                      < tcp'[s][OnTheWay(s)'[i].text[a].by][k].n
    <3> DEFINE byte == OnTheWay(s)'[i].text[a]
    <3>1. f[i] \in At(s) /\ OnTheWay(s)'[i] = OnTheWay(s)[f[i]]
      BY <1>9
    <3>2. byte.by \in 1..MaxRequests /\ byte.n \in Nat
      BY <3>1, TextBytes
    <3>3. /\ byte.n <= wrote[s]
          /\ \A k \in DOMAIN tcp[s][byte.by] : byte.n < tcp[s][byte.by][k].n
      BY <3>1 DEF Ordered, ReadBefore
    <3> HIDE DEF byte
    <3>4. ASSUME NEW k \in DOMAIN tcp'[s][byte.by]
          PROVE  byte.n < tcp'[s][byte.by][k].n
      <4>1. CASE byte.by # id
        BY <1>2, <3>2, <3>3, <4>1
      <4>2. CASE byte.by = id
        <5>1. k \in DOMAIN tcp'[s][id]
          BY <4>2
        <5>2. CASE k \in DOMAIN tcp[s][id] /\ tcp'[s][id][k] = tcp[s][id][k]
          BY <3>3, <4>2, <5>2
        <5>3. CASE k - z \in DOMAIN bytes /\ tcp'[s][id][k] = bytes[k - z]
          <6>1. wrote[s] < bytes[k - z].n /\ bytes[k - z].n \in Nat
            BY <1>3, <5>3
          <6>2. byte.n < bytes[k - z].n
            BY <1>3, <3>2, <3>3, <6>1
          <6>3. QED
            BY <4>2, <5>3, <6>2
        <5>4. QED
          BY <1>6, <5>1, <5>2, <5>3
      <4>3. QED
        BY <4>1, <4>2
    <3>5. byte.n <= wrote'[s]
      BY <1>3, <3>2, <3>3
    <3>6. QED
      BY <3>4, <3>5 DEF byte
  <2>2. QED
    BY <2>1 DEF ReadBefore
<1>15. ReadInOrder(s)'
  <2>1. ASSUME NEW i \in At(s)', NEW j \in At(s)',
               NEW a \in DOMAIN OnTheWay(s)'[i].text,
               NEW b \in DOMAIN OnTheWay(s)'[j].text,
               i < j \/ (i = j /\ a < b),
               OnTheWay(s)'[i].text[a].by = OnTheWay(s)'[j].text[b].by
        PROVE  OnTheWay(s)'[i].text[a].n < OnTheWay(s)'[j].text[b].n
    <3>1. /\ f[i] \in At(s) /\ OnTheWay(s)'[i] = OnTheWay(s)[f[i]]
          /\ f[j] \in At(s) /\ OnTheWay(s)'[j] = OnTheWay(s)[f[j]]
          /\ f[i] < f[j] \/ (f[i] = f[j] /\ a < b)
      BY <1>9, <2>1
    <3>2. QED
      BY <2>1, <3>1 DEF Ordered, ReadInOrder
  <2>2. QED
    BY <2>1 DEF ReadInOrder
<1>16. QED
  BY <1>13, <1>14, <1>15 DEF Ordered

(* Text that is sent on is the oldest of its cell's that was not yet read. *)
LEMMA OrderSent ==
  ASSUME KernelTypeOK, KernelTypeOK', NEW s \in Sinks, Ordered(s),
         NEW id \in 1..MaxRequests, NEW k \in 1..Len(tcp[s][id]),
         NEW parent, SendsOn(s, id, k, parent)
  PROVE  Ordered(s)'
<1>0. /\ k \in Nat /\ wrote'[s] = wrote[s] /\ wrote[s] \in Nat
      /\ \A j \in DOMAIN tcp'[s][id] :
           /\ j \in Nat /\ j >= 1
           /\ j + k \in DOMAIN tcp[s][id] /\ tcp'[s][id][j] = tcp[s][id][j + k]
      /\ \A d \in 1..MaxRequests : d # id => tcp'[s][d] = tcp[s][d]
  BY TextBytes DEF SendsOn
<1>sent. PICK last \in Nat : SentAt(s, id, k, parent, last)
  BY SentMessage
<1>1. /\ \A i \in At(s) : i < last
      /\ \A i \in At(s)' : i = last \/ i \in At(s)
      /\ \A i \in At(s) : i \in At(s)' /\ OnTheWay(s)'[i] = OnTheWay(s)[i]
      /\ DOMAIN OnTheWay(s)'[last].text = 1..k
      /\ \A a \in 1..k : /\ a \in DOMAIN tcp[s][id]
                         /\ OnTheWay(s)'[last].text[a] = tcp[s][id][a]
  BY <1>sent DEF SentAt
<1>2. Queues(s)'
  <2>1. ASSUME NEW d \in 1..MaxRequests, d # id
        PROVE  /\ \A j \in DOMAIN tcp'[s][d] :
                    tcp'[s][d][j].by = d /\ tcp'[s][d][j].n <= wrote'[s]
               /\ \A j, l \in DOMAIN tcp'[s][d] :
                    j < l => tcp'[s][d][j].n < tcp'[s][d][l].n
    <3>1. tcp'[s][d] = tcp[s][d]
      BY <1>0, <2>1
    <3>2. QED
      BY <1>0, <3>1 DEF Ordered, Queues
  <2>2. \A j \in DOMAIN tcp'[s][id] :
          tcp'[s][id][j].by = id /\ tcp'[s][id][j].n <= wrote'[s]
    BY <1>0 DEF Ordered, Queues
  <2>3. \A j, l \in DOMAIN tcp'[s][id] :
          j < l => tcp'[s][id][j].n < tcp'[s][id][l].n
    <3>1. \A j, l \in DOMAIN tcp'[s][id] : j < l => j + k < l + k
      BY <1>0
    <3>2. QED
      BY <1>0, <3>1 DEF Ordered, Queues
  <2>4. QED
    BY <2>1, <2>2, <2>3 DEF Queues
<1>3. ASSUME NEW a \in 1..k
      PROVE  /\ OnTheWay(s)'[last].text[a].by = id
             /\ OnTheWay(s)'[last].text[a].n <= wrote[s]
             /\ \A j \in DOMAIN tcp'[s][id] :
                  OnTheWay(s)'[last].text[a].n < tcp'[s][id][j].n
  <2>1. a \in DOMAIN tcp[s][id] /\ OnTheWay(s)'[last].text[a] = tcp[s][id][a]
    BY <1>1
  <2>2. \A j \in DOMAIN tcp'[s][id] : a < j + k
    BY <1>0
  <2>3. QED
    BY <1>0, <2>1, <2>2 DEF Ordered, Queues
<1>4. ReadBefore(s)'
  <2>1. ASSUME NEW i \in At(s)', NEW a \in DOMAIN OnTheWay(s)'[i].text
        PROVE  /\ OnTheWay(s)'[i].text[a].n <= wrote'[s]
               /\ \A j \in DOMAIN tcp'[s][OnTheWay(s)'[i].text[a].by] :
                    OnTheWay(s)'[i].text[a].n
                      < tcp'[s][OnTheWay(s)'[i].text[a].by][j].n
    <3>1. CASE i = last
      BY <1>0, <1>1, <1>3, <3>1
    <3>2. CASE i \in At(s)
      <4> DEFINE byte == OnTheWay(s)'[i].text[a]
      <4>1. OnTheWay(s)'[i] = OnTheWay(s)[i]
        BY <1>1, <3>2
      <4>2. /\ byte.by \in 1..MaxRequests /\ byte.n <= wrote[s]
            /\ \A j \in DOMAIN tcp[s][byte.by] : byte.n < tcp[s][byte.by][j].n
        BY <3>2, <4>1, TextBytes DEF Ordered, ReadBefore
      <4> HIDE DEF byte
      <4>3. \A j \in DOMAIN tcp'[s][byte.by] : byte.n < tcp'[s][byte.by][j].n
        <5>1. CASE byte.by # id
          BY <1>0, <4>2, <5>1
        <5>2. CASE byte.by = id
          BY <1>0, <4>2, <5>2
        <5>3. QED
          BY <5>1, <5>2
      <4>4. QED
        BY <1>0, <4>2, <4>3 DEF byte
    <3>3. QED
      BY <1>1, <3>1, <3>2
  <2>2. QED
    BY <2>1 DEF ReadBefore
<1>5. ReadInOrder(s)'
  <2>1. ASSUME NEW i \in At(s)', NEW j \in At(s)',
               NEW a \in DOMAIN OnTheWay(s)'[i].text,
               NEW b \in DOMAIN OnTheWay(s)'[j].text,
               i < j \/ (i = j /\ a < b),
               OnTheWay(s)'[i].text[a].by = OnTheWay(s)'[j].text[b].by
        PROVE  OnTheWay(s)'[i].text[a].n < OnTheWay(s)'[j].text[b].n
    <3>1. CASE i \in At(s) /\ j \in At(s)
      BY <1>1, <2>1, <3>1 DEF Ordered, ReadInOrder
    <3>2. CASE i \in At(s) /\ j = last
      <4>1. OnTheWay(s)'[i] = OnTheWay(s)[i] /\ b \in 1..k
        BY <1>1, <3>2
      <4>2. /\ b \in DOMAIN tcp[s][id] /\ OnTheWay(s)'[j].text[b] = tcp[s][id][b]
            /\ OnTheWay(s)'[j].text[b].by = id
        BY <1>1, <1>3, <3>2, <4>1
      <4>3. OnTheWay(s)[i].text[a].by = id
        BY <2>1, <4>1, <4>2
      <4>4. OnTheWay(s)[i].text[a].n < tcp[s][id][b].n
        BY <3>2, <4>1, <4>2, <4>3 DEF Ordered, ReadBefore
      <4>5. QED
        BY <4>1, <4>2, <4>4
    <3>3. CASE i = last /\ j = last
      <4>1. a \in 1..k /\ b \in 1..k /\ a < b
        BY <1>1, <2>1, <3>3
      <4>2. /\ a \in DOMAIN tcp[s][id] /\ OnTheWay(s)'[i].text[a] = tcp[s][id][a]
            /\ b \in DOMAIN tcp[s][id] /\ OnTheWay(s)'[j].text[b] = tcp[s][id][b]
        BY <1>1, <3>3, <4>1
      <4>3. QED
        BY <4>1, <4>2 DEF Ordered, Queues
    <3>4. CASE i = last /\ j \in At(s)
      <4>1. j < last /\ j \in Nat
        BY <1>1, <3>4, TextAtPlaces
      <4>2. QED
        BY <2>1, <3>4, <4>1
    <3>5. QED
      BY <1>1, <3>1, <3>2, <3>3, <3>4
  <2>2. QED
    BY <2>1 DEF ReadInOrder
<1>6. QED
  BY <1>2, <1>4, <1>5 DEF Ordered

(* Every step keeps the order.                                             *)
LEMMA OrderedNext ==
  ASSUME OutInv, OutInv', [KernelNext]_kernelVars, NEW s \in Sinks, Ordered(s)
  PROVE  Ordered(s)'
<1>0. KernelTypeOK /\ KernelTypeOK'
  BY DEF OutInv, KernelTypes
<1>1. CASE Rests(s)
  <2>1. Shrinks(s)
    BY <1>0, <1>1, RestsShrinks DEF Rests
  <2>2. QED
    BY <1>0, <1>1, <2>1, OrderKept DEF Rests, Keeps
<1>2. CASE Loses(s)
  BY <1>0, <1>2, OrderKept DEF Loses, Shortens
<1>3. ASSUME NEW bytes \in Seq(Byte), PrintsOn(s, bytes)
      PROVE  Ordered(s)'
  BY <1>0, <1>3, OrderPrinted
<1>4. ASSUME NEW id \in 1..MaxRequests, NEW k \in 1..Len(tcp[s][id]),
             NEW parent \in Parents, SendsOn(s, id, k, parent)
      PROVE  Ordered(s)'
  BY <1>0, <1>4, OrderSent
<1>5. QED
  BY <1>1, <1>2, <1>3, <1>4, TextSteps

(* Initially there is no text.                                             *)
LEMMA NoTextAtFirst ==
  ASSUME KernelInit, NEW s \in Sinks
  PROVE  /\ \A id \in 1..MaxRequests : tcp[s][id] = <<>>
         /\ At(s) = {} /\ wrote[s] = 0
<1>1. /\ pipe[s] = <<>> /\ seen = <<>> /\ wire = <<>>
      /\ tcp[s] = [id \in 1..MaxRequests |-> <<>>] /\ wrote[s] = 0
  BY DEF KernelInit, Topics
<1>2. At(s) = {}
  BY <1>1 DEF At, OnTheWay
<1>3. QED
  BY <1>1, <1>2

AllOrdered == \A s \in Sinks : Ordered(s)

(* Every stream's text stays in order on its way, from the connection to   *)
(* the client.                                                             *)
THEOREM OrderHolds == KernelSpec => []AllOrdered
<1>1. KernelInit => AllOrdered
  BY NoTextAtFirst DEF AllOrdered, Ordered, Queues, ReadBefore, ReadInOrder
<1>2. OutInv /\ OutInv' /\ AllOrdered /\ [KernelNext]_kernelVars => AllOrdered'
  BY OrderedNext DEF AllOrdered
<1>3. QED
  BY <1>1, <1>2, OutHolds, PTL DEF KernelSpec

(* Whatever chunks the streams are read in: what one cell prints on one    *)
(* stream reaches the client in the order it was printed.                  *)
THEOREM TextInOrder == KernelSpec => []CellTextInOrder
<1>1. OutInv /\ AllOrdered => CellTextInOrder
  <2>1. ASSUME OutInv, AllOrdered, NEW s \in Sinks
        PROVE  At(s) = TextAt(s) /\ ReadInOrder(s)
    BY <2>1, TextAtPlaces DEF OutInv, KernelTypes, AllOrdered, Ordered
  <2>2. QED
    BY <2>1 DEF CellTextInOrder, ReadInOrder
<1>2. QED
  BY <1>1, OutHolds, OrderHolds, PTL

-----------------------------------------------------------------------------
(* Printed text is neither doubled nor, without a reason, lost.            *)

\* no byte is twice in the connections,
UnreadOnce(s) ==
  \A d, e \in 1..MaxRequests :
    \A k \in DOMAIN tcp[s][d], l \in DOMAIN tcp[s][e] :
      tcp[s][d][k].n = tcp[s][e][l].n => d = e /\ k = l

\* both in a connection and in a message,
ReadOnce(s) ==
  \A i \in At(s), d \in 1..MaxRequests :
    \A a \in DOMAIN OnTheWay(s)[i].text, k \in DOMAIN tcp[s][d] :
      OnTheWay(s)[i].text[a].n # tcp[s][d][k].n

\* or twice in messages
SentOnce(s) ==
  \A i, j \in At(s) :
    \A a \in DOMAIN OnTheWay(s)[i].text, b \in DOMAIN OnTheWay(s)[j].text :
      OnTheWay(s)[i].text[a].n = OnTheWay(s)[j].text[b].n => i = j /\ a = b

Once(s) == UnreadOnce(s) /\ ReadOnce(s) /\ SentOnce(s)

InTcp(s, n) ==
  \E d \in 1..MaxRequests : \E k \in DOMAIN tcp[s][d] : tcp[s][d][k].n = n

InText(s, n) ==
  \E i \in At(s) : \E a \in DOMAIN OnTheWay(s)[i].text :
    OnTheWay(s)[i].text[a].n = n

\* and every byte is somewhere
Covered(s) == losses = {} => \A n \in 1..wrote[s] : InTcp(s, n) \/ InText(s, n)

(* Messages that keep their order keep apart.                              *)
LEMMA FollowsOnce ==
  ASSUME KernelTypeOK, KernelTypeOK', NEW s \in Sinks, SentOnce(s),
         NEW f, Follow(s, f)
  PROVE  SentOnce(s)'
<1>1. /\ \A i \in At(s)' : f[i] \in At(s) /\ OnTheWay(s)'[i] = OnTheWay(s)[f[i]]
      /\ \A i, j \in At(s)' : i < j => f[i] < f[j]
  BY DEF Follow
<1>2. \A i \in At(s)' : i \in Nat
  <2>1. \A i \in DOMAIN OnTheWay(s)' : i \in Nat
    <3>1. DOMAIN OnTheWay(s)' = 1..Len(OnTheWay(s)')
      BY LineAfter DEF Laid, Topics
    <3>2. QED
      BY <3>1
  <2>2. QED
    BY <2>1 DEF At
<1>3. ASSUME NEW i \in At(s)', NEW j \in At(s)', f[i] = f[j]
      PROVE  i = j
  <2>1. /\ f[i] \in Nat
        /\ i < j => f[i] < f[j]
        /\ j < i => f[j] < f[i]
    BY <1>1, TextAtPlaces
  <2>2. i \in Nat /\ j \in Nat
    BY <1>2
  <2>3. QED
    BY <1>3, <2>1, <2>2
<1>4. ASSUME NEW i \in At(s)', NEW j \in At(s)',
             NEW a \in DOMAIN OnTheWay(s)'[i].text,
             NEW b \in DOMAIN OnTheWay(s)'[j].text,
             OnTheWay(s)'[i].text[a].n = OnTheWay(s)'[j].text[b].n
      PROVE  i = j /\ a = b
  <2>1. f[i] = f[j] /\ a = b
    BY <1>1, <1>4 DEF SentOnce
  <2>2. QED
    BY <1>3, <2>1
<1>5. QED
  BY <1>4 DEF SentOnce

(* Text that moves on, or is lost from the ends, is not doubled.           *)
LEMMA OnceKept ==
  ASSUME KernelTypeOK, KernelTypeOK', NEW s \in Sinks, Once(s),
         Shrinks(s), NEW f, Follow(s, f)
  PROVE  Once(s)'
<1>1. \A i \in At(s)' : f[i] \in At(s) /\ OnTheWay(s)'[i] = OnTheWay(s)[f[i]]
  BY DEF Follow
<1>2. \A id \in 1..MaxRequests : \A k \in DOMAIN tcp'[s][id] : k \in Nat
  <2>1. ASSUME NEW id \in 1..MaxRequests, NEW k \in DOMAIN tcp'[s][id]
        PROVE  k \in Nat
    <3>1. tcp'[s] \in [1..MaxRequests -> Seq(Byte)]
      BY DEF KernelTypeOK
    <3>2. tcp'[s][id] \in Seq(Byte)
      BY <3>1
    <3>3. QED
      BY <3>2
  <2>2. QED
    BY <2>1
<1>3. UnreadOnce(s)'
  <2>1. ASSUME NEW d \in 1..MaxRequests, NEW e \in 1..MaxRequests,
               NEW k \in DOMAIN tcp'[s][d], NEW l \in DOMAIN tcp'[s][e],
               tcp'[s][d][k].n = tcp'[s][e][l].n
        PROVE  d = e /\ k = l
    <3>1. PICK q \in Nat : \A j \in DOMAIN tcp'[s][d] :
            j + q \in DOMAIN tcp[s][d] /\ tcp'[s][d][j] = tcp[s][d][j + q]
      BY DEF Shrinks
    <3>2. PICK r \in Nat : \A j \in DOMAIN tcp'[s][e] :
            j + r \in DOMAIN tcp[s][e] /\ tcp'[s][e][j] = tcp[s][e][j + r]
      BY DEF Shrinks
    <3>3. d = e
      BY <2>1, <3>1, <3>2 DEF Once, UnreadOnce
    <3>4. k + q = l + q
      BY <2>1, <3>1, <3>3 DEF Once, UnreadOnce
    <3>5. k \in Nat /\ l \in Nat
      BY <1>2
    <3>6. QED
      BY <3>3, <3>4, <3>5
  <2>2. QED
    BY <2>1 DEF UnreadOnce
<1>4. ReadOnce(s)'
  <2>1. ASSUME NEW i \in At(s)', NEW d \in 1..MaxRequests,
               NEW a \in DOMAIN OnTheWay(s)'[i].text, NEW k \in DOMAIN tcp'[s][d]
        PROVE  OnTheWay(s)'[i].text[a].n # tcp'[s][d][k].n
    <3>1. PICK q \in Nat : \A j \in DOMAIN tcp'[s][d] :
            j + q \in DOMAIN tcp[s][d] /\ tcp'[s][d][j] = tcp[s][d][j + q]
      BY DEF Shrinks
    <3>2. f[i] \in At(s) /\ OnTheWay(s)'[i] = OnTheWay(s)[f[i]]
      BY <1>1
    <3>3. QED
      BY <3>1, <3>2 DEF Once, ReadOnce
  <2>2. QED
    BY <2>1 DEF ReadOnce
<1>5. SentOnce(s)'
  BY FollowsOnce DEF Once
<1>6. QED
  BY <1>3, <1>4, <1>5 DEF Once

(* What a cell has printed, and what it prints now.                        *)
LEMMA PrintedParts ==
  ASSUME KernelTypeOK, KernelTypeOK', NEW s \in Sinks,
         NEW bytes \in Seq(Byte), PrintsOn(s, bytes)
  PROVE  \E id \in 1..MaxRequests, z \in Nat :
           /\ \A d \in 1..MaxRequests : d # id => tcp'[s][d] = tcp[s][d]
           /\ \A k \in DOMAIN tcp[s][id] :
                k \in DOMAIN tcp'[s][id] /\ tcp'[s][id][k] = tcp[s][id][k]
           /\ \A b \in DOMAIN bytes :
                z + b \in DOMAIN tcp'[s][id] /\ tcp'[s][id][z + b] = bytes[b]
           /\ \A k \in DOMAIN tcp'[s][id] :
                \/ k \in DOMAIN tcp[s][id] /\ tcp'[s][id][k] = tcp[s][id][k]
                \/ k \in Nat /\ tcp'[s][id][k].n = wrote[s] + (k - z) /\ k > z
           /\ \A b \in DOMAIN bytes : bytes[b].n = wrote[s] + b
           /\ wrote[s] \in Nat /\ wrote'[s] = wrote[s] + Len(bytes)
<1> DEFINE id == cur.id
           z == Len(tcp[s][id])
<1>1. /\ id \in 1..MaxRequests /\ tcp[s][id] \in Seq(Byte)
      /\ tcp'[s][id] = tcp[s][id] \o bytes
  BY TextBytes DEF PrintsOn
<1>2. \A d \in 1..MaxRequests : d # id => tcp'[s][d] = tcp[s][d]
  BY DEF PrintsOn
<1>3. /\ wrote[s] \in Nat /\ wrote'[s] = wrote[s] + Len(bytes)
      /\ \A b \in DOMAIN bytes : bytes[b].n = wrote[s] + b
  BY TextBytes DEF PrintsOn
<1>4. /\ z \in Nat
      /\ \A k \in DOMAIN tcp[s][id] :
           k \in DOMAIN tcp'[s][id] /\ tcp'[s][id][k] = tcp[s][id][k]
      /\ \A b \in DOMAIN bytes :
           z + b \in DOMAIN tcp'[s][id] /\ tcp'[s][id][z + b] = bytes[b]
      /\ \A k \in DOMAIN tcp'[s][id] :
           \/ k \in DOMAIN tcp[s][id] /\ tcp'[s][id][k] = tcp[s][id][k]
           \/ k - z \in DOMAIN bytes /\ tcp'[s][id][k] = bytes[k - z]
  <2> DEFINE own == tcp[s][id]
             more == tcp'[s][id]
  <2>1. own \in Seq(Byte) /\ more = own \o bytes
    BY <1>1
  <2> HIDE DEF own, more
  <2>2. /\ Len(own) \in Nat
        /\ \A k \in DOMAIN own : k \in DOMAIN more /\ more[k] = own[k]
        /\ \A b \in DOMAIN bytes :
             Len(own) + b \in DOMAIN more /\ more[Len(own) + b] = bytes[b]
        /\ \A k \in DOMAIN more :
             \/ k \in DOMAIN own /\ more[k] = own[k]
             \/ k - Len(own) \in DOMAIN bytes /\ more[k] = bytes[k - Len(own)]
    BY <2>1, Concatenated
  <2>3. QED
    BY <2>2 DEF own, more
<1>5. \A k \in DOMAIN tcp'[s][id] : k \in Nat
  <2>1. tcp'[s][id] \in Seq(Byte)
    BY <1>1, Joint
  <2>2. QED
    BY <2>1
<1>6. \A b \in DOMAIN bytes : b \in Nat /\ b >= 1
  OBVIOUS
<1> HIDE DEF id, z
<1>7. ASSUME NEW k \in DOMAIN tcp'[s][id],
             k - z \in DOMAIN bytes, tcp'[s][id][k] = bytes[k - z]
      PROVE  k \in Nat /\ tcp'[s][id][k].n = wrote[s] + (k - z) /\ k > z
  <2>1. k \in Nat /\ k - z \in Nat /\ k - z >= 1
    BY <1>5, <1>6, <1>7
  <2>2. QED
    BY <1>3, <1>4, <1>7, <2>1
<1>8. \A k \in DOMAIN tcp'[s][id] :
        \/ k \in DOMAIN tcp[s][id] /\ tcp'[s][id][k] = tcp[s][id][k]
        \/ k \in Nat /\ tcp'[s][id][k].n = wrote[s] + (k - z) /\ k > z
  BY <1>4, <1>7
<1>9. QED
  BY <1>1, <1>2, <1>3, <1>4, <1>8

(* Printing numbers its bytes afresh.                                      *)
LEMMA OncePrinted ==
  ASSUME KernelTypeOK, KernelTypeOK', NEW s \in Sinks, Ordered(s), Once(s),
         NEW bytes \in Seq(Byte), PrintsOn(s, bytes)
  PROVE  Once(s)'
<1>0. PICK id \in 1..MaxRequests : \E z \in Nat :
        /\ \A d \in 1..MaxRequests : d # id => tcp'[s][d] = tcp[s][d]
        /\ \A k \in DOMAIN tcp'[s][id] :
             \/ k \in DOMAIN tcp[s][id] /\ tcp'[s][id][k] = tcp[s][id][k]
             \/ k \in Nat /\ tcp'[s][id][k].n = wrote[s] + (k - z) /\ k > z
        /\ wrote[s] \in Nat
  BY PrintedParts
<1>1. PICK z \in Nat :
        /\ \A d \in 1..MaxRequests : d # id => tcp'[s][d] = tcp[s][d]
        /\ \A k \in DOMAIN tcp'[s][id] :
             \/ k \in DOMAIN tcp[s][id] /\ tcp'[s][id][k] = tcp[s][id][k]
             \/ k \in Nat /\ tcp'[s][id][k].n = wrote[s] + (k - z) /\ k > z
        /\ wrote[s] \in Nat
  BY <1>0
\* a byte in a connection was there before, or it is new
<1>2. ASSUME NEW d \in 1..MaxRequests, NEW k \in DOMAIN tcp'[s][d]
      PROVE  \/ /\ k \in DOMAIN tcp[s][d] /\ tcp'[s][d][k] = tcp[s][d][k]
                /\ tcp'[s][d][k].n \in Nat /\ tcp'[s][d][k].n <= wrote[s]
             \/ /\ d = id /\ k \in Nat /\ k > z
                /\ tcp'[s][d][k].n = wrote[s] + (k - z)
  <2>1. \A l \in DOMAIN tcp[s][d] :
          tcp[s][d][l].n \in Nat /\ tcp[s][d][l].n <= wrote[s]
    BY TextBytes DEF Ordered, Queues
  <2>2. QED
    BY <1>1, <2>1
<1>3. PICK f : Follow(s, f)
  BY DEF PrintsOn, Keeps
<1>4. /\ \A i \in At(s)' : f[i] \in At(s) /\ OnTheWay(s)'[i] = OnTheWay(s)[f[i]]
      /\ \A i, j \in At(s)' : i < j => f[i] < f[j]
  BY <1>3 DEF Follow
<1>5. UnreadOnce(s)'
  <2>1. ASSUME NEW d \in 1..MaxRequests, NEW e \in 1..MaxRequests,
               NEW k \in DOMAIN tcp'[s][d], NEW l \in DOMAIN tcp'[s][e],
               tcp'[s][d][k].n = tcp'[s][e][l].n
        PROVE  d = e /\ k = l
    <3>1. CASE /\ k \in DOMAIN tcp[s][d] /\ tcp'[s][d][k] = tcp[s][d][k]
               /\ tcp'[s][d][k].n \in Nat /\ tcp'[s][d][k].n <= wrote[s]
      <4>1. CASE /\ l \in DOMAIN tcp[s][e] /\ tcp'[s][e][l] = tcp[s][e][l]
        BY <2>1, <3>1, <4>1 DEF Once, UnreadOnce
      <4>2. CASE l \in Nat /\ l > z /\ tcp'[s][e][l].n = wrote[s] + (l - z)
        BY <1>1, <2>1, <3>1, <4>2
      <4>3. QED
        BY <1>2, <4>1, <4>2
    <3>2. CASE /\ d = id /\ k \in Nat /\ k > z
               /\ tcp'[s][d][k].n = wrote[s] + (k - z)
      <4>1. CASE tcp'[s][e][l].n \in Nat /\ tcp'[s][e][l].n <= wrote[s]
        BY <1>1, <2>1, <3>2, <4>1
      <4>2. CASE /\ e = id /\ l \in Nat /\ l > z
                 /\ tcp'[s][e][l].n = wrote[s] + (l - z)
        BY <1>1, <2>1, <3>2, <4>2
      <4>3. QED
        BY <1>2, <4>1, <4>2
    <3>3. QED
      BY <1>2, <3>1, <3>2
  <2>2. QED
    BY <2>1 DEF UnreadOnce
<1>6. ReadOnce(s)'
  <2>1. ASSUME NEW i \in At(s)', NEW d \in 1..MaxRequests,
               NEW a \in DOMAIN OnTheWay(s)'[i].text, NEW k \in DOMAIN tcp'[s][d]
        PROVE  OnTheWay(s)'[i].text[a].n # tcp'[s][d][k].n
    <3>1. f[i] \in At(s) /\ OnTheWay(s)'[i] = OnTheWay(s)[f[i]]
      BY <1>4
    <3>2. OnTheWay(s)'[i].text[a].n \in Nat /\ OnTheWay(s)'[i].text[a].n <= wrote[s]
      BY <3>1, TextBytes DEF Ordered, ReadBefore
    <3>3. CASE k \in DOMAIN tcp[s][d] /\ tcp'[s][d][k] = tcp[s][d][k]
      BY <3>1, <3>3 DEF Once, ReadOnce
    <3>4. CASE k \in Nat /\ k > z /\ tcp'[s][d][k].n = wrote[s] + (k - z)
      BY <1>1, <3>2, <3>4
    <3>5. QED
      BY <1>2, <3>3, <3>4
  <2>2. QED
    BY <2>1 DEF ReadOnce
<1>7. SentOnce(s)'
  BY <1>3, FollowsOnce DEF Once
<1>8. QED
  BY <1>5, <1>6, <1>7 DEF Once

(* Sending moves a byte and leaves no copy of it.                          *)
LEMMA OnceSent ==
  ASSUME KernelTypeOK, KernelTypeOK', NEW s \in Sinks, Once(s),
         NEW id \in 1..MaxRequests, NEW k \in 1..Len(tcp[s][id]),
         NEW parent, SendsOn(s, id, k, parent)
  PROVE  Once(s)'
<1>0. /\ k \in Nat
      /\ \A j \in DOMAIN tcp'[s][id] :
           /\ j \in Nat /\ j >= 1
           /\ j + k \in DOMAIN tcp[s][id] /\ tcp'[s][id][j] = tcp[s][id][j + k]
      /\ \A d \in 1..MaxRequests : d # id => tcp'[s][d] = tcp[s][d]
  BY DEF SendsOn
<1>sent. PICK last \in Nat : SentAt(s, id, k, parent, last)
  BY SentMessage
<1>1. /\ \A i \in At(s)' : i = last \/ i \in At(s)
      /\ \A i \in At(s) : i \in At(s)' /\ OnTheWay(s)'[i] = OnTheWay(s)[i]
      /\ DOMAIN OnTheWay(s)'[last].text = 1..k
      /\ \A a \in 1..k : /\ a \in DOMAIN tcp[s][id]
                         /\ OnTheWay(s)'[last].text[a] = tcp[s][id][a]
  BY <1>sent DEF SentAt
<1>2. UnreadOnce(s)'
  <2>1. ASSUME NEW d \in 1..MaxRequests, NEW e \in 1..MaxRequests,
               NEW j \in DOMAIN tcp'[s][d], NEW l \in DOMAIN tcp'[s][e],
               tcp'[s][d][j].n = tcp'[s][e][l].n
        PROVE  d = e /\ j = l
    <3>1. PICK u \in DOMAIN tcp[s][d] :
            /\ tcp'[s][d][j] = tcp[s][d][u]
            /\ d = id => u = j + k /\ j \in Nat
            /\ d # id => u = j
      BY <1>0
    <3>2. PICK v \in DOMAIN tcp[s][e] :
            /\ tcp'[s][e][l] = tcp[s][e][v]
            /\ e = id => v = l + k /\ l \in Nat
            /\ e # id => v = l
      BY <1>0
    <3>3. tcp[s][d][u].n = tcp[s][e][v].n
      BY <2>1, <3>1, <3>2
    <3>4. d = e /\ u = v
      BY <3>3 DEF Once, UnreadOnce
    <3>5. QED
      BY <1>0, <3>1, <3>2, <3>4
  <2>2. QED
    BY <2>1 DEF UnreadOnce
<1>3. ReadOnce(s)'
  <2>1. ASSUME NEW i \in At(s)', NEW d \in 1..MaxRequests,
               NEW a \in DOMAIN OnTheWay(s)'[i].text, NEW j \in DOMAIN tcp'[s][d]
        PROVE  OnTheWay(s)'[i].text[a].n # tcp'[s][d][j].n
    <3>1. PICK l \in DOMAIN tcp[s][d] :
            tcp'[s][d][j] = tcp[s][d][l] /\ (d = id => l = j + k)
      BY <1>0
    <3>2. CASE i \in At(s)
      BY <1>1, <3>1, <3>2 DEF Once, ReadOnce
    <3>3. CASE i = last
      <4>1. a \in 1..k /\ a \in DOMAIN tcp[s][id]
            /\ OnTheWay(s)'[i].text[a] = tcp[s][id][a]
        BY <1>1, <3>3
      <4>2. ~(d = id /\ l = a)
        BY <1>0, <3>1, <4>1
      <4>3. QED
        BY <3>1, <4>1, <4>2 DEF Once, UnreadOnce
    <3>4. QED
      BY <1>1, <3>2, <3>3
  <2>2. QED
    BY <2>1 DEF ReadOnce
<1>4. SentOnce(s)'
  <2>1. ASSUME NEW i \in At(s)', NEW j \in At(s)',
               NEW a \in DOMAIN OnTheWay(s)'[i].text,
               NEW b \in DOMAIN OnTheWay(s)'[j].text,
               OnTheWay(s)'[i].text[a].n = OnTheWay(s)'[j].text[b].n
        PROVE  i = j /\ a = b
    <3>1. CASE i \in At(s) /\ j \in At(s)
      <4>1. OnTheWay(s)'[i] = OnTheWay(s)[i] /\ OnTheWay(s)'[j] = OnTheWay(s)[j]
        BY <1>1, <3>1
      <4>2. QED
        BY <2>1, <3>1, <4>1 DEF Once, SentOnce
    <3>2. CASE i \in At(s) /\ j = last
      <4>1. OnTheWay(s)'[i] = OnTheWay(s)[i] /\ b \in 1..k
        BY <1>1, <3>2
      <4>2. b \in DOMAIN tcp[s][id] /\ OnTheWay(s)'[j].text[b] = tcp[s][id][b]
        BY <1>1, <3>2, <4>1
      <4>3. QED
        BY <2>1, <3>2, <4>1, <4>2 DEF Once, ReadOnce
    <3>3. CASE i = last /\ j \in At(s)
      <4>1. OnTheWay(s)'[j] = OnTheWay(s)[j] /\ a \in 1..k
        BY <1>1, <3>3
      <4>2. a \in DOMAIN tcp[s][id] /\ OnTheWay(s)'[i].text[a] = tcp[s][id][a]
        BY <1>1, <3>3, <4>1
      <4>3. QED
        BY <2>1, <3>3, <4>1, <4>2 DEF Once, ReadOnce
    <3>4. CASE i = last /\ j = last
      BY <1>1, <2>1, <3>4 DEF Once, UnreadOnce
    <3>5. QED
      BY <1>1, <3>1, <3>2, <3>3, <3>4
  <2>2. QED
    BY <2>1 DEF SentOnce
<1>5. QED
  BY <1>2, <1>3, <1>4 DEF Once

(* What is somewhere stays somewhere, until something is dropped.          *)
LEMMA CoveredNext ==
  ASSUME OutInv, OutInv', [KernelNext]_kernelVars, NEW s \in Sinks, Covered(s)
  PROVE  Covered(s)'
<1>0. KernelTypeOK /\ KernelTypeOK' /\ wrote[s] \in Nat
  BY TextBytes DEF OutInv, KernelTypes
<1>1. ASSUME \A k \in At(s) : \E j \in At(s)' : OnTheWay(s)'[j] = OnTheWay(s)[k],
             NEW n, InText(s, n)
      PROVE  InText(s, n)'
  BY <1>1 DEF InText
<1>2. ASSUME NEW f, Follow(s, f), \A k \in At(s) : \E j \in At(s)' : f[j] = k
      PROVE  \A k \in At(s) : \E j \in At(s)' : OnTheWay(s)'[j] = OnTheWay(s)[k]
  BY <1>2 DEF Follow
<1>3. ASSUME Keeps(s)
      PROVE  \A k \in At(s) : \E j \in At(s)' : OnTheWay(s)'[j] = OnTheWay(s)[k]
  BY <1>2, <1>3 DEF Keeps
<1>4. ASSUME losses' = losses,
             \A n \in 1..wrote'[s] : InTcp(s, n)' \/ InText(s, n)'
      PROVE  Covered(s)'
  BY <1>4 DEF Covered
<1>5. CASE Rests(s)
  <2>1. ASSUME losses = {}, NEW n \in 1..wrote'[s]
        PROVE  InTcp(s, n)' \/ InText(s, n)'
    <3>1. InTcp(s, n) \/ InText(s, n)
      BY <1>5, <2>1 DEF Covered, Rests
    <3>2. InTcp(s, n) => InTcp(s, n)'
      BY <1>5 DEF InTcp, Rests
    <3>3. InText(s, n) => InText(s, n)'
      BY <1>1, <1>3, <1>5 DEF Rests
    <3>4. QED
      BY <3>1, <3>2, <3>3
  <2>2. QED
    BY <1>5, <2>1 DEF Rests, Covered
<1>6. CASE Loses(s)
  BY <1>6 DEF Loses, Covered
<1>7. ASSUME NEW bytes \in Seq(Byte), PrintsOn(s, bytes)
      PROVE  Covered(s)'
  <2>0. PICK id \in 1..MaxRequests : \E z \in Nat :
          /\ \A d \in 1..MaxRequests : d # id => tcp'[s][d] = tcp[s][d]
          /\ \A k \in DOMAIN tcp[s][id] :
               k \in DOMAIN tcp'[s][id] /\ tcp'[s][id][k] = tcp[s][id][k]
          /\ \A b \in DOMAIN bytes :
               z + b \in DOMAIN tcp'[s][id] /\ tcp'[s][id][z + b] = bytes[b]
          /\ \A b \in DOMAIN bytes : bytes[b].n = wrote[s] + b
          /\ wrote'[s] = wrote[s] + Len(bytes)
    BY <1>0, <1>7, PrintedParts
  <2>1. PICK z \in Nat :
          /\ \A d \in 1..MaxRequests : d # id => tcp'[s][d] = tcp[s][d]
          /\ \A k \in DOMAIN tcp[s][id] :
               k \in DOMAIN tcp'[s][id] /\ tcp'[s][id][k] = tcp[s][id][k]
          /\ \A b \in DOMAIN bytes :
               z + b \in DOMAIN tcp'[s][id] /\ tcp'[s][id][z + b] = bytes[b]
          /\ \A b \in DOMAIN bytes : bytes[b].n = wrote[s] + b
          /\ wrote'[s] = wrote[s] + Len(bytes)
    BY <2>0
  <2>2. Keeps(s) /\ losses' = losses
    BY <1>7 DEF PrintsOn
  <2>3. ASSUME losses = {}, NEW n \in 1..wrote'[s]
        PROVE  InTcp(s, n)' \/ InText(s, n)'
    <3>1. Len(bytes) \in Nat /\ DOMAIN bytes = 1..Len(bytes)
      OBVIOUS
    <3>2. CASE n \in 1..wrote[s]
      <4>1. InTcp(s, n) \/ InText(s, n)
        BY <2>3, <3>2 DEF Covered
      <4>2. InTcp(s, n) => InTcp(s, n)'
        <5>1. ASSUME NEW d \in 1..MaxRequests, NEW k \in DOMAIN tcp[s][d]
              PROVE  k \in DOMAIN tcp'[s][d] /\ tcp'[s][d][k] = tcp[s][d][k]
          BY <2>1
        <5>2. QED
          BY <5>1 DEF InTcp
      <4>3. InText(s, n) => InText(s, n)'
        BY <1>1, <1>3, <2>2
      <4>4. QED
        BY <4>1, <4>2, <4>3
    <3>3. CASE n > wrote[s]
      <4> DEFINE b == n - wrote[s]
      <4>1. b \in DOMAIN bytes /\ n = wrote[s] + b
        BY <1>0, <2>1, <3>1, <3>3
      <4> HIDE DEF b
      <4>2. z + b \in DOMAIN tcp'[s][id] /\ tcp'[s][id][z + b].n = n
        BY <2>1, <4>1
      <4>3. QED
        BY <4>2 DEF InTcp
    <3>4. QED
      BY <1>0, <2>1, <3>1, <3>2, <3>3
  <2>4. QED
    BY <2>2, <2>3 DEF Covered
<1>8. ASSUME NEW id \in 1..MaxRequests, NEW k \in 1..Len(tcp[s][id]),
             NEW parent \in Parents, SendsOn(s, id, k, parent)
      PROVE  Covered(s)'
  <2>1. /\ k \in Nat /\ wrote'[s] = wrote[s] /\ losses' = losses
        /\ \A j \in DOMAIN tcp'[s][id] :
             /\ j \in Nat /\ j >= 1
             /\ j + k \in DOMAIN tcp[s][id] /\ tcp'[s][id][j] = tcp[s][id][j + k]
        /\ \A j \in DOMAIN tcp[s][id] : j > k => j - k \in DOMAIN tcp'[s][id]
        /\ \A d \in 1..MaxRequests : d # id => tcp'[s][d] = tcp[s][d]
    BY <1>8 DEF SendsOn
  <2>sent. PICK last \in Nat : SentAt(s, id, k, parent, last)
    BY <1>0, <1>8, SentMessage
  <2>2. /\ \A i \in At(s) : i \in At(s)' /\ OnTheWay(s)'[i] = OnTheWay(s)[i]
        /\ last \in At(s)'
        /\ DOMAIN OnTheWay(s)'[last].text = 1..k
        /\ \A a \in 1..k : OnTheWay(s)'[last].text[a] = tcp[s][id][a]
    BY <2>sent DEF SentAt
  <2>3. ASSUME NEW n, InText(s, n)
        PROVE  InText(s, n)'
    BY <1>1, <2>2, <2>3
  <2>4. ASSUME NEW n, InTcp(s, n)
        PROVE  InTcp(s, n)' \/ InText(s, n)'
    <3>0. PICK d \in 1..MaxRequests : \E l \in DOMAIN tcp[s][d] : tcp[s][d][l].n = n
      BY <2>4 DEF InTcp
    <3>1. PICK l \in DOMAIN tcp[s][d] : tcp[s][d][l].n = n
      BY <3>0
    <3>2. l \in Nat /\ l >= 1
      <4>1. tcp[s][d] \in Seq(Byte)
        BY <1>0, TextBytes
      <4>2. QED
        BY <4>1
    <3>3. CASE d # id
      <4>1. tcp'[s][d] = tcp[s][d]
        BY <2>1, <3>3
      <4>2. QED
        BY <3>1, <4>1 DEF InTcp
    <3>4. CASE d = id /\ l <= k
      <4>1. l \in 1..k
        BY <2>1, <3>2, <3>4
      <4>2. l \in DOMAIN OnTheWay(s)'[last].text /\ OnTheWay(s)'[last].text[l].n = n
        BY <2>2, <3>1, <3>4, <4>1
      <4>3. QED
        BY <2>2, <4>2 DEF InText
    <3>5. CASE d = id /\ l > k
      <4> DEFINE j == l - k
      <4>1. j \in DOMAIN tcp'[s][id] /\ j + k = l
        BY <2>1, <3>2, <3>5
      <4> HIDE DEF j
      <4>2. tcp'[s][id][j].n = n
        BY <2>1, <3>1, <3>5, <4>1
      <4>3. QED
        BY <4>1, <4>2 DEF InTcp
    <3>6. QED
      BY <2>1, <3>2, <3>3, <3>4, <3>5
  <2>5. QED
    BY <2>1, <2>3, <2>4 DEF Covered
<1>9. QED
  BY <1>5, <1>6, <1>7, <1>8, TextSteps

(* Every step keeps each byte in one place.                                *)
LEMMA OnceNext ==
  ASSUME OutInv, OutInv', [KernelNext]_kernelVars, NEW s \in Sinks,
         Ordered(s), Once(s)
  PROVE  Once(s)'
<1>0. KernelTypeOK /\ KernelTypeOK'
  BY DEF OutInv, KernelTypes
<1>1. CASE Rests(s)
  <2>1. Shrinks(s)
    BY <1>0, <1>1, RestsShrinks DEF Rests
  <2>2. QED
    BY <1>0, <1>1, <2>1, OnceKept DEF Rests, Keeps
<1>2. CASE Loses(s)
  BY <1>0, <1>2, OnceKept DEF Loses, Shortens
<1>3. ASSUME NEW bytes \in Seq(Byte), PrintsOn(s, bytes)
      PROVE  Once(s)'
  BY <1>0, <1>3, OncePrinted
<1>4. ASSUME NEW id \in 1..MaxRequests, NEW k \in 1..Len(tcp[s][id]),
             NEW parent \in Parents, SendsOn(s, id, k, parent)
      PROVE  Once(s)'
  BY <1>0, <1>4, OnceSent
<1>5. QED
  BY <1>1, <1>2, <1>3, <1>4, TextSteps

AllKept == \A s \in Sinks : Once(s) /\ Covered(s)

(* A written byte is on its way once at most, and nowhere only if a loss   *)
(* has been named.                                                         *)
THEOREM KeptHolds == KernelSpec => []AllKept
<1>1. KernelInit => AllKept
  <2>1. ASSUME KernelInit, NEW s \in Sinks
        PROVE  Once(s) /\ Covered(s)
    <3>1. /\ \A id \in 1..MaxRequests : tcp[s][id] = <<>>
          /\ At(s) = {} /\ wrote[s] = 0
      BY <2>1, NoTextAtFirst
    <3>2. 1..0 = {}
      OBVIOUS
    <3>3. QED
      BY <3>1, <3>2 DEF Once, UnreadOnce, ReadOnce, SentOnce, Covered
  <2>2. QED
    BY <2>1 DEF AllKept
<1>2. OutInv /\ OutInv' /\ AllOrdered /\ AllKept /\ [KernelNext]_kernelVars => AllKept'
  BY OnceNext, CoveredNext DEF AllKept, AllOrdered
<1>3. QED
  BY <1>1, <1>2, OutHolds, OrderHolds, PTL DEF KernelSpec

(* A set of which any two members are the same.                            *)
LEMMA OneOrNone ==
  ASSUME NEW S, \A p, q \in S : p = q
  PROVE  IF S = {} THEN Cardinality(S) = 0 ELSE Cardinality(S) = 1
<1>1. CASE S = {}
  BY <1>1, FS_EmptySet
<1>2. CASE S # {}
  <2>1. PICK p : p \in S
    BY <1>2
  <2>2. S = {p}
    BY <2>1
  <2>3. QED
    BY <1>2, <2>2, FS_Singleton
<1>3. QED
  BY <1>1, <1>2

(* Where a byte waits unread.                                              *)
LEMMA UnreadPlaces ==
  ASSUME NEW s \in Sinks, NEW n
  PROVE  \A p : p \in Unread(s, n) <=>
           \E d \in 1..MaxRequests : \E k \in DOMAIN tcp[s][d] :
             p = <<d, k>> /\ tcp[s][d][k].n = n
BY DEF Unread

(* Where a byte is once it is sent.                                        *)
LEMMA SentPlaces ==
  ASSUME NEW s \in Sinks, NEW n
  PROVE  \A p : p \in Sent(s, n) <=>
           \E i \in TextAt(s) : \E a \in DOMAIN OnTheWay(s)[i].text :
             p = <<i, a>> /\ OnTheWay(s)[i].text[a].n = n
BY DEF Sent

(* Where a byte is, counted.                                               *)
LEMMA ByteOnce ==
  ASSUME OutInv, AllOrdered, AllKept, losses = {},
         NEW s \in Sinks, NEW n \in 1..MaxWrites
  PROVE  Cardinality(Unread(s, n)) + Cardinality(Sent(s, n))
           = IF n <= wrote[s] THEN 1 ELSE 0
<1>0. /\ KernelTypeOK /\ At(s) = TextAt(s)
      /\ Ordered(s) /\ Once(s) /\ Covered(s)
      /\ wrote[s] \in Nat
  BY TextAtPlaces, TextBytes DEF OutInv, KernelTypes, AllOrdered, AllKept
<1>1. \A p, q \in Unread(s, n) : p = q
  <2>1. ASSUME NEW p \in Unread(s, n), NEW q \in Unread(s, n)
        PROVE  p = q
    <3>1. PICK d \in 1..MaxRequests : \E k \in DOMAIN tcp[s][d] :
            p = <<d, k>> /\ tcp[s][d][k].n = n
      BY UnreadPlaces
    <3>2. PICK e \in 1..MaxRequests : \E k \in DOMAIN tcp[s][e] :
            q = <<e, k>> /\ tcp[s][e][k].n = n
      BY UnreadPlaces
    <3>3. QED
      BY <1>0, <3>1, <3>2 DEF Once, UnreadOnce
  <2>2. QED
    BY <2>1
<1>2. \A p, q \in Sent(s, n) : p = q
  <2>1. ASSUME NEW p \in Sent(s, n), NEW q \in Sent(s, n)
        PROVE  p = q
    <3>1. PICK i \in TextAt(s) : \E a \in DOMAIN OnTheWay(s)[i].text :
            p = <<i, a>> /\ OnTheWay(s)[i].text[a].n = n
      BY SentPlaces
    <3>2. PICK j \in TextAt(s) : \E a \in DOMAIN OnTheWay(s)[j].text :
            q = <<j, a>> /\ OnTheWay(s)[j].text[a].n = n
      BY SentPlaces
    <3>3. QED
      BY <1>0, <3>1, <3>2 DEF Once, SentOnce
  <2>2. QED
    BY <2>1
<1>3. Unread(s, n) # {} <=> InTcp(s, n)
  <2>1. ASSUME NEW p \in Unread(s, n)
        PROVE  InTcp(s, n)
    BY <2>1, UnreadPlaces DEF InTcp
  <2>2. ASSUME InTcp(s, n)
        PROVE  Unread(s, n) # {}
    <3>0. PICK d \in 1..MaxRequests : \E k \in DOMAIN tcp[s][d] : tcp[s][d][k].n = n
      BY <2>2 DEF InTcp
    <3>1. PICK k \in DOMAIN tcp[s][d] : tcp[s][d][k].n = n
      BY <3>0
    <3>2. <<d, k>> \in Unread(s, n)
      BY <3>1, UnreadPlaces
    <3>3. QED
      BY <3>2
  <2>3. QED
    BY <2>1, <2>2
<1>4. Sent(s, n) # {} <=> InText(s, n)
  <2>1. ASSUME NEW p \in Sent(s, n)
        PROVE  InText(s, n)
    BY <1>0, <2>1, SentPlaces DEF InText
  <2>2. ASSUME InText(s, n)
        PROVE  Sent(s, n) # {}
    <3>0. PICK i \in At(s) : \E a \in DOMAIN OnTheWay(s)[i].text :
            OnTheWay(s)[i].text[a].n = n
      BY <2>2 DEF InText
    <3>1. PICK a \in DOMAIN OnTheWay(s)[i].text : OnTheWay(s)[i].text[a].n = n
      BY <3>0
    <3>2. <<i, a>> \in Sent(s, n)
      BY <1>0, <3>1, SentPlaces
    <3>3. QED
      BY <3>2
  <2>3. QED
    BY <2>1, <2>2
<1>5. ~(InTcp(s, n) /\ InText(s, n))
  <2>1. ASSUME InTcp(s, n), InText(s, n)
        PROVE  FALSE
    <3>1. PICK d \in 1..MaxRequests : \E k \in DOMAIN tcp[s][d] : tcp[s][d][k].n = n
      BY <2>1 DEF InTcp
    <3>2. PICK i \in At(s) : \E a \in DOMAIN OnTheWay(s)[i].text :
            OnTheWay(s)[i].text[a].n = n
      BY <2>1 DEF InText
    <3>3. QED
      BY <1>0, <3>1, <3>2 DEF Once, ReadOnce
  <2>2. QED
    BY <2>1
<1>6. InTcp(s, n) \/ InText(s, n) <=> n <= wrote[s]
  <2>1. ASSUME n <= wrote[s]
        PROVE  InTcp(s, n) \/ InText(s, n)
    <3>1. n \in 1..wrote[s]
      BY <1>0, <2>1, MaxWritesAssumption
    <3>2. QED
      BY <1>0, <3>1 DEF Covered
  <2>2. InTcp(s, n) => n <= wrote[s]
    BY <1>0 DEF InTcp, Ordered, Queues
  <2>3. InText(s, n) => n <= wrote[s]
    BY <1>0 DEF InText, Ordered, ReadBefore
  <2>4. QED
    BY <2>1, <2>2, <2>3
<1>7. /\ IF InTcp(s, n) THEN Cardinality(Unread(s, n)) = 1
                        ELSE Cardinality(Unread(s, n)) = 0
      /\ IF InText(s, n) THEN Cardinality(Sent(s, n)) = 1
                         ELSE Cardinality(Sent(s, n)) = 0
  BY <1>1, <1>2, <1>3, <1>4, OneOrNone
<1>8. QED
  BY <1>5, <1>6, <1>7

(* Every printed byte is in exactly one place, a connection or a message,  *)
(* unless something was dropped for a reason the model names.              *)
THEOREM TextKeptOnce == KernelSpec => []TextConserved
<1>1. OutInv /\ AllOrdered /\ AllKept => TextConserved
  BY ByteOnce DEF TextConserved
<1>2. QED
  BY <1>1, OutHolds, OrderHolds, KeptHolds, PTL

-----------------------------------------------------------------------------
(* What the main thread publishes arrives without gaps.                    *)

\* the numbers of its messages that are on their way
Numbers == {OnTheWay("pub")[i].at : i \in At("pub")}

Numbered ==
  /\ \A i \in At("pub") :
       /\ OnTheWay("pub")[i].at \in DOMAIN log
       /\ log[OnTheWay("pub")[i].at].chan = "iopub"
  /\ \A i, j \in At("pub") :
       i < j => OnTheWay("pub")[i].at < OnTheWay("pub")[j].at

\* nothing is missing between two of them, nor, while the io thread runs, after
Gapless ==
  "full" \notin losses =>
    \A a, n \in DOMAIN log :
      /\ a \in Numbers /\ a < n /\ log[n].chan = "iopub"
      /\ "io" \in running \/ \E b \in Numbers : n < b
      => n \in Numbers

\* only a thread that has subscribed gets messages
Subscribed == At("pub") # {} => <<"io", "pub">> \in joined

Sequence == Numbered /\ Gapless /\ Subscribed

(* A thread does not come back, a subscription is not lost.                *)
LEMMA OneWay ==
  ASSUME KernelTypeOK, [KernelNext]_kernelVars
  PROVE  running' \subseteq running /\ joined \subseteq joined'
<1>1. CASE Server
  BY <1>1 DEF Server
<1>2. ASSUME NEW s \in Sinks, NEW glyph \in Glyphs, UserWrites(s, glyph)
      PROVE  running' \subseteq running /\ joined \subseteq joined'
  BY <1>2 DEF UserWrites, threadVars
<1>3. ASSUME NEW sub \in Subscriptions, Join(sub)
      PROVE  running' \subseteq running /\ joined \subseteq joined'
  BY <1>3 DEF Join
<1>4. ASSUME NEW t \in Threads, ThreadStep(t)
      PROVE  running' \subseteq running /\ joined \subseteq joined'
  BY <1>4 DEF ThreadStep, StartPass, Stop, StreamOutErr, Forward
<1>5. CASE Crash
  BY <1>5 DEF Crash
<1>6. CASE Deliver \/ UNCHANGED kernelVars
  BY <1>6 DEF Deliver, kernelVars, threadVars
<1>7. QED
  BY <1>1, <1>2, <1>3, <1>4, <1>5, <1>6 DEF KernelNext, AtRest

(* What a step does to the line of the main thread's messages.             *)
LEMMA PubSteps ==
  ASSUME OutInv, OutInv', [KernelNext]_kernelVars
  PROVE  /\ losses \subseteq losses'
         /\ \/ Keeps("pub") /\ SendsPrivately
            \/ Shortens("pub") /\ log' = log /\ "io" \notin running'
            \/ \E e \in Event :
                 /\ e.chan = "iopub" /\ log' = Append(log, e)
                 /\ \/ /\ Adds("pub", PubMsg(e, Len(log) + 1))
                       /\ <<"io", "pub">> \in joined /\ "io" \in running
                    \/ /\ Keeps("pub")
                       /\ \/ "io" \notin running
                          \/ <<"io", "pub">> \notin joined
                          \/ "full" \in losses'
<1>0. /\ MainInv /\ KernelTypes /\ KernelTypeOK /\ Served /\ PipesApart
      /\ KernelTypeOK' /\ "pub" \in Topics
      /\ log \in Seq(Event) /\ Len(log) \in Nat
  <2>1. /\ MainInv /\ KernelTypes /\ KernelTypeOK /\ Served /\ PipesApart
        /\ KernelTypeOK'
    BY DEF OutInv, KernelTypes
  <2>2. "pub" \in Topics
    BY DEF Topics
  <2>3. log \in Seq(Event)
    BY <2>1 DEF KernelTypeOK, TypeOK
  <2>4. Len(log) \in Nat
    BY <2>3
  <2>5. QED
    BY <2>1, <2>2, <2>3, <2>4
<1>1. CASE Silent
  BY <1>0, <1>1 DEF Silent
<1>2. CASE Drops
  BY <1>0, <1>2 DEF Drops, SendsPrivately
<1>3. CASE Posts
  <2>1. PICK e \in Event : e.chan = "iopub" /\ log' = Append(log, e)
    BY <1>3 DEF Posts
  <2>2. Len(log') = Len(log) + 1 /\ log'[Len(log')] = e
    BY <1>0, <2>1
  <2>3. Put("pub", PubMsg(e, Len(log) + 1)) /\ UNCHANGED <<seen, wire>>
    BY <1>3, <2>2 DEF Posts
  <2>4. PubMsg(e, Len(log) + 1) \in Message /\ Of("pub", PubMsg(e, Len(log) + 1))
    <3>1. e.kind \in EventKinds /\ e.parent \in Request \cup {NoRequest}
      BY DEF Event
    <3>2. e.kind # "stream"
      BY <3>1 DEF EventKinds, OutputKinds
    <3>3. Len(log) + 1 \in Nat
      BY <1>0
    <3>4. QED
      BY <3>1, <3>2, <3>3 DEF PubMsg, Message, Of
  <2>5. \/ /\ Adds("pub", PubMsg(e, Len(log) + 1))
           /\ losses' = losses /\ "io" \in running /\ <<"io", "pub">> \in joined
        \/ /\ Keeps("pub") /\ losses \subseteq losses'
           /\ \/ "io" \notin running
              \/ <<"io", "pub">> \notin joined
              \/ "full" \in losses'
    BY <1>0, <2>3, <2>4, PutLines
  <2>6. QED
    BY <2>1, <2>5
<1>4. ASSUME NEW s \in Sinks, NEW glyph \in Glyphs, UserWrites(s, glyph)
      PROVE  losses \subseteq losses' /\ Keeps("pub") /\ SendsPrivately
  <2>1. UNCHANGED <<vars, outVars>>
    BY <1>4 DEF UserWrites
  <2>2. log' = log /\ losses' = losses /\ pipe' = pipe /\ UNCHANGED <<seen, wire>>
    BY <2>1 DEF vars, outVars
  <2>3. QED
    BY <1>0, <2>2, SameKeeps DEF SendsPrivately
<1>5. ASSUME NEW s \in Sinks, StreamOutErr(s)
      PROVE  losses \subseteq losses' /\ Keeps("pub") /\ SendsPrivately
  <2>1. /\ UNCHANGED <<vars, wrote, joined, running, wire, seen>>
        /\ \E id \in 1..MaxRequests : \E k \in 1..Len(tcp[s][id]) :
             /\ tcp' = [tcp EXCEPT ![s][id] = Rest(@, k)]
             /\ \/ \E parent \in Parents :
                     Put(s, StreamMsg(parent, s, SubSeq(tcp[s][id], 1, k)))
                \/ losses' = losses \cup {"encoding"} /\ UNCHANGED pipe
    BY <1>0, <1>5, StreamTakes
  <2>2. PICK id \in 1..MaxRequests : \E k \in 1..Len(tcp[s][id]) :
             /\ tcp' = [tcp EXCEPT ![s][id] = Rest(@, k)]
             /\ \/ \E parent \in Parents :
                     Put(s, StreamMsg(parent, s, SubSeq(tcp[s][id], 1, k)))
                \/ losses' = losses \cup {"encoding"} /\ UNCHANGED pipe
    BY <2>1
  <2>3. PICK k \in 1..Len(tcp[s][id]) :
             /\ tcp' = [tcp EXCEPT ![s][id] = Rest(@, k)]
             /\ \/ \E parent \in Parents :
                     Put(s, StreamMsg(parent, s, SubSeq(tcp[s][id], 1, k)))
                \/ losses' = losses \cup {"encoding"} /\ UNCHANGED pipe
    BY <2>2
  <2>4. SendsPrivately
    BY <2>1 DEF SendsPrivately, vars
  <2>5. CASE losses' = losses \cup {"encoding"} /\ UNCHANGED pipe
    BY <1>0, <2>1, <2>4, <2>5, SameKeeps
  <2>6. ASSUME NEW parent \in Parents,
               Put(s, StreamMsg(parent, s, SubSeq(tcp[s][id], 1, k)))
        PROVE  losses \subseteq losses' /\ Keeps("pub")
    <3> DEFINE m == StreamMsg(parent, s, SubSeq(tcp[s][id], 1, k))
    <3>1. m \in Message
      BY <1>0, <2>3, TakenMessage
    <3>2. Of(s, m) /\ s \in Topics /\ s # "pub"
      BY SinksAssumption DEF Of, StreamMsg, Topics, Streams
    <3> HIDE DEF m
    <3>3. QED
      BY <1>0, <2>1, <2>6, <3>1, <3>2, PutLines DEF m
  <2>7. QED
    BY <2>3, <2>4, <2>5, <2>6
<1>6. QED
  BY <1>0, <1>1, <1>2, <1>3, <1>4, <1>5, OutputSteps

(* Messages on their way that are numbered stay so, the numbers being      *)
(* those of a log that only grows.                                         *)
LEMMA NumberedKept ==
  ASSUME Numbered, NEW f, Follow("pub", f),
         \A n \in DOMAIN log : n \in DOMAIN log' /\ log'[n] = log[n]
  PROVE  /\ Numbered'
         /\ Numbers' \subseteq Numbers
         /\ Subscribed /\ joined \subseteq joined' => Subscribed'
<1>1. /\ \A i \in At("pub")' : /\ f[i] \in At("pub")
                               /\ OnTheWay("pub")'[i] = OnTheWay("pub")[f[i]]
      /\ \A i, j \in At("pub")' : i < j => f[i] < f[j]
  BY DEF Follow
<1>2. Numbers' = {OnTheWay("pub")'[i].at : i \in At("pub")'}
  BY DEF Numbers
<1>3. Numbers' \subseteq Numbers
  BY <1>1, <1>2 DEF Numbers
<1>4. \A i \in At("pub")' :
        /\ OnTheWay("pub")'[i].at \in DOMAIN log'
        /\ log'[OnTheWay("pub")'[i].at].chan = "iopub"
  BY <1>1 DEF Numbered
<1>5. \A i, j \in At("pub")' :
        i < j => OnTheWay("pub")'[i].at < OnTheWay("pub")'[j].at
  BY <1>1 DEF Numbered
<1>6. Subscribed /\ joined \subseteq joined' => Subscribed'
  <2>1. At("pub")' # {} => At("pub") # {}
    BY <1>1
  <2>2. QED
    BY <2>1 DEF Subscribed
<1>7. QED
  BY <1>3, <1>4, <1>5, <1>6 DEF Numbered

(* A line that is kept keeps all its numbers.                              *)
LEMMA NumbersKept ==
  ASSUME Keeps("pub")
  PROVE  Numbers' = Numbers
<1>1. PICK f : /\ Follow("pub", f)
               /\ \A k \in At("pub") : \E j \in At("pub")' : f[j] = k
  BY DEF Keeps
<1>2. \A i \in At("pub")' : /\ f[i] \in At("pub")
                            /\ OnTheWay("pub")'[i] = OnTheWay("pub")[f[i]]
  BY <1>1 DEF Follow
<1>3. Numbers' = {OnTheWay("pub")'[i].at : i \in At("pub")'}
  BY DEF Numbers
<1>4. QED
  BY <1>1, <1>2, <1>3 DEF Numbers

(* The log only grows, and what is added without being published is for    *)
(* another channel.                                                        *)
LEMMA LogGrows ==
  ASSUME log \in Seq(Event), NEW e \in Event, log' = Append(log, e)
  PROVE  /\ Len(log) \in Nat /\ DOMAIN log = 1..Len(log)
         /\ DOMAIN log' = DOMAIN log \cup {Len(log) + 1}
         /\ \A n \in DOMAIN log : n \in DOMAIN log' /\ log'[n] = log[n]
         /\ log'[Len(log) + 1] = e
BY Appended

(* Every step keeps the run of numbers.                                    *)
LEMMA SequenceNext ==
  ASSUME OutInv, OutInv', [KernelNext]_kernelVars, Sequence
  PROVE  Sequence'
<1>0. /\ KernelTypeOK /\ KernelTypeOK' /\ log \in Seq(Event)
      /\ Numbered /\ Gapless /\ Subscribed
      /\ running' \subseteq running /\ joined \subseteq joined'
      /\ losses \subseteq losses'
  BY OneWay, PubSteps DEF OutInv, KernelTypes, KernelTypeOK, TypeOK, Sequence
<1>1. \A n \in DOMAIN log : n \in Nat
  BY <1>0
<1>2. \A a \in Numbers : a \in DOMAIN log
  BY <1>0 DEF Numbers, Numbered
<1>3. CASE Keeps("pub") /\ SendsPrivately
  <2>1. /\ \A n \in DOMAIN log : n \in DOMAIN log' /\ log'[n] = log[n]
        /\ \A n \in DOMAIN log' : log'[n].chan = "iopub" => n \in DOMAIN log
    <3>1. CASE log' = log
      BY <3>1
    <3>2. ASSUME NEW e \in Event, e.chan # "iopub", log' = Append(log, e)
          PROVE  /\ \A n \in DOMAIN log : n \in DOMAIN log' /\ log'[n] = log[n]
                 /\ \A n \in DOMAIN log' : log'[n].chan = "iopub" => n \in DOMAIN log
      BY <1>0, <3>2, LogGrows
    <3>3. QED
      BY <1>3, <3>1, <3>2 DEF SendsPrivately
  <2>2. PICK f : Follow("pub", f)
    BY <1>3 DEF Keeps
  <2>3. Numbered' /\ Subscribed'
    BY <1>0, <2>1, <2>2, NumberedKept
  <2>4. Numbers' = Numbers
    BY <1>3, NumbersKept
  <2>5. ASSUME "full" \notin losses', NEW a \in DOMAIN log', NEW n \in DOMAIN log',
               a \in Numbers', a < n, log'[n].chan = "iopub",
               "io" \in running' \/ \E b \in Numbers' : n < b
        PROVE  n \in Numbers'
    <3>1. n \in DOMAIN log /\ log[n].chan = "iopub" /\ a \in Numbers /\ a \in DOMAIN log
      BY <1>2, <2>1, <2>4, <2>5
    <3>2. "full" \notin losses /\ ("io" \in running \/ \E b \in Numbers : n < b)
      BY <1>0, <2>4, <2>5
    <3>3. QED
      BY <1>0, <2>4, <2>5, <3>1, <3>2 DEF Gapless
  <2>6. Gapless'
    BY <2>5 DEF Gapless
  <2>7. QED
    BY <2>3, <2>6 DEF Sequence
<1>4. CASE Shortens("pub") /\ log' = log /\ "io" \notin running'
  <2>1. PICK f : /\ Follow("pub", f)
                 /\ \A i \in At("pub")', k \in At("pub") :
                      k < f[i] => \E j \in At("pub")' : f[j] = k
    BY <1>4 DEF Shortens
  <2>2. /\ \A i \in At("pub")' : /\ f[i] \in At("pub")
                                 /\ OnTheWay("pub")'[i] = OnTheWay("pub")[f[i]]
    BY <2>1 DEF Follow
  <2>3. Numbered' /\ Subscribed' /\ Numbers' \subseteq Numbers
    BY <1>0, <1>4, <2>1, NumberedKept
  <2>4. Numbers' = {OnTheWay("pub")'[i].at : i \in At("pub")'}
    BY DEF Numbers
  <2>5. ASSUME "full" \notin losses', NEW a \in DOMAIN log', NEW n \in DOMAIN log',
               a \in Numbers', a < n, log'[n].chan = "iopub",
               NEW b \in Numbers', n < b
        PROVE  n \in Numbers'
    <3>1. a \in Numbers /\ b \in Numbers /\ n \in DOMAIN log
          /\ a \in DOMAIN log /\ log[n].chan = "iopub" /\ "full" \notin losses
      BY <1>0, <1>4, <2>3, <2>5
    <3>2. n \in Numbers
      BY <1>0, <2>5, <3>1 DEF Gapless
    <3>3. PICK k \in At("pub") : n = OnTheWay("pub")[k].at
      BY <3>2 DEF Numbers
    <3>4. PICK i \in At("pub")' : b = OnTheWay("pub")'[i].at
      BY <2>4, <2>5
    <3>5. f[i] \in At("pub") /\ b = OnTheWay("pub")[f[i]].at
      BY <2>2, <3>4
    <3>6. k < f[i]
      <4>1. k \in Nat /\ f[i] \in Nat
        <5>1. DOMAIN OnTheWay("pub") = 1..Len(OnTheWay("pub"))
          BY <1>0, LineBefore DEF Laid, Topics
        <5>2. \A j \in DOMAIN OnTheWay("pub") : j \in Nat
          BY <5>1
        <5>3. QED
          BY <3>3, <3>5, <5>2 DEF At
      <4>2. n \in Nat /\ b \in Nat
        BY <1>1, <1>2, <3>1
      <4>3. k # f[i]
        BY <2>5, <3>3, <3>5, <4>2
      <4>4. ~(f[i] < k)
        <5>1. f[i] < k => b < n
          BY <1>0, <3>3, <3>5 DEF Numbered
        <5>2. QED
          BY <2>5, <4>2, <5>1
      <4>5. QED
        BY <4>1, <4>3, <4>4
    <3>7. PICK j \in At("pub")' : f[j] = k
      BY <2>1, <3>6
    <3>8. n = OnTheWay("pub")'[j].at
      BY <2>2, <3>3, <3>7
    <3>9. QED
      BY <2>4, <3>8
  <2>6. Gapless'
    BY <1>4, <2>5 DEF Gapless
  <2>7. QED
    BY <2>3, <2>6 DEF Sequence
<1>5. ASSUME NEW e \in Event, e.chan = "iopub", log' = Append(log, e),
             Adds("pub", PubMsg(e, Len(log) + 1)),
             <<"io", "pub">> \in joined, "io" \in running
      PROVE  Sequence'
  <2> DEFINE old == OnTheWay("pub")
             last == Len(old) + 1
             top == Len(log) + 1
  <2>1. /\ DOMAIN log = 1..Len(log) /\ Len(log) \in Nat
        /\ DOMAIN log' = DOMAIN log \cup {top}
        /\ \A n \in DOMAIN log : n \in DOMAIN log' /\ log'[n] = log[n]
        /\ log'[top] = e
    BY <1>0, <1>5, LogGrows
  <2>2. /\ Len(OnTheWay("pub")') = last
        /\ \A i \in DOMAIN old : OnTheWay("pub")'[i] = old[i]
        /\ OnTheWay("pub")'[last] = PubMsg(e, top)
    BY <1>5 DEF Adds
  <2>3. Len(old) \in Nat /\ DOMAIN old = 1..Len(old)
    BY <1>0, LineBefore DEF Laid, Topics
  <2>4. DOMAIN OnTheWay("pub")' = 1..last
    <3>1. DOMAIN OnTheWay("pub")' = 1..Len(OnTheWay("pub")')
      BY <1>0, LineAfter DEF Laid, Topics
    <3>2. QED
      BY <2>2, <3>1
  <2>5. OnTheWay("pub")'[last].at = top
    BY <2>2 DEF PubMsg
  <2>6. At("pub") = {i \in DOMAIN old : Of("pub", old[i])}
    BY DEF At
  <2>7. At("pub")' = {i \in DOMAIN OnTheWay("pub")' : Of("pub", OnTheWay("pub")'[i])}
    BY DEF At, Of
  <2>8. Numbers' = {OnTheWay("pub")'[i].at : i \in At("pub")'}
    BY DEF Numbers
  <2>9. Of("pub", OnTheWay("pub")'[last])
    BY <1>5, <2>2 DEF Adds
  <2> HIDE DEF old
  <2>10. \A i \in At("pub")' :
           \/ i = last
           \/ i \in At("pub") /\ i < last /\ OnTheWay("pub")'[i] = old[i]
    BY <2>2, <2>3, <2>4, <2>6, <2>7
  <2>11. /\ last \in At("pub")'
         /\ \A i \in At("pub") : /\ i \in At("pub")' /\ i < last
                                 /\ OnTheWay("pub")'[i] = old[i]
    BY <2>2, <2>3, <2>4, <2>6, <2>7, <2>9
  <2>12. last \in Nat /\ top \in Nat /\ \A n \in DOMAIN log : n < top
    BY <2>1, <2>3
  <2> HIDE DEF last, top
  <2>13. Numbers' = Numbers \cup {top}
    <3>1. ASSUME NEW n \in Numbers'
          PROVE  n \in Numbers \cup {top}
      <4>1. PICK i \in At("pub")' : n = OnTheWay("pub")'[i].at
        BY <2>8
      <4>2. QED
        BY <2>5, <2>10, <4>1 DEF Numbers, old
    <3>2. top \in Numbers'
      BY <2>5, <2>8, <2>11
    <3>3. ASSUME NEW n \in Numbers
          PROVE  n \in Numbers'
      <4>1. PICK i \in At("pub") : n = old[i].at
        BY DEF Numbers, old
      <4>2. i \in At("pub")' /\ n = OnTheWay("pub")'[i].at
        BY <2>11, <4>1
      <4>3. QED
        BY <2>8, <4>2
    <3>4. QED
      BY <3>1, <3>2, <3>3
  <2>14. ASSUME NEW i \in At("pub")'
         PROVE  /\ OnTheWay("pub")'[i].at \in DOMAIN log'
                /\ log'[OnTheWay("pub")'[i].at].chan = "iopub"
                /\ i \in At("pub") => OnTheWay("pub")'[i].at < top
    <3>1. CASE i = last
      <4>1. last \notin At("pub")
        BY <2>11, <2>12
      <4>2. QED
        BY <1>5, <2>1, <2>5, <3>1, <4>1
    <3>2. CASE i \in At("pub")
      <4>1. /\ OnTheWay("pub")'[i].at \in DOMAIN log
            /\ log[OnTheWay("pub")'[i].at].chan = "iopub"
        BY <1>0, <2>11, <3>2 DEF Numbered, old
      <4>2. QED
        BY <2>1, <2>12, <4>1
    <3>3. QED
      BY <2>10, <3>1, <3>2
  <2>15. ASSUME NEW i \in At("pub")', NEW j \in At("pub")', i < j
         PROVE  OnTheWay("pub")'[i].at < OnTheWay("pub")'[j].at
    <3>1. i \in At("pub")
      <4>1. i # last
        <5>1. ASSUME i = last
              PROVE  FALSE
          <6>1. j = last \/ (j < last /\ j \in At("pub"))
            BY <2>10
          <6>2. j \in Nat
            BY <2>3, <2>6, <2>12, <6>1
          <6>3. QED
            BY <2>12, <2>15, <5>1, <6>1, <6>2
        <5>2. QED
          BY <5>1
      <4>2. QED
        BY <2>10, <4>1
    <3>2. CASE j = last
      BY <2>5, <2>14, <3>1, <3>2
    <3>3. CASE j \in At("pub")
      BY <1>0, <2>11, <2>15, <3>1, <3>3 DEF Numbered, old
    <3>4. QED
      BY <2>10, <3>2, <3>3
  <2>16. Numbered'
    BY <2>14, <2>15 DEF Numbered
  <2>17. ASSUME "full" \notin losses', NEW a \in DOMAIN log', NEW n \in DOMAIN log',
                a \in Numbers', a < n, log'[n].chan = "iopub"
         PROVE  n \in Numbers'
    <3>1. CASE n = top
      BY <2>13, <3>1
    <3>2. CASE n \in DOMAIN log
      <4>1. a # top
        BY <1>1, <2>12, <2>17, <3>2
      <4>2. a \in Numbers /\ a \in DOMAIN log
        BY <1>2, <2>13, <2>17, <4>1
      <4>3. n \in Numbers
        BY <1>0, <1>5, <2>1, <2>17, <3>2, <4>2 DEF Gapless
      <4>4. QED
        BY <2>13, <4>3
    <3>3. QED
      BY <2>1, <3>1, <3>2
  <2>18. Gapless'
    BY <2>17 DEF Gapless
  <2>19. Subscribed'
    BY <1>0, <1>5 DEF Subscribed
  <2>20. QED
    BY <2>16, <2>18, <2>19 DEF Sequence
<1>6. ASSUME NEW e \in Event, e.chan = "iopub", log' = Append(log, e),
             Keeps("pub"),
             "io" \notin running \/ <<"io", "pub">> \notin joined \/ "full" \in losses'
      PROVE  Sequence'
  <2>1. /\ Len(log) \in Nat /\ DOMAIN log = 1..Len(log)
        /\ DOMAIN log' = DOMAIN log \cup {Len(log) + 1}
        /\ \A n \in DOMAIN log : n \in DOMAIN log' /\ log'[n] = log[n]
    BY <1>0, <1>6, LogGrows
  <2>2. PICK f : Follow("pub", f)
    BY <1>6 DEF Keeps
  <2>3. Numbered' /\ Subscribed'
    BY <1>0, <2>1, <2>2, NumberedKept
  <2>4. Numbers' = Numbers
    BY <1>6, NumbersKept
  <2>5. ASSUME "full" \notin losses', NEW a \in DOMAIN log', NEW n \in DOMAIN log',
               a \in Numbers', a < n, log'[n].chan = "iopub",
               "io" \in running' \/ \E b \in Numbers' : n < b
        PROVE  n \in Numbers'
    <3>1. CASE <<"io", "pub">> \notin joined
      <4>1. Numbers = {}
        BY <1>0, <3>1 DEF Subscribed, Numbers
      <4>2. QED
        BY <2>4, <2>5, <4>1
    <3>2. CASE "io" \notin running
      <4>1. PICK b \in Numbers : n < b
        BY <1>0, <2>4, <2>5, <3>2
      <4>2. b \in DOMAIN log
        BY <1>2
      <4>3. n \in DOMAIN log
        BY <2>1, <4>1, <4>2
      <4>4. a \in Numbers /\ a \in DOMAIN log /\ log[n].chan = "iopub"
        BY <1>2, <2>1, <2>4, <2>5, <4>3
      <4>5. QED
        BY <1>0, <2>4, <2>5, <4>1, <4>3, <4>4 DEF Gapless
    <3>3. QED
      BY <1>6, <2>5, <3>1, <3>2
  <2>6. Gapless'
    BY <2>5 DEF Gapless
  <2>7. QED
    BY <2>3, <2>6 DEF Sequence
<1>7. QED
  BY <1>3, <1>4, <1>5, <1>6, PubSteps

(* The numbers of the main thread's messages run on without a gap from     *)
(* what the client has to what waits in the pipe, while nothing was lost.  *)
THEOREM SequenceHolds == KernelSpec => []Sequence
<1>1. KernelInit => Sequence
  <2>1. ASSUME KernelInit
        PROVE  At("pub") = {}
    <3>1. pipe["pub"] = <<>> /\ seen = <<>> /\ wire = <<>>
      BY <2>1 DEF KernelInit, Topics
    <3>2. QED
      BY <3>1 DEF At, OnTheWay
  <2>2. QED
    BY <2>1 DEF Sequence, Numbered, Gapless, Subscribed, Numbers
<1>2. OutInv /\ OutInv' /\ Sequence /\ [KernelNext]_kernelVars => Sequence'
  BY SequenceNext
<1>3. QED
  BY <1>1, <1>2, OutHolds, PTL DEF KernelSpec

(* What the main thread publishes reaches the client in one run, in order  *)
(* and without gaps, unless a pipe was full; for any number of messages,   *)
(* and however the threads start, stop, crash and take their turns.        *)
THEOREM GapFree == KernelSpec => []NoGaps
<1>1. ASSUME OutInv, Sequence
      PROVE  NoGaps
  <2>1. /\ KernelTypeOK /\ Numbered /\ Gapless
    BY <1>1 DEF OutInv, KernelTypes, Sequence
  <2>2. At("pub") = ServerAt
    <3>1. ASSUME NEW i \in DOMAIN OnTheWay("pub")
          PROVE  Of("pub", OnTheWay("pub")[i]) <=> OnTheWay("pub")[i].kind # "stream"
      <4>1. OnTheWay("pub")[i] \in Message
        <5>1. /\ seen \in Seq(Message) /\ wire \in Seq(Message)
              /\ pipe["pub"] \in Seq(Message)
          BY <2>1 DEF KernelTypeOK, Topics
        <5>2. seen \o wire \in Seq(Message)
          BY <5>1
        <5>3. OnTheWay("pub") \in Seq(Message)
          BY <5>1, <5>2 DEF OnTheWay
        <5>4. QED
          BY <5>3
      <4>2. OnTheWay("pub")[i].kind = "stream" => OnTheWay("pub")[i].name # "pub"
        <5>1. "stream" \notin EventKinds
          BY DEF EventKinds, OutputKinds
        <5>2. "pub" \notin Sinks
          BY SinksAssumption DEF Streams
        <5>3. QED
          BY <4>1, <5>1, <5>2 DEF Message
      <4>3. QED
        BY <4>2 DEF Of
    <3>2. QED
      BY <3>1 DEF At, ServerAt
  <2>3. Arriving = Numbers
    BY <2>2 DEF Arriving, Numbers
  <2>4. \A i, j \in ServerAt :
          i < j => OnTheWay("pub")[i].at < OnTheWay("pub")[j].at
    BY <2>1, <2>2 DEF Numbered
  <2>5. ASSUME "full" \notin losses, NEW first \in Arriving, NEW last \in Arriving,
               NEW n \in DOMAIN log, first < n, n < last, log[n].chan = "iopub"
        PROVE  n \in Arriving
    <3>1. first \in DOMAIN log
      BY <2>1, <2>3 DEF Numbers, Numbered
    <3>2. QED
      BY <2>1, <2>3, <2>5, <3>1 DEF Gapless
  <2>6. QED
    BY <2>4, <2>5 DEF NoGaps
<1>2. QED
  BY <1>1, OutHolds, SequenceHolds, PTL
=============================================================================
