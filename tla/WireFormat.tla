----------------------------- MODULE WireFormat -----------------------------
(***************************************************************************)
(* Messages on the wire: JMessage of jmessage.h, which the kernel and the  *)
(* test client both read with, over multipart_t of zmq_addon.hpp.  A frame *)
(* is a record [is, text, holds]: bytes, the text of a json with the value *)
(* that json::parse makes of it, or a signature.  A value has many texts:  *)
(* a client spaces its own as it likes, the kernel writes what dump does.  *)
(* The hash is a term: equal for equal key and equal text, where the text  *)
(* is the four dicts one after another (Digest has its padding).           *)
(***************************************************************************)
EXTENDS JsonValue, FiniteSets

CONSTANTS
  Dumped(_),  \* the text that dump writes of a value
  Reread(_)   \* what that text is read as: a long number is rounded

Bytes(b) == [is |-> "bytes", text |-> <<Tok(b)>>, holds |-> Null]
Text(j) == [is |-> "json", text |-> Dumped(j), holds |-> Reread(j)]
Signature(key, signed) ==
  [is |-> "hmac", text |-> <<[tok |-> "hmac", key |-> key, of |-> signed]>>, holds |-> Null]

Empty == Bytes("")
Delimiter == Bytes("<IDS|MSG>")

Parts == <<"header", "parent_header", "metadata", "content">>

-----------------------------------------------------------------------------
(* multipart_t: a deque of parts, on a socket with a flag on all but the   *)
(* last.                                                                   *)

Wire(frame, more) == [frame |-> frame, more |-> more]

\* send: nothing at all for no frames
Send(queue, frames) ==
  queue \o [i \in DOMAIN frames |-> Wire(frames[i], i < Len(frames))]

\* recv: up to the first part without the flag, and what is left of the queue
Recv(queue) ==
  LET last == SelectInSeq(queue, LAMBDA w : ~w.more)
  IN [frames |-> [i \in 1..last |-> queue[i].frame],
      left |-> SubSeq(queue, last + 1, Len(queue))]

-----------------------------------------------------------------------------
(* JMessage.                                                               *)

Message(key, ids, msg, buffers) ==
  [outcome |-> "read", key |-> key, ids |-> ids, msg |-> msg, buffers |-> buffers]

Failure(outcome) ==
  [outcome |-> outcome, key |-> "", ids |-> <<>>, msg |-> <<>>, buffers |-> <<>>]

\* the texts of the four dicts, one after another
Signed(key, texts) == Signature(key, texts[1] \o texts[2] \o texts[3] \o texts[4])

\* read_ids: up to the delimiter, or an empty frame; without either the deque
\* is popped when it is empty
IdsOf(frames) ==
  LET end == SelectInSeq(frames, LAMBDA f : f \in {Empty, Delimiter})
  IN IF end = 0 THEN <<>> ELSE SubSeq(frames, 1, end - 1)

HasIds(frames) == \E i \in DOMAIN frames : frames[i] \in {Empty, Delimiter}

\* what follows ids and delimiter, and its four dicts by their names
BodyOf(frames) == SubSeq(frames, Len(IdsOf(frames)) + 2, Len(frames))

DictsOf(body) ==
  [p \in ToSet(Parts) |-> body[1 + CHOOSE i \in 1..4 : Parts[i] = p].holds]

\* mutant of Verified: the text is what dump would write
VerifiedRedumped(frame) == Dumped(frame.holds)

\* read_json: the text that counts for the signature is the one received
Verified(frame) == frame.text

\* read: ids, signature, four dicts, buffers, and the signature is checked
\* last; to pop the empty deque is undefined
Read(frames, key) ==
  LET body == BodyOf(frames)
  IN IF ~HasIds(frames) THEN Failure("pops_empty_deque")
     ELSE IF \E i \in 2..Min({5, Len(body)}) : body[i].is # "json"
          THEN Failure("parse_error")
     ELSE IF Len(body) < 5 THEN Failure("pops_empty_deque")
     ELSE IF body[1] # Signed(key, [i \in 1..4 |-> Verified(body[1 + i])])
          THEN Failure("bad_hmac")
     ELSE Message(key, IdsOf(frames), DictsOf(body), SubSeq(body, 6, Len(body)))

\* to_multipart_t: the four dicts are dumped, and those texts signed
ToMultipart(jm) ==
  jm.ids \o <<Delimiter, Signed(jm.key, [i \in 1..4 |-> Dumped(jm.msg[Parts[i]])])>>
         \o [i \in 1..4 |-> Text(jm.msg[Parts[i]])] \o jm.buffers

\* the const operator[]: throws for what is no object; a missing key is
\* undefined (end() is dereferenced)
Lacks(j, key) == j.type # "object" \/ key \notin DOMAIN j.data

Field(j, key) ==
  IF Lacks(j, key)
  THEN Throws(IF j.type # "object" THEN "type_error 305" ELSE "undefined")
  ELSE j.data[key]

Header(id, username, session, type) ==
  Object([k \in {"msg_id", "username", "session", "date", "msg_type", "version"} |->
            CASE k = "msg_id" -> id
              [] k = "username" -> username
              [] k = "session" -> session
              [] k = "date" -> String("now")
              [] k = "msg_type" -> String(type)
              [] k = "version" -> String("5.2")])

\* the four dicts of a reply
Answer(header, type, content) ==
  [p \in ToSet(Parts) |->
     CASE p = "header" -> Header(String("uniq_id"), Field(header, "username"),
                                 Field(header, "session"), type)
       [] p = "parent_header" -> header
       [] p = "metadata" -> EmptyObject
       [] p = "content" -> content]

\* reply: the parent's key, ids, user and session, and its header as parent;
\* the parent's user and session are looked up first, and in that order
Reply(parent, type, content, buffers) ==
  LET header == parent.msg["header"]
      fails(key) == [outcome |-> Field(header, key).data, frames |-> <<>>]
  IN IF Lacks(header, "username") THEN fails("username")
     ELSE IF Lacks(header, "session") THEN fails("session")
     ELSE [outcome |-> "written",
           frames |-> ToMultipart(Message(parent.key, parent.ids,
                                          Answer(header, type, content), buffers))]

-----------------------------------------------------------------------------
(* The test client: requests through a DEALER, to which the kernel's       *)
(* ROUTER gives a name that it takes off the replies; what is published    *)
(* comes with all its ids, and is passed on as one text in the process.    *)

ClientId == Bytes("8487E89F")

AtRouter(frames) == <<Bytes("peer")>> \o frames
FromRouter(frames) == Tail(frames)

\* execute_request: built by hand, not with to_multipart_t
ExecuteRequest(key, request) ==
  <<ClientId, Delimiter, Signed(key, [i \in 1..4 |-> Dumped(request[Parts[i]])])>>
  \o [i \in 1..4 |-> Text(request[Parts[i]])]

\* execute_reply: the message as one object
ExecuteReply(frames, key) == Text(Object(Read(frames, key).msg))

\* the iopub thread's handler; a second frame that is empty is taken for a
\* (dis)connect and not passed on
PassOn(queue, frames, key) ==
  IF frames[2] = Empty THEN queue
  ELSE Send(queue, <<Text(Object(Read(frames, key).msg))>>)

\* IOMessage::recv does not wait
IOMessageRecv(queue) == IF queue = <<>> THEN Empty ELSE Recv(queue).frames[1]

-----------------------------------------------------------------------------

(* What is promised.                                                       *)

\* ids, one empty frame or delimiter, a signature, the texts of four dicts, and
\* any buffers, where the signature is that of the texts as they came
Authentic(frames, key, n) ==
  /\ n + 6 <= Len(frames)
  /\ frames[n + 1] \in {Empty, Delimiter}
  /\ \A i \in 1..n : frames[i] \notin {Empty, Delimiter}
  /\ \A i \in 3..6 : frames[n + i].is = "json"
  /\ frames[n + 2] = Signature(key, frames[n + 3].text \o frames[n + 4].text
                                     \o frames[n + 5].text \o frames[n + 6].text)

\* what is read is what was signed, and only that; a message cut short before
\* its last dict is never read, and one cut short after it always is, since
\* nothing signs or counts the buffers
ReadAsSigned(frames, key) ==
  LET jm == Read(frames, key)
  IN /\ (jm.outcome = "read") <=> \E n \in 0..Len(frames) : Authentic(frames, key, n)
     /\ jm.outcome = "read" =>
          LET n == Len(jm.ids)
              cut(l) == Read(SubSeq(frames, 1, l), key)
          IN /\ Authentic(frames, key, n)
             /\ \A i \in 1..4 : jm.msg[Parts[i]] = frames[n + 2 + i].holds
             /\ \A l \in 0..n + 5 : cut(l).outcome = "pops_empty_deque"
             /\ \A l \in n + 6..Len(frames) :
                  cut(l) = [jm EXCEPT !.buffers = SubSeq(frames, n + 7, l)]

Named(header) ==
  header.type = "object" /\ {"username", "session"} \subseteq DOMAIN header.data

\* what a peer reads of a reply: a value that its own text keeps is kept
Told(header, type, content) ==
  [p \in ToSet(Parts) |->
     Reread(CASE p = "header" -> Header(String("uniq_id"), header.data["username"],
                                        header.data["session"], type)
              [] p = "parent_header" -> header
              [] p = "metadata" -> EmptyObject
              [] p = "content" -> content)]

\* a message is read as it was signed; it is replied to if and only if its header
\* names user and session; the reply goes to the same peers and tells them so,
\* with content and buffers; and two messages on one socket stay two
MessageKept(frames, key, content, buffers) ==
  LET jm == Read(frames, key)
      header == jm.msg["header"]
      reply == Reply(jm, "reply", content, buffers)
      first == Recv(Send(Send(<<>>, reply.frames), frames))
  IN /\ ReadAsSigned(frames, key)
     /\ jm.outcome = "read" =>
          /\ (reply.outcome = "written") <=> Named(header)
          /\ reply.outcome = "written" =>
               /\ Read(first.frames, key)
                    = Message(key, jm.ids, Told(header, "reply", content), buffers)
               /\ Recv(first.left).frames = frames

\* a request of the test client is read by the kernel as its texts say, and the
\* client can read the reply and what is published for it
DialogueKept(request, key, content, buffers) ==
  LET jm == Read(AtRouter(ExecuteRequest(key, request)), key)
      reply == Reply(jm, "execute_reply", content, buffers)
      told == Text(Object(Told(jm.msg["header"], "execute_reply", content)))
  IN /\ jm.outcome = "read" /\ jm.buffers = <<>>
     /\ jm.msg = [p \in ToSet(Parts) |-> Reread(request[p])]
     /\ reply.outcome = "written" =>
          /\ ExecuteReply(FromRouter(reply.frames), key) = told
          /\ IOMessageRecv(PassOn(<<>>, reply.frames, key)) = told
     /\ IOMessageRecv(<<>>) = Empty
=============================================================================
