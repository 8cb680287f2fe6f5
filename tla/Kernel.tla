------------------------------- MODULE Kernel -------------------------------
(***************************************************************************)
(* The running kernel: the main thread of RequestServer composed with the  *)
(* threads that carry its output to the client.                            *)
(*                                                                         *)
(*   R's stdout, stderr --TCP--> stream threads --inproc--.                *)
(*   main thread ------------------------------inproc----> io thread       *)
(*                                               io thread --TCP--> client *)
(*                                                                         *)
(* A stream thread builds its messages with RequestServer::stream_outerr,  *)
(* which reads _cur_msg while the main thread may already have replaced    *)
(* it, or be replacing it: nothing orders the two.  Every thread runs      *)
(* sockets.h's poll(): a pass over the sockets that were readable, unless  *)
(* the poison pill is.  A subscription takes effect some time after its    *)
(* thread has started, and what is published before that is dropped, as is *)
(* what does not fit in a pipe.                                            *)
(***************************************************************************)
EXTENDS RequestServer

CONSTANTS
  Early,       \* subscriptions in effect before the first request
  Sinks,       \* the standard streams the instance has threads for
  Glyphs,      \* the characters they print: "ascii", "multibyte"
  MaxWrites,   \* bound: bytes printed on each stream, over all cells
  Hwm          \* the high-water mark of an inproc pipe

ASSUME SinksAssumption == Sinks \subseteq Streams
ASSUME GlyphsAssumption == Glyphs \subseteq {"ascii", "multibyte"}
ASSUME MaxWritesAssumption == MaxWrites \in Nat
ASSUME HwmAssumption == Hwm \in Nat \ {0}

VARIABLES
  joined,    \* subscriptions in effect, as <<subscribing thread, topic>>
  pills,     \* threads whose signaller holds a poison pill
  running,   \* threads still in poll()
  pass,      \* per thread, readable sockets its current pass has to handle
  wrote,     \* how many bytes R has written to each stream
  tcp,       \* bytes on their way to a stream thread, per connection
  pipe,      \* messages in the inproc pipes to the io thread
  wire,      \* messages the io thread has sent, not yet out of the process
  seen,      \* history: what has reached the client's iopub socket
  losses     \* history: why messages were dropped on their way

streamVars == <<wrote, tcp>>
threadVars == <<joined, pills, running, pass>>
outVars == <<pipe, wire, seen, losses>>
kernelVars == <<vars, streamVars, threadVars, outVars>>

Threads == {"io"} \cup Sinks

Topics == {"pub"} \cup Sinks

Subscriptions == ({"io"} \X Topics) \cup (Threads \X {"sig"})

ASSUME EarlyAssumption == Early \subseteq Subscriptions

\* one byte of text, or one of the two bytes of a multibyte character
Byte == [by : 1..MaxRequests, n : 1..MaxWrites,
         part : {"whole", "lead", "trail"}]

StreamMsg(parent, name, text) ==
  [parent |-> parent, kind |-> "stream", name |-> name, text |-> text]

\* what the main thread published n-th among all it sent
PubMsg(e, n) == [parent |-> e.parent, kind |-> e.kind, at |-> n]

Message ==
  [parent : Request \cup {NoRequest}, kind : {"stream"}, name : Sinks,
   text : Seq(Byte)]
  \cup [parent : Request \cup {NoRequest}, kind : EventKinds, at : Nat]

Causes == {"unjoined", "full", "stopped", "encoding"}

KernelTypeOK ==
  /\ TypeOK
  /\ joined \subseteq Subscriptions
  /\ pills \subseteq Threads
  /\ running \subseteq Threads
  /\ pass \in [Threads -> SUBSET Topics]
  /\ wrote \in [Sinks -> 0..MaxWrites]
  /\ tcp \in [Sinks -> [1..MaxRequests -> Seq(Byte)]]
  /\ pipe \in [Topics -> Seq(Message)]
  /\ \A c \in Topics : Len(pipe[c]) <= Hwm
  /\ wire \in Seq(Message)
  /\ seen \in Seq(Message)
  /\ losses \subseteq Causes

KernelInit ==
  /\ Init
  /\ joined = Early
  /\ pills = {}
  /\ running = Threads
  /\ pass = [t \in Threads |-> {}]
  /\ wrote = [s \in Sinks |-> 0]
  /\ tcp = [s \in Sinks |-> [id \in 1..MaxRequests |-> <<>>]]
  /\ pipe = [c \in Topics |-> <<>>]
  /\ wire = <<>>
  /\ seen = <<>>
  /\ losses = {}

-----------------------------------------------------------------------------
(* The main thread, and where its messages go.                             *)

\* mutant of Put: the sockets have no high-water mark
PutUnlimited(c, m) ==
  LET trouble == {cause \in {"unjoined"} : <<"io", c>> \notin joined}
  IN /\ losses' = losses \cup trouble
     /\ pipe' = IF trouble = {} THEN [pipe EXCEPT ![c] = Append(@, m)]
                ELSE pipe

\* mutant of Put: the sockets are set to keep the last message only
PutConflated(c, m) ==
  /\ pipe' = [pipe EXCEPT ![c] = <<m>>]
  /\ UNCHANGED losses

\* publish m on topic c: dropped without a subscriber, or when the pipe is full
Put(c, m) ==
  LET trouble ==
        {cause \in {"stopped", "unjoined", "full"} :
           \/ cause = "stopped" /\ "io" \notin running
           \/ cause = "unjoined" /\ <<"io", c>> \notin joined
           \/ cause = "full" /\ Len(pipe[c]) >= Hwm}
  IN /\ losses' = losses \cup trouble
     /\ pipe' = IF trouble = {} THEN [pipe EXCEPT ![c] = Append(@, m)]
                ELSE pipe

\* the step of the main thread published on inproc_pub
Publishes ==
  /\ Len(log') > Len(log)
  /\ log'[Len(log')].chan = "iopub"

\* the step is RequestServer::shutdown, for a request or in the finalizer
SendsPill == pc \in {"signal", "exit"} /\ pc' # pc

Server ==
  /\ Client \/ MainThread
  /\ IF Publishes THEN Put("pub", PubMsg(log'[Len(log')], Len(log')))
     ELSE UNCHANGED <<pipe, losses>>
  /\ pills' = IF SendsPill
              THEN pills \cup {t \in running : <<t, "sig">> \in joined}
              ELSE pills
  /\ UNCHANGED <<streamVars, joined, running, pass, wire, seen>>

\* a cell prints one character, or the handler of another request, a comm's
\* callback say; R writes it to the diverted stream's connection
UserWrites(s, glyph) ==
  LET byte(k, part) == [by |-> cur.id, n |-> wrote[s] + k, part |-> part]
      bytes == IF glyph = "ascii" THEN <<byte(1, "whole")>>
               ELSE <<byte(1, "lead"), byte(2, "trail")>>
  IN /\ pc = "eval" \/ (pc = "handler" /\ cur.type # "execute_request")
     /\ s \in sunk
     /\ wrote[s] + Len(bytes) <= MaxWrites
     /\ wrote' = [wrote EXCEPT ![s] = @ + Len(bytes)]
     /\ tcp' = [tcp EXCEPT ![s][cur.id] = @ \o bytes]
     /\ UNCHANGED <<vars, threadVars, outVars>>

-----------------------------------------------------------------------------
(* poll(), in every thread.                                                *)

\* a SUB socket's subscription reaches the publisher
Join(sub) ==
  /\ sub \notin joined
  /\ sub[1] \in running
  /\ joined' = joined \cup {sub}
  /\ UNCHANGED <<vars, streamVars, pills, running, pass, outVars>>

\* mutant of Readable: poll() starts at the second of the sockets
ReadableButFirst(t) ==
  IF t = "io" THEN {c \in Sinks : pipe[c] # <<>>}
  ELSE {s \in Sinks : s = t /\ \E id \in 1..MaxRequests : tcp[s][id] # <<>>}

Readable(t) ==
  IF t = "io" THEN {c \in Topics : pipe[c] # <<>>}
  ELSE {s \in Sinks : s = t /\ \E id \in 1..MaxRequests : tcp[s][id] # <<>>}

\* no pill: the handlers of the readable sockets are called, in their order
StartPass(t) ==
  /\ t \in running \ pills
  /\ pass[t] = {}
  /\ Readable(t) # {}
  /\ pass' = [pass EXCEPT ![t] = Readable(t)]
  /\ UNCHANGED <<vars, streamVars, joined, pills, running, outVars>>

\* mutant of Stop: what a handler returns overwrites 'dead'
StopOverwritten(t) ==
  /\ t \in running \cap pills
  /\ pass[t] = {}
  /\ pills' = pills \ {t}
  /\ UNCHANGED <<vars, streamVars, joined, running, pass, outVars>>

\* the pill is looked at first; the sockets are closed with no linger: what the
\* thread has not read is gone, and of what the io thread has sent only that
\* arrives which is already out of the process
Stop(t) ==
  /\ t \in running \cap pills
  /\ pass[t] = {}
  /\ running' = running \ {t}
  /\ IF t = "io"
     THEN /\ \E n \in 0..Len(wire) : wire' = SubSeq(wire, 1, n)
          /\ pipe' = [c \in Topics |-> <<>>]
          /\ UNCHANGED tcp
     ELSE /\ tcp' = [tcp EXCEPT ![t] = [id \in 1..MaxRequests |-> <<>>]]
          /\ UNCHANGED <<pipe, wire>>
  /\ losses' = IF Readable(t) # {} \/ wire' # wire
               THEN losses \cup {"stopped"} ELSE losses
  /\ UNCHANGED <<vars, wrote, joined, pills, pass, seen>>

-----------------------------------------------------------------------------
(* The handlers.                                                           *)

\* the bytes are UTF-8: no character is cut
Whole(text) == text[1].part # "trail" /\ text[Len(text)].part # "lead"

\* mutant of Rest: the last byte read is read again
RestWithLast(bytes, k) == SubSeq(bytes, k, Len(bytes))

\* what a connection still holds when k bytes were read
Rest(bytes, k) == SubSeq(bytes, k + 1, Len(bytes))

\* mutant of Parents: the request that was current when the thread started
FirstParent == {log[1].parent}

\* the _cur_msg a stream thread reads: the main thread may be in the middle of
\* its move assignment, of which a mixture of two requests is seen, that is
\* neither
Parents == {cur} \cup {r \in {NoRequest} : pc = "busy"}

\* a stream thread takes what one connection has delivered so far; bytes that
\* are not UTF-8 make the serialization throw, and poll() carries on
StreamOutErr(s) ==
  /\ s \in pass[s]
  /\ pass' = [pass EXCEPT ![s] = {}]
  /\ \E id \in 1..MaxRequests : \E k \in 1..Len(tcp[s][id]) :
       LET text == SubSeq(tcp[s][id], 1, k) IN
       /\ tcp' = [tcp EXCEPT ![s][id] = Rest(@, k)]
       /\ IF Whole(text)
          THEN \E parent \in Parents : Put(s, StreamMsg(parent, s, text))
          ELSE losses' = losses \cup {"encoding"} /\ UNCHANGED pipe
  /\ UNCHANGED <<vars, wrote, joined, pills, running, wire, seen>>

\* or it follows a pointer the assignment has just replaced: the process dies
Crash ==
  /\ pc = "busy"
  /\ \E s \in Sinks : s \in pass[s]
  /\ pc' = "down"
  /\ running' = {}
  /\ pass' = [t \in Threads |-> {}]
  /\ tcp' = [s \in Sinks |-> [id \in 1..MaxRequests |-> <<>>]]
  /\ pipe' = [c \in Topics |-> <<>>]
  /\ \E n \in 0..Len(wire) : wire' = SubSeq(wire, 1, n)
  /\ losses' = losses \cup {"stopped"}
  /\ UNCHANGED <<clientVars, loopVars, execVars, sigint, sunk, dev, raised,
                 signalled, log, wrote, joined, pills, seen>>

\* the io thread's handlers: publisher first, then stdout, then stderr
Turn(c) ==
  /\ c \in pass["io"]
  /\ c = "stdout" => "pub" \notin pass["io"]
  /\ c = "stderr" => pass["io"] = {"stderr"}

\* mutant of Forward: the newest message of a pipe goes first
ForwardNewest(c) ==
  /\ Turn(c)
  /\ pass' = [pass EXCEPT !["io"] = @ \ {c}]
  /\ wire' = Append(wire, pipe[c][Len(pipe[c])])
  /\ pipe' = [pipe EXCEPT ![c] = SubSeq(@, 1, Len(@) - 1)]
  /\ UNCHANGED <<vars, streamVars, joined, pills, running, seen, losses>>

Forward(c) ==
  /\ Turn(c)
  /\ pass' = [pass EXCEPT !["io"] = @ \ {c}]
  /\ wire' = Append(wire, Head(pipe[c]))
  /\ pipe' = [pipe EXCEPT ![c] = Tail(@)]
  /\ UNCHANGED <<vars, streamVars, joined, pills, running, seen, losses>>

Deliver ==
  /\ wire # <<>>
  /\ seen' = Append(seen, Head(wire))
  /\ wire' = Tail(wire)
  /\ UNCHANGED <<vars, streamVars, threadVars, pipe, losses>>

-----------------------------------------------------------------------------

ThreadStep(t) ==
  \/ StartPass(t)
  \/ Stop(t)
  \/ t \in Sinks /\ StreamOutErr(t)
  \/ t = "io" /\ \E c \in Topics : Forward(c)

\* the process waits for requests, or for threads that will never stop
AtRest ==
  /\ \/ pc = "down"
     \/ pc = "poll" /\ \A s \in Sockets : inbox[s] = <<>>
  /\ UNCHANGED kernelVars

KernelNext ==
  \/ Server
  \/ \E s \in Sinks, glyph \in Glyphs : UserWrites(s, glyph)
  \/ \E sub \in Subscriptions : Join(sub)
  \/ \E t \in Threads : ThreadStep(t)
  \/ Crash
  \/ Deliver
  \/ AtRest

KernelSpec == KernelInit /\ [][KernelNext]_kernelVars

\* every thread is scheduled, and ZeroMQ's own thread does its work
FairKernelSpec ==
  /\ KernelSpec
  /\ WF_kernelVars(MainThread /\ Server)
  /\ \A t \in Threads : WF_kernelVars(ThreadStep(t))
  /\ WF_kernelVars(Deliver)

-----------------------------------------------------------------------------
(* Properties.                                                             *)

\* what has left for, or is waiting to be sent to, the client, oldest first
OnTheWay(c) == seen \o wire \o pipe[c]

\* the places in it of what the main thread published, and their numbers
ServerAt == {i \in DOMAIN OnTheWay("pub") : OnTheWay("pub")[i].kind # "stream"}

Arriving == {OnTheWay("pub")[i].at : i \in ServerAt}

(* Of what the main thread publishes the client gets one run in order and  *)
(* without gaps: it may miss a beginning, from before the io thread's      *)
(* subscription took effect, and an end, cut off by the shutdown, but      *)
(* never something in between, unless a pipe was full.                     *)
(* (background.h:47-83, sockets.h:50-90)                                   *)
NoGaps ==
  /\ \A i, j \in ServerAt :
       i < j => OnTheWay("pub")[i].at < OnTheWay("pub")[j].at
  /\ "full" \notin losses =>
       \A first, last \in Arriving : \A n \in DOMAIN log :
         first < n /\ n < last /\ log[n].chan = "iopub" => n \in Arriving

\* one stream's text on the way, message by message
TextAt(s) == {i \in DOMAIN OnTheWay(s) :
                /\ OnTheWay(s)[i].kind = "stream"
                /\ OnTheWay(s)[i].name = s}

(* What one cell, or the handler of another request, prints on a stream    *)
(* arrives in the order it was printed, whatever the chunks TCP cuts it    *)
(* into; text of two requests, which comes over two connections, may be    *)
(* interleaved.  (requests.h:146-173)                                      *)
CellTextInOrder ==
  \A s \in Sinks : \A i, j \in TextAt(s) :
    \A a \in DOMAIN OnTheWay(s)[i].text, b \in DOMAIN OnTheWay(s)[j].text :
      (i < j \/ (i = j /\ a < b))
        /\ OnTheWay(s)[i].text[a].by = OnTheWay(s)[j].text[b].by
          => OnTheWay(s)[i].text[a].n < OnTheWay(s)[j].text[b].n

\* where byte n of stream s is: in a connection, or in a message on its way
Unread(s, n) ==
  UNION {{id} \X {k \in DOMAIN tcp[s][id] : tcp[s][id][k].n = n} :
           id \in 1..MaxRequests}

Sent(s, n) ==
  UNION {{i} \X {a \in DOMAIN OnTheWay(s)[i].text :
                   OnTheWay(s)[i].text[a].n = n} :
           i \in TextAt(s)}

(* Every byte that is printed is, exactly once, still in its connection or *)
(* in a message on its way, unless something was dropped for a reason that *)
(* the model names.  (requests.h:149-164, background.h:65-76)              *)
TextConserved ==
  losses = {} => \A s \in Sinks, n \in 1..MaxWrites :
                   Cardinality(Unread(s, n)) + Cardinality(Sent(s, n))
                     = IF n <= wrote[s] THEN 1 ELSE 0

\* request p was taken no earlier than the request with the given id
NotBefore(p, id) ==
  \A i \in DOMAIN log :
    log[i].parent = p => \E j \in 1..i : log[j].parent.id = id

(* Printed text is attributed to the request that printed it, to a request *)
(* served later, or, in a race, to none, but never to an earlier request:  *)
(* _cur_msg only moves forward.  (requests.h:36, 82, 106-108)              *)
NeverAttributedBackwards ==
  \A s \in Sinks : \A i \in TextAt(s) :
    \A a \in DOMAIN OnTheWay(s)[i].text :
      NotBefore(OnTheWay(s)[i].parent, OnTheWay(s)[i].text[a].by)

(* A thread whose signaller got the pill leaves poll(), however much there *)
(* still is to read.  (sockets.h:57-75)                                    *)
PillStops == \A t \in Threads : t \in pills ~> t \notin running

(* What the io thread can read is sent: a message in its pipes reaches the *)
(* client unless the thread is stopped first.  (background.h:53-80)        *)
PipesDrain ==
  \A c \in Topics : pipe[c] # <<>> ~> (pipe[c] = <<>> \/ "io" \in pills)
-----------------------------------------------------------------------------
(* What the tests and comments of the repository say, and the code does    *)
(* not do.                                                                 *)

\* the request with this id was a cell
IsCell(id) ==
  \E k \in DOMAIN log : /\ log[k].parent.id = id
                        /\ log[k].parent.type = "execute_request"

(* The stdout messages a cell's text is sent in have an execute_request as *)
(* their parent, even if only those whose parent was read without a race   *)
(* are considered.  (runit.testExecute.R:82)                               *)
TextOfCells ==
  \A s \in Sinks : \A i \in TextAt(s) :
    OnTheWay(s)[i].parent # NoRequest /\ IsCell(OnTheWay(s)[i].text[1].by)
      => OnTheWay(s)[i].parent.type = "execute_request"

(* A print that was split over several iopub messages can be recombined    *)
(* from them: the cut itself loses nothing.  (runit.testExecute.R:74-85)   *)
TextRecombines ==
  losses \subseteq {"encoding"} =>
    \A s \in Sinks, n \in 1..MaxWrites :
      n <= wrote[s] => Unread(s, n) \cup Sent(s, n) # {}

(* The idle of a shutdown_request is published before the sockets die, so  *)
(* that it is not lost when they do.  (requests.h:80, 100)                 *)
ShutdownIdleSent ==
  \A i \in DOMAIN log :
    /\ log[i].kind = "reply"
    /\ log[i].parent.type = "shutdown_request"
    /\ losses \subseteq {"stopped"}
    /\ "io" \notin running
    => \E j \in DOMAIN (seen \o wire) :
         /\ (seen \o wire)[j].kind = "idle"
         /\ (seen \o wire)[j].parent = log[i].parent
=============================================================================
