--------------------------- MODULE RequestProtocol --------------------------
(***************************************************************************)
(* What the kernel promises its clients about one request, stated without  *)
(* the R main loop, the sockets or the handlers: the six steps of the      *)
(* comment above RequestServer::serve.  The requests are served one at a   *)
(* time; each is announced with 'busy', may produce output, is answered    *)
(* (comm messages are not), and is closed with 'idle'.  The kernel may die *)
(* at any point: it then leaves the request it was serving unfinished, and *)
(* sends nothing more.                                                     *)
(***************************************************************************)
EXTENDS Messages

VARIABLES
  phase,   \* how far the request being served is
  cur,     \* the request being served
  log      \* every message sent so far, on any channel, in order

vars == <<phase, cur, log>>

Phases == {"free", "accepted", "busy", "answered", "stopping", "dead"}

TypeOK ==
  /\ phase \in Phases
  /\ cur \in Request \cup {NoRequest}
  /\ log \in Seq(Event)

Init ==
  /\ phase = "free"
  /\ cur = NoRequest
  /\ log = <<>>

-----------------------------------------------------------------------------

\* the requests something was ever sent for
Started(l) == {l[i].parent : i \in DOMAIN l}

\* an authentic request is taken from a socket, once
Accept(r) ==
  /\ phase = "free"
  /\ r.signed
  /\ r \notin Started(log)
  /\ phase' = "accepted"
  /\ cur' = r
  /\ UNCHANGED log

Announce ==
  /\ phase = "accepted"
  /\ phase' = "busy"
  /\ log' = Append(log, IOPubEvent(cur, "busy", 0))
  /\ UNCHANGED cur

Output ==
  /\ phase = "busy"
  /\ \E kind \in OutputKinds, n \in Counts :
       log' = Append(log, IOPubEvent(cur, kind, n))
  /\ UNCHANGED <<phase, cur>>

\* comm messages are not answered
Answer ==
  /\ phase = "busy"
  /\ cur.type \notin CommTypes
  /\ phase' = "answered"
  /\ \E s \in Sockets, status \in ReplyStatus, n \in Counts :
       log' = Append(log, Reply(cur, s, "reply", status, n))
  /\ UNCHANGED cur

\* a shutdown is closed twice: once before the sockets are told to die
Close ==
  /\ \/ phase = "answered"
     \/ phase = "busy" /\ cur.type \in CommTypes
  /\ phase' = IF cur.type = "shutdown_request" THEN "stopping" ELSE "free"
  /\ log' = Append(log, IOPubEvent(cur, "idle", 0))
  /\ UNCHANGED cur

CloseAgain ==
  /\ phase = "stopping"
  /\ phase' = "dead"
  /\ log' = Append(log, IOPubEvent(cur, "idle", 0))
  /\ UNCHANGED cur

Die ==
  /\ phase # "dead"
  /\ phase' = "dead"
  /\ UNCHANGED <<cur, log>>

Next ==
  \/ \E r \in Request : Accept(r)
  \/ Announce
  \/ Output
  \/ Answer
  \/ Close
  \/ CloseAgain
  \/ Die

Spec == Init /\ [][Next]_vars

-----------------------------------------------------------------------------
(* Safety.                                                                 *)

\* the kinds a request's messages have before it is answered or closed
Working == {"busy"} \cup OutputKinds

\* what may be sent directly after message e
Follows(e, f) ==
  \/ /\ f.kind = "busy"
     /\ e.kind = "idle"
     /\ e.parent.type # "shutdown_request"
  \/ /\ f.kind \in OutputKinds
     /\ f.parent = e.parent
     /\ e.kind \in Working
  \/ /\ f.kind = "reply"
     /\ f.parent = e.parent
     /\ f.parent.type \notin CommTypes
     /\ e.kind \in Working
  \/ /\ f.kind = "idle"
     /\ f.parent = e.parent
     /\ \/ e.kind = "reply"
        \/ e.kind \in Working /\ f.parent.type \in CommTypes
        \/ e.kind = "idle" /\ f.parent.type = "shutdown_request"

(* The messages of the server form well-bracketed conversations: one       *)
(* request's busy ... reply, idle is over before the next one's busy, all  *)
(* output lies inside the brackets of its own request, and nothing at all  *)
(* follows a shutdown.  (requests.h:73-104)                                *)
Bracketed ==
  /\ log # <<>> => log[1].kind = "busy"
  /\ \A i \in 1..(Len(log) - 1) : Follows(log[i], log[i + 1])

\* how the last message sent tells the phase; what makes Bracketed inductive
Idling(l) ==
  l # <<>> => /\ l[Len(l)].kind = "idle"
              /\ l[Len(l)].parent.type # "shutdown_request"

PhaseOfLast ==
  /\ phase \in {"free", "accepted"} => Idling(log)
  /\ phase \in {"busy", "answered", "stopping"} =>
       log # <<>> /\ log[Len(log)].parent = cur
  /\ phase = "busy" => log[Len(log)].kind \in Working
  /\ phase = "answered" => log[Len(log)].kind = "reply"
  /\ phase = "stopping" => /\ log[Len(log)].kind = "idle"
                           /\ cur.type = "shutdown_request"

IInv == TypeOK /\ Bracketed /\ PhaseOfLast
=============================================================================
