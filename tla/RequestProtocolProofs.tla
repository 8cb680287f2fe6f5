------------------------ MODULE RequestProtocolProofs -----------------------
(***************************************************************************)
(* Proofs about the abstract protocol: for every set of message types and  *)
(* every number of requests, the log is well bracketed.  Bracketed relates *)
(* neighbouring messages, so a step that appends one message has to know   *)
(* what the last one was: PhaseOfLast records that, phase by phase, and    *)
(* with it the conjunction IInv is inductive.                              *)
(***************************************************************************)
EXTENDS RequestProtocol, TLAPS

(* A message appended to the log of a kernel keeps it well bracketed when  *)
(* it may follow the last one, or is a first 'busy'.                       *)
LEMMA AppendBracketed ==
  ASSUME NEW l \in Seq(Event), NEW e \in Event,
         l = <<>> => e.kind = "busy",
         l # <<>> => l[1].kind = "busy",
         \A i \in 1..(Len(l) - 1) : Follows(l[i], l[i + 1]),
         l # <<>> => Follows(l[Len(l)], e)
  PROVE  /\ Append(l, e) # <<>> => Append(l, e)[1].kind = "busy"
         /\ \A i \in 1..(Len(Append(l, e)) - 1) :
              Follows(Append(l, e)[i], Append(l, e)[i + 1])
<1> DEFINE m == Append(l, e)
<1>1. /\ Len(m) = Len(l) + 1
      /\ m[Len(m)] = e
      /\ \A i \in 1..Len(l) : m[i] = l[i]
  OBVIOUS
<1>2. m[1].kind = "busy"
  <2>1. CASE l = <<>>
    BY <1>1, <2>1
  <2>2. CASE l # <<>>
    BY <1>1, <2>2
  <2> QED BY <2>1, <2>2
<1>3. ASSUME NEW i \in 1..(Len(m) - 1) PROVE Follows(m[i], m[i + 1])
  <2>1. CASE i = Len(l)
    <3>1. l # <<>> /\ m[i] = l[Len(l)] /\ m[i + 1] = e
      BY <1>1, <2>1
    <3> QED BY <3>1
  <2>2. CASE i # Len(l)
    <3>1. i \in 1..(Len(l) - 1) /\ m[i] = l[i] /\ m[i + 1] = l[i + 1]
      BY <1>1, <2>2
    <3> QED BY <3>1
  <2> QED BY <2>1, <2>2
<1> QED BY <1>2, <1>3

(* The initial state satisfies the inductive invariant: the log is empty.  *)
THEOREM InitInv == Init => IInv
BY DEF Init, IInv, TypeOK, Bracketed, PhaseOfLast, Idling, Phases, Event

(* The messages the actions publish are events.                            *)
LEMMA IOPubEventType ==
  ASSUME NEW r \in Request \cup {NoRequest}, NEW k \in EventKinds,
         NEW n \in Counts
  PROVE  /\ IOPubEvent(r, k, n) \in Event
         /\ IOPubEvent(r, k, n).kind = k
         /\ IOPubEvent(r, k, n).parent = r
<1>1. "iopub" \in Channels /\ "none" \in ReplyStatus
  BY DEF Channels, ReplyStatus
<1> QED BY <1>1 DEF IOPubEvent, Reply, Event

(* A step that sends e leaves the log a well-bracketed sequence whose last *)
(* message is e, if e may follow what was sent before.                     *)
LEMMA SendBracketed ==
  ASSUME TypeOK, Bracketed, NEW e \in Event, log' = Append(log, e),
         log = <<>> => e.kind = "busy",
         log # <<>> => Follows(log[Len(log)], e)
  PROVE  /\ log' \in Seq(Event)
         /\ Bracketed'
         /\ log' # <<>>
         /\ log'[Len(log')] = e
<1>1. log \in Seq(Event)
  BY DEF TypeOK
<1>2. log' \in Seq(Event) /\ log' # <<>> /\ log'[Len(log')] = e
  BY <1>1
<1>3. Bracketed'
  BY <1>1, AppendBracketed DEF Bracketed
<1> QED BY <1>2, <1>3

(* Every step keeps it.  One case per action; each action that sends a     *)
(* message shows that the message may follow the last one.                 *)
THEOREM NextInv == IInv /\ [Next]_vars => IInv'
<1> SUFFICES ASSUME IInv, [Next]_vars PROVE IInv'
  OBVIOUS
<1> USE DEF IInv
<1>0. /\ 0 \in Counts
      /\ cur \in Request \cup {NoRequest}
      /\ {"busy", "idle", "reply"} \subseteq EventKinds
      /\ OutputKinds \subseteq EventKinds
      /\ Sockets \subseteq Channels
  BY MaxRequestsAssumption DEF Counts, TypeOK, EventKinds, Channels
<1>1. ASSUME NEW r \in Request, Accept(r) PROVE IInv'
  BY <1>1 DEF Accept, TypeOK, Phases, Bracketed, PhaseOfLast, Idling
<1>2. CASE Announce
  <2> DEFINE e == IOPubEvent(cur, "busy", 0)
  <2>1. e \in Event /\ e.kind = "busy" /\ e.parent = cur
    BY <1>0, IOPubEventType
  <2>2. log' = Append(log, e) /\ phase' = "busy" /\ cur' = cur /\ phase = "accepted"
    BY <1>2 DEF Announce
  <2>3. log # <<>> => Follows(log[Len(log)], e)
    BY <2>1, <2>2 DEF Follows, PhaseOfLast, Idling
  <2> HIDE DEF e
  <2>4. log' \in Seq(Event) /\ Bracketed' /\ log' # <<>> /\ log'[Len(log')] = e
    BY <2>1, <2>2, <2>3, SendBracketed
  <2> QED BY <2>1, <2>2, <2>4 DEF TypeOK, Phases, PhaseOfLast, Working
<1>3. CASE Output
  <2>1. PICK kind \in OutputKinds, n \in Counts :
          log' = Append(log, IOPubEvent(cur, kind, n))
    BY <1>3 DEF Output
  <2> DEFINE e == IOPubEvent(cur, kind, n)
  <2>2. e \in Event /\ e.kind = kind /\ e.parent = cur
    BY <1>0, IOPubEventType
  <2>3. log' = Append(log, e) /\ phase' = phase /\ cur' = cur /\ phase = "busy"
    BY <1>3, <2>1 DEF Output
  <2>4. log # <<>> /\ Follows(log[Len(log)], e)
    BY <2>2, <2>3 DEF Follows, PhaseOfLast
  <2> HIDE DEF e
  <2>5. log' \in Seq(Event) /\ Bracketed' /\ log' # <<>> /\ log'[Len(log')] = e
    BY <2>2, <2>3, <2>4, SendBracketed
  <2> QED BY <2>2, <2>3, <2>5 DEF TypeOK, Phases, PhaseOfLast, Working
<1>4. CASE Answer
  <2>1. PICK s \in Sockets, status \in ReplyStatus, n \in Counts :
          log' = Append(log, Reply(cur, s, "reply", status, n))
    BY <1>4 DEF Answer
  <2> DEFINE e == Reply(cur, s, "reply", status, n)
  <2>2. e \in Event /\ e.kind = "reply" /\ e.parent = cur
    BY <1>0 DEF Reply, Event
  <2>3. /\ log' = Append(log, e) /\ phase' = "answered" /\ cur' = cur
        /\ phase = "busy" /\ cur.type \notin CommTypes
    BY <1>4, <2>1 DEF Answer
  <2>4. log # <<>> /\ Follows(log[Len(log)], e)
    BY <2>2, <2>3 DEF Follows, PhaseOfLast
  <2> HIDE DEF e
  <2>5. log' \in Seq(Event) /\ Bracketed' /\ log' # <<>> /\ log'[Len(log')] = e
    BY <2>2, <2>3, <2>4, SendBracketed
  <2> QED BY <2>2, <2>3, <2>5 DEF TypeOK, Phases, PhaseOfLast
<1>5. CASE Close
  <2> DEFINE e == IOPubEvent(cur, "idle", 0)
  <2>1. e \in Event /\ e.kind = "idle" /\ e.parent = cur
    BY <1>0, IOPubEventType
  <2>2. /\ log' = Append(log, e) /\ cur' = cur
        /\ phase = "answered" \/ (phase = "busy" /\ cur.type \in CommTypes)
        /\ phase' = IF cur.type = "shutdown_request" THEN "stopping" ELSE "free"
    BY <1>5 DEF Close
  <2>3. log # <<>> /\ Follows(log[Len(log)], e)
    BY <2>1, <2>2 DEF Follows, PhaseOfLast
  <2> HIDE DEF e
  <2>4. log' \in Seq(Event) /\ Bracketed' /\ log' # <<>> /\ log'[Len(log')] = e
    BY <2>1, <2>2, <2>3, SendBracketed
  <2> QED BY <2>1, <2>2, <2>4 DEF TypeOK, Phases, PhaseOfLast, Idling
<1>6. CASE CloseAgain
  <2> DEFINE e == IOPubEvent(cur, "idle", 0)
  <2>1. e \in Event /\ e.kind = "idle" /\ e.parent = cur
    BY <1>0, IOPubEventType
  <2>2. log' = Append(log, e) /\ cur' = cur /\ phase = "stopping" /\ phase' = "dead"
    BY <1>6 DEF CloseAgain
  <2>3. log # <<>> /\ Follows(log[Len(log)], e)
    BY <2>1, <2>2 DEF Follows, PhaseOfLast
  <2> HIDE DEF e
  <2>4. log' \in Seq(Event) /\ Bracketed' /\ log' # <<>> /\ log'[Len(log')] = e
    BY <2>1, <2>2, <2>3, SendBracketed
  <2> QED BY <2>1, <2>2, <2>4 DEF TypeOK, Phases, PhaseOfLast
<1>7. CASE Die
  BY <1>7 DEF Die, TypeOK, Phases, Bracketed, PhaseOfLast
<1>8. CASE UNCHANGED vars
  BY <1>8 DEF vars, TypeOK, Bracketed, PhaseOfLast, Idling
<1> QED BY <1>1, <1>2, <1>3, <1>4, <1>5, <1>6, <1>7, <1>8 DEF Next

(* The variables of the protocol keep their types.                         *)
THEOREM TypeCorrect == Spec => []TypeOK
<1>1. IInv => TypeOK
  BY DEF IInv
<1> QED BY <1>1, InitInv, NextInv, PTL DEF Spec

(* The log of the kernel is well bracketed at all times, for any number of *)
(* requests of any types: requests.h:73-104 serves one request at a time.  *)
THEOREM WellBracketed == Spec => []Bracketed
<1>1. IInv => Bracketed
  BY DEF IInv
<1> QED BY <1>1, InitInv, NextInv, PTL DEF Spec
=============================================================================
