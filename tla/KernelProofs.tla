---------------------------- MODULE KernelProofs ----------------------------
(***************************************************************************)
(* Proofs about the composed kernel: that the main thread keeps all it     *)
(* promises when the other threads run beside it and may crash it, and     *)
(* that the threads' variables keep their types.  KernelOutputProofs says  *)
(* what the threads carry.                                                 *)
(***************************************************************************)
EXTENDS Kernel, RequestServerProofs, FiniteSetTheorems

-----------------------------------------------------------------------------
(* The main thread among the others.                                       *)

(* What the kernel's steps do to the main thread: one of its own steps,    *)
(* nothing, or a crash.                                                    *)
LEMMA MainSteps == [KernelNext]_kernelVars => [Next]_vars \/ Crash
BY DEF KernelNext, kernelVars, Server, UserWrites, Join, ThreadStep, StartPass,
       Stop, StreamOutErr, Forward, Deliver, AtRest, Next

(* A crash leaves the main thread's history as it was.                     *)
LEMMA CrashKeeps == IInv /\ HistoryInv /\ Crash => IInv' /\ HistoryInv'
<1> SUFFICES ASSUME IInv, HistoryInv, Crash
             PROVE  IInv' /\ HistoryInv'
  OBVIOUS
<1>1. /\ UNCHANGED <<clientVars, loopVars, execVars, sigint, sunk, dev, raised,
                     signalled, log>>
      /\ pc = "busy" /\ pc' = "down"
  BY DEF Crash
<1>2. TypeOK'
  BY <1>1
  DEF IInv, TypeOK, clientVars, loopVars, execVars, Locations, Unguarded, InHandler
<1>3. CountsBounded'
  <2>1. /\ UNCHANGED <<execCount, sent>>
        /\ Queued("control")' = Queued("control")
        /\ Queued("shell")' = Queued("shell")
        /\ Uncounted = 1 /\ Uncounted' = 0
    BY <1>1 DEF clientVars, loopVars, execVars, Queued, Uncounted
  <2>2. /\ execCount \in Nat /\ sent \in Nat
        /\ Queued("control") \in Nat /\ Queued("shell") \in Nat
    BY Lengths, MaxRequestsAssumption DEF IInv, TypeOK
  <2>3. QED
    BY <2>1, <2>2 DEF IInv, CountsBounded
<1>4. Tidy' /\ Stopping'
  BY <1>1 DEF IInv, Tidy, Stopping, Outside, execVars
<1>5. FreshIds'
  BY <1>1 DEF IInv, FreshIds, clientVars, loopVars
<1>6. CountsInv'
  BY <1>1, CountsSame
  DEF HistoryInv, clientVars, loopVars, execVars, Serving, Unanswered, Unvalued,
      Unannounced
<1>7. OrderInv'
  BY <1>1, OrderSame
  DEF HistoryInv, loopVars, Serving, Unanswered, Unvalued, Unannounced
<1>8. TurnInv'
  BY <1>1 DEF HistoryInv, TurnInv, loopVars, Serving, Unanswered, Unvalued,
     Unannounced
<1>9. QED
  BY <1>2, <1>3, <1>4, <1>5, <1>6, <1>7, <1>8 DEF IInv, HistoryInv

MainInv == IInv /\ HistoryInv

(* Every step keeps the main thread's invariants.                          *)
LEMMA MainNext == MainInv /\ [KernelNext]_kernelVars => MainInv'
BY MainSteps, CrashKeeps, IInvNext, CountsNext, OrderNext, TurnNext
DEF MainInv, IInv, HistoryInv

(* The main thread's invariants survive the composition.                   *)
THEOREM MainHolds == KernelSpec => []MainInv
<1>1. KernelInit => MainInv
  <2>1. Init => IInv
    <3>1. Init => Tidy /\ Stopping
      BY DEF Init, Tidy, Stopping, Outside
    <3>2. Init => FreshIds
      BY DEF Init, FreshIds, NoRequest, Sockets
    <3>3. QED
      BY <3>1, <3>2, TypeInit DEF IInv
  <2>2. QED
    BY <2>1, HistoryInit DEF KernelInit, MainInv
<1>2. QED
  BY <1>1, MainNext, PTL DEF KernelSpec

(* The kernel, crashes included, keeps the protocol of requests.h:73-104:  *)
(* to a client a crash is just one of the ways the protocol dies.          *)
THEOREM KernelRefines == KernelSpec => ImplementsProtocol
<1>1. KernelInit => Protocol!Init
  BY InitImplements DEF KernelInit
<1>2. MainInv /\ [KernelNext]_kernelVars => [Protocol!Next]_(Protocol!vars)
  <2>1. Crash => Protocol!Die
    BY DEF Crash, loopVars, Protocol!Die, Phase
  <2>2. QED
    BY <2>1, MainSteps, StepImplements DEF MainInv, Protocol!Next
<1>3. QED
  BY <1>1, <1>2, MainHolds, PTL DEF KernelSpec, ImplementsProtocol, Protocol!Spec

-----------------------------------------------------------------------------
(* The request in hand, and what was sent for it.                          *)

Announced == Serving \ {"busy"}

\* messages are sent for real requests, and the one in hand has been announced
Served ==
  /\ pc \in Serving => cur \in Request
  /\ \A k \in DOMAIN log : log[k].parent \in Request
  /\ pc \in Announced => \E k \in DOMAIN log : log[k].parent = cur

\* a step that sends nothing, and keeps the request in hand or lets it go
SendsNothing ==
  /\ UNCHANGED <<log, cur>>
  /\ pc' \in Serving => pc \in Serving
  /\ pc' \in Announced => pc \in Announced

\* a step that sends a message for the request in hand
SendsForCur ==
  /\ UNCHANGED cur
  /\ pc \in Serving
  /\ \E e \in Event : e.parent = cur /\ log' = Append(log, e)

(* A message that is published for the request in hand is an event.        *)
LEMMA PublishEvent ==
  ASSUME TypeOK, NEW k \in EventKinds, NEW n \in Counts, Publish(k, n)
  PROVE  \E e \in Event : e.parent = cur /\ log' = Append(log, e)
<1>1. IOPubEvent(cur, k, n) \in Event /\ IOPubEvent(cur, k, n).parent = cur
  BY DEF TypeOK, IOPubEvent, Reply, Event, Channels, ReplyStatus
<1>2. QED
  BY <1>1 DEF Publish

(* What a step of the main thread sends. One case per action.              *)
LEMMA LogSteps ==
  ASSUME TypeOK, CountsBounded, [Next]_vars
  PROVE  \/ SendsNothing
         \/ SendsForCur
         \/ \E s \in Sockets : Recv(s)
<1> USE DEF SendsNothing, Announced, Serving, Unanswered, Unvalued, Unannounced,
            clientVars, loopVars, execVars
<1>0. /\ {"busy", "idle", "display_data", "execute_input", "execute_result"}
           \subseteq EventKinds
      /\ 0 \in Counts /\ cnt \in Counts
  BY MaxRequestsAssumption DEF EventKinds, OutputKinds, Counts, TypeOK
<1>1. ASSUME NEW s \in Sockets, NEW type \in MsgType, NEW signed \in BOOLEAN,
             Send(s, type, signed)
      PROVE  SendsNothing
  BY <1>1 DEF Send
<1>2. ASSUME NEW s \in Sockets, NotReady(s) \/ RecvForged(s)
      PROVE  SendsNothing
  BY <1>2 DEF NotReady, RecvForged, AfterSocket
<1>3. CASE Interrupt
  BY <1>3 DEF Interrupt
<1>4. CASE Poll
  BY <1>4 DEF Poll
<1>5. CASE PollInterrupted
  BY <1>5 DEF PollInterrupted
<1>6. CASE Busy
  BY <1>0, <1>6, PublishEvent DEF Busy, SendsForCur
<1>7. CASE Dispatch
  BY <1>7 DEF Dispatch
<1>8. CASE Setup
  BY <1>8 DEF Setup
<1>9. CASE SetupFails
  BY <1>9 DEF SetupFails
<1>10. CASE HandlerReturns
  BY <1>10 DEF HandlerReturns
<1>11. CASE HandlerRaises
  BY <1>11 DEF HandlerRaises
<1>12. CASE Rebroadcast
  <2>1. execCount \in Counts
    BY <1>12, Lengths, MaxRequestsAssumption
    DEF Rebroadcast, CountsBounded, Uncounted, Counts, TypeOK
  <2>2. QED
    BY <1>0, <1>12, <2>1, PublishEvent DEF Rebroadcast, SendsForCur
<1>13. CASE RebroadcastFails
  BY <1>13 DEF RebroadcastFails
<1>14. CASE UserDisplays
  BY <1>0, <1>14, PublishEvent DEF UserDisplays, InUserCode, SendsForCur
<1>15. CASE UserDraws
  BY <1>15 DEF UserDraws
<1>16. CASE UserClosesDevice
  BY <1>0, <1>16, PublishEvent
  DEF UserClosesDevice, InUserCode, CloseDevice, SendsForCur
<1>17. CASE EvalVisible
  BY <1>0, <1>17, PublishEvent DEF EvalVisible, SendsForCur
<1>18. CASE EvalInvisible
  BY <1>18 DEF EvalInvisible
<1>19. CASE EvalHelp
  BY <1>19 DEF EvalHelp
<1>20. CASE EvalOk
  BY <1>20 DEF EvalOk
<1>21. CASE EvalCondition
  BY <1>21 DEF EvalCondition
<1>22. CASE EvalConditionWithoutCall
  BY <1>22 DEF EvalConditionWithoutCall
<1>23. CASE EvalInterrupted
  BY <1>23 DEF EvalInterrupted
<1>24. CASE UserQuits
  BY <1>24 DEF UserQuits
<1>25. CASE BuildReply
  BY <1>25 DEF BuildReply
<1>26. CASE Unsink
  BY <1>26 DEF Unsink
<1>27. CASE DevOff
  BY <1>0, <1>27, PublishEvent DEF DevOff, CloseDevice, SendsForCur
<1>28. CASE Propagate
  BY <1>28 DEF Propagate
<1>29. CASE PostComm
  BY <1>29 DEF PostComm
<1>30. CASE PostReply
  <2> DEFINE e == Reply(cur, sock, "reply", status, cnt)
  <2>1. e \in Event /\ e.parent = cur
    BY <1>0 DEF TypeOK, Reply, Event, Channels, EventKinds
  <2>2. QED
    BY <1>30, <2>1 DEF PostReply, SendsForCur
<1>31. CASE PostFails
  BY <1>31 DEF PostFails
<1>32. CASE IdleBeforeSignal
  BY <1>0, <1>32, PublishEvent DEF IdleBeforeSignal, SendsForCur
<1>33. CASE Shutdown
  BY <1>33 DEF Shutdown
<1>34. CASE Idle
  BY <1>0, <1>34, PublishEvent DEF Idle, SendsForCur
<1>35. CASE UncaughtInterrupt
  BY <1>35 DEF UncaughtInterrupt, Unguarded, InHandler
<1>36. CASE Finalize
  BY <1>36 DEF Finalize
<1>37. CASE UNCHANGED vars
  BY <1>37 DEF vars
<1>38. QED
  BY <1>1, <1>2, <1>3, <1>4, <1>5, <1>6, <1>7, <1>8, <1>9, <1>10, <1>11, <1>12,
     <1>13, <1>14, <1>15, <1>16, <1>17, <1>18, <1>19, <1>20, <1>21, <1>22, <1>23,
     <1>24, <1>25, <1>26, <1>27, <1>28, <1>29, <1>30, <1>31, <1>32, <1>33, <1>34,
     <1>35, <1>36, <1>37
  DEF Next, Client, MainThread, MainLoop, Handling, Answering, Resting

(* A message is sent for the request in hand only once that is a real one. *)
LEMMA ServedNext ==
  ASSUME TypeOK, CountsBounded, Served, [KernelNext]_kernelVars
  PROVE  Served'
<1>1. CASE SendsNothing
  BY <1>1 DEF SendsNothing, Served
<1>2. CASE SendsForCur
  <2>1. PICK e \in Event : e.parent = cur /\ log' = Append(log, e)
    BY <1>2 DEF SendsForCur
  <2>2. /\ DOMAIN log' = DOMAIN log \cup {Len(log) + 1}
        /\ \A k \in DOMAIN log : log'[k] = log[k]
        /\ log'[Len(log) + 1] = e
    BY <2>1, Appended
  <2>3. cur' = cur /\ cur \in Request
    BY <1>2 DEF SendsForCur, Served
  <2>4. QED
    BY <2>1, <2>2, <2>3 DEF Served
<1>3. ASSUME NEW s \in Sockets, Recv(s)
      PROVE  Served'
  <2>1. cur' = Head(inbox[s]) /\ log' = log /\ pc' = "busy" /\ inbox[s] # <<>>
    BY <1>3 DEF Recv
  <2>2. QED
    BY <2>1, HeadOfQueue DEF Served, Announced
<1>4. CASE Crash
  BY <1>4 DEF Crash, loopVars, Served, Announced, Serving, Unanswered, Unvalued,
     Unannounced
<1>5. QED
  BY <1>1, <1>2, <1>3, <1>4, MainSteps, LogSteps

-----------------------------------------------------------------------------
(* What the threads' operations do, in the terms the proofs reason in.     *)

(* Put delivers the message to the pipe, or drops it and says why.         *)
LEMMA PutCases ==
  ASSUME NEW c, NEW m, Put(c, m)
  PROVE  \/ /\ pipe' = [pipe EXCEPT ![c] = Append(@, m)]
            /\ losses' = losses
            /\ "io" \in running /\ <<"io", c>> \in joined /\ ~(Len(pipe[c]) >= Hwm)
         \/ /\ pipe' = pipe
            /\ losses \subseteq losses' /\ losses' \subseteq losses \cup Causes
            /\ losses' # {}
            /\ "io" \notin running \/ <<"io", c>> \notin joined \/ "full" \in losses'
<1> DEFINE trouble ==
             {cause \in {"stopped", "unjoined", "full"} :
                \/ cause = "stopped" /\ "io" \notin running
                \/ cause = "unjoined" /\ <<"io", c>> \notin joined
                \/ cause = "full" /\ Len(pipe[c]) >= Hwm}
<1>1. /\ losses' = losses \cup trouble
      /\ trouble = {} => pipe' = [pipe EXCEPT ![c] = Append(@, m)]
      /\ trouble # {} => pipe' = pipe
  BY DEF Put
<1>2. trouble \subseteq Causes
  BY DEF Causes
<1>3. CASE trouble = {}
  <2>1. "io" \in running /\ <<"io", c>> \in joined /\ ~(Len(pipe[c]) >= Hwm)
    BY <1>3
  <2>2. QED
    BY <1>1, <1>3, <2>1
<1>4. CASE trouble # {}
  <2>1. "io" \notin running \/ <<"io", c>> \notin joined \/ "full" \in trouble
    BY <1>4
  <2> HIDE DEF trouble
  <2>2. QED
    BY <1>1, <1>2, <1>4, <2>1
<1>5. QED
  BY <1>3, <1>4

(* What Put may do to the pipes of a well-typed kernel.                    *)
LEMMA PutType ==
  ASSUME KernelTypeOK, NEW c \in Topics, NEW m \in Message, Put(c, m)
  PROVE  /\ pipe' \in [Topics -> Seq(Message)]
         /\ \A d \in Topics : Len(pipe'[d]) <= Hwm
         /\ \A d \in Topics : pipe[d] # <<>> => pipe'[d] # <<>>
         /\ losses' \subseteq Causes
<1>1. /\ pipe \in [Topics -> Seq(Message)]
      /\ \A d \in Topics : pipe[d] \in Seq(Message) /\ Len(pipe[d]) \in Nat
                           /\ Len(pipe[d]) <= Hwm
      /\ losses \subseteq Causes /\ Hwm \in Nat
  BY HwmAssumption DEF KernelTypeOK
<1>2. CASE pipe' = pipe /\ losses' \subseteq losses \cup Causes
  BY <1>1, <1>2
<1>3. CASE /\ pipe' = [pipe EXCEPT ![c] = Append(@, m)] /\ losses' = losses
           /\ ~(Len(pipe[c]) >= Hwm)
  <2>1. /\ pipe'[c] = Append(pipe[c], m)
        /\ \A d \in Topics \ {c} : pipe'[d] = pipe[d]
    BY <1>1, <1>3
  <2>2. /\ pipe'[c] \in Seq(Message) /\ Len(pipe'[c]) = Len(pipe[c]) + 1
        /\ pipe'[c] # <<>>
    BY <1>1, <2>1
  <2>3. QED
    BY <1>1, <1>3, <2>1, <2>2
<1>4. QED
  BY <1>2, <1>3, PutCases

(* What a cell prints: one byte or two, numbered on, in its own connection.*)
LEMMA PrintedBytes ==
  ASSUME KernelTypeOK, Served, NEW s \in Sinks, NEW glyph, UserWrites(s, glyph)
  PROVE  /\ pc \in {"eval", "handler"} /\ cur \in Request /\ cur.id \in 1..MaxRequests
         /\ UNCHANGED <<vars, threadVars, outVars>>
         /\ \E bytes \in Seq(Byte) :
              /\ Len(bytes) \in {1, 2}
              /\ wrote[s] + Len(bytes) <= MaxWrites
              /\ \A k \in DOMAIN bytes :
                   bytes[k].by = cur.id /\ bytes[k].n = wrote[s] + k
              /\ wrote' = [wrote EXCEPT ![s] = @ + Len(bytes)]
              /\ tcp' = [tcp EXCEPT ![s][cur.id] = @ \o bytes]
<1> DEFINE byte(k, part) == [by |-> cur.id, n |-> wrote[s] + k, part |-> part]
<1>1. pc \in {"eval", "handler"} /\ UNCHANGED <<vars, threadVars, outVars>>
  BY DEF UserWrites
<1>2. cur \in Request /\ cur.id \in 1..MaxRequests
  BY <1>1 DEF Served, Serving, Unanswered, Unvalued, Unannounced, Request
<1>3. wrote[s] \in Nat /\ MaxWrites \in Nat
  BY MaxWritesAssumption DEF KernelTypeOK
<1>4. ASSUME NEW k \in {1, 2}, NEW part \in {"whole", "lead", "trail"},
             wrote[s] + k <= MaxWrites
      PROVE  byte(k, part) \in Byte
  BY <1>2, <1>3, <1>4 DEF Byte
<1>5. \A k, part : byte(k, part).by = cur.id /\ byte(k, part).n = wrote[s] + k
  OBVIOUS
<1> HIDE DEF byte
<1>6. CASE glyph = "ascii"
  <2> DEFINE bytes == <<byte(1, "whole")>>
  <2>1. /\ wrote[s] + Len(bytes) <= MaxWrites
        /\ wrote' = [wrote EXCEPT ![s] = @ + Len(bytes)]
        /\ tcp' = [tcp EXCEPT ![s][cur.id] = @ \o bytes]
    BY <1>6 DEF UserWrites, byte
  <2>2. bytes \in Seq(Byte) /\ Len(bytes) = 1
    BY <1>3, <1>4, <2>1
  <2>3. \A k \in DOMAIN bytes : bytes[k].by = cur.id /\ bytes[k].n = wrote[s] + k
    BY <1>5
  <2>4. QED
    BY <1>1, <1>2, <2>1, <2>2, <2>3
<1>7. CASE glyph # "ascii"
  <2> DEFINE bytes == <<byte(1, "lead"), byte(2, "trail")>>
  <2>1. /\ wrote[s] + Len(bytes) <= MaxWrites
        /\ wrote' = [wrote EXCEPT ![s] = @ + Len(bytes)]
        /\ tcp' = [tcp EXCEPT ![s][cur.id] = @ \o bytes]
    BY <1>7 DEF UserWrites, byte
  <2>2. bytes \in Seq(Byte) /\ Len(bytes) = 2
    BY <1>3, <1>4, <2>1
  <2>3. \A k \in DOMAIN bytes : bytes[k].by = cur.id /\ bytes[k].n = wrote[s] + k
    BY <1>5
  <2>4. QED
    BY <1>1, <1>2, <2>1, <2>2, <2>3
<1>8. QED
  BY <1>6, <1>7

-----------------------------------------------------------------------------
(* Types.                                                                  *)

\* a socket a pass has yet to handle is still readable
PassReadable == \A c \in pass["io"] : pipe[c] # <<>>

(* The types hold initially.                                               *)
LEMMA KernelTypesInit == KernelInit => KernelTypeOK /\ PassReadable /\ Served
<1> SUFFICES ASSUME KernelInit PROVE KernelTypeOK /\ PassReadable /\ Served
  OBVIOUS
<1> USE EarlyAssumption, MaxWritesAssumption, HwmAssumption
<1>1. TypeOK
  BY TypeInit DEF KernelInit
<1>2. /\ joined \subseteq Subscriptions /\ pills \subseteq Threads
      /\ running \subseteq Threads /\ pass \in [Threads -> SUBSET Topics]
      /\ losses \subseteq Causes
  BY DEF KernelInit
<1>3. wrote \in [Sinks -> 0..MaxWrites]
  BY DEF KernelInit
<1>4. tcp \in [Sinks -> [1..MaxRequests -> Seq(Byte)]]
  BY DEF KernelInit
<1>5. pipe \in [Topics -> Seq(Message)] /\ \A c \in Topics : Len(pipe[c]) <= Hwm
  BY DEF KernelInit
<1>6. wire \in Seq(Message) /\ seen \in Seq(Message)
  BY DEF KernelInit
<1>7. PassReadable
  BY DEF KernelInit, PassReadable, Threads
<1>8. Served
  BY DEF KernelInit, Init, Served, Announced, Serving, Unanswered, Unvalued,
     Unannounced
<1>9. QED
  BY <1>1, <1>2, <1>3, <1>4, <1>5, <1>6, <1>7, <1>8 DEF KernelTypeOK

\* the part of KernelTypeOK that is not about the main thread
ThreadTypes ==
  /\ joined \subseteq Subscriptions
  /\ pills \subseteq Threads
  /\ running \subseteq Threads
  /\ pass \in [Threads -> SUBSET Topics]

DataTypes ==
  /\ wrote \in [Sinks -> 0..MaxWrites]
  /\ tcp \in [Sinks -> [1..MaxRequests -> Seq(Byte)]]
  /\ pipe \in [Topics -> Seq(Message)]
  /\ \A c \in Topics : Len(pipe[c]) <= Hwm
  /\ wire \in Seq(Message)
  /\ seen \in Seq(Message)
  /\ losses \subseteq Causes

(* What a main thread's step puts into the pipe is a message.              *)
LEMMA ServerTypes ==
  ASSUME KernelTypeOK, PassReadable, TypeOK', Server
  PROVE  ThreadTypes' /\ DataTypes' /\ PassReadable'
<1>1. UNCHANGED <<wrote, tcp, joined, running, pass, wire, seen>>
  BY DEF Server, streamVars
<1>2. pills' \subseteq Threads
  BY DEF Server, KernelTypeOK
<1>3. CASE UNCHANGED <<pipe, losses>>
  BY <1>1, <1>2, <1>3 DEF KernelTypeOK, ThreadTypes, DataTypes, PassReadable
<1>4. CASE Publishes /\ Put("pub", PubMsg(log'[Len(log')], Len(log')))
  <2> DEFINE m == PubMsg(log'[Len(log')], Len(log'))
  <2>1. log \in Seq(Event) /\ log' \in Seq(Event) /\ Len(log') > Len(log)
    BY <1>4 DEF KernelTypeOK, TypeOK, Publishes
  <2>2. Len(log') \in Nat /\ Len(log') \in DOMAIN log'
    BY <2>1
  <2>3. log'[Len(log')] \in Event
    BY <2>1, <2>2
  <2>4. m \in Message
    BY <2>2, <2>3 DEF PubMsg, Message, Event
  <2> HIDE DEF m
  <2>5. /\ pipe' \in [Topics -> Seq(Message)]
        /\ \A d \in Topics : Len(pipe'[d]) <= Hwm
        /\ \A d \in Topics : pipe[d] # <<>> => pipe'[d] # <<>>
        /\ losses' \subseteq Causes
    BY <1>4, <2>4, PutType DEF m, Topics
  <2>6. PassReadable'
    BY <1>1, <2>5 DEF KernelTypeOK, PassReadable, Threads
  <2>7. QED
    BY <1>1, <1>2, <2>5, <2>6 DEF KernelTypeOK, ThreadTypes, DataTypes
<1>5. QED
  BY <1>3, <1>4 DEF Server

(* Bytes are printed into connections that exist.                          *)
LEMMA UserWritesTypes ==
  ASSUME KernelTypeOK, PassReadable, Served,
         NEW s \in Sinks, NEW glyph, UserWrites(s, glyph)
  PROVE  ThreadTypes' /\ DataTypes' /\ PassReadable'
<1>1. UNCHANGED <<joined, pills, running, pass, pipe, wire, seen, losses>>
      /\ cur.id \in 1..MaxRequests
  BY PrintedBytes DEF threadVars, outVars
<1>2. PICK bytes \in Seq(Byte) :
        /\ Len(bytes) \in {1, 2}
        /\ wrote[s] + Len(bytes) <= MaxWrites
        /\ wrote' = [wrote EXCEPT ![s] = @ + Len(bytes)]
        /\ tcp' = [tcp EXCEPT ![s][cur.id] = @ \o bytes]
  BY PrintedBytes
<1>3. wrote' \in [Sinks -> 0..MaxWrites]
  BY <1>2, MaxWritesAssumption DEF KernelTypeOK
<1>4. tcp[s][cur.id] \o bytes \in Seq(Byte)
  <2>1. tcp[s] \in [1..MaxRequests -> Seq(Byte)]
    BY DEF KernelTypeOK
  <2>2. tcp[s][cur.id] \in Seq(Byte)
    BY <1>1, <2>1
  <2>3. QED
    BY <1>2, <2>2
<1>5. tcp' \in [Sinks -> [1..MaxRequests -> Seq(Byte)]]
  BY <1>2, <1>4 DEF KernelTypeOK
<1>6. QED
  BY <1>1, <1>3, <1>5 DEF KernelTypeOK, ThreadTypes, DataTypes, PassReadable

(* Joining a subscription and starting a pass touch no data.               *)
LEMMA PollTypes ==
  ASSUME KernelTypeOK, PassReadable,
         (\E sub \in Subscriptions : Join(sub)) \/ (\E t \in Threads : StartPass(t))
  PROVE  ThreadTypes' /\ DataTypes' /\ PassReadable'
<1>1. ASSUME NEW sub \in Subscriptions, Join(sub)
      PROVE  ThreadTypes' /\ DataTypes' /\ PassReadable'
  BY <1>1 DEF Join, streamVars, outVars, KernelTypeOK, ThreadTypes, DataTypes,
     PassReadable
<1>2. ASSUME NEW t \in Threads, StartPass(t)
      PROVE  ThreadTypes' /\ DataTypes' /\ PassReadable'
  <2>1. UNCHANGED <<joined, pills, running>> /\ UNCHANGED <<streamVars, outVars>>
        /\ pass' = [pass EXCEPT ![t] = Readable(t)]
    BY <1>2 DEF StartPass
  <2>2. Readable(t) \subseteq Topics
    BY DEF Readable, Topics
  <2>3. ThreadTypes' /\ DataTypes'
    BY <2>1, <2>2 DEF KernelTypeOK, ThreadTypes, DataTypes, streamVars, outVars
  <2>4. pass'["io"] = pass["io"] \/ pass'["io"] = {c \in Topics : pipe[c] # <<>>}
    BY <2>1 DEF KernelTypeOK, Threads, Readable
  <2>5. PassReadable'
    BY <2>1, <2>4 DEF PassReadable, outVars
  <2>6. QED
    BY <2>3, <2>5
<1>3. QED
  BY <1>1, <1>2

(* A prefix of the wire is a wire.                                         *)
LEMMA WireCut ==
  ASSUME wire \in Seq(Message), NEW n \in 0..Len(wire), wire' = SubSeq(wire, 1, n)
  PROVE  /\ wire' \in Seq(Message)
         /\ Len(wire') = n /\ n \in Nat /\ n <= Len(wire)
         /\ \A i \in DOMAIN wire' : i \in DOMAIN wire /\ wire'[i] = wire[i]
OBVIOUS

(* A thread that leaves poll(), or a process that crashes, empties what it *)
(* owns.                                                                   *)
LEMMA StopTypes ==
  ASSUME KernelTypeOK, PassReadable, Crash \/ \E t \in Threads : Stop(t)
  PROVE  ThreadTypes' /\ DataTypes' /\ PassReadable'
<1> DEFINE none == [c \in Topics |-> <<>>]
<1>1. /\ none \in [Topics -> Seq(Message)]
      /\ \A c \in Topics : Len(none[c]) <= Hwm
  BY HwmAssumption
<1>2. [id \in 1..MaxRequests |-> <<>>] \in [1..MaxRequests -> Seq(Byte)]
  OBVIOUS
<1>3. CASE Crash
  <2>1. /\ running' = {} /\ pass' = [t \in Threads |-> {}]
        /\ UNCHANGED <<wrote, joined, pills, seen>>
        /\ pipe' = none
        /\ losses' = losses \cup {"stopped"}
        /\ tcp' = [s \in Sinks |-> [id \in 1..MaxRequests |-> <<>>]]
    BY <1>3 DEF Crash
  <2>2. wire' \in Seq(Message)
    <3>1. PICK n \in 0..Len(wire) : wire' = SubSeq(wire, 1, n)
      BY <1>3 DEF Crash
    <3>2. QED
      BY <3>1, WireCut DEF KernelTypeOK
  <2>3. tcp' \in [Sinks -> [1..MaxRequests -> Seq(Byte)]]
    BY <1>2, <2>1
  <2>4. PassReadable'
    BY <2>1 DEF PassReadable, Threads
  <2>5. ThreadTypes'
    BY <2>1 DEF KernelTypeOK, ThreadTypes
  <2> HIDE DEF none
  <2>6. DataTypes'
    BY <1>1, <2>1, <2>2, <2>3 DEF KernelTypeOK, DataTypes, Causes
  <2>7. QED
    BY <2>4, <2>5, <2>6
<1>4. ASSUME NEW t \in Threads, Stop(t)
      PROVE  ThreadTypes' /\ DataTypes' /\ PassReadable'
  <2>1. /\ UNCHANGED <<wrote, joined, pills, pass, seen>>
        /\ running' = running \ {t} /\ pass[t] = {}
        /\ losses' \subseteq losses \cup {"stopped"}
    BY <1>4 DEF Stop
  <2>2. ThreadTypes' /\ losses' \subseteq Causes
    BY <2>1 DEF KernelTypeOK, ThreadTypes, Causes
  <2>3. CASE t = "io"
    <3>1. pipe' = none /\ tcp' = tcp
      BY <1>4, <2>3 DEF Stop
    <3>2. wire' \in Seq(Message)
      <4>1. PICK n \in 0..Len(wire) : wire' = SubSeq(wire, 1, n)
        BY <1>4, <2>3 DEF Stop
      <4>2. QED
        BY <4>1, WireCut DEF KernelTypeOK
    <3>3. PassReadable'
      BY <2>1, <2>3 DEF PassReadable
    <3> HIDE DEF none
    <3>4. DataTypes'
      BY <1>1, <2>1, <2>2, <3>1, <3>2 DEF KernelTypeOK, DataTypes
    <3>5. QED
      BY <2>2, <3>3, <3>4
  <2>4. CASE t # "io"
    <3>1. /\ tcp' = [tcp EXCEPT ![t] = [id \in 1..MaxRequests |-> <<>>]]
          /\ UNCHANGED <<pipe, wire>>
      BY <1>4, <2>4 DEF Stop
    <3>2. tcp' \in [Sinks -> [1..MaxRequests -> Seq(Byte)]]
      BY <1>2, <3>1 DEF KernelTypeOK
    <3>3. QED
      BY <2>1, <2>2, <3>1, <3>2 DEF KernelTypeOK, DataTypes, PassReadable
  <2>5. QED
    BY <2>3, <2>4
<1>5. QED
  BY <1>3, <1>4

\* the step leaves connection id of stream s without its first k bytes
Shortened(s, id, k) ==
  /\ k \in Nat /\ k >= 1
  /\ \A j \in DOMAIN tcp'[s][id] :
       /\ j \in Nat /\ j >= 1
       /\ j + k \in DOMAIN tcp[s][id] /\ tcp'[s][id][j] = tcp[s][id][j + k]
  /\ \A j \in DOMAIN tcp[s][id] : j > k => j - k \in DOMAIN tcp'[s][id]
  /\ \A u \in Sinks, d \in 1..MaxRequests :
       u # s \/ d # id => tcp'[u][d] = tcp[u][d]

(* What a stream thread takes from a connection: the first k bytes.        *)
LEMMA Taken ==
  ASSUME KernelTypeOK, NEW s \in Sinks, NEW id \in 1..MaxRequests,
         NEW k \in 1..Len(tcp[s][id]),
         tcp' = [tcp EXCEPT ![s][id] = Rest(@, k)]
  PROVE  LET text == SubSeq(tcp[s][id], 1, k) IN
         /\ text \in Seq(Byte) /\ DOMAIN text = 1..k
         /\ \A a \in 1..k : a \in DOMAIN tcp[s][id] /\ text[a] = tcp[s][id][a]
         /\ tcp' \in [Sinks -> [1..MaxRequests -> Seq(Byte)]]
         /\ Shortened(s, id, k)
<1> DEFINE bytes == tcp[s][id]
           rest == Rest(bytes, k)
           text == SubSeq(bytes, 1, k)
<1>1. tcp[s] \in [1..MaxRequests -> Seq(Byte)] /\ bytes \in Seq(Byte)
  BY DEF KernelTypeOK
<1>2. Len(bytes) \in Nat /\ k \in Nat /\ k >= 1 /\ k <= Len(bytes)
  BY <1>1
<1>3. /\ text \in Seq(Byte) /\ Len(text) = k
      /\ \A a \in 1..k : a \in DOMAIN bytes /\ text[a] = bytes[a]
  <2> HIDE DEF bytes
  <2>1. QED
    BY <1>1, <1>2
<1>4. /\ rest \in Seq(Byte) /\ Len(rest) = Len(bytes) - k
      /\ \A j \in DOMAIN rest :
           /\ j \in Nat /\ j >= 1
           /\ j + k \in DOMAIN bytes /\ rest[j] = bytes[j + k]
      /\ \A j \in DOMAIN bytes : j > k => j - k \in DOMAIN rest
  <2> HIDE DEF bytes
  <2>1. QED
    BY <1>1, <1>2, SMTT(30) DEF Rest
<1>5. /\ tcp' = [tcp EXCEPT ![s] = [@ EXCEPT ![id] = rest]]
      /\ tcp \in [Sinks -> [1..MaxRequests -> Seq(Byte)]]
  BY DEF KernelTypeOK
<1> HIDE DEF rest
<1>6. tcp'[s] = [tcp[s] EXCEPT ![id] = rest] /\ tcp'[s][id] = rest
  BY <1>1, <1>5
<1>7. \A u \in Sinks, d \in 1..MaxRequests :
        u # s \/ d # id => tcp'[u][d] = tcp[u][d]
  BY <1>1, <1>5, <1>6
<1>8. tcp' \in [Sinks -> [1..MaxRequests -> Seq(Byte)]]
  <2>1. tcp'[s] \in [1..MaxRequests -> Seq(Byte)]
    BY <1>1, <1>4, <1>6
  <2>2. QED
    BY <1>5, <2>1
<1> HIDE DEF bytes
<1>9. DOMAIN text = 1..k
  BY <1>3
<1>10. Shortened(s, id, k)
  BY <1>2, <1>4, <1>6, <1>7 DEF Shortened, bytes
<1>11. QED
  BY <1>3, <1>8, <1>9, <1>10 DEF bytes

(* A stream thread's message is one, and what it leaves are bytes.         *)
LEMMA StreamTypes ==
  ASSUME KernelTypeOK, PassReadable, NEW s \in Sinks, StreamOutErr(s)
  PROVE  ThreadTypes' /\ DataTypes' /\ PassReadable'
<1>0. PICK id \in 1..MaxRequests : \E k \in 1..Len(tcp[s][id]) :
        LET text == SubSeq(tcp[s][id], 1, k) IN
        /\ tcp' = [tcp EXCEPT ![s][id] = Rest(@, k)]
        /\ IF Whole(text)
           THEN \E parent \in Parents : Put(s, StreamMsg(parent, s, text))
           ELSE losses' = losses \cup {"encoding"} /\ UNCHANGED pipe
  BY DEF StreamOutErr
<1>1. PICK k \in 1..Len(tcp[s][id]) :
        LET text == SubSeq(tcp[s][id], 1, k) IN
        /\ tcp' = [tcp EXCEPT ![s][id] = Rest(@, k)]
        /\ IF Whole(text)
           THEN \E parent \in Parents : Put(s, StreamMsg(parent, s, text))
           ELSE losses' = losses \cup {"encoding"} /\ UNCHANGED pipe
  BY <1>0
<1> DEFINE text == SubSeq(tcp[s][id], 1, k)
<1>2. text \in Seq(Byte) /\ tcp' \in [Sinks -> [1..MaxRequests -> Seq(Byte)]]
  BY <1>1, Taken
<1>3. UNCHANGED <<wrote, joined, pills, running, wire, seen>>
      /\ pass' = [pass EXCEPT ![s] = {}]
  BY DEF StreamOutErr
<1>4. ThreadTypes' /\ pass'["io"] \subseteq pass["io"]
  <2>1. s # "io"
    BY SinksAssumption DEF Streams
  <2>2. QED
    BY <1>3, <2>1 DEF KernelTypeOK, ThreadTypes, Threads
<1>5. CASE losses' = losses \cup {"encoding"} /\ UNCHANGED pipe
  BY <1>2, <1>3, <1>4, <1>5 DEF KernelTypeOK, DataTypes, PassReadable, Causes
<1>6. ASSUME NEW parent \in Parents, Put(s, StreamMsg(parent, s, text))
      PROVE  ThreadTypes' /\ DataTypes' /\ PassReadable'
  <2>1. parent \in Request \cup {NoRequest}
    BY DEF Parents, KernelTypeOK, TypeOK
  <2> HIDE DEF text
  <2>2. StreamMsg(parent, s, text) \in Message
    BY <1>2, <2>1 DEF StreamMsg, Message
  <2>3. s \in Topics
    BY DEF Topics
  <2>4. /\ pipe' \in [Topics -> Seq(Message)]
        /\ \A d \in Topics : Len(pipe'[d]) <= Hwm
        /\ \A d \in Topics : pipe[d] # <<>> => pipe'[d] # <<>>
        /\ losses' \subseteq Causes
    BY <1>6, <2>2, <2>3, PutType
  <2>5. PassReadable'
    BY <1>4, <2>4 DEF KernelTypeOK, PassReadable, Threads
  <2>6. QED
    BY <1>2, <1>3, <1>4, <2>4, <2>5 DEF KernelTypeOK, DataTypes
<1>7. QED
  BY <1>1, <1>5, <1>6

(* What Forward does: the oldest of a pipe becomes the newest on the wire. *)
LEMMA Forwarded ==
  ASSUME KernelTypeOK, PassReadable, NEW c \in Topics, Forward(c)
  PROVE  /\ c \in pass["io"] /\ pass' = [pass EXCEPT !["io"] = @ \ {c}]
         /\ pipe[c] # <<>> /\ pipe[c] \in Seq(Message)
         /\ wire' = Append(wire, Head(pipe[c])) /\ wire' \in Seq(Message)
         /\ Head(pipe[c]) = pipe[c][1] /\ Head(pipe[c]) \in Message
         /\ pipe' \in [Topics -> Seq(Message)]
         /\ Len(pipe[c]) \in Nat /\ Len(pipe'[c]) = Len(pipe[c]) - 1
         /\ \A i \in DOMAIN pipe'[c] : /\ i \in Nat /\ i >= 1
                                      /\ i + 1 \in DOMAIN pipe[c]
                                      /\ pipe'[c][i] = pipe[c][i + 1]
         /\ \A d \in Topics \ {c} : pipe'[d] = pipe[d]
<1>1. /\ c \in pass["io"] /\ pass' = [pass EXCEPT !["io"] = @ \ {c}]
      /\ wire' = Append(wire, Head(pipe[c]))
      /\ pipe' = [pipe EXCEPT ![c] = Tail(@)]
  BY DEF Forward, Turn
<1>2. pipe \in [Topics -> Seq(Message)] /\ wire \in Seq(Message)
  BY DEF KernelTypeOK
<1>3. pipe[c] # <<>> /\ pipe[c] \in Seq(Message)
  BY <1>1, <1>2 DEF PassReadable
<1>4. /\ Head(pipe[c]) = pipe[c][1] /\ Head(pipe[c]) \in Message
      /\ Len(pipe[c]) \in Nat
      /\ Tail(pipe[c]) \in Seq(Message) /\ Len(Tail(pipe[c])) = Len(pipe[c]) - 1
      /\ \A i \in DOMAIN Tail(pipe[c]) : /\ i \in Nat /\ i >= 1
                                        /\ i + 1 \in DOMAIN pipe[c]
                                        /\ Tail(pipe[c])[i] = pipe[c][i + 1]
  BY <1>3
<1>5. pipe'[c] = Tail(pipe[c]) /\ \A d \in Topics \ {c} : pipe'[d] = pipe[d]
  BY <1>1, <1>2
<1>6. pipe' \in [Topics -> Seq(Message)]
  BY <1>1, <1>2, <1>4
<1>7. wire' \in Seq(Message)
  BY <1>1, <1>2, <1>4
<1>8. QED
  BY <1>1, <1>3, <1>4, <1>5, <1>6, <1>7

(* Forwarding and delivering move messages.                                *)
LEMMA MoveTypes ==
  ASSUME KernelTypeOK, PassReadable,
         Deliver \/ (\E c \in Topics : Forward(c))
  PROVE  ThreadTypes' /\ DataTypes' /\ PassReadable'
<1>1. CASE Deliver
  <2>1. /\ UNCHANGED <<wrote, tcp, joined, pills, running, pass, pipe, losses>>
        /\ wire # <<>> /\ seen' = Append(seen, Head(wire)) /\ wire' = Tail(wire)
    BY <1>1 DEF Deliver, streamVars, threadVars
  <2>2. wire \in Seq(Message) /\ seen \in Seq(Message)
    BY DEF KernelTypeOK
  <2>3. wire' \in Seq(Message) /\ seen' \in Seq(Message)
    BY <2>1, <2>2
  <2>4. QED
    BY <2>1, <2>3 DEF KernelTypeOK, ThreadTypes, DataTypes, PassReadable
<1>2. ASSUME NEW c \in Topics, Forward(c)
      PROVE  ThreadTypes' /\ DataTypes' /\ PassReadable'
  <2>1. UNCHANGED <<wrote, tcp, joined, pills, running, seen, losses>>
    BY <1>2 DEF Forward, streamVars
  <2>2. /\ c \in pass["io"] /\ pass' = [pass EXCEPT !["io"] = @ \ {c}]
        /\ wire' \in Seq(Message)
        /\ pipe' \in [Topics -> Seq(Message)]
        /\ Len(pipe[c]) \in Nat /\ Len(pipe'[c]) = Len(pipe[c]) - 1
        /\ \A d \in Topics \ {c} : pipe'[d] = pipe[d]
    BY <1>2, Forwarded
  <2>3. \A d \in Topics : Len(pipe'[d]) <= Hwm
    <3>1. \A d \in Topics : Len(pipe[d]) <= Hwm
      BY DEF KernelTypeOK
    <3>2. Len(pipe'[c]) <= Hwm
      BY <2>2, <3>1, HwmAssumption
    <3>3. QED
      BY <2>2, <3>1, <3>2
  <2>4. ThreadTypes' /\ DataTypes'
    BY <2>1, <2>2, <2>3 DEF KernelTypeOK, ThreadTypes, DataTypes
  <2>5. pass'["io"] = pass["io"] \ {c} /\ pass["io"] \subseteq Topics
    BY <2>2 DEF KernelTypeOK, Threads
  <2>6. PassReadable'
    BY <2>2, <2>5 DEF PassReadable
  <2>7. QED
    BY <2>4, <2>6
<1>3. QED
  BY <1>1, <1>2

\* what the proofs below build on
KernelTypes == KernelTypeOK /\ PassReadable /\ Served

(* Every step of the kernel keeps the types.                               *)
LEMMA KernelTypesNext ==
  ASSUME MainInv, MainInv', KernelTypes, [KernelNext]_kernelVars
  PROVE  KernelTypes'
<1>1. Served'
  BY ServedNext DEF MainInv, IInv, KernelTypes
<1>2. TypeOK'
  BY DEF MainInv, IInv
<1>3. ThreadTypes' /\ DataTypes' /\ PassReadable'
  <2> USE DEF KernelTypes
  <2>1. CASE Server
    BY <1>2, <2>1, ServerTypes
  <2>2. ASSUME NEW s \in Sinks, NEW glyph \in Glyphs, UserWrites(s, glyph)
        PROVE  ThreadTypes' /\ DataTypes' /\ PassReadable'
    BY <2>2, UserWritesTypes
  <2>3. ASSUME NEW t \in Threads, ThreadStep(t)
        PROVE  ThreadTypes' /\ DataTypes' /\ PassReadable'
    BY <2>3, PollTypes, StopTypes, StreamTypes, MoveTypes DEF ThreadStep
  <2>4. CASE UNCHANGED kernelVars
    BY <2>4 DEF kernelVars, streamVars, threadVars, outVars, KernelTypeOK,
       ThreadTypes, DataTypes, PassReadable
  <2>5. QED
    BY <2>1, <2>2, <2>3, <2>4, PollTypes, StopTypes, MoveTypes
    DEF KernelNext, AtRest
<1>4. QED
  BY <1>1, <1>2, <1>3 DEF KernelTypes, KernelTypeOK, ThreadTypes, DataTypes

(* The kernel's types hold at all times.                                   *)
THEOREM KernelTypesHold == KernelSpec => []KernelTypes
<1>1. KernelInit => KernelTypes
  BY KernelTypesInit DEF KernelTypes
<1>2. QED
  BY <1>1, KernelTypesNext, MainHolds, PTL DEF KernelSpec

(* The kernel's variables keep their types, and no pipe ever holds more    *)
(* than its high-water mark, for any number of streams, cells and bytes.   *)
THEOREM KernelTypeCorrect == KernelSpec => []KernelTypeOK
<1>1. KernelTypes => KernelTypeOK
  BY DEF KernelTypes
<1>2. QED
  BY <1>1, KernelTypesHold, PTL
=============================================================================
