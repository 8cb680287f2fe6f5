--------------------- MODULE RequestServerProofs ---------------------
(***************************************************************************)
(* What is proved of the main thread: its type invariant, with the bound   *)
(* on the execution counter that makes it inductive; that nothing of a     *)
(* request survives it; and that it implements RequestProtocol, which is   *)
(* mostly FreshIds: a request which waits in a socket was never served,    *)
(* and so the protocol may accept it.                                      *)
(***************************************************************************)
EXTENDS RequestServer, TLAPS

(* What the type invariant says of the terms the count of cells is made    *)
(* of.                                                                     *)
LEMMA Lengths ==
  ASSUME TypeOK
  PROVE  /\ inbox["control"] \in Seq(Request)
         /\ inbox["shell"] \in Seq(Request)
         /\ Queued("control") \in Nat
         /\ Queued("shell") \in Nat
         /\ execCount \in Nat
         /\ sent \in Nat
BY MaxRequestsAssumption DEF TypeOK, Sockets, Queued

(* A message on iopub built from the current request is an event.          *)
LEMMA PublishType ==
  ASSUME TypeOK, NEW k \in EventKinds, NEW n \in Counts, Publish(k, n)
  PROVE  log' \in Seq(Event)
<1>1. IOPubEvent(cur, k, n) \in Event
  BY DEF TypeOK, IOPubEvent, Reply, Event, Channels, ReplyStatus
<1> QED BY <1>1 DEF TypeOK, Publish

(* svg_close (gdevice.h:399-413) publishes an event or nothing.            *)
LEMMA CloseDeviceType ==
  ASSUME TypeOK, CloseDevice
  PROVE  log' \in Seq(Event) /\ dev' = "off"
<1>1. "display_data" \in EventKinds /\ 0 \in Counts
  BY MaxRequestsAssumption DEF EventKinds, OutputKinds, Counts
<1>2. CASE dev = "drawn"
  BY <1>1, <1>2, PublishType DEF CloseDevice
<1>3. CASE dev # "drawn"
  BY <1>3 DEF CloseDevice, TypeOK
<1> QED BY <1>2, <1>3 DEF CloseDevice

(* The kernel starts in a state of the right types, with no cell counted.  *)
THEOREM TypeInit == Init => TypeOK /\ CountsBounded
<1> SUFFICES ASSUME Init PROVE TypeOK /\ CountsBounded
  OBVIOUS
<1>1. inbox \in [Sockets -> Seq(Request)] /\ log \in Seq(Event)
  BY DEF Init
<1>2. /\ inbox["control"] = <<>>
      /\ inbox["shell"] = <<>>
  BY DEF Init, Sockets
<1>3. TypeOK
  <2>1. /\ sent \in 0..MaxRequests
        /\ interrupts \in 0..MaxInterrupts
        /\ execCount \in 1..(MaxRequests + 1)
        /\ cnt \in Counts
        /\ shown \in 0..MaxDisplays
        /\ overtaken \in Nat
    BY MaxRequestsAssumption, MaxInterruptsAssumption, MaxDisplaysAssumption
       DEF Init, Counts
  <2>2. /\ sigint \in BOOLEAN
        /\ payload \in BOOLEAN
        /\ raised \in BOOLEAN
        /\ signalled \in BOOLEAN
    BY DEF Init
  <2>3. /\ pc \in Locations
        /\ revents \in SUBSET Sockets
        /\ sock \in Sockets
        /\ cur \in Request \cup {NoRequest}
        /\ status \in ReplyStatus
        /\ sunk \in SUBSET Streams
        /\ dev \in {"off", "blank", "drawn"}
    BY DEF Init, Locations, Unguarded, Sockets, ReplyStatus
  <2> QED BY <1>1, <2>1, <2>2, <2>3 DEF TypeOK
<1>4. CountsBounded
  <2>1. Queued("control") = 0 /\ Queued("shell") = 0
    BY <1>2 DEF Queued
  <2>2. execCount = 1 /\ sent = 0 /\ Uncounted = 0
    BY DEF Init, Uncounted
  <2> QED BY <2>1, <2>2 DEF CountsBounded
<1> QED BY <1>3, <1>4

(* A request that arrives lengthens one queue by one, as it raises the     *)
(* number of requests sent: the bound on the execution counter is kept.    *)
LEMMA SendType ==
  ASSUME TypeOK, CountsBounded,
         NEW s \in Sockets, NEW type \in MsgType, NEW signed \in BOOLEAN,
         Send(s, type, signed)
  PROVE  TypeOK' /\ CountsBounded'
<1> DEFINE r == [id |-> sent + 1, type |-> type, signed |-> signed]
<1>1. sent \in Nat /\ sent < MaxRequests /\ sent' = sent + 1
  BY MaxRequestsAssumption DEF TypeOK, Send
<1>2. r \in Request
  BY <1>1, MaxRequestsAssumption DEF Request
<1>3. inbox' = [inbox EXCEPT ![s] = Append(@, r)] /\ inbox[s] \in Seq(Request)
  BY DEF Send, TypeOK
<1> HIDE DEF r
<1>4. inbox' \in [Sockets -> Seq(Request)]
  BY <1>2, <1>3 DEF TypeOK
<1>5. TypeOK'
  BY <1>1, <1>4, MaxRequestsAssumption DEF TypeOK, Send
<1>6. /\ Queued(s)' = Queued(s) + 1
      /\ \A t \in Sockets \ {s} : Queued(t)' = Queued(t)
  BY <1>2, <1>3 DEF TypeOK, Queued
<1>7. Queued("control") \in Nat /\ Queued("shell") \in Nat
  BY Lengths
<1>8. Queued("control")' + Queued("shell")'
        = Queued("control") + Queued("shell") + 1
  <2>1. CASE s = "control"
    <3>1. "shell" \in Sockets \ {s}
      BY <2>1 DEF Sockets
    <3> QED BY <1>6, <1>7, <2>1, <3>1
  <2>2. CASE s = "shell"
    <3>1. "control" \in Sockets \ {s}
      BY <2>2 DEF Sockets
    <3> QED BY <1>6, <1>7, <2>2, <3>1
  <2> QED BY <2>1, <2>2 DEF Sockets
<1>9. /\ execCount' = execCount /\ execCount \in Nat
      /\ Uncounted' = Uncounted /\ Uncounted \in Nat
      /\ Queued("control")' \in Nat /\ Queued("shell")' \in Nat
  BY <1>5, Lengths DEF Send, Uncounted, TypeOK, Queued, Sockets
<1>10. CountsBounded'
  BY <1>1, <1>7, <1>8, <1>9 DEF CountsBounded
<1> QED BY <1>5, <1>10

(* Taking the first request of a socket shortens its queue by one.         *)
LEMMA TakeType ==
  ASSUME TypeOK, NEW s \in Sockets, inbox[s] # <<>>,
         inbox' = [inbox EXCEPT ![s] = Tail(@)], Overtake(s)
  PROVE  /\ Head(inbox[s]) \in Request
         /\ inbox' \in [Sockets -> Seq(Request)]
         /\ overtaken' \in Nat
         /\ Queued("control")' \in Nat
         /\ Queued("shell")' \in Nat
         /\ Queued("control")' + Queued("shell")' + 1
              = Queued("control") + Queued("shell")
<1>1. inbox[s] \in Seq(Request)
  BY DEF TypeOK
<1>2. /\ Head(inbox[s]) \in Request
      /\ Tail(inbox[s]) \in Seq(Request)
      /\ Len(Tail(inbox[s])) = Len(inbox[s]) - 1
  BY <1>1
<1>3. inbox' \in [Sockets -> Seq(Request)]
  BY <1>2 DEF TypeOK
<1>4. /\ Queued(s)' = Queued(s) - 1
      /\ \A t \in Sockets \ {s} : Queued(t)' = Queued(t)
  BY <1>2 DEF TypeOK, Queued
<1>5. /\ Queued("control")' \in Nat
      /\ Queued("shell")' \in Nat
      /\ Queued("control") \in Nat
      /\ Queued("shell") \in Nat
  BY <1>3, Lengths DEF Sockets, Queued
<1>6. Queued("control")' + Queued("shell")' + 1
        = Queued("control") + Queued("shell")
  <2>1. CASE s = "control"
    <3>1. "shell" \in Sockets \ {s}
      BY <2>1 DEF Sockets
    <3> QED BY <1>4, <1>5, <2>1, <3>1
  <2>2. CASE s = "shell"
    <3>1. "control" \in Sockets \ {s}
      BY <2>2 DEF Sockets
    <3> QED BY <1>4, <1>5, <2>2, <3>1
  <2> QED BY <2>1, <2>2 DEF Sockets
<1>7. overtaken' \in Nat
  <2>1. overtaken \in Nat
    BY DEF TypeOK
  <2> QED BY <2>1 DEF Overtake
<1> QED BY <1>2, <1>3, <1>5, <1>6, <1>7

(* RequestServer::recv: the request taken is no longer in the queue, but   *)
(* is not yet counted either; a forged one never will be.                  *)
LEMMA RecvType ==
  ASSUME TypeOK, CountsBounded,
         NEW s \in Sockets, Recv(s) \/ RecvForged(s)
  PROVE  TypeOK' /\ CountsBounded'
<1>1. /\ Head(inbox[s]) \in Request
      /\ inbox' \in [Sockets -> Seq(Request)]
      /\ overtaken' \in Nat
      /\ Queued("control")' \in Nat
      /\ Queued("shell")' \in Nat
      /\ Queued("control")' + Queued("shell")' + 1
           = Queued("control") + Queued("shell")
  BY TakeType DEF Recv, RecvForged
<1>2. /\ cur' \in Request \cup {NoRequest}
      /\ sock' \in Sockets
      /\ pc' \in {"busy", "exit"}
      /\ pc \in {"control", "shell"}
  BY <1>1 DEF Recv, RecvForged, TypeOK, Sockets
<1>3. UNCHANGED <<clientVars, execVars, sigint, revents, sunk, dev, raised,
                  signalled, log>>
  BY DEF Recv, RecvForged
<1>4. TypeOK'
  BY <1>1, <1>2, <1>3 DEF TypeOK, Locations, clientVars, execVars
<1>5. Uncounted = 0 /\ Uncounted' \in {0, 1}
  BY <1>2 DEF Uncounted
<1>6. execCount' = execCount /\ sent' = sent
  BY <1>3 DEF clientVars, execVars
<1>7. CountsBounded'
  BY <1>1, <1>5, <1>6, Lengths, SMTT(30) DEF CountsBounded
<1> QED BY <1>4, <1>7

(* Every step keeps the types and the bound on the counter. One case per   *)
(* action.                                                                 *)
THEOREM TypeNext ==
  TypeOK /\ CountsBounded /\ [Next]_vars => TypeOK' /\ CountsBounded'
<1> SUFFICES ASSUME TypeOK, CountsBounded, [Next]_vars
             PROVE  TypeOK' /\ CountsBounded'
  OBVIOUS
<1> USE MaxRequestsAssumption, MaxInterruptsAssumption, MaxDisplaysAssumption,
        Lengths
<1> USE DEF TypeOK, CountsBounded, Uncounted, Locations, Unguarded, InHandler,
            Sockets, Counts, ReplyStatus, Queued, Event, Reply, IOPubEvent,
            Channels, EventKinds, OutputKinds
<1>1. ASSUME NEW s \in Sockets, NEW type \in MsgType, NEW signed \in BOOLEAN,
             Send(s, type, signed)
      PROVE  TypeOK' /\ CountsBounded'
  BY <1>1, SendType
<1>2. ASSUME NEW s \in Sockets, NotReady(s)
      PROVE  TypeOK' /\ CountsBounded'
  BY <1>2 DEF NotReady, clientVars, loopVars, execVars, AfterSocket
<1>3. ASSUME NEW s \in Sockets, Recv(s) \/ RecvForged(s)
      PROVE  TypeOK' /\ CountsBounded'
  BY <1>3, RecvType
<1>4. CASE Interrupt
  BY <1>4 DEF Interrupt
<1>5. CASE Poll
  BY <1>5 DEF Poll, clientVars, execVars
<1>6. CASE PollInterrupted
  BY <1>6 DEF PollInterrupted, clientVars, loopVars, execVars
<1>7. CASE Busy
  BY <1>7 DEF Busy, clientVars, loopVars, execVars, Publish
<1>8. CASE Dispatch
  BY <1>8 DEF Dispatch, clientVars, loopVars, execVars
<1>9. CASE Setup
  BY <1>9 DEF Setup, clientVars, loopVars, execVars
<1>10. CASE SetupFails
  <2>1. TypeOK'
    BY <1>10 DEF SetupFails, clientVars, loopVars, execVars, Streams
  <2>2. CountsBounded'
    BY <1>10 DEF SetupFails, clientVars, loopVars, execVars
  <2> QED BY <2>1, <2>2
<1>11. CASE HandlerReturns
  BY <1>11 DEF HandlerReturns, clientVars, loopVars, execVars
<1>12. CASE HandlerRaises
  <2>1. TypeOK'
    BY <1>12 DEF HandlerRaises, clientVars, loopVars, execVars, Streams
  <2>2. CountsBounded'
    BY <1>12 DEF HandlerRaises, clientVars, loopVars, execVars
  <2> QED BY <2>1, <2>2
<1>13. CASE Rebroadcast
  BY <1>13 DEF Rebroadcast, clientVars, loopVars, Publish
<1>14. CASE RebroadcastFails
  <2>1. TypeOK'
    BY <1>14 DEF RebroadcastFails, clientVars, loopVars, Streams
  <2>2. CountsBounded'
    BY <1>14 DEF RebroadcastFails, clientVars, loopVars
  <2> QED BY <2>1, <2>2
<1>15. CASE UserDisplays
  BY <1>15 DEF UserDisplays, clientVars, loopVars, Publish
<1>16. CASE UserDraws
  BY <1>16 DEF UserDraws, clientVars, loopVars, execVars
<1>17. CASE UserClosesDevice
  <2>1. TypeOK'
    BY <1>17, CloseDeviceType DEF UserClosesDevice, clientVars, loopVars,
       execVars, Streams
  <2>2. CountsBounded'
    BY <1>17 DEF UserClosesDevice, clientVars, loopVars, execVars
  <2> QED BY <2>1, <2>2
<1>18. CASE EvalVisible
  BY <1>18 DEF EvalVisible, clientVars, loopVars, execVars, Publish
<1>19. CASE EvalInvisible
  BY <1>19 DEF EvalInvisible, clientVars, loopVars, execVars
<1>20. CASE EvalHelp
  BY <1>20 DEF EvalHelp, clientVars, loopVars
<1>21. CASE EvalOk
  BY <1>21 DEF EvalOk, clientVars, loopVars
<1>22. CASE EvalCondition
  BY <1>22 DEF EvalCondition, clientVars, loopVars
<1>23. CASE EvalConditionWithoutCall
  BY <1>23 DEF EvalConditionWithoutCall, clientVars, loopVars, execVars
<1>24. CASE EvalInterrupted
  BY <1>24 DEF EvalInterrupted, clientVars, loopVars
<1>25. CASE UserQuits
  BY <1>25 DEF UserQuits, clientVars, loopVars, execVars
<1>26. CASE BuildReply
  BY <1>26 DEF BuildReply, clientVars, loopVars
<1>27. CASE Unsink
  BY <1>27 DEF Unsink, clientVars, loopVars, execVars
<1>28. CASE DevOff
  <2>1. TypeOK'
    BY <1>28, CloseDeviceType DEF DevOff, clientVars, loopVars, execVars,
       Streams
  <2>2. CountsBounded'
    BY <1>28 DEF DevOff, clientVars, loopVars, execVars
  <2> QED BY <2>1, <2>2
<1>29. CASE Propagate
  BY <1>29 DEF Propagate, clientVars, loopVars, execVars
<1>30. CASE UncaughtInterrupt
  <2>1. TypeOK'
    BY <1>30, ZenonT(40) DEF UncaughtInterrupt, clientVars, loopVars, execVars, Streams
  <2>2. CountsBounded'
    BY <1>30 DEF UncaughtInterrupt, clientVars, loopVars, execVars
  <2> QED BY <2>1, <2>2
<1>31. CASE PostComm
  BY <1>31 DEF PostComm, clientVars, loopVars, execVars
<1>32. CASE PostReply
  BY <1>32 DEF PostReply, clientVars, loopVars, execVars
<1>33. CASE PostFails
  BY <1>33 DEF PostFails, clientVars, loopVars, execVars
<1>34. CASE IdleBeforeSignal
  BY <1>34 DEF IdleBeforeSignal, clientVars, loopVars, execVars, Publish
<1>35. CASE Shutdown
  BY <1>35 DEF Shutdown, clientVars, loopVars, execVars
<1>36. CASE Idle
  BY <1>36 DEF Idle, clientVars, loopVars, Publish, AfterSocket
<1>37. CASE Finalize
  BY <1>37 DEF Finalize, clientVars, loopVars, execVars
<1>38. CASE UNCHANGED vars
  BY <1>38 DEF vars
<1> QED
  BY <1>1, <1>2, <1>3, <1>4, <1>5, <1>6, <1>7, <1>8, <1>9, <1>10,
     <1>11, <1>12, <1>13, <1>14, <1>15, <1>16, <1>17, <1>18, <1>19, <1>20,
     <1>21, <1>22, <1>23, <1>24, <1>25, <1>26, <1>27, <1>28, <1>29, <1>30,
     <1>31, <1>32, <1>33, <1>34, <1>35, <1>36, <1>37, <1>38 DEF Next, Client,
     MainThread, MainLoop, Handling, Answering, Resting
(* The variables keep their types at all times, for any number of requests *)
(* and interrupts. The execution counter is among them: it stays below the *)
(* number of requests sent plus two, because increase_exec_counter         *)
(* (juniper.R:34-38) runs once for a request.                              *)
THEOREM TypeCorrect == Spec => []TypeOK
<1>1. TypeOK /\ CountsBounded => TypeOK
  OBVIOUS
<1> QED BY <1>1, TypeInit, TypeNext, PTL DEF Spec

(* Every step keeps what doRequest and execute_request have yet to undo in *)
(* line with where the thread is, and only a shutdown takes the long way   *)
(* through post_handle. One case per action.                               *)
THEOREM TidyNext ==
  TypeOK /\ Tidy /\ Stopping /\ [Next]_vars => Tidy' /\ Stopping'
<1> SUFFICES ASSUME TypeOK, Tidy, Stopping, [Next]_vars
             PROVE  Tidy' /\ Stopping'
  OBVIOUS
<1> USE DEF Tidy, Stopping, Outside, TypeOK, Sockets
<1>1. ASSUME NEW s \in Sockets, NEW type \in MsgType, NEW signed \in BOOLEAN,
             Send(s, type, signed)
      PROVE  Tidy' /\ Stopping'
  BY <1>1 DEF Send
<1>2. ASSUME NEW s \in Sockets, NotReady(s)
      PROVE  Tidy' /\ Stopping'
  BY <1>2 DEF NotReady, clientVars, loopVars, execVars, AfterSocket
<1>3. ASSUME NEW s \in Sockets, Recv(s)
      PROVE  Tidy' /\ Stopping'
  BY <1>3 DEF Recv, clientVars, execVars, Overtake
<1>4. ASSUME NEW s \in Sockets, RecvForged(s)
      PROVE  Tidy' /\ Stopping'
  BY <1>4 DEF RecvForged, clientVars, execVars, Overtake
<1>5. CASE Interrupt
  BY <1>5 DEF Interrupt
<1>6. CASE Poll
  BY <1>6 DEF Poll, clientVars, execVars
<1>7. CASE PollInterrupted
  BY <1>7 DEF PollInterrupted, clientVars, loopVars, execVars
<1>8. CASE Busy
  BY <1>8 DEF Busy, clientVars, loopVars, execVars, Publish
<1>9. CASE Dispatch
  BY <1>9 DEF Dispatch, clientVars, loopVars, execVars
<1>10. CASE Setup
  BY <1>10 DEF Setup, clientVars, loopVars, execVars
<1>11. CASE SetupFails
  BY <1>11 DEF SetupFails, clientVars, loopVars, execVars
<1>12. CASE HandlerReturns
  BY <1>12 DEF HandlerReturns, clientVars, loopVars, execVars
<1>13. CASE HandlerRaises
  BY <1>13 DEF HandlerRaises, clientVars, loopVars, execVars
<1>14. CASE Rebroadcast
  BY <1>14 DEF Rebroadcast, clientVars, loopVars, Publish
<1>15. CASE RebroadcastFails
  BY <1>15 DEF RebroadcastFails, clientVars, loopVars
<1>16. CASE UserDisplays
  BY <1>16 DEF UserDisplays, clientVars, loopVars, Publish
<1>17. CASE UserDraws
  BY <1>17 DEF UserDraws, clientVars, loopVars, execVars
<1>18. CASE UserClosesDevice
  BY <1>18 DEF UserClosesDevice, clientVars, loopVars, execVars,
       CloseDevice, Publish
<1>19. CASE EvalVisible
  BY <1>19 DEF EvalVisible, clientVars, loopVars, execVars, Publish
<1>20. CASE EvalInvisible
  BY <1>20 DEF EvalInvisible, clientVars, loopVars, execVars
<1>21. CASE EvalHelp
  BY <1>21 DEF EvalHelp, clientVars, loopVars
<1>22. CASE EvalOk
  BY <1>22 DEF EvalOk, clientVars, loopVars
<1>23. CASE EvalCondition
  BY <1>23 DEF EvalCondition, clientVars, loopVars
<1>24. CASE EvalConditionWithoutCall
  BY <1>24 DEF EvalConditionWithoutCall, clientVars, loopVars, execVars
<1>25. CASE EvalInterrupted
  BY <1>25 DEF EvalInterrupted, clientVars, loopVars
<1>26. CASE UserQuits
  BY <1>26 DEF UserQuits, clientVars, loopVars, execVars
<1>27. CASE BuildReply
  BY <1>27 DEF BuildReply, clientVars, loopVars
<1>28. CASE Unsink
  BY <1>28 DEF Unsink, clientVars, loopVars, execVars
<1>29. CASE DevOff
  BY <1>29 DEF DevOff, clientVars, loopVars, execVars, CloseDevice, Publish
<1>30. CASE Propagate
  BY <1>30 DEF Propagate, clientVars, loopVars, execVars
<1>31. CASE UncaughtInterrupt
  BY <1>31 DEF UncaughtInterrupt, clientVars, loopVars, execVars
<1>32. CASE PostComm
  BY <1>32 DEF PostComm, clientVars, loopVars, execVars
<1>33. CASE PostReply
  BY <1>33 DEF PostReply, clientVars, loopVars, execVars
<1>34. CASE PostFails
  BY <1>34 DEF PostFails, clientVars, loopVars, execVars
<1>35. CASE IdleBeforeSignal
  BY <1>35 DEF IdleBeforeSignal, clientVars, loopVars, execVars, Publish
<1>36. CASE Shutdown
  BY <1>36 DEF Shutdown, clientVars, loopVars, execVars
<1>37. CASE Idle
  BY <1>37 DEF Idle, clientVars, loopVars, Publish, AfterSocket
<1>38. CASE Finalize
  BY <1>38 DEF Finalize, clientVars, loopVars, execVars
<1>39. CASE UNCHANGED vars
  BY <1>39 DEF vars
<1> QED
  BY <1>1, <1>2, <1>3, <1>4, <1>5, <1>6, <1>7, <1>8, <1>9, <1>10, <1>11,
     <1>12, <1>13, <1>14, <1>15, <1>16, <1>17, <1>18, <1>19, <1>20, <1>21,
     <1>22, <1>23, <1>24, <1>25, <1>26, <1>27, <1>28, <1>29, <1>30, <1>31,
     <1>32, <1>33, <1>34, <1>35, <1>36, <1>37, <1>38, <1>39 DEF Next, Client,
     MainThread, MainLoop, Handling, Answering, Resting

(* Whenever the loop is between two requests, R's streams are its own, the *)
(* device is closed, no help page is left for the next reply and no error  *)
(* is pending: however the handler ended, request.R:90-100 has run to its  *)
(* end.                                                                    *)
THEOREM Between == Spec => []BetweenRequests
<1>1. Init => Tidy /\ Stopping
  BY DEF Init, Tidy, Stopping, Outside
<1>2. TypeOK /\ Tidy => BetweenRequests
  BY DEF Tidy, BetweenRequests, Outside
<1>3. Spec => [](Tidy /\ Stopping)
  BY <1>1, TypeCorrect, TidyNext, PTL DEF Spec
<1> QED BY <1>2, <1>3, TypeCorrect, PTL

-----------------------------------------------------------------------------
(* The refinement.                                                         *)

(* The instance of RequestProtocol builds its messages the way this module *)
(* does.                                                                   *)
LEMMA SameVocabulary ==
  /\ Protocol!CommTypes = CommTypes
  /\ Protocol!OutputKinds = OutputKinds
  /\ Protocol!Counts = Counts
  /\ Protocol!Sockets = Sockets
  /\ Protocol!ReplyStatus = ReplyStatus
  /\ Protocol!Request = Request
  /\ Protocol!NoRequest = NoRequest
  /\ \A e, kind, n : Protocol!IOPubEvent(e, kind, n) = IOPubEvent(e, kind, n)
  /\ \A e, s, kind, status_, n :
       Protocol!Reply(e, s, kind, status_, n) = Reply(e, s, kind, status_, n)
BY DEF Protocol!CommTypes, CommTypes, Protocol!OutputKinds, OutputKinds,
       Protocol!Counts, Counts, Protocol!Sockets, Sockets,
       Protocol!ReplyStatus, ReplyStatus, Protocol!Request, Request,
       Protocol!NoRequest, NoRequest, Protocol!IOPubEvent, IOPubEvent,
       Protocol!Reply, Reply

(* The kernel's initial states are the protocol's.                         *)
LEMMA InitImplements == Init => Protocol!Init
BY SameVocabulary DEF Init, Phase, Protocol!Init

(* The first of a non-empty queue is a request, at index 1.                *)
LEMMA HeadOfQueue ==
  ASSUME TypeOK, NEW s \in Sockets, inbox[s] # <<>>
  PROVE  /\ Head(inbox[s]) \in Request
         /\ Head(inbox[s]) = inbox[s][1]
         /\ 1 \in DOMAIN inbox[s]
BY DEF TypeOK

(* Every step of the main thread is a step of the protocol, or leaves it   *)
(* alone. One case per action: those that send a message are the           *)
(* protocol's steps, those that end the process its Die, the others        *)
(* stutter.                                                                *)
LEMMA StepImplements ==
  IInv /\ [Next]_vars => [Protocol!Next]_(Protocol!vars)
<1> SUFFICES ASSUME IInv, [Next]_vars
             PROVE  [Protocol!Next]_(Protocol!vars)
  OBVIOUS
<1> USE MaxRequestsAssumption, SameVocabulary
<1> USE DEF IInv, Protocol!vars, Phase, Protocol!Next
<1>1. ASSUME NEW s \in Sockets, NEW type \in MsgType, NEW signed \in BOOLEAN,
             Send(s, type, signed)
      PROVE  [Protocol!Next]_(Protocol!vars)
  BY <1>1 DEF Send
<1>2. ASSUME NEW s \in Sockets, NotReady(s)
      PROVE  [Protocol!Next]_(Protocol!vars)
  BY <1>2 DEF NotReady, clientVars, loopVars, execVars, AfterSocket, TypeOK,
     Sockets
<1>3. ASSUME NEW s \in Sockets, Recv(s)
      PROVE  [Protocol!Next]_(Protocol!vars)
  <2> DEFINE r == Head(inbox[s])
  <2>1. r \in Request /\ r = inbox[s][1] /\ 1 \in DOMAIN inbox[s]
    BY <1>3, HeadOfQueue DEF Recv
  <2>2. r \notin Protocol!Started(log)
    BY <2>1 DEF FreshIds, Protocol!Started
  <2> QED
    BY <1>3, <2>1, <2>2
       DEF Recv, clientVars, execVars, TypeOK, Sockets, Protocol!Accept
<1>4. ASSUME NEW s \in Sockets, RecvForged(s)
      PROVE  [Protocol!Next]_(Protocol!vars)
  BY <1>4 DEF RecvForged, clientVars, execVars, Overtake, Protocol!Die,
     TypeOK, Sockets, Unguarded, InHandler
<1>5. CASE Interrupt
  BY <1>5 DEF Interrupt
<1>6. CASE Poll
  BY <1>6 DEF Poll, clientVars, execVars
<1>7. CASE PollInterrupted
  BY <1>7 DEF PollInterrupted, clientVars, loopVars, execVars
<1>8. CASE Busy
  BY <1>8 DEF Busy, clientVars, loopVars, execVars, Publish,
     Protocol!Announce, TypeOK, Stopping, CommTypes, Counts
<1>9. CASE Dispatch
  BY <1>9 DEF Dispatch, clientVars, loopVars, execVars, Protocol!Die, TypeOK,
     Stopping, CommTypes, Counts
<1>10. CASE Setup
  BY <1>10 DEF Setup, clientVars, loopVars, execVars
<1>11. CASE SetupFails
  BY <1>11 DEF SetupFails, clientVars, loopVars, execVars, Protocol!Die,
     TypeOK, Sockets, Unguarded, InHandler
<1>12. CASE HandlerReturns
  BY <1>12 DEF HandlerReturns, clientVars, loopVars, execVars
<1>13. CASE HandlerRaises
  BY <1>13 DEF HandlerRaises, clientVars, loopVars, execVars
<1>14. CASE Rebroadcast
  <2>1. execCount \in Counts
    BY <1>14, Lengths DEF Rebroadcast, CountsBounded, Uncounted, Counts,
       TypeOK
  <2> QED BY <1>14, <2>1 DEF Rebroadcast, clientVars, loopVars, Publish,
     Protocol!Output, OutputKinds
<1>15. CASE RebroadcastFails
  BY <1>15 DEF RebroadcastFails, clientVars, loopVars
<1>16. CASE UserDisplays
  <2>1. Phase = "busy" /\ Phase' = "busy" /\ cur' = cur
    BY <1>16 DEF UserDisplays, InUserCode, loopVars
  <2>2. log' = Append(log, IOPubEvent(cur, "display_data", 0))
    BY <1>16 DEF UserDisplays, Publish
  <2>3. "display_data" \in OutputKinds /\ 0 \in Counts
    BY DEF OutputKinds, Counts
  <2> HIDE DEF Phase
  <2> QED BY <2>1, <2>2, <2>3 DEF Protocol!Output
<1>17. CASE UserDraws
  BY <1>17 DEF UserDraws, clientVars, loopVars, execVars
<1>18. CASE UserClosesDevice
  <2>1. Phase = "busy" /\ Phase' = "busy" /\ cur' = cur
    BY <1>18 DEF UserClosesDevice, InUserCode, loopVars
  <2>2. log' = log \/ log' = Append(log, IOPubEvent(cur, "display_data", 0))
    BY <1>18 DEF UserClosesDevice, CloseDevice, Publish
  <2>3. "display_data" \in OutputKinds /\ 0 \in Counts
    BY DEF OutputKinds, Counts
  <2>4. CASE log' = log
    BY <1>18, <2>1, <2>4 DEF UserClosesDevice, clientVars, loopVars
  <2>5. CASE log' = Append(log, IOPubEvent(cur, "display_data", 0))
    <3> HIDE DEF Phase
    <3>1. QED
      BY <2>1, <2>3, <2>5 DEF Protocol!Output
  <2>6. QED
    BY <2>2, <2>4, <2>5
<1>19. CASE EvalVisible
  BY <1>19 DEF EvalVisible, clientVars, loopVars, execVars, Publish,
     Protocol!Output, TypeOK, OutputKinds, Counts
<1>20. CASE EvalInvisible
  BY <1>20 DEF EvalInvisible, clientVars, loopVars, execVars
<1>21. CASE EvalHelp
  BY <1>21 DEF EvalHelp, clientVars, loopVars
<1>22. CASE EvalOk
  BY <1>22 DEF EvalOk, clientVars, loopVars
<1>23. CASE EvalCondition
  BY <1>23 DEF EvalCondition, clientVars, loopVars
<1>24. CASE EvalConditionWithoutCall
  BY <1>24 DEF EvalConditionWithoutCall, clientVars, loopVars, execVars
<1>25. CASE EvalInterrupted
  BY <1>25 DEF EvalInterrupted, clientVars, loopVars
<1>26. CASE UserQuits
  BY <1>26 DEF UserQuits, clientVars, loopVars, execVars, Protocol!Die,
     TypeOK, Sockets, Unguarded, InHandler
<1>27. CASE BuildReply
  BY <1>27 DEF BuildReply, clientVars, loopVars
<1>28. CASE Unsink
  BY <1>28 DEF Unsink, clientVars, loopVars, execVars
<1>29. CASE DevOff
  BY <1>29 DEF DevOff, clientVars, loopVars, execVars, CloseDevice, Publish,
     Protocol!Output, TypeOK, OutputKinds, Counts
<1>30. CASE Propagate
  BY <1>30 DEF Propagate, clientVars, loopVars, execVars, Protocol!Die,
     TypeOK, Stopping, CommTypes, Counts
<1>31. CASE UncaughtInterrupt
  BY <1>31 DEF UncaughtInterrupt, clientVars, loopVars, execVars,
     Protocol!Die, TypeOK, Sockets, Unguarded, InHandler
<1>32. CASE PostComm
  BY <1>32 DEF PostComm, clientVars, loopVars, execVars, Stopping, CommTypes
<1>33. CASE PostReply
  BY <1>33 DEF PostReply, clientVars, loopVars, execVars, Protocol!Answer,
     TypeOK, Stopping, CommTypes, Counts
<1>34. CASE PostFails
  BY <1>34 DEF PostFails, clientVars, loopVars, execVars, Protocol!Die,
     TypeOK, Sockets, Unguarded, InHandler
<1>35. CASE IdleBeforeSignal
  BY <1>35 DEF IdleBeforeSignal, clientVars, loopVars, execVars, Publish,
     Protocol!Close, TypeOK, Stopping, CommTypes, Counts
<1>36. CASE Shutdown
  BY <1>36 DEF Shutdown, clientVars, loopVars, execVars, Stopping, CommTypes
<1>37. CASE Idle
  BY <1>37 DEF Idle, clientVars, loopVars, Publish, AfterSocket,
     Protocol!Close, Protocol!CloseAgain, TypeOK, CommTypes, Sockets, Counts
<1>38. CASE Finalize
  BY <1>38 DEF Finalize, clientVars, loopVars, execVars
<1>39. CASE UNCHANGED vars
  BY <1>39 DEF vars
<1> QED
  BY <1>1, <1>2, <1>3, <1>4, <1>5, <1>6, <1>7, <1>8, <1>9, <1>10, <1>11,
     <1>12, <1>13, <1>14, <1>15, <1>16, <1>17, <1>18, <1>19, <1>20, <1>21,
     <1>22, <1>23, <1>24, <1>25, <1>26, <1>27, <1>28, <1>29, <1>30, <1>31,
     <1>32, <1>33, <1>34, <1>35, <1>36, <1>37, <1>38, <1>39 DEF Next, Client,
     MainThread, MainLoop, Handling, Answering, Resting

(* Who was served is not changed by a step that takes no request and       *)
(* sends, if anything, a message for the current one.                      *)
LEMMA SameIds ==
  ASSUME TypeOK, FreshIds, UNCHANGED <<inbox, cur, sent>>,
         \/ UNCHANGED log
         \/ \E e : e.parent = cur /\ log' = Append(log, e)
  PROVE  FreshIds'
<1>1. CASE UNCHANGED log
  BY <1>1 DEF FreshIds
<1>2. ASSUME NEW e, e.parent = cur, log' = Append(log, e)
      PROVE  FreshIds'
  <2>1. \A k \in DOMAIN log' :
          \/ k \in DOMAIN log /\ log'[k] = log[k]
          \/ log'[k].parent = cur
    BY <1>2 DEF TypeOK
  <2> QED BY <2>1 DEF FreshIds
<1> QED BY <1>1, <1>2

(* What svg_close publishes is published for the current request.          *)
LEMMA ClosingSends ==
  ASSUME CloseDevice
  PROVE  \/ UNCHANGED log
         \/ \E e : e.parent = cur /\ log' = Append(log, e)
BY DEF CloseDevice, Publish, IOPubEvent, Reply

(* A new request's id is one that nothing has borne before.                *)
LEMMA SendIds ==
  ASSUME TypeOK, FreshIds,
         NEW s \in Sockets, NEW type \in MsgType, NEW signed \in BOOLEAN,
         Send(s, type, signed)
  PROVE  FreshIds'
<1> DEFINE r == [id |-> sent + 1, type |-> type, signed |-> signed]
<1>1. /\ sent \in Nat /\ sent' = sent + 1
      /\ cur' = cur /\ log' = log
  BY MaxRequestsAssumption DEF TypeOK, Send
<1>2. /\ cur.id \in Nat
      /\ \A k \in DOMAIN log : log[k].parent.id \in Nat
      /\ \A t \in Sockets : \A i \in DOMAIN inbox[t] : inbox[t][i].id \in Nat
  <2>1. \A q \in Request \cup {NoRequest} : q.id \in Nat
    BY MaxRequestsAssumption DEF Request, NoRequest
  <2>2. \A k \in DOMAIN log : log[k].parent \in Request \cup {NoRequest}
    <3>1. \A k \in DOMAIN log : log[k] \in Event
      BY DEF TypeOK
    <3> QED BY <3>1 DEF Event
  <2>3. \A t \in Sockets : \A i \in DOMAIN inbox[t] : inbox[t][i] \in Request
    BY DEF TypeOK
  <2>4. cur \in Request \cup {NoRequest}
    BY DEF TypeOK
  <2> QED BY <2>1, <2>2, <2>3, <2>4
<1>4. \A t \in Sockets : \A i \in DOMAIN inbox'[t] :
        \/ i \in DOMAIN inbox[t] /\ inbox'[t][i] = inbox[t][i]
        \/ t = s /\ i = Len(inbox[s]) + 1 /\ inbox'[t][i].id = sent + 1
  BY DEF TypeOK, Send
<1> QED BY <1>1, <1>2, <1>4 DEF FreshIds

(* Taking a request leaves all others in the queues, and unserved.         *)
LEMMA TakeIds ==
  ASSUME TypeOK, FreshIds, NEW s \in Sockets, inbox[s] # <<>>,
         inbox' = [inbox EXCEPT ![s] = Tail(@)],
         cur' \in {cur, Head(inbox[s])}, UNCHANGED <<sent, log>>
  PROVE  FreshIds'
<1>1. \A t \in Sockets \ {s} : inbox'[t] = inbox[t]
  BY DEF TypeOK
<1>2. \A i \in DOMAIN inbox'[s] :
        /\ i + 1 \in DOMAIN inbox[s]
        /\ i \in Nat \ {0}
        /\ inbox'[s][i] = inbox[s][i + 1]
  BY DEF TypeOK
<1>3. Head(inbox[s]) = inbox[s][1] /\ 1 \in DOMAIN inbox[s]
  BY HeadOfQueue
<1>4. ASSUME NEW t \in Sockets, NEW i \in DOMAIN inbox'[t]
      PROVE  \E j \in DOMAIN inbox[t] :
               /\ inbox'[t][i] = inbox[t][j]
               /\ t = s => j = i + 1 /\ i \in Nat \ {0}
               /\ t # s => j = i
  BY <1>1, <1>2
<1> QED BY <1>3, <1>4, SMTT(30) DEF FreshIds

(* Every step keeps waiting requests unserved. One case per action.        *)
LEMMA FreshNext == TypeOK /\ FreshIds /\ [Next]_vars => FreshIds'
<1> SUFFICES ASSUME TypeOK, FreshIds, [Next]_vars
             PROVE  FreshIds'
  OBVIOUS
<1>1. ASSUME NEW s \in Sockets, NEW type \in MsgType, NEW signed \in BOOLEAN,
             Send(s, type, signed)
      PROVE  FreshIds'
  BY <1>1, SendIds
<1>2. ASSUME NEW s \in Sockets, NotReady(s)
      PROVE  FreshIds'
  BY <1>2, SameIds DEF NotReady, clientVars, loopVars, execVars
<1>3. ASSUME NEW s \in Sockets, Recv(s)
      PROVE  FreshIds'
  BY <1>3, TakeIds DEF Recv, clientVars
<1>4. ASSUME NEW s \in Sockets, RecvForged(s)
      PROVE  FreshIds'
  BY <1>4, TakeIds DEF RecvForged, clientVars
<1>5. CASE Interrupt
  BY <1>5, SameIds DEF Interrupt
<1>6. CASE Poll
  BY <1>6, SameIds DEF Poll, clientVars, execVars
<1>7. CASE PollInterrupted
  BY <1>7, SameIds DEF PollInterrupted, clientVars, loopVars, execVars
<1>8. CASE Busy
  <2>1. UNCHANGED <<inbox, cur, sent>>
    BY <1>8 DEF Busy, clientVars, loopVars
  <2>2. \E e : e.parent = cur /\ log' = Append(log, e)
    BY <1>8 DEF Busy, Publish, IOPubEvent, Reply
  <2> QED BY <2>1, <2>2, SameIds
<1>9. CASE Dispatch
  BY <1>9, SameIds DEF Dispatch, clientVars, loopVars, execVars
<1>10. CASE Setup
  BY <1>10, SameIds DEF Setup, clientVars, loopVars, execVars
<1>11. CASE SetupFails
  BY <1>11, SameIds DEF SetupFails, clientVars, loopVars, execVars
<1>12. CASE HandlerReturns
  BY <1>12, SameIds DEF HandlerReturns, clientVars, loopVars, execVars
<1>13. CASE HandlerRaises
  BY <1>13, SameIds DEF HandlerRaises, clientVars, loopVars, execVars
<1>14. CASE Rebroadcast
  <2>1. UNCHANGED <<inbox, cur, sent>>
    BY <1>14 DEF Rebroadcast, clientVars, loopVars
  <2>2. \E e : e.parent = cur /\ log' = Append(log, e)
    BY <1>14 DEF Rebroadcast, Publish, IOPubEvent, Reply
  <2> QED BY <2>1, <2>2, SameIds
<1>15. CASE RebroadcastFails
  BY <1>15, SameIds DEF RebroadcastFails, clientVars, loopVars
<1>16. CASE UserDisplays
  <2>1. UNCHANGED <<inbox, cur, sent>>
    BY <1>16 DEF UserDisplays, clientVars, loopVars
  <2>2. \E e : e.parent = cur /\ log' = Append(log, e)
    BY <1>16 DEF UserDisplays, Publish, IOPubEvent, Reply
  <2> QED BY <2>1, <2>2, SameIds
<1>17. CASE UserDraws
  BY <1>17, SameIds DEF UserDraws, clientVars, loopVars, execVars
<1>18. CASE UserClosesDevice
  <2>1. UNCHANGED <<inbox, cur, sent>>
    BY <1>18 DEF UserClosesDevice, clientVars, loopVars
  <2> QED BY <1>18, <2>1, ClosingSends, SameIds DEF UserClosesDevice
<1>19. CASE EvalVisible
  <2>1. UNCHANGED <<inbox, cur, sent>>
    BY <1>19 DEF EvalVisible, clientVars, loopVars
  <2>2. \E e : e.parent = cur /\ log' = Append(log, e)
    BY <1>19 DEF EvalVisible, Publish, IOPubEvent, Reply
  <2> QED BY <2>1, <2>2, SameIds
<1>20. CASE EvalInvisible
  BY <1>20, SameIds DEF EvalInvisible, clientVars, loopVars, execVars
<1>21. CASE EvalHelp
  BY <1>21, SameIds DEF EvalHelp, clientVars, loopVars
<1>22. CASE EvalOk
  BY <1>22, SameIds DEF EvalOk, clientVars, loopVars
<1>23. CASE EvalCondition
  BY <1>23, SameIds DEF EvalCondition, clientVars, loopVars
<1>24. CASE EvalConditionWithoutCall
  BY <1>24, SameIds DEF EvalConditionWithoutCall, clientVars, loopVars,
     execVars
<1>25. CASE EvalInterrupted
  BY <1>25, SameIds DEF EvalInterrupted, clientVars, loopVars
<1>26. CASE UserQuits
  BY <1>26, SameIds DEF UserQuits, clientVars, loopVars, execVars
<1>27. CASE BuildReply
  BY <1>27, SameIds DEF BuildReply, clientVars, loopVars
<1>28. CASE Unsink
  BY <1>28, SameIds DEF Unsink, clientVars, loopVars, execVars
<1>29. CASE DevOff
  <2>1. UNCHANGED <<inbox, cur, sent>>
    BY <1>29 DEF DevOff, clientVars, loopVars
  <2> QED BY <1>29, <2>1, ClosingSends, SameIds DEF DevOff
<1>30. CASE Propagate
  BY <1>30, SameIds DEF Propagate, clientVars, loopVars, execVars
<1>31. CASE UncaughtInterrupt
  BY <1>31, SameIds DEF UncaughtInterrupt, clientVars, loopVars, execVars
<1>32. CASE PostComm
  BY <1>32, SameIds DEF PostComm, clientVars, loopVars, execVars
<1>33. CASE PostReply
  <2>1. UNCHANGED <<inbox, cur, sent>>
    BY <1>33 DEF PostReply, clientVars, loopVars
  <2>2. \E e : e.parent = cur /\ log' = Append(log, e)
    BY <1>33 DEF PostReply, Reply
  <2> QED BY <2>1, <2>2, SameIds
<1>34. CASE PostFails
  BY <1>34, SameIds DEF PostFails, clientVars, loopVars, execVars
<1>35. CASE IdleBeforeSignal
  <2>1. UNCHANGED <<inbox, cur, sent>>
    BY <1>35 DEF IdleBeforeSignal, clientVars, loopVars
  <2>2. \E e : e.parent = cur /\ log' = Append(log, e)
    BY <1>35 DEF IdleBeforeSignal, Publish, IOPubEvent, Reply
  <2> QED BY <2>1, <2>2, SameIds
<1>36. CASE Shutdown
  BY <1>36, SameIds DEF Shutdown, clientVars, loopVars, execVars
<1>37. CASE Idle
  <2>1. UNCHANGED <<inbox, cur, sent>>
    BY <1>37 DEF Idle, clientVars, loopVars
  <2>2. \E e : e.parent = cur /\ log' = Append(log, e)
    BY <1>37 DEF Idle, Publish, IOPubEvent, Reply
  <2> QED BY <2>1, <2>2, SameIds
<1>38. CASE Finalize
  BY <1>38, SameIds DEF Finalize, clientVars, loopVars, execVars
<1>39. CASE UNCHANGED vars
  <2>1. UNCHANGED <<inbox, cur, sent>> /\ UNCHANGED log
    BY <1>39 DEF vars
  <2> QED BY <2>1, SameIds
<1> QED
  BY <1>1, <1>2, <1>3, <1>4, <1>5, <1>6, <1>7, <1>8, <1>9, <1>10, <1>11,
     <1>12, <1>13, <1>14, <1>15, <1>16, <1>17, <1>18, <1>19, <1>20, <1>21,
     <1>22, <1>23, <1>24, <1>25, <1>26, <1>27, <1>28, <1>29, <1>30, <1>31,
     <1>32, <1>33, <1>34, <1>35, <1>36, <1>37, <1>38, <1>39 DEF Next, Client,
     MainThread, MainLoop, Handling, Answering, Resting

(* The invariant of the main thread is inductive.                          *)
THEOREM IInvNext == IInv /\ [Next]_vars => IInv'
BY TypeNext, TidyNext, FreshNext DEF IInv

(* The inductive invariant holds at all times.                             *)
THEOREM Inductive == Spec => []IInv
<1>1. Init => IInv
  <2>1. Init => Tidy /\ Stopping
    BY DEF Init, Tidy, Stopping, Outside
  <2>2. Init => FreshIds
    BY DEF Init, FreshIds, NoRequest, Sockets
  <2> QED BY <2>1, <2>2, TypeInit DEF IInv
<1> QED BY <1>1, IInvNext, PTL DEF Spec

(* The main thread implements the protocol of requests.h:73-104 for any    *)
(* number of requests of any types, whatever the handlers and the cells    *)
(* do: requests are announced, answered and closed one at a time, none     *)
(* twice, and none that is forged.                                         *)
THEOREM Refines == Spec => ImplementsProtocol
<1> QED BY InitImplements, StepImplements, Inductive, PTL
     DEF Spec, ImplementsProtocol, Protocol!Spec

-----------------------------------------------------------------------------
(* The proofs about the abstract protocol, for the main thread's phase.    *)
P == INSTANCE RequestProtocolProofs WITH phase <- Phase

(* The two instances of the protocol have the same steps.                  *)
LEMMA SameSteps ==
  ASSUME [Protocol!Next]_(Protocol!vars)
  PROVE  [P!Next]_(P!vars)
BY DEF Protocol!vars, P!vars, Protocol!Next, P!Next, Protocol!Accept, P!Accept,
       Protocol!Announce, P!Announce, Protocol!Output, P!Output, Protocol!Answer,
       P!Answer, Protocol!Close, P!Close, Protocol!CloseAgain, P!CloseAgain,
       Protocol!Die, P!Die, Protocol!Started, P!Started, Protocol!Request,
       P!Request, Protocol!OutputKinds, P!OutputKinds, Protocol!Counts, P!Counts,
       Protocol!CommTypes, P!CommTypes, Protocol!Sockets, P!Sockets,
       Protocol!ReplyStatus, P!ReplyStatus, Protocol!IOPubEvent, P!IOPubEvent,
       Protocol!Reply, P!Reply

(* The client of the main thread sees well-bracketed conversations, as the *)
(* abstract protocol's client does: the invariant of the abstract proof,   *)
(* read through the refinement.                                            *)
THEOREM Conversing == Spec => []Conversations
<1>1. Init => P!Init
  BY InitImplements DEF Protocol!Init, P!Init, Protocol!NoRequest, P!NoRequest
<1>2. IInv /\ [Next]_vars => [P!Next]_(P!vars)
  BY StepImplements, SameSteps
<1>3. P!Init => P!IInv
  BY P!InitInv, MsgTypeAssumption, MaxRequestsAssumption
<1>4. P!IInv /\ [P!Next]_(P!vars) => P!IInv'
  BY P!NextInv, MsgTypeAssumption, MaxRequestsAssumption
<1>5. P!IInv => Conversations
  BY DEF P!IInv, P!Bracketed, Conversations, Protocol!Bracketed, P!Follows,
     Protocol!Follows, P!Working, Protocol!Working, P!OutputKinds,
     Protocol!OutputKinds, P!CommTypes, Protocol!CommTypes
<1> QED BY <1>1, <1>2, <1>3, <1>4, <1>5, Inductive, PTL DEF Spec

(***************************************************************************)
(* What the clients can see of the main thread over time: the execution    *)
(* counts and statuses in the log, the order of the replies, and who waits *)
(* for whom.  Most steps say nothing of that (Quiet); the ones that do are *)
(* Recv, Rebroadcast, EvalVisible, PostReply and Idle.  That nothing was   *)
(* sent before for a request just taken is FreshIds of the invariant       *)
(* above.                                                                  *)
(***************************************************************************)

-----------------------------------------------------------------------------
(* How far the request in hand has come.                                   *)

Unannounced == {"busy", "dispatch", "setup", "handler"}

Unvalued == Unannounced \cup {"eval"}

Unanswered == Unvalued \cup {"value", "return", "finally", "devoff", "raise", "post"}

Serving == Unanswered \cup {"stopping", "signal", "idle"}

-----------------------------------------------------------------------------
(* The inductive invariants.                                               *)

\* what was sent for the request in hand, by how far it has come
SentForCur ==
  \A k \in DOMAIN log :
    log[k].parent = cur =>
      /\ pc \in Unannounced => log[k].kind # "execute_input"
      /\ pc \in Unvalued => log[k].kind # "execute_result"
      /\ pc \in Unanswered => log[k].kind # "reply"
      /\ pc \in Serving /\ log[k].kind = "execute_input" => log[k].count = cnt
      /\ pc \in Serving /\ log[k].kind = "execute_result" =>
           pc = "value" \/ status \in {"ok", "abort"}

\* the counts handed out are below the next one
CountsUsed ==
  \A k \in DOMAIN log : log[k].kind = "execute_input" => log[k].count < execCount

CountsInv ==
  /\ SentForCur
  /\ CountsUsed
  /\ ExecutionCounts
  /\ NoResultOnError

\* a socket's queue is in the order of sending
QueueSorted ==
  \A s \in Sockets : \A i, j \in DOMAIN inbox[s] :
    i < j => inbox[s][i].id < inbox[s][j].id

\* what waits was sent later than what was answered on its socket
QueueUnanswered ==
  \A s \in Sockets : \A i \in DOMAIN inbox[s], k \in DOMAIN log :
    log[k].kind = "reply" /\ log[k].chan = s
      => log[k].parent.id < inbox[s][i].id

\* and later than the request in hand
QueueBehind ==
  pc \in Serving => \A i \in DOMAIN inbox[sock] : cur.id < inbox[sock][i].id

\* which was sent later than what was answered, until it is answered itself
CurUnanswered ==
  pc \in Unanswered =>
    \A k \in DOMAIN log :
      log[k].kind = "reply" /\ log[k].chan = sock => log[k].parent.id < cur.id

OrderInv ==
  /\ QueueSorted
  /\ QueueUnanswered
  /\ QueueBehind
  /\ CurUnanswered
  /\ RepliesInOrder

\* a control request that was overtaken is what the loop looks at next
TurnInv ==
  overtaken # 0 =>
    /\ overtaken = 1
    /\ inbox["control"] # <<>>
    /\ pc # "shell"
    /\ pc = "control" => "control" \in revents
    /\ pc \in Serving => sock = "shell"

HistoryInv == CountsInv /\ OrderInv /\ TurnInv

-----------------------------------------------------------------------------
(* The steps that matter to the history, and those that do not.            *)

\* the request in hand goes on, or the process ends; what is sent, if anything,
\* is neither an input, nor a result, nor a reply
Quiet ==
  /\ UNCHANGED <<inbox, revents, sock, cur, cnt, overtaken>>
  /\ execCount' \in {execCount, execCount + 1}
  /\ \/ log' = log
     \/ \E e \in Event : /\ e.kind \notin {"execute_input", "execute_result", "reply"}
                        /\ log' = Append(log, e)
  /\ \/ pc' = pc
     \/ pc' \in {"exit", "down"}
     \/ pc \in Serving /\ pc' \in Serving
  /\ pc' \in Unannounced => pc \in Unannounced
  /\ pc' \in Unvalued => pc \in Unvalued
  /\ pc' \in Unanswered => pc \in Unanswered
  /\ \/ pc \in Unvalued
     \/ status' = status /\ (pc = "value" => pc' \in {"value", "exit", "down"})
     \/ status' \in {"ok", "abort"}

(* Messages of these kinds are events, for any request in hand.            *)
LEMMA QuietEvents ==
  ASSUME TypeOK, NEW k \in {"busy", "idle", "display_data"}, Publish(k, 0)
  PROVE  \E e \in Event : /\ e.kind \notin {"execute_input", "execute_result", "reply"}
                        /\ log' = Append(log, e)
<1> DEFINE e == IOPubEvent(cur, k, 0)
<1>1. e \in Event /\ e.kind = k
  BY MaxRequestsAssumption
  DEF Event, IOPubEvent, Reply, Channels, EventKinds, OutputKinds, ReplyStatus,
      Counts, TypeOK
<1>2. QED
  BY <1>1 DEF Publish

(* Which steps those are. One case per action.                             *)
LEMMA StepKinds ==
  ASSUME TypeOK, [Next]_vars
  PROVE  \/ \E s \in Sockets, type \in MsgType, signed \in BOOLEAN :
              Send(s, type, signed)
         \/ \E s \in Sockets : NotReady(s) \/ Recv(s) \/ RecvForged(s)
         \/ Poll
         \/ Rebroadcast
         \/ EvalVisible
         \/ PostReply
         \/ Idle
         \/ Quiet
<1> USE QuietEvents
<1> USE DEF Quiet, Unannounced, Unvalued, Unanswered, Serving, clientVars,
            loopVars, execVars
<1>1. CASE Interrupt
  BY <1>1 DEF Interrupt
<1>2. CASE PollInterrupted
  BY <1>2 DEF PollInterrupted
<1>3. CASE Busy
  BY <1>3 DEF Busy
<1>4. CASE Dispatch
  BY <1>4 DEF Dispatch
<1>5. CASE Setup
  BY <1>5 DEF Setup
<1>6. CASE SetupFails
  BY <1>6 DEF SetupFails
<1>7. CASE HandlerReturns
  BY <1>7 DEF HandlerReturns
<1>8. CASE HandlerRaises
  BY <1>8 DEF HandlerRaises
<1>9. CASE RebroadcastFails
  BY <1>9 DEF RebroadcastFails
<1>10. CASE UserDisplays
  BY <1>10 DEF UserDisplays
<1>11. CASE UserDraws
  BY <1>11 DEF UserDraws
<1>12. CASE UserClosesDevice
  BY <1>12 DEF UserClosesDevice, CloseDevice
<1>13. CASE EvalInvisible
  BY <1>13 DEF EvalInvisible
<1>14. CASE EvalHelp
  BY <1>14 DEF EvalHelp
<1>15. CASE EvalOk
  BY <1>15 DEF EvalOk
<1>16. CASE EvalCondition
  BY <1>16 DEF EvalCondition
<1>17. CASE EvalConditionWithoutCall
  BY <1>17 DEF EvalConditionWithoutCall
<1>18. CASE EvalInterrupted
  BY <1>18 DEF EvalInterrupted
<1>19. CASE UserQuits
  BY <1>19 DEF UserQuits
<1>20. CASE BuildReply
  BY <1>20 DEF BuildReply
<1>21. CASE Unsink
  BY <1>21 DEF Unsink
<1>22. CASE DevOff
  BY <1>22 DEF DevOff, CloseDevice
<1>23. CASE Propagate
  BY <1>23 DEF Propagate
<1>24. CASE PostComm
  BY <1>24 DEF PostComm
<1>25. CASE PostFails
  BY <1>25 DEF PostFails
<1>26. CASE IdleBeforeSignal
  BY <1>26 DEF IdleBeforeSignal
<1>27. CASE Shutdown
  BY <1>27 DEF Shutdown
<1>28. CASE UncaughtInterrupt
  BY <1>28 DEF UncaughtInterrupt, Unguarded, InHandler
<1>29. CASE Finalize
  BY <1>29 DEF Finalize
<1>30. CASE UNCHANGED vars
  BY <1>30 DEF vars
<1>31. QED
  BY <1>1, <1>2, <1>3, <1>4, <1>5, <1>6, <1>7, <1>8, <1>9, <1>10, <1>11, <1>12,
     <1>13, <1>14, <1>15, <1>16, <1>17, <1>18, <1>19, <1>20, <1>21, <1>22, <1>23,
     <1>24, <1>25, <1>26, <1>27, <1>28, <1>29, <1>30
  DEF Next, Client, MainThread, MainLoop, Handling, Answering, Resting

(* What Append does to the log, entry by entry.                            *)
LEMMA Appended ==
  ASSUME TypeOK, NEW e, log' = Append(log, e)
  PROVE  /\ Len(log) \in Nat
         /\ DOMAIN log' = DOMAIN log \cup {Len(log) + 1}
         /\ \A k \in DOMAIN log : k \in Nat /\ k <= Len(log) /\ log'[k] = log[k]
         /\ log'[Len(log) + 1] = e
BY DEF TypeOK

(* What counts, kinds and statuses the proofs compare.                     *)
LEMMA NumbersInLog ==
  ASSUME TypeOK
  PROVE  /\ execCount \in Nat
         /\ cnt \in Nat
         /\ cur.id \in Nat
         /\ \A k \in DOMAIN log : log[k].count \in Nat /\ log[k].parent.id \in Nat
<1>1. \A r \in Request \cup {NoRequest} : r.id \in Nat
  BY MaxRequestsAssumption DEF Request, NoRequest
<1>2. \A e \in Event : e.count \in Nat /\ e.parent \in Request \cup {NoRequest}
  BY MaxRequestsAssumption DEF Event, Counts
<1>3. \A k \in DOMAIN log : log[k] \in Event
  BY DEF TypeOK
<1>4. execCount \in Nat /\ cnt \in Nat
  BY MaxRequestsAssumption DEF TypeOK, Counts
<1>5. cur \in Request \cup {NoRequest}
  BY DEF TypeOK
<1>6. QED
  BY <1>1, <1>2, <1>3, <1>4, <1>5

-----------------------------------------------------------------------------
(* The counts and the statuses.                                            *)

(* A step that sends nothing, and keeps the request or drops it.           *)
LEMMA CountsSame ==
  ASSUME CountsInv,
         UNCHANGED <<log, cur, cnt, status, execCount>>,
         pc' = pc \/ pc' \notin Serving
  PROVE  CountsInv'
BY DEF CountsInv, SentForCur, CountsUsed, ExecutionCounts, NoResultOnError,
       Serving, Unanswered, Unvalued, Unannounced

(* A step that sends neither an input, nor a result, nor a reply.          *)
LEMMA CountsQuiet ==
  ASSUME TypeOK, CountsInv, Quiet
  PROVE  CountsInv'
<1>1. \A k \in DOMAIN log' :
        \/ k \in DOMAIN log /\ log'[k] = log[k]
        \/ log'[k].kind \notin {"execute_input", "execute_result", "reply"}
  <2>1. CASE log' = log
    BY <2>1
  <2>2. ASSUME NEW e \in Event, log' = Append(log, e),
               e.kind \notin {"execute_input", "execute_result", "reply"}
        PROVE  \A k \in DOMAIN log' :
                 \/ k \in DOMAIN log /\ log'[k] = log[k]
                 \/ log'[k].kind \notin {"execute_input", "execute_result", "reply"}
    BY <2>2, Appended
  <2>3. QED
    BY <2>1, <2>2 DEF Quiet
<1>2. cur' = cur /\ cnt' = cnt /\ execCount' \in {execCount, execCount + 1}
  BY DEF Quiet
<1>3. /\ pc' \in Unannounced => pc \in Unannounced
      /\ pc' \in Unvalued => pc \in Unvalued
      /\ pc' \in Unanswered => pc \in Unanswered
      /\ pc' \in Serving => pc \in Serving
  BY DEF Quiet, Serving, Unanswered, Unvalued, Unannounced
<1>4. ASSUME NEW k \in DOMAIN log, pc' \in Serving, log[k].parent = cur,
             log[k].kind = "execute_result"
      PROVE  pc' = "value" \/ status' \in {"ok", "abort"}
  BY <1>3, <1>4
  DEF CountsInv, SentForCur, Quiet, Serving, Unanswered, Unvalued, Unannounced
<1>5. SentForCur'
  BY <1>1, <1>2, <1>3, <1>4 DEF CountsInv, SentForCur
<1>6. CountsUsed'
  BY <1>1, <1>2, NumbersInLog DEF CountsInv, CountsUsed
<1>7. ExecutionCounts'
  BY <1>1 DEF CountsInv, ExecutionCounts
<1>8. NoResultOnError'
  BY <1>1 DEF CountsInv, NoResultOnError
<1>9. QED
  BY <1>5, <1>6, <1>7, <1>8 DEF CountsInv

(* Nothing was sent for a request just taken.                              *)
LEMMA CountsRecv ==
  ASSUME TypeOK, FreshIds, CountsInv, NEW s \in Sockets, Recv(s)
  PROVE  CountsInv'
<1>1. UNCHANGED <<log, cnt, status, execCount>> /\ cur' = inbox[s][1]
      /\ 1 \in DOMAIN inbox[s]
  BY HeadOfQueue DEF Recv, execVars
<1>2. \A k \in DOMAIN log : log[k].parent # cur'
  BY <1>1 DEF FreshIds
<1>3. SentForCur'
  BY <1>1, <1>2 DEF SentForCur
<1>4. CountsUsed' /\ ExecutionCounts' /\ NoResultOnError'
  BY <1>1 DEF CountsInv, CountsUsed, ExecutionCounts, NoResultOnError
<1>5. QED
  BY <1>3, <1>4 DEF CountsInv

(* The count of a cell is a new one, and its input the first to carry it.  *)
LEMMA CountsRebroadcast ==
  ASSUME TypeOK, CountsInv, Rebroadcast
  PROVE  CountsInv'
<1> DEFINE e == IOPubEvent(cur, "execute_input", execCount)
<1>1. /\ pc = "handler" /\ pc' = "eval" /\ cur' = cur
      /\ cnt' = execCount /\ execCount' = execCount + 1 /\ log' = Append(log, e)
  BY DEF Rebroadcast, Publish, loopVars
<1>2. e.parent = cur /\ e.kind = "execute_input" /\ e.count = execCount
  BY DEF IOPubEvent, Reply
<1> HIDE DEF e
<1>3. /\ Len(log) \in Nat
      /\ DOMAIN log' = DOMAIN log \cup {Len(log) + 1}
      /\ \A k \in DOMAIN log : k \in Nat /\ k <= Len(log) /\ log'[k] = log[k]
      /\ log'[Len(log) + 1] = e
  BY <1>1, Appended
<1>4. \A k \in DOMAIN log : log[k].parent = cur =>
        log[k].kind \notin {"execute_input", "execute_result", "reply"}
  BY <1>1 DEF CountsInv, SentForCur, Unannounced, Unvalued, Unanswered
<1>5. SentForCur'
  BY <1>1, <1>2, <1>3, <1>4
  DEF SentForCur, Serving, Unanswered, Unvalued, Unannounced
<1>6. CountsUsed'
  BY <1>1, <1>2, <1>3, NumbersInLog DEF CountsInv, CountsUsed
<1>7. ExecutionCounts'
  BY <1>2, <1>3, <1>4, NumbersInLog DEF CountsInv, CountsUsed, ExecutionCounts
<1>8. NoResultOnError'
  BY <1>2, <1>3 DEF CountsInv, NoResultOnError
<1>9. QED
  BY <1>5, <1>6, <1>7, <1>8 DEF CountsInv

(* A result carries its cell's count, and comes before the reply.          *)
LEMMA CountsResult ==
  ASSUME TypeOK, CountsInv, EvalVisible
  PROVE  CountsInv'
<1> DEFINE e == IOPubEvent(cur, "execute_result", cnt)
<1>1. /\ pc = "eval" /\ pc' = "value" /\ cur' = cur
      /\ cnt' = cnt /\ execCount' = execCount /\ log' = Append(log, e)
  BY DEF EvalVisible, Publish, loopVars, execVars
<1>2. e.parent = cur /\ e.kind = "execute_result" /\ e.count = cnt
  BY DEF IOPubEvent, Reply
<1> HIDE DEF e
<1>3. /\ Len(log) \in Nat
      /\ DOMAIN log' = DOMAIN log \cup {Len(log) + 1}
      /\ \A k \in DOMAIN log : k \in Nat /\ k <= Len(log) /\ log'[k] = log[k]
      /\ log'[Len(log) + 1] = e
  BY <1>1, Appended
<1>4. \A k \in DOMAIN log : log[k].parent = cur =>
        /\ log[k].kind # "reply"
        /\ log[k].kind = "execute_input" => log[k].count = cnt
  BY <1>1 DEF CountsInv, SentForCur, Unannounced, Unvalued, Unanswered, Serving
<1>5. SentForCur'
  BY <1>1, <1>2, <1>3, <1>4
  DEF SentForCur, Serving, Unanswered, Unvalued, Unannounced
<1>6. CountsUsed'
  BY <1>1, <1>2, <1>3 DEF CountsInv, CountsUsed
<1>7. ExecutionCounts'
  BY <1>2, <1>3, <1>4 DEF CountsInv, ExecutionCounts
<1>8. NoResultOnError'
  BY <1>2, <1>3, <1>4 DEF CountsInv, NoResultOnError
<1>9. QED
  BY <1>5, <1>6, <1>7, <1>8 DEF CountsInv

(* A reply carries its cell's count, and the status .tryEval returned.     *)
LEMMA CountsReply ==
  ASSUME TypeOK, CountsInv, PostReply
  PROVE  CountsInv'
<1> DEFINE e == Reply(cur, sock, "reply", status, cnt)
<1>1. /\ pc = "post" /\ pc' \in {"stopping", "idle"} /\ cur' = cur
      /\ cnt' = cnt /\ execCount' = execCount /\ status' = status
      /\ log' = Append(log, e)
  BY DEF PostReply, loopVars, execVars
<1>2. e.parent = cur /\ e.kind = "reply" /\ e.count = cnt /\ e.status = status
  BY DEF Reply
<1> HIDE DEF e
<1>3. /\ Len(log) \in Nat
      /\ DOMAIN log' = DOMAIN log \cup {Len(log) + 1}
      /\ \A k \in DOMAIN log : k \in Nat /\ k <= Len(log) /\ log'[k] = log[k]
      /\ log'[Len(log) + 1] = e
  BY <1>1, Appended
<1>4. \A k \in DOMAIN log : log[k].parent = cur =>
        /\ log[k].kind = "execute_input" => log[k].count = cnt
        /\ log[k].kind = "execute_result" => status \in {"ok", "abort"}
  BY <1>1 DEF CountsInv, SentForCur, Unannounced, Unvalued, Unanswered, Serving
<1>5. SentForCur'
  BY <1>1, <1>2, <1>3, <1>4
  DEF SentForCur, Serving, Unanswered, Unvalued, Unannounced
<1>6. CountsUsed'
  BY <1>1, <1>2, <1>3 DEF CountsInv, CountsUsed
<1>7. ExecutionCounts'
  BY <1>2, <1>3, <1>4 DEF CountsInv, ExecutionCounts
<1>8. NoResultOnError'
  BY <1>2, <1>3, <1>4 DEF CountsInv, NoResultOnError
<1>9. QED
  BY <1>5, <1>6, <1>7, <1>8 DEF CountsInv

(* The request in hand is let go.                                          *)
LEMMA CountsIdle ==
  ASSUME TypeOK, CountsInv, Idle
  PROVE  CountsInv'
<1> DEFINE e == IOPubEvent(cur, "idle", 0)
<1>1. pc' \notin Serving /\ execCount' = execCount /\ log' = Append(log, e)
  BY DEF Idle, Publish, AfterSocket, Serving, Unanswered, Unvalued, Unannounced
<1>2. e.kind = "idle"
  BY DEF IOPubEvent, Reply
<1> HIDE DEF e
<1>3. \A k \in DOMAIN log' :
        \/ k \in DOMAIN log /\ log'[k] = log[k]
        \/ log'[k].kind = "idle"
  BY <1>1, <1>2, Appended
<1>4. SentForCur'
  BY <1>1 DEF SentForCur, Serving, Unanswered, Unvalued, Unannounced
<1>5. CountsUsed'
  BY <1>1, <1>3 DEF CountsInv, CountsUsed
<1>6. ExecutionCounts'
  BY <1>3 DEF CountsInv, ExecutionCounts
<1>7. NoResultOnError'
  BY <1>3 DEF CountsInv, NoResultOnError
<1>8. QED
  BY <1>4, <1>5, <1>6, <1>7 DEF CountsInv

(* Every step keeps the counts.                                            *)
LEMMA CountsNext ==
  ASSUME TypeOK, FreshIds, CountsInv, [Next]_vars
  PROVE  CountsInv'
<1>1. ASSUME NEW s \in Sockets, NEW type \in MsgType, NEW signed \in BOOLEAN,
             Send(s, type, signed)
      PROVE  CountsInv'
  BY <1>1, CountsSame DEF Send
<1>2. ASSUME NEW s \in Sockets, NotReady(s) \/ RecvForged(s)
      PROVE  CountsInv'
  <2>1. UNCHANGED <<log, cur, cnt, status, execCount>>
    BY <1>2 DEF NotReady, RecvForged, loopVars, execVars
  <2>2. pc' \notin Serving
    BY <1>2 DEF NotReady, RecvForged, AfterSocket, Serving, Unanswered, Unvalued,
                Unannounced
  <2>3. QED
    BY <2>1, <2>2, CountsSame
<1>3. CASE Poll
  <2>1. UNCHANGED <<log, cur, cnt, status, execCount>>
    BY <1>3 DEF Poll, execVars
  <2>2. pc' \notin Serving
    BY <1>3 DEF Poll, Serving, Unanswered, Unvalued, Unannounced
  <2>3. QED
    BY <2>1, <2>2, CountsSame
<1>4. QED
  BY <1>1, <1>2, <1>3, StepKinds, CountsRecv, CountsQuiet, CountsRebroadcast,
     CountsResult, CountsReply, CountsIdle

-----------------------------------------------------------------------------
(* The order of the replies.                                               *)

(* Taking a request moves the others of its queue one place to the front.  *)
LEMMA QueueAfterTake ==
  ASSUME TypeOK, NEW s \in Sockets, inbox[s] # <<>>,
         inbox' = [inbox EXCEPT ![s] = Tail(@)]
  PROVE  /\ \A t \in Sockets \ {s} : inbox'[t] = inbox[t]
         /\ \A i \in DOMAIN inbox'[s] :
              /\ i \in Nat /\ 1 < i + 1
              /\ i + 1 \in DOMAIN inbox[s]
              /\ inbox'[s][i] = inbox[s][i + 1]
         /\ 1 \in DOMAIN inbox[s]
         /\ Head(inbox[s]) = inbox[s][1]
<1>1. \A i \in DOMAIN inbox'[s] :
        /\ i \in Nat /\ 1 < i + 1
        /\ i + 1 \in DOMAIN inbox[s]
        /\ inbox'[s][i] = inbox[s][i + 1]
  BY DEF TypeOK
<1>2. \A t \in Sockets \ {s} : inbox'[t] = inbox[t]
  BY DEF TypeOK
<1>3. QED
  BY <1>1, <1>2, HeadOfQueue

(* What Send does to the queues: the new request is the last of its own.   *)
LEMMA QueueAfterSend ==
  ASSUME TypeOK, NEW s \in Sockets, NEW type \in MsgType, NEW signed \in BOOLEAN,
         Send(s, type, signed)
  PROVE  \A t \in Sockets : \A i \in DOMAIN inbox'[t] :
           \/ /\ i \in DOMAIN inbox[t] /\ inbox'[t][i] = inbox[t][i]
              /\ i \in Nat /\ i <= Len(inbox[t])
           \/ /\ t = s /\ i = Len(inbox[s]) + 1 /\ Len(inbox[s]) \in Nat
              /\ inbox'[t][i].id = sent + 1
BY SMTT(30) DEF TypeOK, Send

(* A step that answers nothing and takes nothing.                          *)
LEMMA OrderSame ==
  ASSUME OrderInv, UNCHANGED inbox,
         \A k \in DOMAIN log' :
           \/ k \in DOMAIN log /\ log'[k] = log[k]
           \/ log'[k].kind # "reply",
         pc' \in Serving => pc \in Serving /\ cur' = cur /\ sock' = sock,
         pc' \in Unanswered => pc \in Unanswered
  PROVE  OrderInv'
<1>1. QueueSorted'
  BY DEF OrderInv, QueueSorted
<1>2. QueueUnanswered'
  BY DEF OrderInv, QueueUnanswered
<1>3. QueueBehind'
  BY DEF OrderInv, QueueBehind
<1>4. CurUnanswered'
  BY DEF OrderInv, CurUnanswered, Serving
<1>5. RepliesInOrder'
  BY DEF OrderInv, RepliesInOrder
<1>6. QED
  BY <1>1, <1>2, <1>3, <1>4, <1>5 DEF OrderInv

(* A new request is the last of all.                                       *)
LEMMA OrderSend ==
  ASSUME TypeOK, FreshIds, OrderInv,
         NEW s \in Sockets, NEW type \in MsgType, NEW signed \in BOOLEAN,
         Send(s, type, signed)
  PROVE  OrderInv'
<1>1. UNCHANGED <<log, cur, sock, pc>> /\ sent \in Nat
  BY DEF Send, TypeOK
<1>2. \A t \in Sockets : \A i \in DOMAIN inbox'[t] :
        \/ /\ i \in DOMAIN inbox[t] /\ inbox'[t][i] = inbox[t][i]
           /\ i \in Nat /\ i <= Len(inbox[t])
        \/ /\ t = s /\ i = Len(inbox[s]) + 1 /\ Len(inbox[s]) \in Nat
           /\ inbox'[t][i].id = sent + 1
  BY QueueAfterSend
<1>3. /\ cur.id \in Nat /\ cur.id <= sent
      /\ \A k \in DOMAIN log : log[k].parent.id \in Nat /\ log[k].parent.id <= sent
      /\ \A t \in Sockets : \A i \in DOMAIN inbox[t] :
           inbox[t][i].id \in Nat /\ inbox[t][i].id <= sent
  <2>1. \A t \in Sockets : \A i \in DOMAIN inbox[t] : inbox[t][i] \in Request
    BY DEF TypeOK
  <2>2. \A r \in Request : r.id \in Nat
    BY MaxRequestsAssumption DEF Request
  <2>3. QED
    BY <2>1, <2>2, NumbersInLog DEF FreshIds
<1>4. sock \in Sockets
  BY DEF TypeOK
<1>5. QueueSorted'
  BY <1>1, <1>2, <1>3, SMTT(30) DEF OrderInv, QueueSorted
<1>6. QueueUnanswered'
  BY <1>1, <1>2, <1>3 DEF OrderInv, QueueUnanswered
<1>7. QueueBehind'
  BY <1>1, <1>2, <1>3, <1>4 DEF OrderInv, QueueBehind
<1>8. CurUnanswered' /\ RepliesInOrder'
  BY <1>1 DEF OrderInv, CurUnanswered, RepliesInOrder
<1>9. QED
  BY <1>5, <1>6, <1>7, <1>8 DEF OrderInv

(* The request taken is the oldest of its socket's.                        *)
LEMMA OrderTake ==
  ASSUME TypeOK, OrderInv, NEW s \in Sockets, Recv(s) \/ RecvForged(s)
  PROVE  OrderInv'
<1>1. log' = log /\ inbox[s] # <<>> /\ inbox' = [inbox EXCEPT ![s] = Tail(@)]
  BY DEF Recv, RecvForged
<1>2. \/ pc' = "busy" /\ sock' = s /\ cur' = Head(inbox[s])
      \/ pc' = "exit"
  BY DEF Recv, RecvForged
<1>3. /\ \A t \in Sockets \ {s} : inbox'[t] = inbox[t]
      /\ \A i \in DOMAIN inbox'[s] :
           /\ i \in Nat /\ 1 < i + 1
           /\ i + 1 \in DOMAIN inbox[s]
           /\ inbox'[s][i] = inbox[s][i + 1]
      /\ 1 \in DOMAIN inbox[s]
      /\ Head(inbox[s]) = inbox[s][1]
  BY <1>1, QueueAfterTake
<1>4. QueueSorted'
  <2>1. ASSUME NEW i \in DOMAIN inbox'[s], NEW j \in DOMAIN inbox'[s], i < j
        PROVE  inbox'[s][i].id < inbox'[s][j].id
    BY <1>3, <2>1 DEF OrderInv, QueueSorted
  <2>2. ASSUME NEW t \in Sockets \ {s}
        PROVE  \A i, j \in DOMAIN inbox'[t] :
                 i < j => inbox'[t][i].id < inbox'[t][j].id
    BY <1>3 DEF OrderInv, QueueSorted
  <2>3. QED
    BY <2>1, <2>2 DEF QueueSorted
<1>5. QueueUnanswered'
  BY <1>1, <1>3 DEF OrderInv, QueueUnanswered
<1>6. QueueBehind'
  BY <1>2, <1>3 DEF OrderInv, QueueSorted, QueueBehind, Serving, Unanswered,
     Unvalued, Unannounced
<1>7. CurUnanswered'
  BY <1>1, <1>2, <1>3 DEF OrderInv, QueueUnanswered, CurUnanswered, Unanswered,
     Unvalued, Unannounced
<1>8. RepliesInOrder'
  BY <1>1 DEF OrderInv, RepliesInOrder
<1>9. QED
  BY <1>4, <1>5, <1>6, <1>7, <1>8 DEF OrderInv

(* Its answer follows those of its predecessors.                           *)
LEMMA OrderReply ==
  ASSUME TypeOK, OrderInv, PostReply
  PROVE  OrderInv'
<1> DEFINE e == Reply(cur, sock, "reply", status, cnt)
<1>1. /\ pc = "post" /\ pc' \in {"stopping", "idle"}
      /\ UNCHANGED <<cur, sock, inbox>> /\ log' = Append(log, e)
  BY DEF PostReply, loopVars
<1>2. e.parent = cur /\ e.kind = "reply" /\ e.chan = sock
  BY DEF Reply
<1> HIDE DEF e
<1>3. /\ Len(log) \in Nat
      /\ DOMAIN log' = DOMAIN log \cup {Len(log) + 1}
      /\ \A k \in DOMAIN log : k \in Nat /\ k <= Len(log) /\ log'[k] = log[k]
      /\ log'[Len(log) + 1] = e
  BY <1>1, Appended
<1>4. /\ \A i \in DOMAIN inbox[sock] : cur.id < inbox[sock][i].id
      /\ \A k \in DOMAIN log :
           log[k].kind = "reply" /\ log[k].chan = sock => log[k].parent.id < cur.id
  BY <1>1 DEF OrderInv, QueueBehind, CurUnanswered, Serving, Unanswered
<1>5. QueueSorted'
  BY <1>1 DEF OrderInv, QueueSorted
<1>6. QueueUnanswered'
  BY <1>1, <1>2, <1>3, <1>4 DEF OrderInv, QueueUnanswered
<1>7. QueueBehind'
  BY <1>1, <1>4 DEF QueueBehind
<1>8. CurUnanswered'
  BY <1>1 DEF CurUnanswered, Unanswered, Unvalued, Unannounced
<1>9. RepliesInOrder'
  BY <1>2, <1>3, <1>4 DEF OrderInv, RepliesInOrder
<1>10. QED
  BY <1>5, <1>6, <1>7, <1>8, <1>9 DEF OrderInv

(* Every step keeps the order.                                             *)
LEMMA OrderNext ==
  ASSUME TypeOK, FreshIds, OrderInv, [Next]_vars
  PROVE  OrderInv'
<1>1. ASSUME NEW s \in Sockets, NotReady(s)
      PROVE  OrderInv'
  <2>1. UNCHANGED <<inbox, log>>
    BY <1>1 DEF NotReady, loopVars
  <2>2. pc' \notin Serving
    BY <1>1 DEF NotReady, AfterSocket, Serving, Unanswered, Unvalued, Unannounced
  <2>3. QED
    BY <2>1, <2>2, OrderSame DEF Serving
<1>2. CASE Poll
  <2>1. UNCHANGED <<inbox, log>>
    BY <1>2 DEF Poll
  <2>2. pc' \notin Serving
    BY <1>2 DEF Poll, Serving, Unanswered, Unvalued, Unannounced
  <2>3. QED
    BY <2>1, <2>2, OrderSame DEF Serving
<1>3. ASSUME UNCHANGED <<inbox, sock, cur>>,
             pc' \in Serving => pc \in Serving, pc' \in Unanswered => pc \in Unanswered,
             NEW e, e.kind # "reply", log' = Append(log, e)
      PROVE  OrderInv'
  BY <1>3, Appended, OrderSame
<1>4. CASE Rebroadcast
  <2> DEFINE e == IOPubEvent(cur, "execute_input", execCount)
  <2>1. e.kind # "reply" /\ log' = Append(log, e)
    BY <1>4 DEF Rebroadcast, Publish, IOPubEvent, Reply
  <2>2. /\ UNCHANGED <<inbox, sock, cur>>
        /\ pc \in Serving /\ pc \in Unanswered
    BY <1>4 DEF Rebroadcast, loopVars, Serving, Unanswered, Unvalued, Unannounced
  <2> HIDE DEF e
  <2>3. QED
    BY <2>1, <2>2, <1>3
<1>5. CASE EvalVisible
  <2> DEFINE e == IOPubEvent(cur, "execute_result", cnt)
  <2>1. e.kind # "reply" /\ log' = Append(log, e)
    BY <1>5 DEF EvalVisible, Publish, IOPubEvent, Reply
  <2>2. /\ UNCHANGED <<inbox, sock, cur>>
        /\ pc \in Serving /\ pc \in Unanswered
    BY <1>5 DEF EvalVisible, loopVars, Serving, Unanswered, Unvalued, Unannounced
  <2> HIDE DEF e
  <2>3. QED
    BY <2>1, <2>2, <1>3
<1>6. CASE Idle
  <2> DEFINE e == IOPubEvent(cur, "idle", 0)
  <2>1. e.kind # "reply" /\ log' = Append(log, e)
    BY <1>6 DEF Idle, Publish, IOPubEvent, Reply
  <2>2. /\ UNCHANGED <<inbox, sock, cur>>
        /\ pc' \notin Serving /\ pc' \notin Unanswered
    BY <1>6 DEF Idle, AfterSocket, loopVars, Serving, Unanswered, Unvalued,
                Unannounced
  <2> HIDE DEF e
  <2>3. QED
    BY <2>1, <2>2, <1>3
<1>7. CASE Quiet
  <2>1. /\ UNCHANGED <<inbox, sock, cur>>
        /\ pc' \in Serving => pc \in Serving
        /\ pc' \in Unanswered => pc \in Unanswered
    BY <1>7 DEF Quiet, Serving, Unanswered, Unvalued, Unannounced
  <2>2. CASE log' = log
    BY <2>1, <2>2, OrderSame
  <2>3. ASSUME NEW e \in Event, e.kind # "reply", log' = Append(log, e)
        PROVE  OrderInv'
    BY <2>1, <2>3, <1>3
  <2>4. QED
    BY <1>7, <2>2, <2>3 DEF Quiet
<1>8. QED
  BY <1>1, <1>2, <1>4, <1>5, <1>6, <1>7, StepKinds, OrderSend, OrderTake,
     OrderReply

-----------------------------------------------------------------------------
(* Whose turn it is.                                                       *)

(* A step that takes no request keeps who waits for whom, unless it passes *)
(* the control socket by.                                                  *)
LEMMA TurnSame ==
  ASSUME TurnInv, UNCHANGED <<overtaken, sock>>,
         inbox["control"] # <<>> => inbox'["control"] # <<>>,
         pc' # "shell" \/ pc' = pc,
         pc' = "control" => "control" \in revents' \/ (pc' = pc /\ revents' = revents),
         pc' \in Serving => pc \in Serving
  PROVE  TurnInv'
BY DEF TurnInv

(* At most one request passes a waiting control request: then the loop has *)
(* to poll again, and finds it.                                            *)
LEMMA TurnNext ==
  ASSUME TypeOK, TurnInv, [Next]_vars
  PROVE  TurnInv'
<1> USE DEF Serving, Unanswered, Unvalued, Unannounced
<1>1. ASSUME NEW s \in Sockets, NEW type \in MsgType, NEW signed \in BOOLEAN,
             Send(s, type, signed)
      PROVE  TurnInv'
  <2>1. UNCHANGED <<overtaken, sock, pc, revents>>
    BY <1>1 DEF Send
  <2> DEFINE r == [id |-> sent + 1, type |-> type, signed |-> signed]
  <2>2. inbox' = [inbox EXCEPT ![s] = Append(@, r)] /\ r \in Request
    BY <1>1, MaxRequestsAssumption DEF Send, TypeOK, Request
  <2> HIDE DEF r
  <2>3. inbox["control"] \in Seq(Request) /\ inbox \in [Sockets -> Seq(Request)]
    BY Lengths DEF TypeOK
  <2>4. CASE s = "control"
    <3>1. inbox'["control"] = Append(inbox["control"], r)
      BY <2>2, <2>3, <2>4
    <3>2. inbox'["control"] # <<>>
      BY <2>2, <2>3, <3>1
    <3>3. QED
      BY <2>1, <3>2, TurnSame
  <2>5. CASE s = "shell"
    <3>1. inbox'["control"] = inbox["control"]
      BY <2>2, <2>3, <2>5 DEF Sockets
    <3>2. QED
      BY <2>1, <3>1, TurnSame
  <2>6. QED
    BY <2>4, <2>5 DEF Sockets
<1>2. ASSUME NEW s \in Sockets, NotReady(s)
      PROVE  TurnInv'
  <2>1. UNCHANGED <<overtaken, sock, inbox, revents>>
    BY <1>2 DEF NotReady, loopVars
  <2>2. pc = s /\ s \notin revents /\ pc' = AfterSocket(s)
    BY <1>2 DEF NotReady
  <2>3. QED
    BY <2>1, <2>2 DEF TurnInv, AfterSocket, Sockets
<1>3. ASSUME NEW s \in Sockets, Recv(s) \/ RecvForged(s)
      PROVE  TurnInv'
  <2>1. pc = s /\ Overtake(s) /\ inbox' = [inbox EXCEPT ![s] = Tail(@)]
    BY <1>3 DEF Recv, RecvForged
  <2>2. \/ pc' = "busy" /\ sock' = s
        \/ pc' = "exit"
    BY <1>3 DEF Recv, RecvForged
  <2>3. s # "control" => inbox'["control"] = inbox["control"]
    BY <2>1 DEF TypeOK, Sockets
  <2>4. s = "shell" => overtaken = 0
    BY <2>1 DEF TurnInv
  <2>5. QED
    BY <2>1, <2>2, <2>3, <2>4 DEF TurnInv, Overtake, Sockets
<1>4. CASE Poll
  BY <1>4 DEF Poll, TurnInv, Sockets
<1>5. CASE Rebroadcast
  BY <1>5, TurnSame DEF Rebroadcast, loopVars
<1>6. CASE EvalVisible
  BY <1>6, TurnSame DEF EvalVisible, loopVars
<1>7. CASE PostReply
  BY <1>7, TurnSame DEF PostReply, loopVars
<1>8. CASE Idle
  <2>1. UNCHANGED <<overtaken, sock, inbox, revents>>
    BY <1>8 DEF Idle, loopVars
  <2>2. pc = "idle" /\ pc' \in {"exit", AfterSocket(sock)}
    BY <1>8 DEF Idle
  <2>3. QED
    BY <2>1, <2>2 DEF TurnInv, AfterSocket
<1>9. CASE Quiet
  <2>1. UNCHANGED <<overtaken, sock, inbox, revents>>
    BY <1>9 DEF Quiet
  <2>2. pc' = pc \/ pc' \in {"exit", "down"} \/ (pc \in Serving /\ pc' \in Serving)
    BY <1>9 DEF Quiet
  <2>3. QED
    BY <2>1, <2>2 DEF TurnInv
<1>10. QED
  BY <1>1, <1>2, <1>3, <1>4, <1>5, <1>6, <1>7, <1>8, <1>9, StepKinds

-----------------------------------------------------------------------------
(* What holds at all times.                                                *)

(* The three invariants of the history hold initially.                     *)
LEMMA HistoryInit == Init => HistoryInv
<1> SUFFICES ASSUME Init PROVE HistoryInv
  OBVIOUS
<1>1. /\ log = <<>> /\ pc = "poll" /\ overtaken = 0
      /\ \A s \in Sockets : inbox[s] = <<>>
  BY DEF Init
<1>2. CountsInv
  BY <1>1 DEF CountsInv, SentForCur, CountsUsed, ExecutionCounts, NoResultOnError
<1>3. OrderInv
  BY <1>1 DEF OrderInv, QueueSorted, QueueUnanswered, QueueBehind, CurUnanswered,
     RepliesInOrder, Serving, Unanswered, Unvalued, Unannounced
<1>4. TurnInv
  BY <1>1 DEF TurnInv
<1>5. QED
  BY <1>2, <1>3, <1>4 DEF HistoryInv

(* The history's invariants hold at all times: they are inductive over the *)
(* reachable states of IInv, which says that what waits is fresh.          *)
THEOREM History == Spec => []HistoryInv
<1>1. IInv /\ HistoryInv /\ [Next]_vars => HistoryInv'
  BY CountsNext, OrderNext, TurnNext DEF IInv, HistoryInv
<1>2. QED
  BY <1>1, HistoryInit, Inductive, PTL DEF Spec

(* A cell's input, its result and its reply carry the same count, and each *)
(* cell's count is greater than those before, for any number of cells and  *)
(* however they end.  (juniper.R:34-38, execute_request.R:44-46)           *)
THEOREM Counting == Spec => []ExecutionCounts
<1>1. HistoryInv => ExecutionCounts
  BY DEF HistoryInv, CountsInv
<1>2. QED
  BY <1>1, History, PTL

(* No cell that published a result is reported as failed, wherever it was  *)
(* interrupted.  (execute_request.R:60-92)                                 *)
THEOREM ResultsStand == Spec => []NoResultOnError
<1>1. HistoryInv => NoResultOnError
  BY DEF HistoryInv, CountsInv
<1>2. QED
  BY <1>1, History, PTL

(* Replies leave each socket in the order its requests came in.            *)
(* (juniper.h:94-104)                                                      *)
THEOREM InOrder == Spec => []RepliesInOrder
<1>1. HistoryInv => RepliesInOrder
  BY DEF HistoryInv, OrderInv
<1>2. QED
  BY <1>1, History, PTL

(* However many shell requests wait, at most one of them is taken before a *)
(* waiting control request.  (booter.R:82-96)                              *)
THEOREM ControlNext == Spec => []ControlNotOvertaken
<1>1. TypeOK /\ HistoryInv => ControlNotOvertaken
  BY DEF HistoryInv, TurnInv, TypeOK, ControlNotOvertaken
<1>2. QED
  BY <1>1, History, TypeCorrect, PTL
=============================================================================
