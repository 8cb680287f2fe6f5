---------------------------- MODULE RequestServer ---------------------------
(***************************************************************************)
(* The kernel's main thread: the R loop that polls the control and shell   *)
(* sockets (booter.R), the RequestServer that reads, announces and answers *)
(* a request (requests.h), the driver that diverts R's streams and opens a *)
(* graphics device around a handler (request.R), and the handlers, of      *)
(* which execute_request runs the client's code (execute_request.R).       *)
(*                                                                         *)
(* The client's code is the environment: what a cell can do to this thread *)
(* is enumerated (display, draw, close the device, return a value, a help  *)
(* page or nothing, signal a condition with or without a call, be          *)
(* interrupted, quit R).  The thread itself is sequential; the clients     *)
(* send requests and interrupts at any time.                               *)
(***************************************************************************)
EXTENDS Messages, FiniteSets

CONSTANTS
  Happens,        \* what cells, clients and R do in an instance, see May
  MaxDisplays,    \* bound: messages a handler publishes through the xmock
  MaxInterrupts   \* bound: how many times the client interrupts the kernel

(***************************************************************************)
(* What the environment of the thread may do: the code in a cell displays  *)
(* something, draws, closes the device, yields a visible or an invisible   *)
(* value or a help page, signals a condition, signals one without a call,  *)
(* or quits; a client forges a digest; R runs without the package's        *)
(* device, or fails to set up a request, to run its handler or to convert  *)
(* its reply.  An instance that studies another question leaves some out.  *)
(***************************************************************************)
May == {"display", "draw", "close_device", "visible", "invisible", "help",
        "condition", "condition_without_call", "quit", "forge", "no_device",
        "setup_fails", "handler_fails", "reply_fails"}

ASSUME HappensAssumption == Happens \subseteq May
ASSUME MaxDisplaysAssumption == MaxDisplays \in Nat
ASSUME MaxInterruptsAssumption == MaxInterrupts \in Nat

VARIABLES
  inbox,       \* requests waiting in each ROUTER socket
  sent,        \* how many requests the clients have sent
  interrupts,  \* how many interrupts the clients have sent
  sigint,      \* R's pending-interrupt flag
  pc,          \* where the thread is
  revents,     \* the sockets the last zmq.poll found readable
  sock,        \* the sockName of the request being handled
  cur,         \* RequestServer::_cur_msg
  execCount,   \* .JUNIPER$execution_count
  cnt,         \* the count of the cell being executed, 0 outside of one
  status,      \* the status .tryEval returned
  payload,     \* whether .JUNIPER$jk_payload holds a help page
  shown,       \* how often the handler has published, against MaxDisplays
  sunk,        \* the standard streams diverted to socketConnections
  dev,         \* doRequest's graphics device: "off", "blank" or "drawn"
  raised,      \* an R error is on its way out of the handler
  signalled,   \* a poison pill was sent on the inproc signal socket
  log,         \* history: all messages sent, on any channel, in order
  overtaken    \* history: shell requests taken since the first waiting
               \* control request arrived

clientVars == <<sent, interrupts>>
loopVars == <<inbox, revents, sock, cur, overtaken>>
execVars == <<execCount, cnt, status, payload, shown>>
vars == <<inbox, sent, interrupts, sigint, pc, revents, sock, cur, execCount,
          cnt, status, payload, shown, sunk, dev, raised, signalled, log,
          overtaken>>

\* R code of the main loop and of doRequest that runs under no tryCatch
Unguarded == {"poll", "control", "shell", "dispatch", "setup", "finally",
              "devoff", "post"}

\* the handler's own R code, which runs under doRequest's finally only
InHandler == {"handler", "return"}

Locations == Unguarded \cup InHandler
               \cup {"busy", "eval", "value", "raise", "stopping", "signal",
                     "idle", "exit", "down"}

Streams == {"stdout", "stderr"}

TypeOK ==
  /\ inbox \in [Sockets -> Seq(Request)]
  /\ sent \in 0..MaxRequests
  /\ interrupts \in 0..MaxInterrupts
  /\ sigint \in BOOLEAN
  /\ pc \in Locations
  /\ revents \in SUBSET Sockets
  /\ sock \in Sockets
  /\ cur \in Request \cup {NoRequest}
  /\ execCount \in 1..(MaxRequests + 1)
  /\ cnt \in Counts
  /\ status \in ReplyStatus
  /\ payload \in BOOLEAN
  /\ shown \in 0..MaxDisplays
  /\ sunk \in SUBSET Streams
  /\ dev \in {"off", "blank", "drawn"}
  /\ raised \in BOOLEAN
  /\ signalled \in BOOLEAN
  /\ log \in Seq(Event)
  /\ overtaken \in Nat

Init ==
  /\ inbox = [s \in Sockets |-> <<>>]
  /\ sent = 0
  /\ interrupts = 0
  /\ sigint = FALSE
  /\ pc = "poll"
  /\ revents = {}
  /\ sock = "control"
  /\ cur = NoRequest
  /\ execCount = 1
  /\ cnt = 0
  /\ status = "none"
  /\ payload = FALSE
  /\ shown = 0
  /\ sunk = {}
  /\ dev = "off"
  /\ raised = FALSE
  /\ signalled = FALSE
  /\ log = <<>>
  /\ overtaken = 0

-----------------------------------------------------------------------------
(* The clients.                                                            *)

\* a request arrives; its id is its rank among all requests sent
Send(s, type, signed) ==
  /\ sent < MaxRequests
  /\ signed \/ "forge" \in Happens
  /\ sent' = sent + 1
  /\ inbox' = [inbox EXCEPT ![s] =
                 Append(@, [id |-> sent + 1, type |-> type,
                            signed |-> signed])]
  /\ UNCHANGED <<interrupts, sigint, pc, revents, sock, cur, execCount, cnt,
                 status, payload, shown, sunk, dev, raised, signalled, log,
                 overtaken>>

\* SIGINT reaches the R process, which notes it and goes on
Interrupt ==
  /\ interrupts < MaxInterrupts
  /\ ~sigint
  /\ pc \notin {"exit", "down"}
  /\ interrupts' = interrupts + 1
  /\ sigint' = TRUE
  /\ UNCHANGED <<inbox, sent, pc, revents, sock, cur, execCount, cnt, status,
                 payload, shown, sunk, dev, raised, signalled, log, overtaken>>

-----------------------------------------------------------------------------
(* The main loop: poll, then the control socket, then the shell socket.    *)

\* mutant of Poll: only the first socket's revents are looked at
PollFirst ==
  /\ pc = "poll"
  /\ \E s \in Sockets : inbox[s] # <<>>
  /\ revents' = {s \in {"control"} : inbox[s] # <<>>}
  /\ pc' = "control"
  /\ UNCHANGED <<clientVars, execVars, inbox, sigint, sock, cur, sunk, dev,
                 raised, signalled, log, overtaken>>

Poll ==
  /\ pc = "poll"
  /\ \E s \in Sockets : inbox[s] # <<>>
  /\ revents' = {s \in Sockets : inbox[s] # <<>>}
  /\ pc' = "control"
  /\ UNCHANGED <<clientVars, execVars, inbox, sigint, sock, cur, sunk, dev,
                 raised, signalled, log, overtaken>>

\* an interrupt of the poll itself is caught, and the loop goes around
PollInterrupted ==
  /\ pc = "poll"
  /\ sigint
  /\ sigint' = FALSE
  /\ UNCHANGED <<clientVars, loopVars, execVars, pc, sunk, dev, raised,
                 signalled, log>>

\* mutant of AfterSocket: the shell socket is drained before the next poll
AfterSocketDrained(s) ==
  IF s = "control" \/ inbox["shell"] # <<>> THEN "shell" ELSE "poll"

\* where the loop goes when it is done with socket s
AfterSocket(s) == IF s = "control" THEN "shell" ELSE "poll"

NotReady(s) ==
  /\ pc = s
  /\ s \notin revents
  /\ pc' = AfterSocket(s)
  /\ UNCHANGED <<clientVars, loopVars, execVars, sigint, sunk, dev, raised,
                 signalled, log>>

\* the history of who waited for whom, when a request is taken from s
Overtake(s) ==
  overtaken' = IF s = "shell" /\ inbox["control"] # <<>>
               THEN overtaken + 1 ELSE 0

\* mutant of Recv: the newest request of the socket is taken
RecvNewest(s) ==
  /\ pc = s
  /\ s \in revents
  /\ inbox[s] # <<>>
  /\ inbox[s][Len(inbox[s])].signed
  /\ cur' = inbox[s][Len(inbox[s])]
  /\ sock' = s
  /\ inbox' = [inbox EXCEPT ![s] = SubSeq(@, 1, Len(@) - 1)]
  /\ pc' = "busy"
  /\ Overtake(s)
  /\ UNCHANGED <<clientVars, execVars, sigint, revents, sunk, dev, raised,
                 signalled, log>>

\* mutant of Recv: the request is copied, and not popped
RecvPeeks(s) ==
  /\ pc = s
  /\ s \in revents
  /\ inbox[s] # <<>>
  /\ Head(inbox[s]).signed
  /\ cur' = Head(inbox[s])
  /\ sock' = s
  /\ pc' = "busy"
  /\ Overtake(s)
  /\ UNCHANGED <<clientVars, execVars, inbox, sigint, revents, sunk, dev,
                 raised, signalled, log>>

Recv(s) ==
  /\ pc = s
  /\ s \in revents
  /\ inbox[s] # <<>>
  /\ Head(inbox[s]).signed
  /\ cur' = Head(inbox[s])
  /\ sock' = s
  /\ inbox' = [inbox EXCEPT ![s] = Tail(@)]
  /\ pc' = "busy"
  /\ Overtake(s)
  /\ UNCHANGED <<clientVars, execVars, sigint, revents, sunk, dev, raised,
                 signalled, log>>

\* a bad digest is thrown out of sock_recv, and nothing in the loop catches it
RecvForged(s) ==
  /\ pc = s
  /\ s \in revents
  /\ inbox[s] # <<>>
  /\ ~Head(inbox[s]).signed
  /\ inbox' = [inbox EXCEPT ![s] = Tail(@)]
  /\ pc' = "exit"
  /\ Overtake(s)
  /\ UNCHANGED <<clientVars, execVars, sigint, revents, sock, cur, sunk, dev,
                 raised, signalled, log>>

-----------------------------------------------------------------------------
(* Announcing a request and preparing its handler.                         *)

Publish(kind, n) == log' = Append(log, IOPubEvent(cur, kind, n))

Busy ==
  /\ pc = "busy"
  /\ Publish("busy", 0)
  /\ pc' = "dispatch"
  /\ UNCHANGED <<clientVars, loopVars, execVars, sigint, sunk, dev, raised,
                 signalled>>

\* get(req$message_type): an unknown type is an error that ends the loop
Dispatch ==
  /\ pc = "dispatch"
  /\ pc' = IF cur.type \in HandledTypes THEN "setup" ELSE "exit"
  /\ UNCHANGED <<clientVars, loopVars, execVars, sigint, sunk, dev, raised,
                 signalled, log>>

\* doRequest diverts both streams and opens a device, unless that is disabled
Setup ==
  /\ pc = "setup"
  /\ sunk' = Streams
  /\ dev' \in {"blank"} \cup {d \in {"off"} : "no_device" \in Happens}
  /\ pc' = "handler"
  /\ UNCHANGED <<clientVars, loopVars, execVars, sigint, raised, signalled,
                 log>>

\* a connection or the device cannot be opened: the finally is not yet set up
SetupFails ==
  /\ "setup_fails" \in Happens
  /\ pc = "setup"
  /\ sunk' \in {{}, Streams}
  /\ pc' = "exit"
  /\ UNCHANGED <<clientVars, loopVars, execVars, sigint, dev, raised,
                 signalled, log>>

-----------------------------------------------------------------------------
(* Handlers other than execute_request.                                    *)

HandlerReturns ==
  /\ pc = "handler"
  /\ cur.type # "execute_request"
  /\ pc' = "finally"
  /\ UNCHANGED <<clientVars, loopVars, execVars, sigint, sunk, dev, raised,
                 signalled, log>>

HandlerRaises ==
  /\ "handler_fails" \in Happens
  /\ pc = "handler"
  /\ cur.type # "execute_request"
  /\ raised' = TRUE
  /\ pc' = "finally"
  /\ UNCHANGED <<clientVars, loopVars, execVars, sigint, sunk, dev, signalled,
                 log>>

-----------------------------------------------------------------------------
(* execute_request.                                                        *)

\* mutant of Rebroadcast: the count is sent, but not increased
RebroadcastSameCount ==
  /\ pc = "handler"
  /\ cur.type = "execute_request"
  /\ cnt' = execCount
  /\ Publish("execute_input", execCount)
  /\ pc' = "eval"
  /\ UNCHANGED <<clientVars, loopVars, sigint, execCount, status, payload,
                 shown, sunk, dev, raised, signalled>>

\* the count is taken, and increased, before the code is sent around
Rebroadcast ==
  /\ pc = "handler"
  /\ cur.type = "execute_request"
  /\ cnt' = execCount
  /\ execCount' = execCount + 1
  /\ Publish("execute_input", execCount)
  /\ pc' = "eval"
  /\ UNCHANGED <<clientVars, loopVars, sigint, status, payload, shown, sunk,
                 dev, raised, signalled>>

\* content without code cannot be converted for rebroadcast_input
RebroadcastFails ==
  /\ "handler_fails" \in Happens
  /\ pc = "handler"
  /\ cur.type = "execute_request"
  /\ execCount' = execCount + 1
  /\ raised' = TRUE
  /\ pc' = "finally"
  /\ UNCHANGED <<clientVars, loopVars, sigint, cnt, status, payload, shown,
                 sunk, dev, signalled, log>>

\* the client's own R code runs: a cell, or a comm's callback
InUserCode == pc = "eval" \/ (pc = "handler" /\ cur.type \in CommTypes)

\* it publishes through the xmock
UserDisplays ==
  /\ "display" \in Happens
  /\ InUserCode
  /\ shown < MaxDisplays
  /\ shown' = shown + 1
  /\ Publish("display_data", 0)
  /\ UNCHANGED <<clientVars, loopVars, sigint, pc, execCount, cnt, status,
                 payload, sunk, dev, raised, signalled>>

UserDraws ==
  /\ "draw" \in Happens
  /\ InUserCode
  /\ dev = "blank"
  /\ dev' = "drawn"
  /\ UNCHANGED <<clientVars, loopVars, execVars, sigint, pc, sunk, raised,
                 signalled, log>>

\* svg_close publishes the page, if there is one
CloseDevice ==
  /\ dev' = "off"
  /\ IF dev = "drawn" THEN Publish("display_data", 0) ELSE UNCHANGED log

UserClosesDevice ==
  /\ "close_device" \in Happens
  /\ InUserCode
  /\ dev # "off"
  /\ CloseDevice
  /\ UNCHANGED <<clientVars, loopVars, execVars, sigint, pc, sunk, raised,
                 signalled>>

\* a visible value is published at once, before .tryEval returns
EvalVisible ==
  /\ "visible" \in Happens
  /\ pc = "eval"
  /\ Publish("execute_result", cnt)
  /\ pc' = "value"
  /\ UNCHANGED <<clientVars, loopVars, execVars, sigint, sunk, dev, raised,
                 signalled>>

EvalInvisible ==
  /\ "invisible" \in Happens
  /\ pc = "eval"
  /\ pc' = "value"
  /\ UNCHANGED <<clientVars, loopVars, execVars, sigint, sunk, dev, raised,
                 signalled, log>>

\* a help page goes into the reply's payload instead of an execute_result
EvalHelp ==
  /\ "help" \in Happens
  /\ pc = "eval"
  /\ payload' = TRUE
  /\ pc' = "value"
  /\ UNCHANGED <<clientVars, loopVars, sigint, execCount, cnt, status, shown,
                 sunk, dev, raised, signalled, log>>

EvalOk ==
  /\ pc = "value"
  /\ status' = "ok"
  /\ pc' = "return"
  /\ UNCHANGED <<clientVars, loopVars, sigint, execCount, cnt, payload, shown,
                 sunk, dev, raised, signalled, log>>

\* mutant of EvalCondition: the tryCatch extends over the mime bundle, so that
\* a condition after the result was published still decides the status
EvalConditionLate ==
  /\ "condition" \in Happens
  /\ pc \in {"eval", "value"}
  /\ status' \in {"error", "ok"}
  /\ pc' = "return"
  /\ UNCHANGED <<clientVars, loopVars, sigint, execCount, cnt, payload, shown,
                 sunk, dev, raised, signalled, log>>

\* a warning stops the evaluation too, but is reported as success
EvalCondition ==
  /\ "condition" \in Happens
  /\ pc = "eval"
  /\ status' \in {"error", "ok"}
  /\ pc' = "return"
  /\ UNCHANGED <<clientVars, loopVars, sigint, execCount, cnt, payload, shown,
                 sunk, dev, raised, signalled, log>>

\* e$call is NULL: the handler's own if() fails, outside of the tryCatch
EvalConditionWithoutCall ==
  /\ "condition_without_call" \in Happens
  /\ pc = "eval"
  /\ raised' = TRUE
  /\ pc' = "finally"
  /\ UNCHANGED <<clientVars, loopVars, execVars, sigint, sunk, dev, signalled,
                 log>>

\* mutant of EvalInterrupted: the status the Jupyter protocol has for it
EvalAborted ==
  /\ pc \in {"eval", "value"}
  /\ sigint
  /\ sigint' = FALSE
  /\ status' = "aborted"
  /\ pc' = "return"
  /\ UNCHANGED <<clientVars, loopVars, execCount, cnt, payload, shown, sunk,
                 dev, raised, signalled, log>>

EvalInterrupted ==
  /\ pc \in {"eval", "value"}
  /\ sigint
  /\ sigint' = FALSE
  /\ status' = "abort"
  /\ pc' = "return"
  /\ UNCHANGED <<clientVars, loopVars, execCount, cnt, payload, shown, sunk,
                 dev, raised, signalled, log>>

\* quit() cleans up and is gone, no finally is run
UserQuits ==
  /\ "quit" \in Happens
  /\ InUserCode
  /\ pc' = "exit"
  /\ UNCHANGED <<clientVars, loopVars, execVars, sigint, sunk, dev, raised,
                 signalled, log>>

\* mutant of BuildReply: jk_payload is sent, but not reset
BuildReplyKeepsPayload ==
  /\ pc = "return"
  /\ pc' = "finally"
  /\ UNCHANGED <<clientVars, loopVars, execVars, sigint, sunk, dev, raised,
                 signalled, log>>

BuildReply ==
  /\ pc = "return"
  /\ payload' = FALSE
  /\ pc' = "finally"
  /\ UNCHANGED <<clientVars, loopVars, sigint, execCount, cnt, status, shown,
                 sunk, dev, raised, signalled, log>>

-----------------------------------------------------------------------------
(* doRequest's finally, and RequestServer::post_handle.                    *)

Unsink ==
  /\ pc = "finally"
  /\ sunk' = {}
  /\ pc' = "devoff"
  /\ UNCHANGED <<clientVars, loopVars, execVars, sigint, dev, raised,
                 signalled, log>>

DevOff ==
  /\ pc = "devoff"
  /\ CloseDevice
  /\ pc' = IF raised THEN "raise" ELSE "post"
  /\ UNCHANGED <<clientVars, loopVars, execVars, sigint, sunk, raised,
                 signalled>>

\* an error that left the handler ends the main loop
Propagate ==
  /\ pc = "raise"
  /\ pc' = "exit"
  /\ UNCHANGED <<clientVars, loopVars, execVars, sigint, sunk, dev, raised,
                 signalled, log>>

\* R code under no tryCatch is interrupted: the error is the loop's
UncaughtInterrupt ==
  /\ sigint
  /\ \/ pc \in Unguarded /\ pc' = "exit" /\ UNCHANGED raised
     \/ pc \in InHandler /\ pc' = "finally" /\ raised' = TRUE
  /\ sigint' = FALSE
  /\ UNCHANGED <<clientVars, loopVars, execVars, sunk, dev, signalled, log>>

PostComm ==
  /\ pc = "post"
  /\ cur.type \in CommTypes
  /\ pc' = "idle"
  /\ UNCHANGED <<clientVars, loopVars, execVars, sigint, sunk, dev, raised,
                 signalled, log>>

\* mutant of PostReply: a comm message may be answered like all others
PostReplyToAll ==
  /\ pc = "post"
  /\ log' = Append(log, Reply(cur, sock, "reply", status, cnt))
  /\ pc' = IF cur.type = "shutdown_request" THEN "stopping" ELSE "idle"
  /\ UNCHANGED <<clientVars, loopVars, execVars, sigint, sunk, dev, raised,
                 signalled>>

PostReply ==
  /\ pc = "post"
  /\ cur.type \notin CommTypes
  /\ log' = Append(log, Reply(cur, sock, "reply", status, cnt))
  /\ pc' = IF cur.type = "shutdown_request" THEN "stopping" ELSE "idle"
  /\ UNCHANGED <<clientVars, loopVars, execVars, sigint, sunk, dev, raised,
                 signalled>>

\* the reply cannot be converted to JSON, or serialized
PostFails ==
  /\ "reply_fails" \in Happens
  /\ pc = "post"
  /\ cur.type \notin CommTypes
  /\ pc' = "exit"
  /\ UNCHANGED <<clientVars, loopVars, execVars, sigint, sunk, dev, raised,
                 signalled, log>>

IdleBeforeSignal ==
  /\ pc = "stopping"
  /\ Publish("idle", 0)
  /\ pc' = "signal"
  /\ UNCHANGED <<clientVars, loopVars, execVars, sigint, sunk, dev, raised,
                 signalled>>

Shutdown ==
  /\ pc = "signal"
  /\ signalled' = TRUE
  /\ pc' = "idle"
  /\ UNCHANGED <<clientVars, loopVars, execVars, sigint, sunk, dev, raised,
                 log>>

\* the locals of execute_request go with their frame
Idle ==
  /\ pc = "idle"
  /\ Publish("idle", 0)
  /\ pc' = IF cur.type = "shutdown_request" THEN "exit" ELSE AfterSocket(sock)
  /\ cnt' = 0
  /\ status' = "none"
  /\ shown' = 0
  /\ UNCHANGED <<clientVars, loopVars, sigint, execCount, payload, sunk, dev,
                 raised, signalled>>

\* R exits and runs the finalizer, whose first act is to send the pill again
Finalize ==
  /\ pc = "exit"
  /\ signalled' = TRUE
  /\ pc' = "down"
  /\ UNCHANGED <<clientVars, loopVars, execVars, sigint, sunk, dev, raised,
                 log>>

-----------------------------------------------------------------------------

Client ==
  \/ \E s \in Sockets, type \in MsgType, signed \in BOOLEAN :
       Send(s, type, signed)
  \/ Interrupt

MainLoop ==
  \/ Poll
  \/ PollInterrupted
  \/ \E s \in Sockets : NotReady(s) \/ Recv(s) \/ RecvForged(s)

Handling ==
  \/ Busy \/ Dispatch \/ Setup \/ SetupFails
  \/ HandlerReturns \/ HandlerRaises
  \/ Rebroadcast \/ RebroadcastFails
  \/ UserDisplays \/ UserDraws \/ UserClosesDevice
  \/ EvalVisible \/ EvalInvisible \/ EvalHelp \/ EvalOk
  \/ EvalCondition \/ EvalConditionWithoutCall
  \/ EvalInterrupted \/ UserQuits \/ BuildReply
  \/ Unsink \/ DevOff \/ Propagate

Answering ==
  \/ PostComm \/ PostReply \/ PostFails
  \/ IdleBeforeSignal \/ Shutdown \/ Idle

MainThread ==
  MainLoop \/ Handling \/ Answering \/ UncaughtInterrupt \/ Finalize

\* the process is gone, or every client is done and the loop waits in zmq.poll
Resting ==
  /\ \/ pc = "down"
     \/ pc = "poll" /\ \A s \in Sockets : inbox[s] = <<>>
  /\ UNCHANGED vars

Next == Client \/ MainThread \/ Resting

Spec == Init /\ [][Next]_vars

\* the operating system runs the thread, and user code ends by itself
FairSpec == Spec /\ WF_vars(MainThread)

-----------------------------------------------------------------------------
(* Properties.                                                             *)

\* the phase of the abstract protocol the thread is in
Phase ==
  CASE pc \in {"poll", "control", "shell"} -> "free"
    [] pc = "busy" -> "accepted"
    [] pc = "stopping" -> "answered"
    [] pc = "signal" -> "stopping"
    [] pc = "idle" -> IF cur.type = "shutdown_request" THEN "stopping"
                      ELSE IF cur.type \in CommTypes THEN "busy"
                      ELSE "answered"
    [] pc \in {"exit", "down"} -> "dead"
    [] OTHER -> "busy"

Protocol == INSTANCE RequestProtocol WITH phase <- Phase

(* The thread keeps the promise of RequestProtocol: whatever a handler     *)
(* does, on every path through doRequest and post_handle, the requests are *)
(* announced, answered and closed one at a time, and no message is sent    *)
(* for a request whose digest is wrong.  (requests.h:73-104)               *)
ImplementsProtocol == Protocol!Spec

(* What the client sees of it: the messages form well-bracketed            *)
(* conversations, one request's busy, output, reply and idle before the    *)
(* next one's busy, and nothing after a shutdown, however handlers end     *)
(* and wherever an interrupt strikes.                                      *)
(* (request.R:68-101, requests.h:73-104)                                   *)
Conversations == Protocol!Bracketed

(* Nothing of a request survives into the wait for the next one: R's       *)
(* streams are its own again, the device is closed and published, and no   *)
(* help page is left for another request's reply, however the handler      *)
(* ended.  (request.R:90-100, execute_request.R:56)                        *)
BetweenRequests ==
  pc \in {"poll", "control", "shell"} =>
    /\ sunk = {}
    /\ dev = "off"
    /\ ~payload
    /\ ~raised

(* A cell's input, its result and its reply carry the same count, and      *)
(* later cells carry greater ones, failed and interrupted cells included.  *)
(* (juniper.R:34-38, execute_request.R:44-46)                              *)
ExecutionCounts ==
  \A i, j \in DOMAIN log :
    log[i].kind = "execute_input" =>
      /\ i < j /\ log[j].kind = "execute_input" => log[i].count < log[j].count
      /\ log[i].parent = log[j].parent
           /\ log[j].kind \in {"execute_result", "reply"}
             => log[i].count = log[j].count

(* A cell that published a result is not reported as failed: its status is *)
(* "ok", or "abort" when the interrupt came after the result.              *)
(* (execute_request.R:60-92)                                               *)
NoResultOnError ==
  \A i, j \in DOMAIN log :
    log[i].kind = "execute_result" /\ log[j].kind = "reply"
      /\ log[i].parent = log[j].parent
        => log[j].status \in {"ok", "abort"}

(* A waiting control request lets at most one shell request pass it: the   *)
(* one the loop had already seen, or was already handling the poll of.     *)
(* (booter.R:82-96)                                                        *)
ControlNotOvertaken == overtaken <= 1

(* Each socket's requests are answered in the order they were sent.        *)
(* (juniper.h:94-104)                                                      *)
RepliesInOrder ==
  \A i, j \in DOMAIN log :
    i < j /\ log[i].kind = "reply" /\ log[j].kind = "reply"
      /\ log[i].chan = log[j].chan
        => log[i].parent.id < log[j].parent.id

Waiting(id) ==
  \E s \in Sockets : \E i \in DOMAIN inbox[s] : inbox[s][i].id = id

Closed(id) ==
  \E i \in DOMAIN log : log[i].kind = "idle" /\ log[i].parent.id = id

(* Neither socket starves the other: every request that reaches a socket   *)
(* is closed with 'idle', unless the kernel goes down first.               *)
(* (booter.R:77-97)                                                        *)
EveryRequestSettles ==
  \A id \in 1..MaxRequests : Waiting(id) ~> (Closed(id) \/ pc = "down")

-----------------------------------------------------------------------------
(* What makes the above inductive.                                         *)

\* every cell not yet counted is still waiting, or was just taken: the bound
\* on the execution counter
Uncounted == IF pc \in {"busy", "dispatch", "setup", "handler"} THEN 1 ELSE 0

Queued(s) == Len(inbox[s])

CountsBounded ==
  execCount + Queued("control") + Queued("shell") + Uncounted <= sent + 1

\* outside of doRequest's body
Outside == {"poll", "control", "shell", "busy", "dispatch", "setup", "post",
            "stopping", "signal", "idle"}

\* at each location, what doRequest and execute_request have yet to undo
Tidy ==
  /\ pc \in Outside => sunk = {} /\ dev = "off"
  /\ pc = "devoff" => sunk = {}
  /\ raised => pc \in {"finally", "devoff", "raise", "exit", "down"}
  /\ payload => raised \/ pc \in {"value", "return", "exit", "down"}

\* only a shutdown_request goes the long way through post_handle
Stopping == pc \in {"stopping", "signal"} => cur.type = "shutdown_request"

\* a waiting request has an id of its own, and nothing was sent for it
FreshIds ==
  /\ cur.id <= sent
  /\ \A k \in DOMAIN log : log[k].parent.id <= sent
  /\ \A s \in Sockets : \A i \in DOMAIN inbox[s] :
       /\ inbox[s][i].id <= sent
       /\ inbox[s][i].id # cur.id
       /\ \A k \in DOMAIN log : log[k].parent.id # inbox[s][i].id
  /\ \A s, t \in Sockets :
       \A i \in DOMAIN inbox[s], j \in DOMAIN inbox[t] :
         inbox[s][i].id = inbox[t][j].id => s = t /\ i = j

IInv == TypeOK /\ CountsBounded /\ Tidy /\ Stopping /\ FreshIds
=============================================================================
