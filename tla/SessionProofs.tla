---------------------------- MODULE SessionProofs ---------------------------
(***************************************************************************)
(* Proofs about a kernel's process and its test client.  What makes the    *)
(* process end cleanly is the order in which things are undone: a thread   *)
(* that was joined stays done (Joined), so the server is deleted under no  *)
(* thread (ServerLives); each socket left open has a reason (Sockets); and *)
(* which pointers were assigned tells how far the boot came (Assigned).    *)
(***************************************************************************)
EXTENDS Session, TLAPS

\* a thread that has been joined is done
Joined ==
  /\ main \in {"joinIo", "joinErr", "joinOut", "server", "sockets", "context"}
       => thread["hb"] = "done"
  /\ main \in {"joinErr", "joinOut", "server", "sockets", "context"}
       => thread["io"] = "done"
  /\ main \in {"joinOut", "server", "sockets", "context"} => thread["err"] = "done"
  /\ main \in {"server", "sockets", "context"} => thread["out"] = "done"

\* the process has its request server from its construction to the joins, and
\* before it no thread
ServerLives ==
  /\ main \in Mains \ ({"construct", "sockets", "context"} \cup Ended)
       => server = "alive"
  /\ main = "construct" => \A t \in KThreads : thread[t] = "none"
  /\ main \in Ended => \A t \in KThreads : thread[t] = "none"

\* a thread's sockets are open only while it runs, a bound socket without a
\* pointer is one whose bind has thrown, and what was deleted is not open
SocketsOpen ==
  /\ \A t \in KThreads \cap open : thread[t] \in {"starting", "polling"}
  /\ open \cap {"control", "shell"} \subseteq owned \cup taken
  /\ main \in {"sockets", "context"} => open \cap {"sig", "pub"} = {}
  /\ main = "context" => open \cap ({"stdin"} \cup owned) = {}

\* how far the boot came
Assigned ==
  /\ main \in {"construct", "made", "spawnIo", "control"} => owned = {}
  /\ main = "shell" => owned = {"control"}
  /\ main = "serving" => owned = {"control", "shell"}
  /\ main \notin {"shell"} \cup Ended =>
       owned = {} \/ owned = {"control", "shell"} \/ taken # {}
  /\ main \in {"made", "spawnIo", "control", "shell", "serving"} =>
       \A t \in StreamThreads : thread[t] # "none"
  /\ main = "made" => thread["hb"] = "none" /\ thread["io"] = "none"
  /\ main = "spawnIo" => thread["io"] = "none"
  /\ main \in {"spawnIo", "control", "shell", "serving"} => thread["hb"] # "none"
  /\ main \in {"control", "shell", "serving"} => thread["io"] # "none"
  /\ main \notin Ended =>
       \A t \in KThreads : thread[t] = "none" => owned = {}

\* a ping that is out while the monitor rests was not answered in time
PingOut == monitor = "resting" /\ ping # "none" => missed

KernelInv ==
  /\ Joined
  /\ ServerLives
  /\ StreamsHaveServer
  /\ SocketsOpen
  /\ Assigned
  /\ NoTerminate

ClientInv == PingOut /\ MonitorPatient

Inv == SessionTypeOK /\ KernelInv /\ ClientInv

-----------------------------------------------------------------------------
(* The kernel's process.                                                   *)

(* The order of the joins, as the destructors have it.                     *)
LEMMA JoinOrder ==
  /\ DOMAIN Joining = {"joinHb", "joinIo", "joinErr", "joinOut"}
  /\ Joining["joinHb"] = "hb" /\ AfterJoin["joinHb"] = "joinIo"
  /\ Joining["joinIo"] = "io" /\ AfterJoin["joinIo"] = "joinErr"
  /\ Joining["joinErr"] = "err" /\ AfterJoin["joinErr"] = "joinOut"
  /\ Joining["joinOut"] = "out" /\ AfterJoin["joinOut"] = "server"
BY DEF Joining, AfterJoin

(* The end of a process leaves nothing that could go wrong, unless an      *)
(* exception has ended it that its boot does not explain.                  *)
LEMMA EndInv ==
  ASSUME SessionTypeOK, KernelInv, NEW how \in Ended, End(how),
         how = "terminated" => taken # {} \/ owned = {}
  PROVE  KernelInv'
<1> USE DEF End, KernelInv, Ended
<1>1. main' = how /\ open' = {} /\ UNCHANGED <<owned, taken, server>>
      /\ \A t \in KThreads : thread'[t] = "none"
  OBVIOUS
<1>2. how \notin DOMAIN Joining
  BY JoinOrder
<1>3. Joined' /\ NoTerminate'
  BY <1>1 DEF Joined, NoTerminate
<1>4. ServerLives'
  BY <1>1, <1>2 DEF ServerLives
<1>5. StreamsHaveServer'
  BY <1>1 DEF StreamsHaveServer, KThreads
<1>6. SocketsOpen'
  BY <1>1 DEF SocketsOpen
<1>7. Assigned'
  BY <1>1 DEF Assigned
<1>8. QED
  BY <1>3, <1>4, <1>5, <1>6, <1>7

(* Every step of the kernel's process keeps its invariant. One case per    *)
(* action.                                                                 *)
LEMMA KernelStep ==
  ASSUME SessionTypeOK, KernelInv,
         \/ MainStep
         \/ GiveUpBoot
         \/ QuitR
         \/ Kill
         \/ ServeShutdown
         \/ \E t \in KThreads : KThreadStep(t)
  PROVE  KernelInv'
<1> USE ContestedAssumption, JoinOrder
<1> USE DEF KernelInv, Joined, ServerLives, StreamsHaveServer, SocketsOpen,
            Assigned, NoTerminate, SessionTypeOK, Mains, Ended, KThreads,
            StreamThreads
<1>1. CASE Construct
  <2>1. CASE "stdin" \in taken
    BY <1>1, <2>1, EndInv DEF Construct
  <2>2. CASE "stdin" \notin taken
    BY <1>1, <2>2 DEF Construct
  <2>3. QED
    BY <2>1, <2>2
<1>2. CASE GiveUpBoot
  BY <1>2 DEF GiveUpBoot
<1>3. CASE Boot
  <2>1. CASE main = "made" /\ Spawn("hb", "spawnIo")
    <3>1. /\ main = "made" /\ main' = "spawnIo" /\ thread'["hb"] = "starting"
          /\ \A u \in KThreads \ {"hb"} : thread'[u] = thread[u]
          /\ open' = open \cup {"hb"}
          /\ UNCHANGED <<owned, taken, server>>
      BY <2>1 DEF Spawn
    <3>2. Joined' /\ ServerLives' /\ StreamsHaveServer' /\ NoTerminate'
      BY <3>1
    <3>3. SocketsOpen'
      BY <3>1
    <3>4. Assigned'
      BY <3>1
    <3>5. QED
      BY <3>2, <3>3, <3>4
  <2>2. CASE main = "spawnIo" /\ Spawn("io", "control")
    <3>1. /\ main = "spawnIo" /\ main' = "control" /\ thread'["io"] = "starting"
          /\ \A u \in KThreads \ {"io"} : thread'[u] = thread[u]
          /\ open' = open \cup {"io"}
          /\ UNCHANGED <<owned, taken, server>>
      BY <2>2 DEF Spawn
    <3>2. Joined' /\ ServerLives' /\ StreamsHaveServer' /\ NoTerminate'
      BY <3>1
    <3>3. SocketsOpen'
      BY <3>1
    <3>4. Assigned'
      BY <3>1
    <3>5. QED
      BY <3>2, <3>3, <3>4
  <2>3. CASE main = "control" /\ ListenOn("control", "shell")
    <3>1. /\ main = "control" /\ open' = open \cup {"control"}
          /\ UNCHANGED <<thread, pill, taken, server>>
          /\ \/ "control" \in taken /\ main' = "pill" /\ owned' = owned
             \/ main' = "shell" /\ owned' = owned \cup {"control"}
      BY <2>3 DEF ListenOn
    <3>2. Joined' /\ ServerLives' /\ StreamsHaveServer' /\ NoTerminate'
      BY <3>1
    <3>3. SocketsOpen'
      BY <3>1
    <3>4. Assigned'
      BY <3>1, ZenonT(40)
    <3>5. QED
      BY <3>2, <3>3, <3>4
  <2>4. CASE main = "shell" /\ ListenOn("shell", "serving")
    BY <2>4 DEF ListenOn
  <2>5. QED
    BY <1>3, <2>1, <2>2, <2>3, <2>4 DEF Boot
<1>4. CASE ServeShutdown
  BY <1>4 DEF ServeShutdown, Pill
<1>5. CASE QuitR
  BY <1>5 DEF QuitR
<1>6. CASE PillAgain
  BY <1>6 DEF PillAgain, Pill
<1>7. CASE Join
  <2> DEFINE t == Joining[main]
  <2>1. main \in DOMAIN Joining /\ t \in KThreads
    BY <1>7 DEF Join
  <2>2. CASE thread[t] = "none" /\ End("terminated")
    <3> HIDE DEF t
    <3>1. owned = {}
      BY <2>1, <2>2
    <3>2. QED
      BY <2>2, <3>1, EndInv
  <2>3. CASE /\ thread[t] = "done"
             /\ main' = AfterJoin[main]
             /\ UNCHANGED <<thread, pill, open, owned, taken, server>>
    <3>1. CASE main = "joinHb"
      BY <2>3, <3>1
    <3>2. CASE main = "joinIo"
      BY <2>3, <3>2
    <3>3. CASE main = "joinErr"
      BY <2>3, <3>3
    <3>4. CASE main = "joinOut"
      BY <2>3, <3>4
    <3>5. QED
      BY <2>1, <3>1, <3>2, <3>3, <3>4
  <2>4. QED
    BY <1>7, <2>2, <2>3 DEF Join
<1>8. CASE DeleteServer
  BY <1>8 DEF DeleteServer
<1>9. CASE DeleteSockets
  <2>1. CASE /\ main' = "context"
             /\ open' = open \ ({"stdin"} \cup owned)
             /\ UNCHANGED <<thread, pill, owned, taken, server>>
    BY <1>9, <2>1 DEF DeleteSockets
  <2>2. CASE owned # {"control", "shell"} /\ End("terminated")
    BY <1>9, <2>2, EndInv DEF DeleteSockets
  <2>3. QED
    BY <1>9, <2>1, <2>2 DEF DeleteSockets
<1>10. CASE DeleteContext
  BY <1>10, EndInv DEF DeleteContext
<1>11. CASE Kill
  BY <1>11, EndInv DEF Kill
<1>12. ASSUME NEW t \in KThreads, Subscribe(t)
       PROVE  KernelInv'
  BY <1>12 DEF Subscribe
<1>13. ASSUME NEW t \in KThreads, BindThrows(t)
       PROVE  KernelInv'
  BY <1>13, EndInv DEF BindThrows
<1>14. ASSUME NEW t \in KThreads, Leave(t)
       PROVE  KernelInv'
  BY <1>14 DEF Leave
<1>15. QED
  BY <1>1, <1>2, <1>3, <1>4, <1>5, <1>6, <1>7, <1>8, <1>9, <1>10, <1>11, <1>12,
     <1>13, <1>14
  DEF MainStep, KThreadStep

-----------------------------------------------------------------------------
(* Types.                                                                  *)

\* the part of SessionTypeOK that is about the kernel's process
ProcessTypeOK ==
  /\ main \in Mains
  /\ thread \in [KThreads -> {"none", "starting", "polling", "done"}]
  /\ pill \subseteq {t \in KThreads : thread[t] = "polling"}
  /\ open \subseteq Ports \cup KThreads \cup {"sig", "pub"}
  /\ owned \subseteq {"control", "shell"}
  /\ server \in {"none", "alive", "deleted"}

(* The process keeps its types; a pill is only ever held by a thread that  *)
(* polls.                                                                  *)
LEMMA ProcessTypes ==
  ASSUME ProcessTypeOK, KernelInv,
         \/ MainStep
         \/ GiveUpBoot
         \/ QuitR
         \/ Kill
         \/ ServeShutdown
         \/ \E t \in KThreads : KThreadStep(t)
  PROVE  ProcessTypeOK'
<1> USE JoinOrder
<1> USE DEF ProcessTypeOK, Mains, Ended, KThreads, StreamThreads, Ports
<1>1. ASSUME NEW how \in Ended, End(how) PROVE ProcessTypeOK'
  BY <1>1 DEF End
<1>2. CASE Construct
  <2>1. CASE "stdin" \in taken
    BY <1>1, <1>2, <2>1 DEF Construct
  <2>2. CASE "stdin" \notin taken
    <3>1. pill = {}
      BY <1>2 DEF Construct, KernelInv, ServerLives
    <3>2. /\ main' = "made" /\ server' = "alive" /\ UNCHANGED <<pill, owned>>
          /\ thread' = [t \in KThreads |-> IF t \in StreamThreads
                                           THEN "starting" ELSE "none"]
          /\ open' = {"stdin", "pub", "sig"} \cup StreamThreads
      BY <1>2, <2>2 DEF Construct
    <3>3. QED
      BY <3>1, <3>2
  <2>3. QED
    BY <2>1, <2>2
<1>3. CASE GiveUpBoot \/ QuitR
  BY <1>3, ZenonT(40) DEF GiveUpBoot, QuitR
<1>4. CASE Boot
  <2>1. ASSUME NEW t \in KThreads, NEW next \in Mains, Spawn(t, next),
               thread[t] = "none"
        PROVE  ProcessTypeOK'
    <3>1. t \notin pill
      BY <2>1
    <3>2. QED
      BY <2>1, <3>1 DEF Spawn
  <2>2. ASSUME NEW p \in {"control", "shell"}, NEW next \in Mains,
               ListenOn(p, next)
        PROVE  ProcessTypeOK'
    BY <2>2, ZenonT(40) DEF ListenOn
  <2>3. QED
    BY <1>4, <2>1, <2>2 DEF Boot, KernelInv, Assigned
<1>5. CASE ServeShutdown \/ PillAgain
  BY <1>5 DEF ServeShutdown, PillAgain, Pill
<1>6. CASE Join
  <2>1. main \in DOMAIN Joining => AfterJoin[main] \in Mains
    OBVIOUS
  <2>2. QED
    <3>1. CASE End("terminated")
      BY <1>1, <3>1
    <3>2. CASE ~End("terminated")
      <4>1. /\ main' \in Mains
            /\ UNCHANGED <<thread, pill, open, owned, taken, server>>
        BY <1>6, <2>1, <3>2 DEF Join
      <4>2. QED
        BY <4>1
    <3>3. QED
      BY <3>1, <3>2
<1>7. CASE DeleteServer
  BY <1>7 DEF DeleteServer
<1>8. CASE DeleteSockets
  BY <1>1, <1>8, ZenonT(40) DEF DeleteSockets
<1>9. CASE DeleteContext \/ Kill
  BY <1>1, <1>9 DEF DeleteContext, Kill
<1>10. ASSUME NEW t \in KThreads, KThreadStep(t)
       PROVE  ProcessTypeOK'
  <2>1. CASE Subscribe(t)
    BY <2>1 DEF Subscribe
  <2>2. CASE BindThrows(t)
    BY <1>1, <2>2 DEF BindThrows
  <2>3. CASE Leave(t)
    BY <2>3 DEF Leave
  <2>4. QED
    BY <1>10, <2>1, <2>2, <2>3 DEF KThreadStep
<1>11. QED
  BY <1>2, <1>3, <1>4, <1>5, <1>6, <1>7, <1>8, <1>9, <1>10 DEF MainStep

\* the part that is about the client
ClientTypeOK ==
  /\ client \in {"waiting", "testing", "asking", "replied", "pill", "joinHb",
                 "joinIo", "gone"}
  /\ monitor \in {"starting", "connecting", "resting", "awaiting", "done"}
  /\ ping \in {"none", "sent", "answered"}
  /\ iopub \in {"starting", "polling", "done"}
  /\ signal \subseteq {"monitor", "iopub"}

(* The two parts are the type invariant.                                   *)
LEMMA TwoSides ==
  /\ SessionTypeOK <=> ProcessTypeOK /\ ClientTypeOK
  /\ SessionTypeOK' <=> ProcessTypeOK' /\ ClientTypeOK'
BY DEF SessionTypeOK, ProcessTypeOK, ClientTypeOK

(* The client's steps keep its types and its part of the invariant: the    *)
(* monitor rests with a ping out only after it has missed the answer.      *)
LEMMA ClientStep ==
  ASSUME ClientTypeOK, ClientInv,
         Monitor \/ IOPubStep \/ ClientMain \/ RequestShutdown \/ ClientExits
  PROVE  ClientTypeOK' /\ ClientInv'
<1> USE DEF ClientTypeOK, ClientInv, PingOut, MonitorPatient
<1>1. CASE Monitor
  BY <1>1
  DEF Monitor, MonitorStarts, Connected, MonitorStops, Beat, Answered, Missed
<1>2. CASE IOPubStep
  BY <1>2 DEF IOPubStep
<1>3. CASE ClientMain
  <2>1. CASE ClientPill
    BY <2>1 DEF ClientPill
  <2>2. CASE WaitForHb \/ ClientJoin
    BY <2>2 DEF WaitForHb, ClientJoin
  <2>3. QED
    BY <1>3, <2>1, <2>2 DEF ClientMain
<1>4. CASE RequestShutdown \/ ClientExits
  BY <1>4 DEF RequestShutdown, ClientExits
<1>5. QED
  BY <1>1, <1>2, <1>3, <1>4

-----------------------------------------------------------------------------
(* The session.                                                            *)

(* Both sides start as the invariant has it.                               *)
LEMMA InitInv == SessionInit => Inv
<1> SUFFICES ASSUME SessionInit PROVE Inv
  OBVIOUS
<1> USE DEF SessionInit, ProcessInit, ClientInit
<1>1. SessionTypeOK
  BY DEF SessionTypeOK, Mains
<1>2. KernelInv
  BY DEF KernelInv, Joined, ServerLives, StreamsHaveServer, SocketsOpen,
     Assigned, NoTerminate, KThreads, StreamThreads, Ended
<1>3. ClientInv
  BY DEF ClientInv, PingOut, MonitorPatient
<1>4. QED
  BY <1>1, <1>2, <1>3 DEF Inv

(* A step is one of the kernel's process, of the client, or of both: the   *)
(* answer to a ping, and the reply to the shutdown request.                *)
LEMMA NextInv == Inv /\ [SessionNext]_sessionVars => Inv'
<1> SUFFICES ASSUME Inv, [SessionNext]_sessionVars PROVE Inv'
  OBVIOUS
<1>1. SessionTypeOK /\ ProcessTypeOK /\ ClientTypeOK /\ KernelInv /\ ClientInv
  BY TwoSides DEF Inv
<1>2. SUFFICES ProcessTypeOK' /\ ClientTypeOK' /\ KernelInv' /\ ClientInv'
  BY TwoSides DEF Inv
<1>3. ASSUME UNCHANGED processVars PROVE ProcessTypeOK' /\ KernelInv'
  BY <1>1, <1>3
  DEF processVars, ProcessTypeOK, KernelInv, Joined, ServerLives,
      StreamsHaveServer, SocketsOpen, Assigned, NoTerminate
<1>4. ASSUME UNCHANGED clientVars PROVE ClientTypeOK' /\ ClientInv'
  BY <1>1, <1>4
  DEF clientVars, ClientTypeOK, ClientInv, PingOut, MonitorPatient
<1>5. CASE Pong
  <2>1. ClientTypeOK' /\ ClientInv'
    BY <1>1, <1>5 DEF Pong, ClientTypeOK, ClientInv, PingOut, MonitorPatient
  <2>2. QED
    BY <1>3, <1>5, <2>1 DEF Pong
<1>6. CASE ShutdownServed
  <2>1. ClientTypeOK' /\ ClientInv'
    BY <1>1, <1>6
    DEF ShutdownServed, ClientTypeOK, ClientInv, PingOut, MonitorPatient
  <2>2. QED
    BY <1>1, <1>6, <2>1, KernelStep, ProcessTypes DEF ShutdownServed
<1>7. CASE KernelSide
  BY <1>1, <1>4, <1>7, KernelStep, ProcessTypes DEF KernelSide
<1>8. CASE ClientSide
  BY <1>1, <1>3, <1>8, ClientStep DEF ClientSide
<1>9. CASE UNCHANGED sessionVars
  BY <1>3, <1>4, <1>9 DEF sessionVars
<1>10. QED
  BY <1>5, <1>6, <1>7, <1>8, <1>9 DEF SessionNext, SessionRests

(* The inductive invariant, whichever ports are contested.                 *)
THEOREM Inductive == SessionSpec => []Inv
BY InitInv, NextInv, PTL DEF SessionSpec

(* Both sides keep their types.                                            *)
THEOREM SessionTypes == SessionSpec => []SessionTypeOK
<1>1. Inv => SessionTypeOK
  BY DEF Inv
<1>2. QED
  BY <1>1, Inductive, PTL

(* No stream thread is left running without the request server it calls,   *)
(* however the process comes to its end.                                   *)
THEOREM ServerOutlivesStreams == SessionSpec => []StreamsHaveServer
<1>1. Inv => StreamsHaveServer
  BY DEF Inv, KernelInv
<1>2. QED
  BY <1>1, Inductive, PTL

(* When the context is destroyed, the sockets that are left are those      *)
(* listen_on has leaked.                                                   *)
THEOREM OnlyLeaks == SessionSpec => []OnlyLeaksRemain
<1>1. Inv => OnlyLeaksRemain
  <2> SUFFICES ASSUME Inv, main = "context", NEW s \in open
               PROVE  s \in taken
    BY DEF OnlyLeaksRemain
  <2>1. s \notin KThreads
    BY DEF Inv, KernelInv, Joined, SocketsOpen, KThreads, StreamThreads
  <2>2. s \in {"control", "shell"}
    BY <2>1 DEF Inv, KernelInv, SocketsOpen, SessionTypeOK, Ports, KThreads
  <2>3. QED
    BY <2>2 DEF Inv, KernelInv, SocketsOpen
<1>2. QED
  BY <1>1, Inductive, PTL

(* Only a port that was taken, or a boot that was given up before it bound *)
(* anything, can end the process in an exception.                          *)
THEOREM NoUnexpectedEnd == SessionSpec => []NoTerminate
<1>1. Inv => NoTerminate
  BY DEF Inv, KernelInv
<1>2. QED
  BY <1>1, Inductive, PTL

(* The monitor does not give up a kernel that answers in time.             *)
THEOREM Patient == SessionSpec => []MonitorPatient
<1>1. Inv => MonitorPatient
  BY DEF Inv, ClientInv
<1>2. QED
  BY <1>1, Inductive, PTL
=============================================================================
