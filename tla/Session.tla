------------------------------- MODULE Session ------------------------------
(***************************************************************************)
(* A kernel's process and the test client connected to it, from the start  *)
(* of both to the end of both: pings and their answers, the shutdown       *)
(* request and its reply, a kernel that does not boot, is interrupted, is  *)
(* killed, or hangs, and a client that goes away first.                    *)
(***************************************************************************)
EXTENDS KernelProcess, TestClient

sessionVars == <<processVars, clientVars>>

SessionInit == ProcessInit /\ ClientInit

\* the heartbeat thread sends back what it receives; a pass that has begun when
\* the pill comes is finished
Pong ==
  /\ thread["hb"] = "polling"
  /\ ping = "sent"
  /\ ping' = "answered"
  /\ UNCHANGED <<processVars, client, beating, monitor, missed, iopub, signal>>

\* the shutdown request is served, and its reply sent before the pill
ShutdownServed ==
  /\ client = "asking"
  /\ ServeShutdown
  /\ client' = "replied"
  /\ UNCHANGED <<beating, monitor, ping, missed, iopub, signal>>

KernelSide ==
  /\ \/ MainStep
     \/ GiveUpBoot
     \/ QuitR
     \/ Kill
     \/ \E t \in KThreads : KThreadStep(t)
  /\ UNCHANGED clientVars

ClientSide ==
  /\ Monitor \/ IOPubStep \/ ClientMain \/ RequestShutdown \/ ClientExits
  /\ UNCHANGED processVars

\* each side may wait for ever: the kernel for requests or for a thread that
\* missed its pill, the client for an answer from a kernel that has died
SessionRests ==
  /\ main \in Ended \/ main \in {"serving", "context"} \/ main \in DOMAIN Joining
  /\ UNCHANGED sessionVars

SessionNext == Pong \/ ShutdownServed \/ KernelSide \/ ClientSide \/ SessionRests

SessionSpec == SessionInit /\ [][SessionNext]_sessionVars

\* every thread of either process is scheduled, a thread's poll() sees the pill
\* before anything else, timers expire, and ZeroMQ delivers
FairSession ==
  /\ SessionSpec
  /\ WF_sessionVars(MainStep /\ UNCHANGED clientVars)
  /\ \A t \in KThreads : WF_sessionVars(KThreadStep(t) /\ UNCHANGED clientVars)
  /\ WF_sessionVars(Pong)
  /\ WF_sessionVars(Monitor /\ UNCHANGED processVars)
  /\ WF_sessionVars(IOPubStep /\ UNCHANGED processVars)
  /\ WF_sessionVars(ClientMain /\ UNCHANGED processVars)

-----------------------------------------------------------------------------
(* Properties.                                                             *)

Mains == {"construct", "made", "spawnIo", "control", "shell", "serving", "pill",
          "server", "sockets", "context"} \cup DOMAIN Joining \cup Ended

SessionTypeOK ==
  /\ main \in Mains
  /\ thread \in [KThreads -> {"none", "starting", "polling", "done"}]
  /\ pill \subseteq {t \in KThreads : thread[t] = "polling"}
  /\ open \subseteq Ports \cup KThreads \cup {"sig", "pub"}
  /\ owned \subseteq {"control", "shell"}
  /\ server \in {"none", "alive", "deleted"}
  /\ client \in {"waiting", "testing", "asking", "replied", "pill", "joinHb",
                 "joinIo", "gone"}
  /\ monitor \in {"starting", "connecting", "resting", "awaiting", "done"}
  /\ ping \in {"none", "sent", "answered"}
  /\ iopub \in {"starting", "polling", "done"}
  /\ signal \subseteq {"monitor", "iopub"}

(* A stream thread calls the request server it was given: none is left     *)
(* running when the server has been deleted, however the process comes to  *)
(* its end.  (requests.h:66-71, 149-164; juniper.h:111)                    *)
StreamsHaveServer ==
  \A t \in StreamThreads :
    thread[t] \in {"starting", "polling"} => server = "alive"

(* When the context is to be destroyed the only sockets left, on which     *)
(* that blocks for ever, are those listen_on leaks when their bind throws. *)
(* (juniper.h:112-121, sockets.h:41-44, 77-88)                             *)
OnlyLeaksRemain == main = "context" => open \subseteq taken

(* A kernel whose ports are free, and whose boot was not given up, never   *)
(* dies of an exception in a thread or a destructor, nor of a pointer that *)
(* was not assigned.  (juniper.h:106-122, requests.h:66-71)                *)
NoTerminate == main = "terminated" => taken # {} \/ owned = {}

(* A kernel that begins to exit when all its threads have subscribed to    *)
(* the pill, and has leaked no socket, gets to its end: no join and no     *)
(* deletion blocks.  (juniper.h:106-122)                                   *)
ExitEnds ==
  (/\ main = "pill"
   /\ \A t \in KThreads : thread[t] \in {"polling", "done"}
   /\ taken = {}) ~> main \in Ended

(* The monitor ends by itself only after an answer took longer than a      *)
(* second: as long as the kernel answers in time it goes on.  (hb.h:46-94) *)
MonitorPatient == monitor = "done" => missed \/ "monitor" \in signal

(* A monitor that has been answered once ends after the kernel has died:   *)
(* not because it counts what it misses, but because a REQ socket refuses  *)
(* a second ping.  (hb.h:66-86)                                            *)
MonitorNotices ==
  (main \in Ended /\ monitor \in {"resting", "awaiting"}) ~> monitor = "done"

(* The client that goes away gets to its end unless a thread of its had    *)
(* not subscribed yet or still waits for the kernel's first answer.        *)
(* (jclient.h:66-84, hb.h:57-58)                                           *)
ClientEnds ==
  (/\ client = "pill"
   /\ monitor \notin {"starting", "connecting"}
   /\ iopub # "starting") ~> client = "gone"
=============================================================================
