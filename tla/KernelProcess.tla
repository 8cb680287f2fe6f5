---------------------------- MODULE KernelProcess ---------------------------
(***************************************************************************)
(* The life of the kernel's process: JuniperKernel's constructor, the boot *)
(* sequence that starts the threads and binds the ports, and the           *)
(* destructor that R's exit finalizer runs, which tells the threads to     *)
(* stop, joins them, and destroys the sockets before their context.        *)
(*                                                                         *)
(* A port that another process has makes its bind throw: in the            *)
(* constructor and in boot_kernel that is an R error, in a thread it       *)
(* terminates the process.  External: R runs the finalizers when it exits, *)
(* after an error as well; the context is not destroyed before the last    *)
(* socket is; a SUB socket gets what is published after it has connected.  *)
(***************************************************************************)
EXTENDS Naturals, FiniteSets

CONSTANT
  Contested   \* the ports that some other process may have

VARIABLES
  main,      \* what the main thread is about to do
  thread,    \* per thread: "none", "starting", "polling" or "done"
  pill,      \* the threads whose signaller holds a poison pill
  open,      \* the sockets of the context; a thread's stand for all of its own
  owned,     \* those of _cntrl and _shell that were assigned
  taken,     \* the ports another process has
  server     \* *_request_server: "none", "alive" or "deleted"

processVars == <<main, thread, pill, open, owned, taken, server>>

Ports == {"stdin", "hb", "io", "control", "shell"}

ASSUME ContestedAssumption == Contested \subseteq Ports

StreamThreads == {"out", "err"}

KThreads == {"hb", "io"} \cup StreamThreads

\* the threads in the order the destructors join them, and what comes after
Joining == [joinHb |-> "hb", joinIo |-> "io", joinErr |-> "err",
            joinOut |-> "out"]
AfterJoin == [joinHb |-> "joinIo", joinIo |-> "joinErr", joinErr |-> "joinOut",
              joinOut |-> "server"]

Ended == {"gone", "terminated", "killed"}

ProcessInit ==
  /\ main = "construct"
  /\ thread = [t \in KThreads |-> "none"]
  /\ pill = {}
  /\ open = {}
  /\ owned = {}
  /\ taken \in {s \in SUBSET Contested : Cardinality(s) <= 1}
  /\ server = "none"

\* std::terminate, exit or a signal: nothing of the process is left running
End(how) ==
  /\ main' = how
  /\ thread' = [t \in KThreads |-> "none"]
  /\ pill' = {}
  /\ open' = {}
  /\ UNCHANGED <<owned, taken, server>>

-----------------------------------------------------------------------------
(* Construction and boot.                                                  *)

\* the request server with its sockets and stream threads, then stdin's bind;
\* when that throws there is no kernel, and no finalizer for it
Construct ==
  /\ main = "construct"
  /\ IF "stdin" \in taken THEN End("gone")
     ELSE /\ main' = "made"
          /\ thread' = [t \in KThreads |-> IF t \in StreamThreads
                                           THEN "starting" ELSE "none"]
          /\ open' = {"stdin", "pub", "sig"} \cup StreamThreads
          /\ server' = "alive"
          /\ UNCHANGED <<pill, owned, taken>>

\* an interrupt between init_kernel and boot_kernel, or an error there
GiveUpBoot ==
  /\ main = "made"
  /\ main' = "pill"
  /\ UNCHANGED <<thread, pill, open, owned, taken, server>>

Spawn(t, next) ==
  /\ main' = next
  /\ thread' = [thread EXCEPT ![t] = "starting"]
  /\ open' = open \cup {t}
  /\ UNCHANGED <<pill, owned, taken, server>>

\* listen_on: the socket is there before the bind, its pointer only after
ListenOn(port, next) ==
  /\ open' = open \cup {port}
  /\ IF port \in taken THEN main' = "pill" /\ UNCHANGED owned
     ELSE main' = next /\ owned' = owned \cup {port}
  /\ UNCHANGED <<thread, pill, taken, server>>

\* start_bg_threads
Boot ==
  \/ main = "made" /\ Spawn("hb", "spawnIo")
  \/ main = "spawnIo" /\ Spawn("io", "control")
  \/ main = "control" /\ ListenOn("control", "shell")
  \/ main = "shell" /\ ListenOn("shell", "serving")

-----------------------------------------------------------------------------
(* The threads.                                                            *)

\* the thread binds its port, if it has one, and connects its signaller
Subscribe(t) ==
  /\ thread[t] = "starting"
  /\ t \notin taken
  /\ thread' = [thread EXCEPT ![t] = "polling"]
  /\ UNCHANGED <<main, pill, open, owned, taken, server>>

BindThrows(t) ==
  /\ thread[t] = "starting"
  /\ t \in taken
  /\ End("terminated")

\* mutant of Leave: the signaller is left open
LeaveSignaller(t) ==
  /\ t \in pill
  /\ thread' = [thread EXCEPT ![t] = "done"]
  /\ pill' = pill \ {t}
  /\ UNCHANGED <<main, open, owned, taken, server>>

\* poll() sees the pill, and destroys the thread's sockets
Leave(t) ==
  /\ t \in pill
  /\ thread' = [thread EXCEPT ![t] = "done"]
  /\ pill' = pill \ {t}
  /\ open' = open \ {t}
  /\ UNCHANGED <<main, owned, taken, server>>

-----------------------------------------------------------------------------
(* Shutdown and destruction.                                               *)

\* mutant of Pill: a signal is kept for the threads that subscribe later
PillKept(next) ==
  /\ pill' = pill \cup {t \in KThreads : thread[t] # "done"}
  /\ main' = next
  /\ UNCHANGED <<thread, open, owned, taken, server>>

\* RequestServer::shutdown reaches the threads that have subscribed
Pill(next) ==
  /\ pill' = pill \cup {t \in KThreads : thread[t] = "polling"}
  /\ main' = next
  /\ UNCHANGED <<thread, open, owned, taken, server>>

\* a shutdown request: the main loop ends, and R exits
ServeShutdown == main = "serving" /\ Pill("pill")

\* quit() in a cell, or the end of R's input
QuitR ==
  /\ main = "serving"
  /\ main' = "pill"
  /\ UNCHANGED <<thread, pill, open, owned, taken, server>>

\* mutant of PillAgain: no second signal in the destructor
NoPillAgain ==
  /\ main = "pill"
  /\ main' = "joinHb"
  /\ UNCHANGED <<thread, pill, open, owned, taken, server>>

PillAgain == main = "pill" /\ Pill("joinHb")

\* mutant of Join: ~RequestServer is empty, so a thread that has not ended is
\* terminated by its own destructor
JoinHalf ==
  /\ main \in DOMAIN Joining
  /\ LET t == Joining[main] IN
     \/ t \in {"hb", "io"} /\ thread[t] = "none" /\ End("terminated")
     \/ t \in StreamThreads /\ thread[t] # "done" /\ End("terminated")
     \/ /\ thread[t] = "done"
        /\ main' = AfterJoin[main]
        /\ UNCHANGED <<thread, pill, open, owned, taken, server>>

\* mutant of Join: the stream threads are detached and not joined
JoinDetached ==
  /\ main \in DOMAIN Joining
  /\ LET t == Joining[main] IN
     \/ t \in {"hb", "io"} /\ thread[t] = "none" /\ End("terminated")
     \/ /\ thread[t] = "done" \/ t \in StreamThreads
        /\ main' = AfterJoin[main]
        /\ UNCHANGED <<thread, pill, open, owned, taken, server>>

\* joining a thread that was never started throws in a destructor
Join ==
  /\ main \in DOMAIN Joining
  /\ LET t == Joining[main] IN
     \/ thread[t] = "none" /\ End("terminated")
     \/ /\ thread[t] = "done"
        /\ main' = AfterJoin[main]
        /\ UNCHANGED <<thread, pill, open, owned, taken, server>>

DeleteServer ==
  /\ main = "server"
  /\ server' = "deleted"
  /\ open' = open \ {"sig", "pub"}
  /\ main' = "sockets"
  /\ UNCHANGED <<thread, pill, owned, taken>>

\* _shell and _cntrl are not initialized: one that was never assigned may be
\* null by chance, or anything
DeleteSockets ==
  /\ main = "sockets"
  /\ \/ /\ main' = "context"
        /\ open' = open \ ({"stdin"} \cup owned)
        /\ UNCHANGED <<thread, pill, owned, taken, server>>
     \/ owned # {"control", "shell"} /\ End("terminated")

\* blocks while a socket is open
DeleteContext ==
  /\ main = "context"
  /\ open = {}
  /\ End("gone")

\* the frontend kills the process
Kill ==
  /\ main \notin Ended
  /\ End("killed")

MainStep ==
  \/ Construct
  \/ Boot
  \/ PillAgain
  \/ Join
  \/ DeleteServer
  \/ DeleteSockets
  \/ DeleteContext

KThreadStep(t) == Subscribe(t) \/ BindThrows(t) \/ Leave(t)
=============================================================================
