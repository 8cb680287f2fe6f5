----------------------------- MODULE TestClient -----------------------------
(***************************************************************************)
(* The test client of inst/include/jclient, at the other end of a          *)
(* kernel's ports: its heartbeat monitor and its iopub thread, the main    *)
(* thread that tests and then shuts the kernel down, and the destructor    *)
(* that joins the two.  The monitor's REQ socket carries one ping at a     *)
(* time: sending the next one before the answer was received throws.       *)
(***************************************************************************)
EXTENDS Naturals, FiniteSets

VARIABLES
  client,    \* what the client's main thread is about to do
  beating,   \* HB::_beating, which nothing initializes
  monitor,   \* the heartbeat thread
  ping,      \* "none", "sent" or "answered", in the monitor's REQ socket
  missed,    \* history: an answer did not come within a second
  iopub,     \* the iopub thread: "starting", "polling" or "done"
  signal     \* the client's threads whose signaller holds the pill

clientVars == <<client, beating, monitor, ping, missed, iopub, signal>>

ClientInit ==
  /\ client = "waiting"
  /\ beating \in BOOLEAN
  /\ monitor = "starting"
  /\ ping = "none"
  /\ missed = FALSE
  /\ iopub = "starting"
  /\ signal = {}

-----------------------------------------------------------------------------
(* The heartbeat monitor.                                                  *)

\* the signaller is connected, and the first ping sent
MonitorStarts ==
  /\ monitor = "starting"
  /\ monitor' = "connecting"
  /\ ping' = "sent"
  /\ UNCHANGED <<client, beating, missed, iopub, signal>>

\* a recv that nothing but an answer ends
Connected ==
  /\ monitor = "connecting"
  /\ ping = "answered"
  /\ monitor' = "resting"
  /\ ping' = "none"
  /\ beating' = TRUE
  /\ UNCHANGED <<client, missed, iopub, signal>>

MonitorStops ==
  /\ monitor \in {"resting", "awaiting"}
  /\ "monitor" \in signal
  /\ monitor' = "done"
  /\ UNCHANGED <<client, beating, ping, missed, iopub, signal>>

\* mutant of Beat: the socket forgets the answer it waits for
BeatRelaxed ==
  /\ monitor = "resting"
  /\ "monitor" \notin signal
  /\ monitor' = "awaiting"
  /\ ping' = "sent"
  /\ UNCHANGED <<client, beating, missed, iopub, signal>>

\* after a minute without the pill; the thread catches what beat() throws, and
\* ends
Beat ==
  /\ monitor = "resting"
  /\ "monitor" \notin signal
  /\ IF ping = "none" THEN monitor' = "awaiting" /\ ping' = "sent"
     ELSE monitor' = "done" /\ UNCHANGED ping
  /\ UNCHANGED <<client, beating, missed, iopub, signal>>

\* mutant of Answered: the answer is polled for, but not received
AnsweredUnread ==
  /\ monitor = "awaiting"
  /\ "monitor" \notin signal
  /\ ping = "answered"
  /\ monitor' = "resting"
  /\ UNCHANGED <<client, beating, ping, missed, iopub, signal>>

Answered ==
  /\ monitor = "awaiting"
  /\ "monitor" \notin signal
  /\ ping = "answered"
  /\ monitor' = "resting"
  /\ ping' = "none"
  /\ UNCHANGED <<client, beating, missed, iopub, signal>>

\* a second without an answer: no_hb, which would be compared, is never counted
Missed ==
  /\ monitor = "awaiting"
  /\ "monitor" \notin signal
  /\ ping = "sent"
  /\ monitor' = "resting"
  /\ missed' = TRUE
  /\ UNCHANGED <<client, beating, ping, iopub, signal>>

Monitor == MonitorStarts \/ Connected \/ MonitorStops \/ Beat \/ Answered \/ Missed

-----------------------------------------------------------------------------
(* The iopub thread, and the main thread.                                  *)

IOPubStep ==
  /\ \/ iopub = "starting" /\ iopub' = "polling"
     \/ iopub = "polling" /\ "iopub" \in signal /\ iopub' = "done"
  /\ UNCHANGED <<client, beating, monitor, ping, missed, signal>>

\* wait_for_hb spins
WaitForHb ==
  /\ client = "waiting"
  /\ beating
  /\ client' = "testing"
  /\ UNCHANGED <<beating, monitor, ping, missed, iopub, signal>>

\* the shutdown request is sent; its reply is waited for, for ever
RequestShutdown ==
  /\ client = "testing"
  /\ client' = "asking"
  /\ UNCHANGED <<beating, monitor, ping, missed, iopub, signal>>

\* R exits: after the reply, or because its user ends it
ClientExits ==
  /\ client \in {"testing", "replied"}
  /\ client' = "pill"
  /\ UNCHANGED <<beating, monitor, ping, missed, iopub, signal>>

\* mutant of ClientPill: a pill for each of the threads, to the first of them
ClientPillOne ==
  /\ client = "pill"
  /\ signal' = {"monitor"} \ {t \in {"monitor"} : monitor = "starting"}
  /\ client' = "joinHb"
  /\ UNCHANGED <<beating, monitor, ping, missed, iopub>>

\* the destructor's only pill
ClientPill ==
  /\ client = "pill"
  /\ signal' = {t \in {"monitor", "iopub"} :
                  IF t = "monitor" THEN monitor # "starting" ELSE iopub # "starting"}
  /\ client' = "joinHb"
  /\ UNCHANGED <<beating, monitor, ping, missed, iopub>>

ClientJoin ==
  /\ \/ client = "joinHb" /\ monitor = "done" /\ client' = "joinIo"
     \/ client = "joinIo" /\ iopub = "done" /\ client' = "gone"
  /\ UNCHANGED <<beating, monitor, ping, missed, iopub, signal>>

ClientMain == WaitForHb \/ ClientPill \/ ClientJoin
=============================================================================
