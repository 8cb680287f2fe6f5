------------------------------ MODULE Messages ------------------------------
(***************************************************************************)
(* The vocabulary of the kernel's Jupyter channels: which request types    *)
(* have a handler in the package, what a request is, and what the server   *)
(* sends while it works on one.                                            *)
(*                                                                         *)
(* A request is abstracted to the three things the server tells apart: its *)
(* identity (the msg_id of its header), its msg_type, and whether the hmac *)
(* digest of its frames is the one computed with the connection's key.     *)
(***************************************************************************)
EXTENDS Naturals, Sequences

CONSTANTS
  MsgType,       \* the msg_types the clients of an instance send
  MaxRequests    \* bound: how many requests the clients send in all

ASSUME MsgTypeAssumption == MsgType \subseteq STRING
ASSUME MaxRequestsAssumption == MaxRequests \in Nat

-----------------------------------------------------------------------------
(* Request types.                                                          *)

\* requests that get no reply, only a busy/idle pair
CommTypes == {"comm_open", "comm_close", "comm_msg"}

\* requests whose handler computes a reply and nothing else
QueryTypes == {"kernel_info_request", "complete_request", "inspect_request",
               "is_complete_request", "history_request", "comm_info_request"}

\* the handlers the R package defines, found by name in its environment
HandledTypes == CommTypes \cup QueryTypes
                  \cup {"execute_request", "shutdown_request"}

Request == [id : 1..MaxRequests, type : MsgType, signed : BOOLEAN]

\* the default-constructed _cur_msg of a server that has read no request yet
NoRequest == [id |-> 0, type |-> "none", signed |-> FALSE]

-----------------------------------------------------------------------------
(* What the server's thread sends: messages for iopub, and replies on the  *)
(* socket the request came from.  Every message carries its parent.        *)

Sockets == {"control", "shell"}

Channels == Sockets \cup {"iopub"}

OutputKinds == {"execute_input", "execute_result", "display_data"}

EventKinds == {"busy", "idle", "reply"} \cup OutputKinds

ReplyStatus == {"none", "ok", "error", "abort"}

\* execution counts, 0 where a message has none; each count belongs to one
\* request, so that MaxRequests bounds them too
Counts == 0..MaxRequests

Event == [parent : Request \cup {NoRequest}, chan : Channels,
          kind : EventKinds, status : ReplyStatus, count : Counts]

\* a reply built on parent's header, for the channel that will carry it
Reply(parent, chan, kind, status, count) ==
  [parent |-> parent, chan |-> chan, kind |-> kind,
   status |-> status, count |-> count]

IOPubEvent(parent, kind, count) == Reply(parent, "iopub", kind, "none", count)
=============================================================================
