--------------------------- MODULE MCRequestServer --------------------------
(***************************************************************************)
(* Instances of the main thread for TLC.                                   *)
(***************************************************************************)
EXTENDS RequestServer

\* one type for each path through dispatch, handler and post_handle
EveryPath == {"execute_request", "comm_msg", "kernel_info_request",
              "shutdown_request", "connect_request"}

\* the types that differ in how they end
EveryEnding == {"execute_request", "comm_msg", "shutdown_request"}

\* instances about the queues: cells that just return, and errors
Returns == {"visible", "condition"}

OnlyCells == {"execute_request"}
=============================================================================
