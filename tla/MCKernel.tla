------------------------------ MODULE MCKernel ------------------------------
(***************************************************************************)
(* Instances of the composed kernel for TLC.                               *)
(***************************************************************************)
EXTENDS Kernel

\* the threads have all started long before the first request
NoneLate == Subscriptions

CellsAndQueries == {"execute_request", "complete_request"}

CellsAndShutdown == {"execute_request", "shutdown_request"}
=============================================================================
