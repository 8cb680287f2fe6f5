----------------------------- MODULE MCSession ------------------------------
(***************************************************************************)
(* A session in which any one of the ports may be taken.                   *)
(***************************************************************************)
EXTENDS Session

AllPorts == Ports
=============================================================================
