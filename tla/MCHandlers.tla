----------------------------- MODULE MCHandlers -----------------------------
(***************************************************************************)
(* Instance of Handlers: two device numbers, so that a cell can close the  *)
(* request's device and get its number again, and room for a comm of a     *)
(* package next to one that the client opens, under the same id or under   *)
(* another one.                                                            *)
(***************************************************************************)
EXTENDS Handlers, TLC

\* nothing tells one id from another
IdSymmetry == Permutations(Ids)
=============================================================================
