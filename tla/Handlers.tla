------------------------------ MODULE Handlers ------------------------------
(***************************************************************************)
(* What happens between doRequest's setup and its finally, request after   *)
(* request: the handler is the client's cell or one comm request, and      *)
(* either runs R code that plots, manages devices, registers comm targets  *)
(* and opens or drops comms.  All of it is the one main thread, so the     *)
(* device and the comm manager take turns inside of a request, and the     *)
(* process dies as a whole.                                                *)
(***************************************************************************)
EXTENDS GraphicsDevice, CommManager

VARIABLE called   \* the request was a comm request, and has been handled

handlerVars == <<deviceVars, commVars, called>>

HandlersInit ==
  /\ DeviceInit
  /\ CommInit
  /\ called = FALSE

\* doRequest and the R process
Around ==
  /\ Request \/ Exit
  /\ called' = FALSE
  /\ UNCHANGED commVars

\* code of a cell, or of a callback
UserCode ==
  /\ \/ /\ Drawing \/ ListOfDevices
        /\ UNCHANGED commVars
     \/ /\ phase = "handler"
        /\ \/ \E t \in Targets : RegisterTarget(t) \/ UnregisterTarget(t)
           \/ \E t \in Targets, id \in Ids : NewComm(t, id)
           \/ \E k \in DOMAIN objects : DropComm(k)
        /\ UNCHANGED deviceVars
  /\ UNCHANGED called

\* comm_request: once in a request; a process that dies closes nothing
CommRequest ==
  /\ phase = "handler"
  /\ ~called
  /\ called' = TRUE
  /\ \E t \in Targets, id \in Ids : CommOpen(t, id) \/ CommMsg(id) \/ CommClose(id)
  /\ phase' = IF alive' THEN phase ELSE "gone"
  /\ UNCHANGED <<devices, current, mine, deviceOff, request, published,
                 cellClosed>>

Gone == phase = "gone" /\ UNCHANGED handlerVars

HandlersNext == Around \/ UserCode \/ CommRequest \/ Gone

HandlersSpec == HandlersInit /\ [][HandlersNext]_handlerVars
=============================================================================
