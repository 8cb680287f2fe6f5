----------------------------- MODULE CommManager ----------------------------
(***************************************************************************)
(* The comm manager of xbridge.h: the targets and comms a frontend package *)
(* registers through the mocked xeus interpreter, and the requests         *)
(* comm_open, comm_msg, comm_close and comm_info_request on them.  The     *)
(* xcomm objects and the packages that own them are external: creating or  *)
(* moving an xcomm registers it under its id, destroying it unregisters    *)
(* the id, and a target's callback keeps the comm it is given or drops it. *)
(*                                                                         *)
(* pos() looks a name up in a copy of the map and returns an iterator into *)
(* that copy, dead by then: what is behind it may still be the right       *)
(* object, or the process dies.                                            *)
(***************************************************************************)
EXTENDS Naturals, Sequences, FiniteSets

CONSTANTS
  Targets,      \* target names
  Ids,          \* comm ids
  MaxComms,     \* bound: xcomm objects ever made
  MaxMessages   \* bound: comm requests

ASSUME CommBoundsAssumption == MaxComms \in Nat /\ MaxMessages \in Nat

VARIABLES
  targets,    \* m_targets: the registered names
  comms,      \* m_comms: id -> xcomm object
  objects,    \* the xcomm objects alive, by number
  given,      \* the xcomm objects ever made: the id each was given
  requests,   \* how many comm requests were received
  closed,     \* history: the objects a comm_close was handled for
  alive       \* FALSE once a dangling iterator has killed the process

commVars == <<targets, comms, objects, given, requests, closed, alive>>

CommInit ==
  /\ targets = {}
  /\ comms = <<>>
  /\ objects = <<>>
  /\ given = <<>>
  /\ requests = 0
  /\ closed = {}
  /\ alive = TRUE

Without(f, x) == [y \in DOMAIN f \ {x} |-> f[y]]

With(f, x, v) == [y \in DOMAIN f \cup {x} |-> IF y = x THEN v ELSE f[y]]

-----------------------------------------------------------------------------
(* The packages.                                                           *)

RegisterTarget(t) ==
  /\ alive
  /\ t \notin targets
  /\ targets' = targets \cup {t}
  /\ UNCHANGED <<comms, objects, given, requests, closed, alive>>

UnregisterTarget(t) ==
  /\ alive
  /\ t \in targets
  /\ targets' = targets \ {t}
  /\ UNCHANGED <<comms, objects, given, requests, closed, alive>>

Fresh == Len(given) + 1

\* an object is made and stays: it registers itself under its id
Make(t, id) ==
  /\ Len(given) < MaxComms
  /\ given' = Append(given, id)
  /\ comms' = With(comms, id, Fresh)
  /\ objects' = With(objects, Fresh, [id |-> id, target |-> t])

\* a package opens a comm of its own
NewComm(t, id) ==
  /\ alive
  /\ t \in targets
  /\ Make(t, id)
  /\ UNCHANGED <<targets, requests, closed, alive>>

\* mutant of DropComm: the destructor does not unregister the comm
DropCommSilently(k) ==
  /\ alive
  /\ k \in DOMAIN objects
  /\ objects' = Without(objects, k)
  /\ UNCHANGED <<targets, comms, given, requests, closed, alive>>

\* it destroys one: whatever is registered under its id is unregistered
DropComm(k) ==
  /\ alive
  /\ k \in DOMAIN objects
  /\ objects' = Without(objects, k)
  /\ comms' = Without(comms, objects[k].id)
  /\ UNCHANGED <<targets, given, requests, closed, alive>>

-----------------------------------------------------------------------------
(* The requests.                                                           *)

Dies ==
  /\ alive' = FALSE
  /\ UNCHANGED <<targets, comms, objects, given, requests, closed>>

\* an unknown target is printed, and that is all
OpenUnknown(t) ==
  /\ t \notin targets
  /\ requests' = requests + 1
  /\ UNCHANGED <<targets, comms, objects, given, closed, alive>>

\* the comm registers itself, and the target's callback moves it into an object
\* of its own
OpenKept(t, id) ==
  /\ t \in targets
  /\ requests' = requests + 1
  /\ Make(t, id)
  /\ UNCHANGED <<targets, closed, alive>>

\* or lets it be destroyed
OpenDropped(t, id) ==
  /\ t \in targets
  /\ Len(given) < MaxComms
  /\ requests' = requests + 1
  /\ given' = Append(given, id)
  /\ comms' = Without(comms, id)
  /\ UNCHANGED <<targets, objects, closed, alive>>

CommOpen(t, id) ==
  /\ alive
  /\ requests < MaxMessages
  /\ \/ OpenUnknown(t)
     \/ OpenKept(t, id)
     \/ OpenDropped(t, id)
     \/ t \in targets /\ Dies

\* the handler of a comm that is not registered is called through the end of
\* the copy, that of a registered one through an iterator that dangles, too
CommMsg(id) ==
  /\ alive
  /\ requests < MaxMessages
  /\ \/ /\ id \in DOMAIN comms
        /\ requests' = requests + 1
        /\ UNCHANGED <<targets, comms, objects, given, closed, alive>>
     \/ Dies

\* handle_close, in which the package may destroy its comm, and then the erase
CommClose(id) ==
  /\ alive
  /\ requests < MaxMessages
  /\ \/ /\ id \in DOMAIN comms
        /\ requests' = requests + 1
        /\ closed' = closed \cup {comms[id]}
        /\ \/ UNCHANGED objects
           \/ objects' = Without(objects, comms[id])
        /\ comms' = Without(comms, id)
        /\ UNCHANGED <<targets, given, alive>>
     \/ Dies

\* mutant of FilterComms: only comms of targets that are still registered
FilterCommsOfTargets(t) ==
  {id \in DOMAIN comms : /\ objects[comms[id]].target \in targets
                         /\ t = "" \/ objects[comms[id]].target = t}

\* filter_comms, the answer to comm_info_request: the ids of the comms of a
\* target, of all targets for ""
FilterComms(t) ==
  {id \in DOMAIN comms : t = "" \/ objects[comms[id]].target = t}

CommNext ==
  \/ \E t \in Targets : RegisterTarget(t) \/ UnregisterTarget(t)
  \/ \E t \in Targets, id \in Ids : NewComm(t, id) \/ CommOpen(t, id)
  \/ \E k \in DOMAIN objects : DropComm(k)
  \/ \E id \in Ids : CommMsg(id) \/ CommClose(id)

-----------------------------------------------------------------------------
(* Properties.                                                             *)

(* The map's bare pointers never dangle: whatever packages and clients do, *)
(* each registered id leads to a living comm with that id, so that a       *)
(* message can be handled and filter_comms can ask for the target's name.  *)
(* (xbridge.h:102-107, 138-155; juniper.cpp:137-144)                       *)
CommsAlive ==
  \A id \in DOMAIN comms :
    comms[id] \in DOMAIN objects /\ objects[comms[id]].id = id

(* What became of a comm that a package still holds can be told from what  *)
(* the client and the packages did: it is found under its id, and named in *)
(* the answer to a comm_info_request for its target, unless the client has *)
(* closed it or a second comm was given the same id, whose making or whose *)
(* destructor takes the id away from it.  Neither messages nor a target    *)
(* that is unregistered, nor what happens to comms with other ids, hides   *)
(* a comm.  (xbridge.h:99-107, 128-155; juniper.cpp:133-147)               *)
CommsFound ==
  \A k \in DOMAIN objects :
    \/ k \in closed
    \/ \E j \in DOMAIN given : j # k /\ given[j] = given[k]
    \/ /\ given[k] \in FilterComms(objects[k].target) \cap FilterComms("")
       /\ comms[given[k]] = k
=============================================================================
