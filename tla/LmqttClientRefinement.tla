----------------------- MODULE LmqttClientRefinement -----------------------
(***************************************************************************)
(* The client implements RequestLifecycle.  The status of a request is     *)
(* read off the places where the client holds it, not off the history      *)
(* alone: a request that the client has accepted, has not reported and     *)
(* holds in no store is "lost", which the abstract specification has no    *)
(* step to reach.                                                          *)
(***************************************************************************)
EXTENDS LmqttClient

Status(r) ==
  IF r > accepted THEN "new"
  ELSE IF calls[r] = <<>> THEN (IF Places(r) = 1 THEN "pending" ELSE "lost")
  ELSE IF Len(calls[r]) > 1 THEN "called twice"
  ELSE IF calls[r][1] THEN "succeeded" ELSE "failed"

Lifecycle == INSTANCE RequestLifecycle
               WITH status <- [r \in Requests |-> Status(r)]

(* Every step of the client is a step of RequestLifecycle or a stutter: a  *)
(* request is held until its one callback, the callbacks of a session that *)
(* ends (client_cleanup_stores) are called for all of it at once, and      *)
(* never for a part of it.                                                 *)
ImplementsLifecycle == Lifecycle!Spec
=============================================================================
