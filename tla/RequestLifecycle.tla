-------------------------- MODULE RequestLifecycle --------------------------
(***************************************************************************)
(* What lmqtt_client_t promises about the requests (subscribe, unsubscribe *)
(* and publish calls) that it accepts, without stores, packets or states   *)
(* of the connection: every accepted request is pending until its callback *)
(* is called, once; it succeeds on its own, or fails together with every   *)
(* other pending request when the session ends.                            *)
(***************************************************************************)
EXTENDS Naturals

CONSTANT Requests       \* the numbers of the requests, in order of the calls

VARIABLE status

Statuses == {"new", "pending", "succeeded", "failed"}

Init == status = [r \in Requests |-> "new"]

(* Requests become pending in the order of the calls.                      *)
Accept(r) ==
  /\ status[r] = "new"
  /\ \A q \in Requests : q < r => status[q] # "new"
  /\ status' = [status EXCEPT ![r] = "pending"]

Succeed(r) ==
  /\ status[r] = "pending"
  /\ status' = [status EXCEPT ![r] = "succeeded"]

EndSession ==
  status' = [r \in Requests |->
               IF status[r] = "pending" THEN "failed" ELSE status[r]]

Next == (\E r \in Requests : Accept(r) \/ Succeed(r)) \/ EndSession

Spec == Init /\ [][Next]_status
=============================================================================
