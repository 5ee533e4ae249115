--------------------------- MODULE ReceiveRequests ---------------------------
(***************************************************************************)
(* What those who ask for a receive see of the coordinator                 *)
(* (capsule_passive_receive_coordinator.dart): what became of each request *)
(* of the screens, and what the coordinator promises about it.             *)
(***************************************************************************)

CONSTANT Requests

VARIABLE request  \* request[r]: whether r was made by hand, and what became of it

\* Joining, queueing and the cooldowns never cost the user a receive asked for
\* by hand: what answers a manual request has polled the relays.
ManualIsPolled ==
  \A r \in Requests :
    request[r].manual /\ request[r].status \notin {"none", "waiting"}
      => request[r].status = "polled"

\* Every request is answered, also one that waits behind another receive.
EveryRequestAnswered ==
  \A r \in Requests :
    request[r].status = "waiting" ~> request[r].status \in {"polled", "skipped"}
=============================================================================
