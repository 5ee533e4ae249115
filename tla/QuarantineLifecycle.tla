------------------------ MODULE QuarantineLifecycle ------------------------
(***************************************************************************)
(* What the inbound quarantine promises, without time, capacity, memory or *)
(* sender policy: an envelope that was durably retained leaves only by     *)
(* becoming terminal evidence (consumed or expired), and while evidence of *)
(* it is kept it is never retained again.  Deleting the capsule deletes    *)
(* both.  Quarantine implements this specification.                        *)
(***************************************************************************)
CONSTANT Events

VARIABLES
  held,     \* envelopes durably retained
  done,     \* envelopes of which terminal evidence is kept
  deleted   \* the capsule was deleted

Init ==
  /\ held = {}
  /\ done = {}
  /\ deleted = FALSE

\* One durable write.
Write ==
  /\ held' \subseteq Events
  /\ done' \subseteq Events
  /\ held \ held' \subseteq done'
  /\ done \cap held' = {}
  /\ held' \cap done' = {}
  /\ deleted' => deleted

Delete ==
  /\ held' = {}
  /\ done' = {}
  /\ deleted' = TRUE

Next == Write \/ Delete

Spec == Init /\ [][Next]_<<held, done, deleted>>
=============================================================================
