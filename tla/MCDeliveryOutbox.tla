-------------------------- MODULE MCDeliveryOutbox --------------------------
(***************************************************************************)
(* One terminal and one other item: enough for every pair of activities to *)
(* write over each other, since a write replaces the whole file.           *)
(***************************************************************************)
EXTENDS DeliveryOutbox
=============================================================================
