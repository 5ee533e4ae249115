------------------------ MODULE MCReceiveCoordinator ------------------------
(* Two capsules and their users' requests. *)
EXTENDS ReceiveCoordinator

CONSTANTS a, b, r1, r2
=============================================================================
