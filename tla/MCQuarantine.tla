---------------------------- MODULE MCQuarantine ----------------------------
(* Three envelopes of two senders. *)
EXTENDS Quarantine, TLC

CONSTANTS e1, e2, e3, alice, bob

SenderOfInstance == (e1 :> alice) @@ (e2 :> alice) @@ (e3 :> bob)
=============================================================================
