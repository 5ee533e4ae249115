----------------------------- MODULE MCIngress -----------------------------
(* Relays and envelopes of the instances. *)
EXTENDS Ingress

CONSTANTS r1, r2, c1, a1
=============================================================================
