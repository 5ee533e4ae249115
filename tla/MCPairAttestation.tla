------------------------ MODULE MCPairAttestation ------------------------
(* Symmetry for the safety run; liveness is checked without it. *)
EXTENDS PairAttestation, TLC

CONSTANTS a, b, f, g

PairSymmetry == Permutations({f, g})
=============================================================================
