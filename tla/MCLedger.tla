------------------------------ MODULE MCLedger ------------------------------
(***************************************************************************)
(* Ledger for TLC.  Two facts are enough for every comparison of events;   *)
(* one remote signer distinguishes local from remote; timestamps 0..3 with *)
(* a freely chosen wall clock include clocks set back across a restart.    *)
(***************************************************************************)
EXTENDS Ledger
=============================================================================
