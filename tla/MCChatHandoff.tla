--------------------------- MODULE MCChatHandoff ---------------------------
(* Capsules and messages of the instances. *)
EXTENDS ChatHandoff

CONSTANTS a, b

AllForA == [m \in Messages |-> a]
=============================================================================
