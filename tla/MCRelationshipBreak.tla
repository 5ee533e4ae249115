------------------------ MODULE MCRelationshipBreak ------------------------
(* Two capsules, one relationship key. *)
EXTENDS RelationshipBreak

CONSTANTS a, b

PeerOf == [c \in {a, b} |-> IF c = a THEN b ELSE a]
Twice == <<a, a>>
Once == <<a>>
Synchronised == [c \in {a, b} |-> 0]
AheadByThree == [c \in {a, b} |-> IF c = a THEN 3 ELSE 0]
=============================================================================
