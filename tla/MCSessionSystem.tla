--------------------------- MODULE MCSessionSystem ---------------------------
(* Instances of SessionSystem for TLC. *)
EXTENDS SessionSystem, TLC

CONSTANTS p1, p2, c1, c2, c3, t1, t2

OwnToken == [c \in Clients |-> IF c = p1 THEN t1 ELSE t2]

Three == <<c1, c2, c3>>
==============================================================================
