---------------------------- MODULE MCClientLink -----------------------------
(* Instances of ClientLink for TLC. *)
EXTENDS ClientLink, TLC

CONSTANTS c1, c2, p1, p2

Symmetry == Permutations(Connections)
==============================================================================
