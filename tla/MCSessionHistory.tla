--------------------------- MODULE MCSessionHistory --------------------------
(* Instances of SessionHistory for TLC. *)
EXTENDS SessionHistory, TLC

CONSTANTS c1, c2, c3, c4, t1, t2, t3

\* Connections are interchangeable; so are the accepted tokens.
Symmetry == Permutations(Connections) \cup Permutations(AcceptedTokens)
==============================================================================
