--------------------------- MODULE MCConnections ---------------------------
(* Instances of Connections for TLC. *)
EXTENDS Connections, TLC

CONSTANTS t1, t2, c1, c2, c3, c4, c5

Threads == {t1, t2}
Pool2 == {c1, c2}
Pool5 == {c1, c2, c3, c4, c5}
ServiceScopes == {"REQUIRED", "SUPPORTS"}

Symmetry5 == Permutations(Threads) \cup Permutations(Pool5)

=============================================================================
