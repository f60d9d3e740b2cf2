------------------------- MODULE MCCacheRepository -------------------------
(* Instances of CacheRepository for TLC. *)
EXTENDS CacheRepository, TLC

CONSTANTS t1, t2, k1, k2, k3, v1, v2

Threads == {t1, t2}
Keys == {k1, k2, k3}

Symmetry == Permutations(Threads)

=============================================================================
