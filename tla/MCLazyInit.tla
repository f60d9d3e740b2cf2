----------------------------- MODULE MCLazyInit -----------------------------
(* Three threads ask for the lazily made parts. *)
EXTENDS LazyInit, TLC
CONSTANTS t1, t2, t3
MCThread == {t1, t2, t3}
Symmetry == Permutations(MCThread)
=============================================================================
