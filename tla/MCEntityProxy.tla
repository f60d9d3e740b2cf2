--------------------------- MODULE MCEntityProxy ---------------------------
(***************************************************************************)
(* Two programs and a row of four columns: a nullable foreign key, a       *)
(* number and two lazy lobs.                                               *)
(***************************************************************************)
EXTENDS EntityProxy, TLC

CONSTANTS s1, s2, owner, size, body, picture

MCSession == {s1, s2}
MCPlain == {owner}
MCDefaulted == {size}
MCLazy == {body, picture}
MCUnmapped == {}
MCSymmetry == Permutations(MCSession)
=============================================================================
